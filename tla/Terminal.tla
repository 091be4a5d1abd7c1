-------------------------------- MODULE Terminal --------------------------------
(***************************************************************************)
(* The terminal host (src/src/terminal.rs, terminal/editor.rs,             *)
(* terminal/pipe.rs): what the player types, what the screen shows of it   *)
(* and what the story reads.                                               *)
(*                                                                         *)
(* The interactive loop runs the story for a slice, fits its editor to the *)
(* request the machine waits with, draws, and handles one key.  The editor *)
(* keeps a text and a cursor of its own beside the line request; a tick of *)
(* the timer, a new size, another window or a file prompt may come between *)
(* two keys.  In a pipe a thread reads lines ahead for the loop.           *)
(*                                                                         *)
(* Single keys for character input are left to Events.                     *)
(***************************************************************************)
EXTENDS TextWindows

CONSTANTS
  MaxFileName,     (* the length of a file name: 16384 in the code          *)
  PipeCapacity,    (* of the channel of the pipe: 16 in the code            *)
  PipeLines        (* what is piped in                                      *)

NoEditor == [window |-> 0, text |-> <<>>, cursor |-> 0, file |-> FALSE, maximum |-> 0]

VARIABLES
  phase,        \* what the loop does next: "slice", "key", "over"
  prompt,       \* whether a file prompt is open (file_request)
  editor,
  repaint,
  shown,        \* the editor as it was drawn last
  piped         \* lines of the pipe: to come, in the hand of the reader, in the channel, given

hostVars == <<phase, prompt, editor, repaint, shown, piped>>
allTextVars == <<textVars, hostVars>>

\* input_request
Asked == CASE prompt -> "file"
           [] ~ prompt /\ waits /\ typing \in DOMAIN lines -> "line"
           [] OTHER -> "none"

MaxLength == IF prompt THEN MaxFileName ELSE Room(typing)
Initial == IF prompt THEN <<>> ELSE lines[typing].initial

-----------------------------------------------------------------------------
(* The editor *)

\* synchronize: the request may have changed under the editor.
Synchronized ==
  CASE Asked = "none" -> NoEditor
    [] Asked # "none" /\ editor # NoEditor /\ editor.window = typing /\ editor.file = prompt
       /\ (prompt \/ editor.text = Initial) ->
         [editor EXCEPT !.maximum = MaxLength]
    [] OTHER -> [window |-> typing, text |-> Initial, cursor |-> Len(Initial), file |-> prompt, maximum |-> MaxLength]

Pasted(e, text) ==
  LET given == First(text, Max({e.maximum - Len(e.text), 0})) IN
  [e EXCEPT !.text = SubSeq(@, 1, e.cursor) \o given \o SubSeq(@, e.cursor + 1, Len(@)),
            !.cursor = @ + Len(given)]

Edited(e, key) ==
  CASE key = "left" -> [e EXCEPT !.cursor = Max({@ - 1, 0})]
    [] key = "right" -> [e EXCEPT !.cursor = Min({@ + 1, Len(e.text)})]
    [] key = "home" -> [e EXCEPT !.cursor = 0]
    [] key = "end" -> [e EXCEPT !.cursor = Len(e.text)]
    [] key = "kill" -> [e EXCEPT !.text = SubSeq(@, e.cursor + 1, Len(@)), !.cursor = 0]
    [] key = "backspace" /\ e.cursor > 0 -> [e EXCEPT !.text = RemoveAt(@, e.cursor), !.cursor = @ - 1]
    [] key = "delete" /\ e.cursor < Len(e.text) -> [e EXCEPT !.text = RemoveAt(@, e.cursor + 1)]
    [] key \in Letters -> Pasted(e, <<key>>)
    [] OTHER -> e

EditKeys == {"left", "right", "home", "end", "kill", "backspace", "delete", "escape"} \cup Letters

\* The editor changes, and the request with it.
Edits(e) ==
  /\ editor' = e
  /\ IF e.file THEN UNCHANGED <<lines, buffers>> ELSE Update_line_input(e.text)

-----------------------------------------------------------------------------
(* The loop *)

TextUnchanged == UNCHANGED textVars

\* The story runs: it prints, asks, selects or opens a prompt; or its select is completed.
\* It does not move the cursor of a window that waits for a line.
Slice ==
  /\ phase = "slice"
  /\ \/ /\ ~ prompt /\ ~ waits /\ (Prints \/ AsksForLines)
        /\ \A w \in DOMAIN lines \cap DOMAIN lines' : <<panes'[w].x, panes'[w].y>> = <<panes[w].x, panes[w].y>>
        /\ repaint' \in {repaint, TRUE} /\ UNCHANGED prompt
     \/ Wakes_up /\ ~ prompt /\ UNCHANGED <<prompt, repaint>>
     \/ /\ ~ prompt /\ Calls(TRUE)
        /\ prompt' = TRUE /\ UNCHANGED repaint
        /\ UNCHANGED <<panes, next_pane, style_hints, lineVars, captured, presented, viewport, said>>
  /\ UNCHANGED <<phase, editor, shown, piped>>

\* The slice is over: synchronize, and draw if there is reason to, or time has passed.
SliceEnds ==
  /\ phase = "slice"
  /\ editor' = Synchronized
  /\ phase' = "key"
  /\ LET changed == IF Asked = "none" THEN editor # NoEditor
                    ELSE [editor EXCEPT !.maximum = 0] # [editor' EXCEPT !.maximum = 0]
     IN \/ shown' = editor'
        \/ ~ repaint /\ ~ changed /\ UNCHANGED shown
  /\ repaint' = FALSE
  /\ UNCHANGED <<prompt, piped>> /\ TextUnchanged

KeyPhase == phase = "key" /\ phase' = "slice"

NoKey == KeyPhase /\ UNCHANGED <<prompt, editor, repaint, shown, piped>> /\ TextUnchanged

\* Another size of the terminal: a new screen for the machine and the player.
TerminalResize(width) ==
  /\ KeyPhase
  /\ Resize_windows(width)
  /\ repaint' = TRUE
  /\ UNCHANGED <<prompt, editor, shown, piped>>

EditKey(e) ==
  /\ KeyPhase
  /\ Calls(FALSE)
  /\ editor # NoEditor
  /\ Edits(e)
  /\ repaint' = TRUE
  /\ UNCHANGED <<prompt, shown, piped>>
  /\ UNCHANGED <<panes, next_pane, style_hints, waits, typing, captured, presented, viewport, said>>

Terminates(key) == key = "enter" \/ (~ editor.file /\ typing \in DOMAIN lines /\ key \in lines[typing].terminators)

\* A file name may be refused, or must be confirmed: then the prompt asks again.
FinishKey(key) ==
  /\ KeyPhase
  /\ editor # NoEditor
  /\ \/ /\ ~ editor.file /\ Terminates(key)
        /\ Complete_window_input(typing, editor.text)
        /\ UNCHANGED prompt
     \/ /\ editor.file /\ key \in {"enter", "escape"}
        /\ prompt' \in {FALSE, key = "enter" /\ editor.text # <<>>}
        /\ Calls(FALSE)
        /\ UNCHANGED <<panes, next_pane, style_hints, lineVars, captured, presented, viewport, said>>
  /\ editor' = NoEditor /\ repaint' = TRUE
  /\ UNCHANGED <<shown, piped>>

\* Ctrl-N: the window after this one.
NextWindow ==
  /\ KeyPhase
  /\ IF waits /\ typing \in DOMAIN lines
     THEN LET later == {w \in DOMAIN lines : w > typing} IN
          Select_input_window(Min(IF later = {} THEN DOMAIN lines ELSE later))
     ELSE TextUnchanged
  /\ repaint' = TRUE
  /\ UNCHANGED <<prompt, editor, shown, piped>>

\* Ctrl-C, or Ctrl-D without text.
Interrupt ==
  /\ phase = "key" /\ phase' = "over"
  /\ UNCHANGED <<prompt, editor, repaint, shown, piped>> /\ TextUnchanged

TerminalNext ==
  \/ Slice \/ SliceEnds \/ NoKey \/ NextWindow \/ Interrupt
  \/ \E width \in PaneWidths : TerminalResize(width)
  \/ \E key \in EditKeys : ~ Terminates(key) /\ (editor.file => key # "escape") /\ EditKey(Edited(editor, key))
  \/ \E text \in Typed : EditKey(Pasted(editor, text))
  \/ \E key \in {"enter", "escape"} : FinishKey(key)

-----------------------------------------------------------------------------
(* The pipe *)

\* The reader takes a line and waits until the channel takes it; at the end it hangs up.
PipeReader ==
  /\ \/ /\ piped.hand = <<>> /\ piped.rest # <<>>
        /\ piped' = [piped EXCEPT !.hand = <<Head(piped.rest)>>, !.rest = Tail(@)]
     \/ /\ piped.hand # <<>> /\ Len(piped.channel) < PipeCapacity
        /\ piped' = [piped EXCEPT !.hand = <<>>, !.channel = @ \o piped.hand]
  /\ UNCHANGED <<phase, prompt, editor, repaint, shown>> /\ TextUnchanged

\* provide_input: the next line is for whatever the machine waits with.
PipeGives ==
  /\ phase = "slice" /\ Asked # "none" /\ piped.channel # <<>>
  /\ piped' = [piped EXCEPT !.channel = Tail(@), !.given = Append(@, Head(piped.channel))]
  /\ IF prompt
     THEN /\ prompt' \in BOOLEAN
          /\ Calls(FALSE)
          /\ UNCHANGED <<panes, next_pane, style_hints, lineVars, captured, presented, viewport, said>>
     ELSE Complete_window_input(typing, Head(piped.channel)) /\ UNCHANGED prompt
  /\ UNCHANGED <<phase, editor, repaint, shown>>

\* No reader and no line: the story is stopped.
PipeEnds ==
  /\ phase = "slice" /\ Asked # "none"
  /\ piped.rest = <<>> /\ piped.hand = <<>> /\ piped.channel = <<>>
  /\ phase' = "over"
  /\ UNCHANGED <<prompt, editor, repaint, shown, piped>> /\ TextUnchanged

PipeNext == Slice \/ PipeReader \/ PipeGives \/ PipeEnds

TerminalInit ==
  /\ phase = "slice" /\ prompt = FALSE
  /\ editor = NoEditor /\ repaint = TRUE /\ shown = NoEditor
  /\ piped = [rest |-> PipeLines, hand |-> <<>>, channel |-> <<>>, given |-> <<>>]

-----------------------------------------------------------------------------
(* Properties *)

\* Whenever a key can come, editor, screen, request and memory agree: the player sees
\* the text that is in the request, all of it fits into what the story asked for and
\* its window still has room for, the cursor is in it, and the story would read it if
\* it cancelled the line now ("timed cancellation", docs/compatibility.md:45).  No key
\* goes to an editor nobody waits for.  And the lines of a pipe reach the story in
\* order, each of them once.
TypedIsRead ==
  /\ phase = "key" =>
       /\ (editor = NoEditor) = (Asked = "none")
       /\ [shown EXCEPT !.maximum = 0] = [editor EXCEPT !.maximum = 0]
       /\ editor # NoEditor => editor.window = typing /\ editor.cursor <= Len(editor.text)
                               /\ Len(editor.text) <= editor.maximum
       /\ Asked = "line" =>
            LET text == editor.text IN
            /\ text = lines[typing].initial /\ Len(text) <= Room(typing)
            /\ \A i \in DOMAIN text : buffers[typing][i] = Stored(lines[typing].unicode, text[i])
  /\ piped.given \o piped.channel \o piped.hand \o piped.rest = PipeLines

\* Text reaches its reader: the translator the story's, the story the player's.
TextsArrive == CapturedIsSaid /\ TypedIsRead
=============================================================================
