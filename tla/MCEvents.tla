-------------------------------- MODULE MCEvents --------------------------------
(* Requests and events; what text windows print, echo and show; the editor   *)
(* of the terminal; and the pipe: one at a time.  Only the first window      *)
(* waits for hyperlinks, which go the way of clicks.                         *)
EXTENDS Events, Terminal

\* What Retain says of short queues.
ASSUME RetainAssumption ==
  \A q \in BoundedSeq(0 .. 2, 4) :
    Retain(q, {i \in DOMAIN q : q[i] # 1}) = SelectSeq(q, LAMBDA e : e # 1)

VARIABLE focus
allVars == <<vars, allTextVars, focus>>

MCTyped == {<<>>, <<"w">>, <<"a", "w", "a">>}
MCPipeLines == <<<<"a">>, <<"w">>, <<>>>>

\* A window in the middle of a story, and another it may echo to.
First_pane(kind, echo, x, y, style) ==
  [NewPane(kind) EXCEPT !.echo = echo, !.x = x, !.y = y, !.style = style, !.link = style,
                        !.runs = IF kind = "grid" THEN @ ELSE <<[item |-> "text", text |-> <<"a">>, style |-> 0, link |-> 0]>>,
                        !.chars = IF kind = "grid" THEN @ ELSE 1]

\* An empty story.
Idle ==
  /\ viewport = 3 /\ panes = << >> /\ next_pane = 1 /\ lines = << >> /\ buffers = << >>
  /\ waits = FALSE /\ typing = 0 /\ captured = NoCapture /\ presented = << >>

Begun ==
  /\ next_pane = 3
  /\ buffers = [w \in {1, 2} |-> [i \in 1 .. BufferLength |-> IF i = 1 /\ w \in UnicodePanes THEN "w" ELSE "a"]]
  /\ captured = <<>>

\* Two windows, one of which may echo to the other, with everything shown.
Printing ==
  /\ viewport = 2
  /\ \E kinds \in [{1, 2} -> {"buffer", "grid"}], echo \in {0, 2}, x \in 0 .. 2, y \in {0, 1}, style \in {0, 1} :
       /\ kinds[1] = "buffer" \/ focus = "prints" => x = 0 /\ y = 0
       /\ focus = "prints" => style = 0 /\ echo = 2
       /\ panes = <<First_pane(kinds[1], echo, x, y, style), NewPane(kinds[2])>>
  /\ lines = << >> /\ waits = FALSE /\ typing = 0
  /\ presented = [w \in Pane |-> [view |-> View(panes[w]), revision |-> 0]]

\* Two lines are asked for, one of them begun.
Typing ==
  /\ viewport = 3
  /\ \E x \in {0, 1} :
       panes = <<[First_pane("grid", 0, x, 0, 0) EXCEPT !.terminators = {"escape"}], NewPane("buffer")>>
  /\ lines = [w \in {1, 2} |-> [maximum |-> BufferLength, unicode |-> w \in UnicodePanes, initial |-> SubSeq(<<"w">>, 1, w - 1),
                                echo |-> TRUE, terminators |-> panes[w].terminators]]
  /\ waits = TRUE /\ typing = 1
  /\ presented = << >>

MCInit ==
  /\ Init /\ TerminalInit
  /\ style_hints = {} /\ said = <<>> /\ calls = 0
  /\ focus \in {"events", "prints", "asks", "keys", "pipe"}
  /\ CASE focus = "events" -> Idle
       [] focus \in {"prints", "asks"} -> Begun /\ Printing
       [] OTHER -> Begun /\ Typing

PrintsNext ==
  /\ calls < MaxCalls - 1
  /\ Prints \/ Publish_story \/ (\E capture \in BOOLEAN : TakeText(capture))
     \/ \E width \in PaneWidths : Resize_windows(width)

AsksNext ==
  \/ AsksForLines \/ Wakes_up \/ Publish_story
  \/ \E text \in Typed : Types(text)
  \/ \E w \in DOMAIN lines : Select_input_window(w) \/ \E text \in Typed : Complete_window_input(w, text)
  \/ \E width \in PaneWidths : Resize_windows(width)

\* Nothing is printed or opened: lines are asked for, typed, cancelled and echoed.
Quiet ==
  /\ said' = <<>> /\ next_pane' = 3 /\ style_hints' = {}
  /\ \A w \in DOMAIN panes' :
       /\ <<panes'[w].echo, panes'[w].link, panes'[w].style, panes'[w].terminators>>
          = <<panes[w].echo, panes[w].link, panes[w].style, panes[w].terminators>>
       /\ panes'[w].revision # panes[w].revision => DOMAIN lines' # DOMAIN lines \/ viewport' # viewport

MCNext ==
  /\ UNCHANGED focus
  /\ \/ focus = "events" /\ Next /\ hyperlink_requests' \subseteq {1} /\ UNCHANGED allTextVars
     \/ focus = "prints" /\ PrintsNext /\ UNCHANGED <<vars, hostVars>>
     \/ focus = "asks" /\ AsksNext /\ UNCHANGED <<vars, hostVars>>
     \/ focus = "keys" /\ TerminalNext /\ Quiet /\ UNCHANGED vars
     \/ focus = "pipe" /\ PipeNext /\ Quiet /\ UNCHANGED vars
     \* The calls of the model are used up.
     \/ focus # "events" /\ UNCHANGED <<vars, allTextVars>>

MCSpec == MCInit /\ [][MCNext]_allVars /\ WF_vars(focus = "events" /\ Poll) /\ WF_vars(focus = "events" /\ PollDue)
=============================================================================
