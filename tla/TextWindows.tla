------------------------------ MODULE TextWindows ------------------------------
(***************************************************************************)
(* Text windows, the lines typed into them and what is shown of them       *)
(* (src/src/vm/grid.rs, vm/presentation.rs, the text functions of vm.rs    *)
(* and vm/events.rs, and publish_story of app.rs).                         *)
(*                                                                         *)
(* The story prints, styles, clears and asks for lines; a line that ends,  *)
(* or is cancelled, is echoed into its window and into the windows that    *)
(* window echoes to.  Printed text, but no echo, is collected for the      *)
(* translation; the application copies those windows it believes changed.  *)
(*                                                                         *)
(* A window stands for its stream as well.  A cell of a line buffer holds  *)
(* one character.  Where windows lie and which files they echo to is left  *)
(* to Windows and Streams: here only the width of all windows changes.     *)
(***************************************************************************)
EXTENDS Integers, Sequences, FiniteSets, FiniteSetsExt, SequencesExt

CONSTANTS
  Letters,        (* characters the story prints and the player types       *)
  Wide,           (* the characters above 255 among them                    *)
  InputStyle,     (* the style 8                                            *)
  OwnStyles,      (* styles the story sets                                  *)
  MaxTextChars,   (* MAX_TEXT_BUFFER_CHARS                                  *)
  BufferLength,   (* the length of the buffers the story has for its lines  *)
  UnicodePanes,   (* the windows the story asks for lines with 32-bit cells *)
  Typed,          (* the lines the player may have typed                    *)
  PaneWidths,     (* the widths the host gives its windows                  *)
  PaneHeight,
  MaxPanes,       (* bound of the model on the windows ever opened          *)
  MaxCalls        (* bound of the model on the calls of story and host      *)

NoCapture == <<[kind |-> "none", window |-> 0, text |-> <<>>]>>

VARIABLES
  panes,         \* the text windows (glk_windows)
  next_pane,
  style_hints,   \* the kinds of windows with a style hint
  lines,         \* the line requests
  buffers,       \* the line buffer of every window, in memory
  waits,         \* whether there is a pending select
  typing,        \* input_window
  captured,      \* text_buffer_events
  presented,     \* presented_views and presented_content_revisions
  viewport,      \* width of the windows
  said,          \* (not in the code) what the story printed since the last take
  calls          \* (not in the code) calls so far

lineVars == <<lines, buffers, waits, typing>>
textVars == <<panes, next_pane, style_hints, lineVars, captured, presented, viewport, said, calls>>

Pane == DOMAIN panes

NewPane(kind) ==
  [kind |-> kind, width |-> viewport, x |-> 0, y |-> 0, style |-> 0, link |-> 0, echo |-> 0,
   grid |-> [p \in (0 .. viewport - 1) \X (0 .. PaneHeight - 1) |-> [char |-> " ", style |-> 0, link |-> 0]],
   runs |-> <<>>, chars |-> 0, count |-> 0, revision |-> 0,
   echo_line |-> TRUE, terminators |-> {}, hint |-> kind \in style_hints]

-----------------------------------------------------------------------------
(* One character in one window *)

Normalized(p) == IF p.x >= p.width THEN [p EXCEPT !.x = 0, !.y = @ + 1] ELSE p

Put_grid(p, c) ==
  LET n == Normalized(p) IN
  CASE n.width = 0 \/ n.y >= PaneHeight -> n
    [] c = "newline" -> [n EXCEPT !.x = 0, !.y = @ + 1]
    [] OTHER -> [n EXCEPT !.grid[<<n.x, n.y>>] = [char |-> c, style |-> n.style, link |-> n.link],
                          !.x = @ + 1]

TextOf(runs) == FlattenSeq([i \in DOMAIN runs |-> runs[i].text])

\* The oldest characters go, and the pictures before them.
Trimmed(p) ==
  LET excess == p.chars - MaxTextChars
      before(k) == Len(TextOf(SubSeq(p.runs, 1, k)))
      whole == Min({k \in 0 .. Len(p.runs) :
                 before(k) = excess \/ (k < Len(p.runs) /\ before(k) < excess /\ excess < before(k + 1))})
      rest == SubSeq(p.runs, whole + 1, Len(p.runs))
  IN IF excess <= 0 THEN p
     ELSE [p EXCEPT !.chars = MaxTextChars,
                    !.runs = IF rest = <<>> THEN rest
                             ELSE [rest EXCEPT ![1].text = SubSeq(@, excess - before(whole) + 1, Len(@))]]

Run(p, item, text) == [item |-> item, text |-> text, style |-> p.style, link |-> p.link]

Put_run(p, c) ==
  LET joins == p.runs # <<>> /\ LET last == Last(p.runs) IN
                 last.item = "text" /\ last.style = p.style /\ last.link = p.link
  IN Trimmed([p EXCEPT !.runs = IF joins THEN [@ EXCEPT ![Len(@)].text = Append(@, c)]
                                ELSE Append(@, Run(p, "text", <<c>>)),
                       !.chars = @ + 1])

Printed(p, c) ==
  [(IF p.kind = "grid" THEN Put_grid(p, c) ELSE Put_run(p, c)) EXCEPT !.count = @ + 1, !.revision = @ + 1]

\* Consecutive characters of one window are one event.
Collected(events, w, c) ==
  IF events # <<>> /\ Last(events).kind = "text" /\ Last(events).window = w
  THEN [events EXCEPT ![Len(events)].text = Append(@, c)]
  ELSE Append(events, [kind |-> "text", window |-> w, text |-> <<c>>])

-----------------------------------------------------------------------------
(* glk_write_char, with the windows it echoes to *)

\* The windows a character for w is printed in: a window that waits for a line prints nothing.
Reached(ps, asking, w) ==
  LET up[v \in DOMAIN ps] ==
        CASE v \in asking -> <<>>
          [] ps[v].echo = 0 -> <<v>>
          [] OTHER -> <<v>> \o up[ps[v].echo]
  IN up[w]

PrintIn(ps, ws, text) ==
  FoldLeft(LAMBDA now, c : FoldLeft(LAMBDA all, v : [all EXCEPT ![v] = Printed(@, c)], now, ws), ps, text)

\* Mutant: text is collected once, whatever it is echoed to.
CollectOnce(events, ws, c) ==
  IF events = NoCapture \/ ws = <<>> \/ panes[ws[1]].kind # "buffer" THEN events
  ELSE Collected(events, ws[1], c)

CollectIn(events, ws, c) ==
  IF events = NoCapture THEN events
  ELSE FoldLeft(LAMBDA q, v : IF panes[v].kind = "buffer" THEN Collected(q, v, c) ELSE q, events, ws)

\* style_call: the style goes the way the text goes, requests or not.
Styled(ps, w, style) ==
  LET ws == Reached(ps, {}, w) IN
  [v \in DOMAIN ps |-> IF Contains(ws, v) THEN [ps[v] EXCEPT !.style = style] ELSE ps[v]]

-----------------------------------------------------------------------------
(* Calls of the story *)

Calls(story) == /\ calls < MaxCalls /\ calls' = calls + 1
                /\ story => ~ waits

PrintChar(w, c) ==
  /\ Calls(TRUE)
  /\ LET ws == Reached(panes, DOMAIN lines, w) IN
     /\ panes' = PrintIn(panes, ws, <<c>>)
     /\ captured' = CollectIn(captured, ws, c)
     /\ said' = said \o [i \in DOMAIN SelectSeq(ws, LAMBDA v : panes[v].kind = "buffer") |->
                           <<SelectSeq(ws, LAMBDA v : panes[v].kind = "buffer")[i], c>>]
  /\ UNCHANGED <<next_pane, style_hints, lineVars, presented, viewport>>

SetStyle(w, style) ==
  /\ Calls(TRUE)
  /\ panes' = Styled(panes, w, style)
  /\ UNCHANGED <<next_pane, style_hints, lineVars, captured, presented, viewport, said>>

SetHyperlink(w, link) ==
  /\ Calls(TRUE)
  /\ panes' = [panes EXCEPT ![w].link = link]
  /\ UNCHANGED <<next_pane, style_hints, lineVars, captured, presented, viewport, said>>

\* A hint is for the windows opened from now on.
StylehintSet(kind, on) ==
  /\ Calls(TRUE)
  /\ style_hints' = IF on THEN style_hints \cup {kind} ELSE style_hints \ {kind}
  /\ UNCHANGED <<panes, next_pane, lineVars, captured, presented, viewport, said>>

\* Mutant: the application is not told.
WindowClearQuietly(w) ==
  /\ Calls(TRUE)
  /\ w \notin DOMAIN lines
  /\ panes' = [panes EXCEPT ![w] = [@ EXCEPT !.runs = <<>>, !.chars = 0, !.x = 0, !.y = 0,
                 !.grid = [p \in DOMAIN @ |-> [char |-> " ", style |-> 0, link |-> 0]]]]
  /\ captured' = IF captured = NoCapture \/ panes[w].kind # "buffer" THEN captured
                 ELSE Append(captured, [kind |-> "clear", window |-> w, text |-> <<>>])
  /\ said' = IF panes[w].kind = "buffer" THEN Append(said, <<w, "clear">>) ELSE said
  /\ UNCHANGED <<next_pane, style_hints, lineVars, presented, viewport>>

WindowClear(w) ==
  /\ Calls(TRUE)
  /\ w \notin DOMAIN lines
  /\ panes' = [panes EXCEPT ![w] = [@ EXCEPT !.runs = <<>>, !.chars = 0, !.x = 0, !.y = 0,
                 !.grid = [p \in DOMAIN @ |-> [char |-> " ", style |-> 0, link |-> 0]],
                 !.revision = @ + 1]]
  /\ captured' = IF captured = NoCapture \/ panes[w].kind # "buffer" THEN captured
                 ELSE Append(captured, [kind |-> "clear", window |-> w, text |-> <<>>])
  /\ said' = IF panes[w].kind = "buffer" THEN Append(said, <<w, "clear">>) ELSE said
  /\ UNCHANGED <<next_pane, style_hints, lineVars, presented, viewport>>

WindowMoveCursor(w, x, y) ==
  /\ Calls(TRUE)
  /\ panes' = [panes EXCEPT ![w] = [@ EXCEPT !.x = x, !.y = y]]
  /\ UNCHANGED <<next_pane, style_hints, lineVars, captured, presented, viewport, said>>

At_buffer_line_start(p) ==
  FoldLeft(LAMBDA at, run :
             CASE run.item = "break" -> IF at.margin THEN [start |-> TRUE, margin |-> FALSE] ELSE at
               [] run.item = "margin" -> [at EXCEPT !.margin = TRUE]
               [] run.item = "inline" -> [at EXCEPT !.start = FALSE]
               [] OTHER -> IF run.text = <<>> THEN at ELSE [at EXCEPT !.start = Last(run.text) = "newline"],
           [start |-> TRUE, margin |-> FALSE], p.runs).start

\* draw_image and flow_break in a buffer: a picture in the margin only where a line starts.
PutItem(w, item) ==
  /\ Calls(TRUE)
  /\ panes[w].kind = "buffer"
  /\ item = "margin" => At_buffer_line_start(panes[w])
  /\ panes' = [panes EXCEPT ![w] = Trimmed([@ EXCEPT !.runs = Append(@, Run(panes[w], item, <<>>)),
                                                     !.revision = @ + 1])]
  /\ UNCHANGED <<next_pane, style_hints, lineVars, captured, presented, viewport, said>>

\* valid_echo: no window comes back to itself.
SetEchoStream(w, other) ==
  /\ Calls(TRUE)
  /\ other # 0 => ~ Contains(Reached(panes, {}, other), w)
  /\ panes' = [panes EXCEPT ![w].echo = other]
  /\ UNCHANGED <<next_pane, style_hints, lineVars, captured, presented, viewport, said>>

SetEchoLine(w, on) ==
  /\ Calls(TRUE)
  /\ panes[w].kind = "buffer"
  /\ panes' = [panes EXCEPT ![w].echo_line = on]
  /\ UNCHANGED <<next_pane, style_hints, lineVars, captured, presented, viewport, said>>

SetTerminators(w, keys) ==
  /\ Calls(TRUE)
  /\ panes' = [panes EXCEPT ![w].terminators = keys]
  /\ UNCHANGED <<next_pane, style_hints, lineVars, captured, presented, viewport, said>>

OpenPane(kind) ==
  /\ Calls(TRUE)
  /\ next_pane <= MaxPanes
  /\ panes' = (next_pane :> NewPane(kind)) @@ panes
  /\ buffers' = (next_pane :> [i \in 1 .. BufferLength |-> " "]) @@ buffers
  /\ next_pane' = next_pane + 1
  /\ UNCHANGED <<style_hints, lines, waits, typing, captured, presented, viewport, said>>

ClosePane(w) ==
  /\ Calls(TRUE)
  /\ panes' = [v \in Pane \ {w} |-> IF panes[v].echo = w THEN [panes[v] EXCEPT !.echo = 0] ELSE panes[v]]
  /\ lines' = [v \in DOMAIN lines \ {w} |-> lines[v]]
  /\ captured' = IF captured = NoCapture \/ panes[w].kind # "buffer" THEN captured
                 ELSE Append(captured, [kind |-> "clear", window |-> w, text |-> <<>>])
  /\ said' = IF panes[w].kind = "buffer" THEN Append(said, <<w, "clear">>) ELSE said
  /\ UNCHANGED <<next_pane, style_hints, buffers, waits, typing, presented, viewport>>

-----------------------------------------------------------------------------
(* Line input *)

\* effective_line_max_len: a line in a grid stays in its row, and leaves a column for the cursor.
Effective_line_max_len(p, maximum) ==
  IF p.kind # "grid" THEN maximum
  ELSE Min({maximum, IF p.y < PaneHeight THEN Max({p.width - (p.x + 1), 0}) ELSE 0})

First(text, n) == SubSeq(text, 1, Min({n, Len(text)}))

Room(w) == Effective_line_max_len(panes[w], lines[w].maximum)

Stored(unicode, c) == IF ~ unicode /\ c \in Wide THEN "?" ELSE c

Written(buffer, unicode, text) ==
  [i \in DOMAIN buffer |-> IF i \in DOMAIN text THEN Stored(unicode, text[i]) ELSE buffer[i]]

RequestLine(w, maximum, init_len) ==
  /\ Calls(TRUE)
  /\ w \notin DOMAIN lines
  /\ LET p == IF panes[w].kind = "grid" THEN Normalized(panes[w]) ELSE panes[w]
         given == Min({init_len, Effective_line_max_len(p, maximum)})
     IN /\ panes' = [panes EXCEPT ![w] = p]
        /\ lines' = (w :> [maximum |-> maximum, unicode |-> w \in UnicodePanes, initial |-> SubSeq(buffers[w], 1, given),
                           echo |-> p.kind # "buffer" \/ p.echo_line, terminators |-> p.terminators]) @@ lines
  /\ UNCHANGED <<next_pane, style_hints, buffers, waits, typing, captured, presented, viewport, said>>

\* Echo in the window itself, in the style of input and without its link, as if it had no echo stream.
Displayed(p, text) ==
  LET typed == FoldLeft(Printed, [p EXCEPT !.style = InputStyle, !.link = 0], text)
      ended == Printed([typed EXCEPT !.style = p.style], "newline")
  IN [ended EXCEPT !.link = p.link, !.count = p.count]

\* What the line leaves in the windows: asking are those that still wait for one.
Echoed(w, request, text, asking) ==
  LET p == panes[w]
      shown == [panes EXCEPT ![w] = IF request.echo THEN Displayed(p, text) ELSE p]
      typed == PrintIn(Styled(shown, p.echo, InputStyle), Reached(shown, asking, p.echo), text)
  IN IF p.echo = 0 THEN shown
     ELSE PrintIn(Styled(typed, p.echo, p.style), Reached(shown, asking, p.echo), <<"newline">>)

\* finish_line: the request is gone already.
Finish(w, text) ==
  LET request == lines[w]
      line == First(text, Room(w))
  IN /\ lines' = [v \in DOMAIN lines \ {w} |-> lines[v]]
     /\ buffers' = [buffers EXCEPT ![w] = Written(@, request.unicode, line)]
     /\ panes' = Echoed(w, request, line, DOMAIN lines \ {w})

CancelLine(w) ==
  /\ Calls(TRUE)
  /\ w \in DOMAIN lines
  /\ Finish(w, lines[w].initial)
  /\ UNCHANGED <<next_pane, style_hints, waits, typing, captured, presented, viewport, said>>

\* The first window that waits for a line gets it; without one only a timer wakes the story.
Select_event ==
  /\ Calls(TRUE)
  /\ waits' = TRUE
  /\ typing' = IF DOMAIN lines = {} THEN typing ELSE Min(DOMAIN lines)
  /\ UNCHANGED <<panes, next_pane, style_hints, lines, buffers, captured, presented, viewport, said>>

-----------------------------------------------------------------------------
(* Calls of the host *)

\* update_line_input: what is typed so far is in the request and in memory.
Update_line_input(text) ==
  IF typing \in DOMAIN lines
  THEN LET line == First(text, Room(typing)) IN
       /\ lines' = [lines EXCEPT ![typing].initial = line]
       /\ buffers' = [buffers EXCEPT ![typing] = Written(@, lines[typing].unicode, line)]
  ELSE UNCHANGED <<lines, buffers>>

Types(text) ==
  /\ Calls(FALSE)
  /\ waits
  /\ Update_line_input(text)
  /\ UNCHANGED <<panes, next_pane, style_hints, waits, typing, captured, presented, viewport, said>>

\* complete_window_input, and the event it is told of.
Complete_window_input(w, text) ==
  /\ Calls(FALSE)
  /\ waits /\ w \in DOMAIN lines
  /\ Finish(w, text)
  /\ waits' = FALSE
  /\ UNCHANGED <<next_pane, style_hints, typing, captured, presented, viewport, said>>

\* Another event comes first; requests stay.
Wakes_up ==
  /\ Calls(FALSE)
  /\ waits
  /\ waits' = FALSE
  /\ UNCHANGED <<panes, next_pane, style_hints, lines, buffers, typing, captured, presented, viewport, said>>

Select_input_window(w) ==
  /\ Calls(FALSE)
  /\ waits /\ w \in DOMAIN lines
  /\ typing' = w
  /\ UNCHANGED <<panes, next_pane, style_hints, lines, buffers, waits, captured, presented, viewport, said>>

\* resize_grid: cells that are still inside stay, and the cursor is where it was.
Resize_grid(p, width) ==
  IF p.width = width THEN p
  ELSE [p EXCEPT !.width = width, !.revision = @ + 1,
                 !.grid = [q \in (0 .. width - 1) \X (0 .. PaneHeight - 1) |->
                             IF q \in DOMAIN @ THEN @[q] ELSE [char |-> " ", style |-> 0, link |-> 0]]]

\* resize_windows: a line that is too long now loses its end.
Resize_windows(width) ==
  /\ Calls(FALSE)
  /\ width # viewport
  /\ viewport' = width
  /\ panes' = [w \in Pane |-> IF panes[w].kind = "grid" THEN Resize_grid(panes[w], width)
                              ELSE [panes[w] EXCEPT !.width = width]]
  /\ lines' = [w \in DOMAIN lines |->
                 [lines[w] EXCEPT !.initial = First(@, Effective_line_max_len(panes'[w], lines[w].maximum))]]
  /\ UNCHANGED <<next_pane, style_hints, buffers, waits, typing, captured, presented, said>>

\* run_vm takes the collected text of every slice; capturing may be switched at any frame.
TakeText(capture) ==
  /\ Calls(FALSE)
  /\ captured' = IF capture THEN <<>> ELSE NoCapture
  /\ said' = <<>>
  /\ UNCHANGED <<panes, next_pane, style_hints, lineVars, presented, viewport>>

View(p) == [kind |-> p.kind, width |-> p.width, cursor |-> <<p.x, p.y>>, runs |-> p.runs, grid |-> p.grid, hint |-> p.hint]

Same_window_metadata(view, p) ==
  view.kind = p.kind /\ view.width = p.width /\ view.cursor = <<p.x, p.y>> /\ view.hint = p.hint

\* Windows whose content has the number it had are taken over as they were copied.
Publish_story ==
  /\ Calls(FALSE)
  /\ LET changed == {w \in Pane : w \notin DOMAIN presented
                                  \/ presented[w].revision # panes[w].revision
                                  \/ ~ Same_window_metadata(presented[w].view, panes[w])}
     IN presented' = [w \in Pane |-> [view |-> IF w \in changed THEN View(panes[w]) ELSE presented[w].view,
                                      revision |-> panes[w].revision]]
  /\ UNCHANGED <<panes, next_pane, style_hints, lineVars, captured, viewport, said>>

TextInit ==
  /\ viewport \in PaneWidths
  /\ panes = << >> /\ next_pane = 1 /\ style_hints = {}
  /\ lines = << >> /\ buffers = << >> /\ waits = FALSE /\ typing = 0
  /\ captured = NoCapture /\ presented = << >>
  /\ said = <<>> /\ calls = 0

Prints ==
  \/ \E w \in Pane :
       \/ \E c \in Letters \cup {"newline"} : PrintChar(w, c)
       \/ \E s \in OwnStyles : SetStyle(w, s)
       \/ \E link \in {0, 1} : SetHyperlink(w, link)
       \/ \E item \in {"inline", "margin", "break"} : PutItem(w, item)
       \/ \E other \in Pane \cup {0} : SetEchoStream(w, other)
       \/ \E x \in 0 .. viewport, y \in 0 .. PaneHeight : WindowMoveCursor(w, x, y)
       \/ WindowClear(w) \/ ClosePane(w)
  \/ \E kind \in {"buffer", "grid"} : OpenPane(kind) \/ \E on \in BOOLEAN : StylehintSet(kind, on)

AsksForLines ==
  \/ \E w \in Pane :
       \/ \E init \in {0, 1} : RequestLine(w, BufferLength, init)
       \/ CancelLine(w)
       \/ \E on \in BOOLEAN : SetEchoLine(w, on)
       \/ \E keys \in {{}, {"escape"}} : SetTerminators(w, keys)
  \/ Select_event

HostOfText ==
  \/ \E text \in Typed : Types(text) \/ \E w \in DOMAIN lines : Complete_window_input(w, text)
  \/ \E width \in PaneWidths : Resize_windows(width)
  \/ \E w \in DOMAIN lines : Select_input_window(w)
  \/ \E capture \in BOOLEAN : TakeText(capture)
  \/ Wakes_up \/ Publish_story

TextNext == Prints \/ AsksForLines \/ HostOfText

-----------------------------------------------------------------------------
(* Properties *)

\* Every call of the VM that changes what a window shows also changes something
\* publish_story looks at: after it the application shows exactly what the windows
\* hold, whatever was printed, cleared, echoed, trimmed, opened, closed or resized.
ViewsAreCurrent == [][Publish_story => \A w \in Pane : presented'[w].view = View(panes[w])]_textVars

\* "Input display is not a put_char call on the window stream. Its count and current
\* style/link must survive input unchanged" (vm/events.rs:176), and a line in a grid
\* ends in the row it started in: the cursor is at the start of the next, and no other
\* row has changed.
EchoIsConfined ==
  [][\A w \in Pane \cap DOMAIN panes' : w \in DOMAIN lines \ DOMAIN lines' =>
       LET p == panes[w] q == panes'[w] IN
       /\ <<q.style, q.link, q.count, q.echo>> = <<p.style, p.link, p.count, p.echo>>
       /\ p.kind = "grid" /\ p.x < p.width /\ p.y < PaneHeight =>
            /\ q.x = 0 /\ q.y = p.y + 1
            /\ \A cell \in DOMAIN p.grid : q.grid[cell] # p.grid[cell] => cell[2] = p.y /\ cell[1] >= p.x]_textVars

\* The translator gets what the story said, window by window and clear by clear, and
\* nothing of what the player typed.
CapturedIsSaid ==
  captured # NoCapture =>
    said = FlattenSeq([i \in DOMAIN captured |->
             IF captured[i].kind = "clear" THEN <<<<captured[i].window, "clear">>>>
             ELSE [j \in DOMAIN captured[i].text |-> <<captured[i].window, captured[i].text[j]>>]])

\* A window shows what was printed to it, and its input where it was typed.
ShowsItsOwn == ViewsAreCurrent /\ EchoIsConfined
=============================================================================
