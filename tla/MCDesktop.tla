------------------------------- MODULE MCDesktop -------------------------------
(* The desktop application and its workers, one at a time: the turns that are*)
(* translated; stories loaded while others load; one story that draws, is    *)
(* restarted and shown; for liveness, a loader and drawings of a few steps;  *)
(* what a canvas keeps of its drawings; and how a text is laid out.          *)
EXTENDS Translator, Desktop, Canvas, TextLayout

VARIABLE focus
allVars == <<vars, deskVars, canvasVars, layoutVars, focus>>

CONSTANTS greeting, farewell, epilogue

\* epilogue costs twice what the others do.
MCBytes == [k \in Keys |-> IF k = epilogue THEN 2 ELSE 1]

\* Windows of up to two by two pixels, rectangles that overlap them, a picture that shows what is under it.
MCSizes == {<<1, 2>>, <<2, 1>>, <<2, 2>>}
MCRectangles == {<<0, 0, 1, 1>>, <<-1, 0, 2, 2>>, <<0, 0, 2, 1>>, <<1, 0, 1, 2>>, <<0, 1, 2, 1>>}
MCAssets == {[name |-> "veil", opaque |-> FALSE], [name |-> "photo", opaque |-> TRUE]}
MCColors == {White, [name |-> "black"]}
NewWindow == <<1, 2>>

\* Narrow and wide characters, and Chinese ones; styles that are indented, hang, or are centred.
MCAdvance == [ch \in {"i", "m", " ", "zh"} |-> CASE ch = "i" -> 24 [] ch = "m" -> 60 [] ch = " " -> 24 [] ch = "zh" -> 48]

Paragraph(indentation, first, justification, ascent) ==
  [indentation |-> indentation, paragraph_indentation |-> first, justification |-> justification,
   ascent |-> ascent, height |-> ascent + Pixel]

MCStyles == <<Paragraph(0, 24, 1, 36), Paragraph(24, -24, 3, 60), Paragraph(0, 0, 2, 36)>>
MCBase   == [font \in {1, 2} |-> [ascent |-> 24 * font, descent |-> 12]]

Prose(text, style) == [text |-> text, style |-> style, image |-> NoPicture, flow_break |-> FALSE]
Drawing_of(w, h, rule, max, alignment) ==
  [Prose(<<>>, 1) EXCEPT !.image = [original |-> <<w, h>>, size |-> <<w, h>>, rule |-> rule, max_width |-> max,
                                    alignment |-> alignment]]

\* Pictures in both margins, on the line, under it, and one that is half as wide as the window.
MCRuns ==
  {Prose(<<"i", " ", "m">>, s) : s \in 1 .. 3}
  \cup {Prose(<<"m", "i", " ", " ", "i">>, 1), Prose(<<" ">>, 1), Prose(<<"newline">>, 1), Prose(<<"zh", "zh", "i">>, 1)}
  \cup {Drawing_of(4, 5, 5, 0, 4), Drawing_of(3, 6, 5, 0, 5), Drawing_of(5, 4, 5, 0, 1), Drawing_of(12, 8, 10, Whole \div 2, 3)}
  \cup {[Prose(<<>>, 1) EXCEPT !.flow_break = TRUE]}

MCInit == /\ Init /\ DesktopInit /\ CanvasInit /\ LayoutInit
          /\ focus \in {"turns", "load", "pictures", "restarts", "texts", "canvas", "layout"}
          /\ focus = "layout" \/ (width = Min(LayoutWidths) /\ font_size = Min(Fonts))
          /\ focus = "turns" \/ ~ closed
          /\ focus = "canvas" \/ (canvas.size = NewWindow /\ ~ Software)

\* Nothing happens to an application that is closed but what its loader does.
Over == frame = "closed" /\ UNCHANGED deskVars

Finished == painted = MaxPainted /\ UNCHANGED canvasVars

\* Three pictures, of which one cannot be decoded and one stays in the cache.
PicturesNext ==
  \/ Loads \/ Frames \/ ImageTakes \/ ImageSends \/ Selects
  \/ \E r \in Pictures : Draws([kind |-> "draw", resource |-> r, story |-> machine.story])

\* One thing changes between two frames.
LaysOutNext ==
  \/ Show
  \/ shown /\ (PublishRuns \/ ResizeText)
  \/ shown /\ Len(runs) <= 1 /\ (ChangeFont \/ ClearLayouts)

AppNext ==
  /\ UNCHANGED <<canvasVars, layoutVars, focus>>
  /\ \/ focus = "turns" /\ Next /\ UNCHANGED deskVars
     \/ focus = "load" /\ (Loads \/ Frames \/ RestartStory \/ Closes \/ Over) /\ UNCHANGED vars
     \/ focus = "pictures" /\ PicturesNext /\ latest' <= 1 /\ UNCHANGED vars
     \/ focus = "restarts" /\ DesktopNext /\ latest' <= 1 /\ drawn' <= 2
          /\ machine'.text = 0 /\ machine'.state # "file" /\ UNCHANGED vars
     \/ focus = "texts" /\ DesktopNext /\ latest' <= 1 /\ drawn' = 0 /\ UNCHANGED vars
     \/ Over /\ UNCHANGED vars

MCNext ==
  \/ AppNext
  \/ /\ focus = "canvas"
     /\ CanvasNext \/ Finished
     /\ UNCHANGED <<vars, deskVars, layoutVars, focus>>
  \/ /\ focus = "layout"
     /\ LaysOutNext
     /\ UNCHANGED <<vars, deskVars, canvasVars, focus>>

(* The operating system runs the threads, the service answers within its     *)
(* timeout, a file is read or not, and frames follow each other, hidden or   *)
(* not, as long as something is under way.                                   *)
Turns(A) == focus = "turns" /\ A
Waits(A) == focus \in {"load", "pictures"} /\ A

Fairness ==
  /\ WF_vars(Turns(Worker))
  /\ WF_vars(Turns(PollBegin)) /\ WF_vars(Turns(PollOne)) /\ WF_vars(Turns(PollEnd)) /\ WF_vars(Turns(DropFields))
  /\ WF_deskVars(Waits(Enqueue)) /\ WF_deskVars(Waits(Loader)) /\ WF_deskVars(Waits(Frames))
  /\ WF_deskVars(Waits(ImageTakes)) /\ WF_deskVars(Waits(ImageSends))

MCSpec == MCInit /\ [][MCNext]_allVars /\ Fairness

\* See Comes.
AllComes == focus \in {"load", "pictures"} => Comes

\* What is asked for comes, and nothing older instead.
NewestComes == NewestStory /\ AllComes
=============================================================================
