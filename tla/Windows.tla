------------------------------ MODULE Windows ------------------------------
(***************************************************************************)
(* The window tree of Glk and what hangs from it: the stream of every      *)
(* window, echo streams, the current stream, the place of every window on  *)
(* the screen and the canvases the host keeps for graphics windows.        *)
(* Translated from src/src/vm/windows.rs and the window selectors of       *)
(* Vm::glk.  A pair window splits its place between two children; opening  *)
(* a window puts a new pair over the one that is split, closing one puts   *)
(* the sibling in the place of the pair.                                   *)
(***************************************************************************)
EXTENDS Integers, Sequences, FiniteSets, Functions, FiniteSetsExt

CONSTANTS Kinds,        \* the kinds of window a story asks for
          Methods,      \* the split methods a story asks for
          Sizes,        \* the sizes a story asks for
          Viewports,    \* the sizes of the screen, <<width, height>>
          Cell,         \* the size of a character in a grid
          TextCell,     \* the size of a character in a text buffer
          WindowLimit   \* bound: no window has a larger identifier

\* Characters have a width and a height (window_text_metrics: at least 1).
ASSUME WindowsAssumption ==
  /\ "pair" \notin Kinds
  /\ Methods \subseteq Nat /\ Sizes \subseteq Nat /\ WindowLimit \in Nat
  /\ Viewports \subseteq Nat \X Nat
  /\ {Cell, TextCell} \subseteq (Nat \ {0}) \X (Nat \ {0})

VARIABLES windows,        \* identifier -> window
          root,           \* the root of the tree, 0 for none
          next_window,
          viewport,       \* the size of the screen
          streams,        \* identifier -> stream; "window" is 0 unless a window's
          next_stream,
          current_stream, \* 0 for none
          canvases        \* the host: graphics window -> the size of its canvas

winVars == <<windows, root, next_window, viewport, streams, next_stream,
             current_stream, canvases>>

WindowStream(id) == [kind |-> "window", window |-> id]

(* BTreeMap::insert *)
With(f, k, v) == [x \in DOMAIN f \cup {k} |-> IF x = k THEN v ELSE f[x]]

-----------------------------------------------------------------------------
(* A method is a number: bit 0 chooses the side of the new window, bit 1   *)
(* the direction, bits 4 and 5 a fixed or a proportional division, bit 8   *)
(* the border.                                                             *)
Side(method)     == method % 2
Vertical(method) == (method \div 2) % 2 = 1
Division(method) == (method \div 16) % 4

ValidMethod(method) == /\ (method \div 4) % 4 = 0
                       /\ (method \div 64) % 4 = 0
                       /\ method < 512
                       /\ Division(method) \in {1, 2}

IsPair(w) == w.kind = "pair"

(* A window and the windows above it. *)
Above(w, id) ==
  LET chain[i \in DOMAIN w] ==
        {i} \cup IF w[i].parent \in DOMAIN w THEN chain[w[i].parent] ELSE {}
  IN  IF id \in DOMAIN w THEN chain[id] ELSE {}

(* A window and everything inside it. *)
Inside(w, id) == {i \in DOMAIN w : id \in Above(w, i)}

Sibling(pair, id) == CHOOSE c \in {pair.first, pair.second} : c # id

-----------------------------------------------------------------------------
(* Layout: a rectangle is <<x, y, width, height>>.                         *)

Least(a, b) == IF a <= b THEN a ELSE b

Unit(w, pair) ==
  LET axis == IF Vertical(pair.method) THEN 2 ELSE 1
  IN  IF pair.key \notin DOMAIN w THEN 1
      ELSE CASE w[pair.key].kind = "buffer" -> TextCell[axis]
             [] w[pair.key].kind = "grid"   -> Cell[axis]
             [] OTHER                       -> 1

(* What the constrained child of a pair gets of the pair's extent. *)
Constrained(w, pair, extent) ==
  Least(extent, IF Division(pair.method) = 2
                THEN (extent * Least(pair.size, 100)) \div 100
                ELSE pair.size * Unit(w, pair))

Slice(w, pair, id, place) ==
  LET extent == place[IF Vertical(pair.method) THEN 4 ELSE 3]
      ahead  == id = IF pair.reversed THEN pair.second ELSE pair.first
      share  == Constrained(w, pair, extent)
      mine   == IF ahead = (Side(pair.method) = 0) THEN share ELSE extent - share
      from   == IF ahead THEN 0 ELSE extent - mine
  IN  IF Vertical(pair.method)
      THEN <<place[1], place[2] + from, place[3], mine>>
      ELSE <<place[1] + from, place[2], mine, place[4]>>

Place(w, r, view, id) ==
  LET place[i \in DOMAIN w] ==
        IF i = r \/ w[i].parent \notin DOMAIN w THEN <<0, 0, view[1], view[2]>>
        ELSE Slice(w, w[w[i].parent], i, place[w[i].parent])
  IN  place[id]

(* The size a window shows its story: characters, pixels or nothing. *)
Extent(kind, place) ==
  CASE kind = "buffer"   -> <<place[3] \div TextCell[1], place[4] \div TextCell[2]>>
    [] kind = "grid"     -> <<place[3] \div Cell[1], place[4] \div Cell[2]>>
    [] kind = "graphics" -> <<place[3], place[4]>>
    [] OTHER             -> <<0, 0>>

LaidOut(w, r, view) ==
  [i \in DOMAIN w |->
     LET place == Place(w, r, view, i)
     IN  [w[i] EXCEPT !.rect = place, !.extent = Extent(w[i].kind, place)]]

(* The requests a layout and a closing queue for the host, as they take    *)
(* effect: a graphics window whose size changed gets a canvas of the new   *)
(* size, or none when nothing of it is left, a closed window loses its own. *)
Canvases(old, new) ==
  LET sized == {i \in DOMAIN new : /\ new[i].kind = "graphics"
                                   /\ new[i].extent # (IF i \in DOMAIN old THEN old[i].extent
                                                                           ELSE <<0, 0>>)}
      shown == {i \in sized : 0 \notin {new[i].extent[1], new[i].extent[2]}}
      kept  == DOMAIN canvases \ ((DOMAIN old \ DOMAIN new) \cup sized)
  IN  [i \in kept \cup shown |-> IF i \in shown THEN new[i].extent ELSE canvases[i]]

(* layout_windows: every change of the tree ends with it. *)
Arrange(w, r, view) ==
  LET new == LaidOut(w, r, view)
  IN  /\ windows' = new
      /\ root' = r
      /\ canvases' = Canvases(windows, new)

-----------------------------------------------------------------------------
WinInit == /\ windows = <<>> /\ root = 0 /\ next_window = 1
           /\ viewport \in Viewports
           /\ streams = <<>> /\ next_stream = 1 /\ current_stream = 0
           /\ canvases = <<>>

NewWindow(kind, parent, stream) ==
  [kind |-> kind, parent |-> parent, stream |-> stream, echo |-> 0,
   first |-> 0, second |-> 0, reversed |-> FALSE, method |-> 0, size |-> 0, key |-> 0,
   rect |-> <<0, 0, 0, 0>>, extent |-> IF kind \in {"buffer", "grid"} THEN <<80, 25>> ELSE <<0, 0>>]

Replace(window, old, new) ==
  [window EXCEPT !.first = IF @ = old THEN new ELSE @,
                 !.second = IF @ = old THEN new ELSE @]

NewPair(split, id, method, size) ==
  [NewWindow("pair", windows[split].parent, 0) EXCEPT
     !.first = split, !.second = id, !.reversed = (Side(method) = 0),
     !.method = method, !.size = size, !.key = id]

(* The windows when one takes the place of another under a pair, if any. *)
Adopted(above, old, new) ==
  IF above = 0 THEN windows ELSE [windows EXCEPT ![above] = Replace(@, old, new)]

(* The tree with a pair over the window that is split and the new one. *)
Split(split, id, kind, method, size) ==
  LET pair == id + 1
      kept == [Adopted(windows[split].parent, split, pair) EXCEPT ![split].parent = pair]
  IN  With(With(kept, id, NewWindow(kind, pair, next_stream)),
           pair, NewPair(split, id, method, size))

AddStream(stream) == /\ streams' = With(streams, next_stream, stream)
                     /\ next_stream' = next_stream + 1

OpenFirst(kind) ==
  /\ root = 0
  /\ next_window <= WindowLimit
  /\ Arrange([i \in {next_window} |-> NewWindow(kind, 0, next_stream)], next_window, viewport)
  /\ AddStream(WindowStream(next_window))
  /\ next_window' = next_window + 1
  /\ UNCHANGED <<viewport, current_stream>>

OpenBeside(split, method, size, kind) ==
  /\ split \in DOMAIN windows
  /\ ValidMethod(method)
  /\ next_window < WindowLimit
  /\ Arrange(Split(split, next_window, kind, method, size),
             IF split = root THEN next_window + 1 ELSE root, viewport)
  /\ AddStream(WindowStream(next_window))
  /\ next_window' = next_window + 2
  /\ UNCHANGED <<viewport, current_stream>>

(* close_window, first part: the sibling takes the place of the pair. *)
Promoted(id) ==
  LET pair    == windows[id].parent
      sibling == Sibling(windows[pair], id)
      above   == windows[pair].parent
      kept    == [Adopted(above, pair, sibling) EXCEPT ![sibling].parent = above]
  IN  IF pair = 0 THEN windows ELSE Restrict(kept, DOMAIN windows \ {pair})

(* Second part: the window goes with everything inside it, and nothing     *)
(* keeps a reference to what is gone.                                      *)
Closing(id) == {windows[i].stream : i \in Inside(windows, id)} \ {0}

\* Mutant: key windows are not looked after.
PrunedKeys(id) ==
  [i \in DOMAIN Promoted(id) \ Inside(windows, id) |->
     [Promoted(id)[i] EXCEPT !.echo = IF @ \in Closing(id) THEN 0 ELSE @]]

Pruned(id) ==
  LET kept == DOMAIN Promoted(id) \ Inside(windows, id)
  IN  [i \in kept |->
         [Promoted(id)[i] EXCEPT !.echo = IF @ \in Closing(id) THEN 0 ELSE @,
                                 !.key = IF @ \in kept THEN @ ELSE 0]]

NewRoot(id) == CASE windows[id].parent = 0    -> 0
                 [] windows[id].parent = root -> Sibling(windows[root], id)
                 [] OTHER                     -> root

CloseWindow(id) ==
  /\ id \in DOMAIN windows
  /\ Arrange(Pruned(id), NewRoot(id), viewport)
  /\ streams' = Restrict(streams, DOMAIN streams \ Closing(id))
  /\ current_stream' = IF current_stream \in Closing(id) THEN 0 ELSE current_stream
  /\ UNCHANGED <<next_window, viewport, next_stream>>

\* Mutant: the order follows the method.
SetArrangementTurns(id, method, size, key) ==
  /\ id \in DOMAIN windows
  /\ IsPair(windows[id])
  /\ ValidMethod(method)
  /\ Vertical(method) = Vertical(windows[id].method)
  /\ key # 0 => key \in Inside(windows, id) /\ ~IsPair(windows[key])
  /\ Arrange([windows EXCEPT ![id].method = method, ![id].size = size,
                             ![id].key = IF key # 0 THEN key ELSE @,
                             ![id].reversed = (Side(method) = 0)], root, viewport)
  /\ UNCHANGED <<next_window, viewport, streams, next_stream, current_stream>>

SetArrangement(id, method, size, key) ==
  /\ id \in DOMAIN windows
  /\ IsPair(windows[id])
  /\ ValidMethod(method)
  /\ Vertical(method) = Vertical(windows[id].method)
  /\ key # 0 => /\ key \in Inside(windows, id)
                /\ ~IsPair(windows[key])
  /\ Arrange([windows EXCEPT ![id].method = method, ![id].size = size,
                             ![id].key = IF key # 0 THEN key ELSE @], root, viewport)
  /\ UNCHANGED <<next_window, viewport, streams, next_stream, current_stream>>

(* The player changes the size of the application's window. *)
SetViewport(size) ==
  /\ size \in Viewports \ {viewport}
  /\ viewport' = size
  /\ Arrange(windows, root, size)
  /\ UNCHANGED <<next_window, streams, next_stream, current_stream>>

-----------------------------------------------------------------------------
(* The streams a write to s passes through, until it ends in a stream that *)
(* is no window's, in a window without echo, or in nothing.                *)
EchoOf(w, st, s) == IF st[s].window \in DOMAIN w THEN w[st[s].window].echo ELSE 0

(* valid_echo: the chain from the stream neither returns to the window nor *)
(* repeats, and ends in a stream that exists.                              *)
ValidEcho(id, stream) ==
  LET step(S) == S \cup {EchoOf(windows, streams, s) : s \in S \cap DOMAIN streams}
      reached == FoldSet(LAMBDA i, S : step(S), {stream}, DOMAIN streams)
  IN  /\ reached \subseteq DOMAIN streams \cup {0}
      /\ \A s \in reached \ {0} : streams[s].window # id

SetEcho(id, stream) ==
  /\ id \in DOMAIN windows
  /\ ValidEcho(id, stream)
  /\ windows' = [windows EXCEPT ![id].echo = stream]
  /\ UNCHANGED <<root, next_window, viewport, streams, next_stream, current_stream, canvases>>

SetCurrent(stream) ==
  /\ stream \in DOMAIN streams \cup {0}
  /\ current_stream' = stream
  /\ UNCHANGED <<windows, root, next_window, viewport, streams, next_stream, canvases>>

(* What rebuilds the tree, what moves its parts, what only leads streams.  *)
TreeNext ==
  \/ \E kind \in Kinds : OpenFirst(kind)
  \/ \E split \in DOMAIN windows, method \in Methods, size \in Sizes, kind \in Kinds :
        OpenBeside(split, method, size, kind)
  \/ \E id \in DOMAIN windows : CloseWindow(id)

LayoutNext ==
  \/ \E id \in DOMAIN windows, method \in Methods, size \in Sizes, key \in DOMAIN windows \cup {0} :
        SetArrangement(id, method, size, key)
  \/ \E size \in Viewports : SetViewport(size)

EchoNext ==
  \/ \E id \in DOMAIN windows, stream \in DOMAIN streams \cup {0} : SetEcho(id, stream)
  \/ \E stream \in DOMAIN streams \cup {0} : SetCurrent(stream)

-----------------------------------------------------------------------------
Leaves == {i \in DOMAIN windows : ~IsPair(windows[i])}

(* The windows form one tree: every window but the root is a child of the  *)
(* pair it names as its parent, every pair has two different children that *)
(* name it, only pairs have children, and every window is under the root.  *)
(* Opening and closing rewrite up to three windows each, and a later       *)
(* closing unwraps children and siblings unchecked.                        *)
Tree ==
  /\ root = 0 <=> windows = <<>>
  /\ root # 0 => root \in DOMAIN windows /\ windows[root].parent = 0
  /\ \A i \in DOMAIN windows :
       /\ root \in Above(windows, i)
       /\ i # root => /\ windows[i].parent \in DOMAIN windows
                      /\ i \in {windows[windows[i].parent].first, windows[windows[i].parent].second}
       /\ IsPair(windows[i]) =>
            /\ windows[i].first # windows[i].second
            /\ \A c \in {windows[i].first, windows[i].second} :
                  c \in DOMAIN windows /\ windows[c].parent = i
       /\ ~IsPair(windows[i]) => windows[i].first = 0 /\ windows[i].second = 0

(* The key window of a pair is a window with contents inside that pair, or *)
(* there is none: the layout takes its unit from the key, wherever windows *)
(* were closed or split around it.                                         *)
KeysInside ==
  \A i \in DOMAIN windows :
    windows[i].key # 0 => /\ IsPair(windows[i])
                          /\ windows[i].key \in Inside(windows, i) \cap Leaves

(* Every window with contents has a stream of its own, no stream outlives  *)
(* its window, and neither an echo nor the current stream refers to a      *)
(* stream that is gone.                                                    *)
StreamsLive ==
  /\ \A i \in Leaves : windows[i].stream \in DOMAIN streams /\ streams[windows[i].stream].window = i
  /\ \A s \in DOMAIN streams : streams[s].window # 0 =>
        streams[s].window \in Leaves /\ windows[streams[s].window].stream = s
  /\ \A i \in DOMAIN windows : windows[i].echo \in DOMAIN streams \cup {0}
  /\ current_stream \in DOMAIN streams \cup {0}

(* No chain of echo streams returns to where it started: a style command   *)
(* and a character follow the chain to its end.                            *)
EchoesEnd ==
  LET hop == [i \in Leaves |-> IF windows[i].echo \in DOMAIN streams
                               THEN streams[windows[i].echo].window ELSE 0]
      far(i) == FoldSet(LAMBDA n, at : IF at \in Leaves THEN hop[at] ELSE 0, i, DOMAIN windows)
  IN  \A i \in Leaves : far(i) \notin Leaves

(* Whatever is opened and closed in whatever order, nothing is left that   *)
(* refers to a window or a stream that is gone or elsewhere.               *)
Linked == Tree /\ KeysInside /\ StreamsLive /\ EchoesEnd

(* The windows with contents cover the screen: no two share a point, none  *)
(* reaches outside, and together they leave nothing out (blank windows are *)
(* windows too).  Fixed sizes beyond the extent, key windows that are gone *)
(* and small screens included.                                             *)
Area(r) == r[3] * r[4]
Apart(r, s) == \/ r[1] + r[3] <= s[1] \/ s[1] + s[3] <= r[1]
               \/ r[2] + r[4] <= s[2] \/ s[2] + s[4] <= r[2]
Tiled ==
  root # 0 =>
    /\ \A i \in Leaves : LET r == windows[i].rect
                         IN  /\ r \in Seq(Nat)
                             /\ r[1] + r[3] <= viewport[1] /\ r[2] + r[4] <= viewport[2]
    /\ \A i, j \in Leaves : i # j => Apart(windows[i].rect, windows[j].rect)
    /\ MapThenSumSet(LAMBDA i : Area(windows[i].rect), Leaves) = viewport[1] * viewport[2]

(* The host has a canvas for a graphics window exactly as large as the     *)
(* window, and none for a window that is gone or has no room: it is told   *)
(* of sizes only when they change.                                         *)
CanvasesFit ==
  canvases = [i \in {i \in Leaves : windows[i].kind = "graphics" /\ Area(windows[i].rect) # 0}
                |-> windows[i].extent]

(* The screen of the story and the canvases of the host.                   *)
Screen == Tiled /\ CanvasesFit

(* Giving a pair a new arrangement never exchanges its children on the     *)
(* screen: what is left or above stays left or above, whichever side the   *)
(* method names for the constrained child.                                 *)
OrderKept ==
  [][\A i \in DOMAIN windows \cap DOMAIN windows' :
       (IsPair(windows[i]) /\ windows'[i].first = windows[i].first /\ windows'[i].second = windows[i].second)
         => (windows'[i].reversed <=> windows[i].reversed)]_winVars

(* The tree and the screen it stands for.                                    *)
Arranged == Linked /\ Screen
=============================================================================
