------------------------------ MODULE GlkProofs ------------------------------
(***************************************************************************)
(* Proofs about Windows and Streams, for all trees, screens, files and     *)
(* buffers: the windows are one tree that tiles the screen, the children of*)
(* a pair keep their order, what streams, files and buffers hold of each   *)
(* other agrees, and resumed sessions read what was saved.                 *)
(*                                                                         *)
(* The argument: windows refer to streams of windows only, so that what    *)
(* they do leaves files and buffers alone; a stream of a file that has yet *)
(* to be written without being open names its file by its path, which is   *)
(* why the flush that opens it again writes where it was read.             *)
(*                                                                         *)
(* That no window is above itself is a number for each, falling towards    *)
(* the root: opening a window doubles them, which makes room for the new   *)
(* pair, and closing takes away a pair and what is below one child.  Going *)
(* from the leaves up these numbers, each window's leaves cover its        *)
(* rectangle, since the rectangles of two children are the halves of their *)
(* pair's.  Echoes have numbers of the same kind, less than the number of  *)
(* streams, so that as many steps reach the end of every chain.            *)
(***************************************************************************)
EXTENDS Streams, CollectionLemmas

-----------------------------------------------------------------------------
(* Windows *)

Fields == {"kind", "parent", "stream", "echo", "first", "second", "reversed", "method",
           "size", "key", "rect", "extent"}

IsWindow(w) == w = [f \in Fields |-> w[f]]

\* Identifiers are handed out once, to windows and to streams.
WindowsFormed ==
  /\ next_window \in Nat \ {0} /\ next_stream \in Nat \ {0}
  /\ \A i \in DOMAIN windows : /\ i \in 1 .. next_window - 1
                               /\ IsWindow(windows[i])
                               /\ windows[i].stream \in 0 .. next_stream - 1

\* No window has the stream of a file or a buffer.
WindowsApart ==
  \A i \in DOMAIN windows :
    windows[i].stream \in DOMAIN streams => streams[windows[i].stream].kind = "window"

\* Windows that are only moved, in w compared with the present ones.
Moved(w) ==
  /\ DOMAIN w \subseteq DOMAIN windows
  /\ \A i \in DOMAIN w : /\ IsWindow(w[i])
                         /\ w[i].stream = windows[i].stream /\ w[i].reversed = windows[i].reversed

\* The layout changes the place and the size of a window.
LEMMA LaidOutKeeps ==
  ASSUME NEW w, NEW r, NEW view, NEW i \in DOMAIN w, IsWindow(w[i])
  PROVE  /\ DOMAIN LaidOut(w, r, view) = DOMAIN w
         /\ IsWindow(LaidOut(w, r, view)[i])
         /\ LaidOut(w, r, view)[i].stream = w[i].stream
         /\ LaidOut(w, r, view)[i].reversed = w[i].reversed
<1> DEFINE place == Place(w, r, view, i)
           e == Extent(w[i].kind, place)
<1>1. LaidOut(w, r, view)[i] = [w[i] EXCEPT !.rect = place, !.extent = e]
  BY DEF LaidOut
<1>2. DOMAIN LaidOut(w, r, view) = DOMAIN w
  BY DEF LaidOut
<1> HIDE DEF place, e
<1> QED BY <1>1, <1>2 DEF IsWindow, Fields

\* Replacing a child, a parent or a key leaves the order and the stream.
LEMMA ReplaceKeeps ==
  ASSUME NEW w, IsWindow(w), NEW a, NEW b
  PROVE  /\ IsWindow(Replace(w, a, b))
         /\ Replace(w, a, b).stream = w.stream /\ Replace(w, a, b).reversed = w.reversed
BY DEF Replace, IsWindow, Fields

LEMMA NewWindowFormed ==
  ASSUME NEW kind, NEW parent, NEW s
  PROVE  IsWindow(NewWindow(kind, parent, s)) /\ NewWindow(kind, parent, s).stream = s
BY DEF NewWindow, IsWindow, Fields

LEMMA NewPairFormed ==
  ASSUME NEW split, NEW id, NEW method, NEW size
  PROVE  IsWindow(NewPair(split, id, method, size)) /\ NewPair(split, id, method, size).stream = 0
BY DEF NewPair, NewWindow, IsWindow, Fields

\* A window or none takes a place under a pair.
LEMMA AdoptedKeeps ==
  ASSUME WindowsFormed, NEW above, NEW old, NEW new
  PROVE  /\ DOMAIN Adopted(above, old, new) = DOMAIN windows
         /\ \A i \in DOMAIN windows :
              /\ IsWindow(Adopted(above, old, new)[i])
              /\ Adopted(above, old, new)[i].stream = windows[i].stream
              /\ Adopted(above, old, new)[i].reversed = windows[i].reversed
<1> DEFINE w == Adopted(above, old, new)
<1>1. DOMAIN w = DOMAIN windows
  BY DEF Adopted
<1>2. ASSUME NEW i \in DOMAIN windows
      PROVE  w[i] = windows[i] \/ w[i] = Replace(windows[i], old, new)
  BY DEF Adopted
<1> HIDE DEF w
<1>3. \A i \in DOMAIN windows : IsWindow(windows[i])
  BY DEF WindowsFormed
<1>4. \A i \in DOMAIN windows : /\ IsWindow(w[i])
                                /\ w[i].stream = windows[i].stream
                                /\ w[i].reversed = windows[i].reversed
  BY <1>2, <1>3, ReplaceKeeps
<1> QED BY <1>1, <1>4 DEF w

\* One of them gets another parent.
LEMMA ParentKeeps ==
  ASSUME NEW w, NEW at, NEW parent, NEW i \in DOMAIN w, IsWindow(w[i])
  PROVE  LET v == [w EXCEPT ![at].parent = parent]
         IN  /\ DOMAIN v = DOMAIN w
             /\ IsWindow(v[i])
             /\ v[i].stream = w[i].stream /\ v[i].reversed = w[i].reversed
<1>1. CASE i = at
  BY <1>1 DEF IsWindow, Fields
<1>2. CASE i # at
  BY <1>2
<1> QED BY <1>1, <1>2

LEMMA SplitKeeps ==
  ASSUME WindowsFormed, NEW split \in DOMAIN windows, NEW kind, NEW method, NEW size
  PROVE  LET w == Split(split, next_window, kind, method, size)
         IN  /\ DOMAIN w = DOMAIN windows \cup {next_window, next_window + 1}
             /\ \A i \in DOMAIN w : IsWindow(w[i])
             /\ w[next_window].stream = next_stream /\ w[next_window + 1].stream = 0
             /\ \A i \in DOMAIN windows : w[i].stream = windows[i].stream
                                          /\ w[i].reversed = windows[i].reversed
<1> DEFINE id == next_window
           pair == id + 1
           adopted == Adopted(windows[split].parent, split, pair)
           kept == [adopted EXCEPT ![split].parent = pair]
           w == Split(split, id, kind, method, size)
<1>1. w = With(With(kept, id, NewWindow(kind, pair, next_stream)), pair, NewPair(split, id, method, size))
  BY DEF Split
<1>2. id # pair /\ id \notin DOMAIN windows /\ pair \notin DOMAIN windows
  BY DEF WindowsFormed
<1>3. /\ DOMAIN adopted = DOMAIN windows
      /\ \A i \in DOMAIN windows : /\ IsWindow(adopted[i])
                                   /\ adopted[i].stream = windows[i].stream
                                   /\ adopted[i].reversed = windows[i].reversed
  BY AdoptedKeeps
<1> HIDE DEF w, pair, id, adopted
<1>4. /\ DOMAIN kept = DOMAIN windows
      /\ \A i \in DOMAIN windows : /\ IsWindow(kept[i])
                                   /\ kept[i].stream = windows[i].stream
                                   /\ kept[i].reversed = windows[i].reversed
  BY <1>3, ParentKeeps
<1> HIDE DEF kept
<1>5. /\ DOMAIN w = DOMAIN windows \cup {id, pair}
      /\ w[id] = NewWindow(kind, pair, next_stream) /\ w[pair] = NewPair(split, id, method, size)
      /\ \A i \in DOMAIN windows : w[i] = kept[i]
  BY <1>1, <1>2, <1>4 DEF With
<1>6. /\ DOMAIN w = DOMAIN windows \cup {id, pair}
      /\ \A i \in DOMAIN w : IsWindow(w[i])
      /\ w[id].stream = next_stream /\ w[pair].stream = 0
      /\ \A i \in DOMAIN windows : w[i].stream = windows[i].stream
                                   /\ w[i].reversed = windows[i].reversed
  BY <1>4, <1>5, NewWindowFormed, NewPairFormed
<1> QED BY <1>6 DEF w, pair, id

LEMMA PromotedKeeps ==
  ASSUME WindowsFormed, NEW id \in DOMAIN windows
  PROVE  Moved(Promoted(id))
<1> DEFINE pair == windows[id].parent
           sibling == Sibling(windows[pair], id)
           above == windows[pair].parent
           adopted == Adopted(above, pair, sibling)
           kept == [adopted EXCEPT ![sibling].parent = above]
<1>1. CASE pair = 0
  BY <1>1 DEF Promoted, Moved, WindowsFormed
<1>2. CASE pair # 0
  <2>1. Promoted(id) = Restrict(kept, DOMAIN windows \ {pair})
    BY <1>2 DEF Promoted
  <2>2. /\ DOMAIN adopted = DOMAIN windows
        /\ \A i \in DOMAIN windows : /\ IsWindow(adopted[i])
                                     /\ adopted[i].stream = windows[i].stream
                                     /\ adopted[i].reversed = windows[i].reversed
    BY AdoptedKeeps
  <2> HIDE DEF adopted, sibling, above
  <2>3. /\ DOMAIN kept = DOMAIN windows
        /\ \A i \in DOMAIN windows : /\ IsWindow(kept[i])
                                     /\ kept[i].stream = windows[i].stream
                                     /\ kept[i].reversed = windows[i].reversed
    BY <2>2, ParentKeeps
  <2> HIDE DEF kept
  <2> QED BY <2>1, <2>3 DEF Moved, Restrict
<1> QED BY <1>1, <1>2

LEMMA PrunedKeeps ==
  ASSUME WindowsFormed, NEW id \in DOMAIN windows
  PROVE  Moved(Pruned(id))
<1> DEFINE p == Promoted(id)
           w == Pruned(id)
           kept == DOMAIN p \ Inside(windows, id)
<1>1. /\ DOMAIN w = kept
      /\ \A i \in kept : w[i] = [p[i] EXCEPT !.echo = IF @ \in Closing(id) THEN 0 ELSE @,
                                             !.key = IF @ \in kept THEN @ ELSE 0]
  BY DEF Pruned
<1>2. /\ DOMAIN p \subseteq DOMAIN windows
      /\ \A i \in DOMAIN p : /\ IsWindow(p[i])
                             /\ p[i].stream = windows[i].stream /\ p[i].reversed = windows[i].reversed
  BY PromotedKeeps DEF Moved
<1> HIDE DEF p, w
<1>3. \A i \in kept : IsWindow(w[i]) /\ w[i].stream = p[i].stream /\ w[i].reversed = p[i].reversed
  <2> SUFFICES ASSUME NEW i \in kept
               PROVE  IsWindow(w[i]) /\ w[i].stream = p[i].stream /\ w[i].reversed = p[i].reversed
    OBVIOUS
  <2>1. /\ w[i] = [p[i] EXCEPT !.echo = IF @ \in Closing(id) THEN 0 ELSE @,
                              !.key = IF @ \in kept THEN @ ELSE 0]
        /\ IsWindow(p[i])
    BY <1>1, <1>2
  <2> QED BY <2>1 DEF IsWindow, Fields
<1>4. Moved(w)
  BY <1>1, <1>2, <1>3 DEF Moved
<1> QED BY <1>4 DEF w
\* Moving windows and forgetting streams keeps what windows refer to.
LEMMA MovedStep ==
  ASSUME WindowsFormed, WindowsApart, Moved(windows'),
         UNCHANGED <<next_window, next_stream>>,
         DOMAIN streams' \subseteq DOMAIN streams,
         \A s \in DOMAIN streams' : streams'[s].kind = streams[s].kind
  PROVE  WindowsFormed' /\ WindowsApart'
<1>1. \A i \in DOMAIN windows' : /\ i \in DOMAIN windows /\ IsWindow(windows'[i])
                                 /\ windows'[i].stream = windows[i].stream
  BY DEF Moved
<1>2. WindowsFormed'
  BY <1>1 DEF WindowsFormed
<1>3. WindowsApart'
  BY <1>1 DEF WindowsApart
<1> QED BY <1>2, <1>3

LEMMA LaidOutMoved ==
  ASSUME NEW w, NEW r, NEW view, Moved(w)
  PROVE  Moved(LaidOut(w, r, view))
<1>1. DOMAIN LaidOut(w, r, view) = DOMAIN w
  BY DEF LaidOut
<1> QED BY <1>1, LaidOutKeeps DEF Moved

SameOrder ==
  \A i \in DOMAIN windows \cap DOMAIN windows' : windows'[i].reversed = windows[i].reversed

\* What is no stream of a window stays as it is, and only streams of windows come.
OthersStay ==
  /\ \A s \in DOMAIN streams :
       streams[s].kind # "window" => s \in DOMAIN streams' /\ streams'[s] = streams[s]
  /\ \A s \in DOMAIN streams' :
       streams'[s].kind # "window" => s \in DOMAIN streams /\ streams'[s] = streams[s]

StreamsNumbered == DOMAIN streams \subseteq 1 .. next_stream - 1

WindowInv == WindowsFormed /\ WindowsApart /\ StreamsNumbered

\* A window comes with a stream of its own.
LEMMA AddedStream ==
  ASSUME WindowsFormed, StreamsNumbered, NEW st, AddStream(st)
  PROVE  /\ next_stream' \in Nat \ {0} /\ StreamsNumbered' /\ next_stream \notin DOMAIN streams
         /\ DOMAIN streams' = DOMAIN streams \cup {next_stream}
         /\ streams'[next_stream] = st
         /\ \A s \in DOMAIN streams : streams'[s] = streams[s]
         /\ next_stream' = next_stream + 1
<1>1. next_stream \in Nat \ {0} /\ next_stream \notin DOMAIN streams
  BY DEF WindowsFormed, StreamsNumbered
<1>2. /\ DOMAIN streams' = DOMAIN streams \cup {next_stream}
      /\ streams'[next_stream] = st /\ next_stream' = next_stream + 1
      /\ \A s \in DOMAIN streams : streams'[s] = streams[s]
  BY <1>1 DEF AddStream, With
<1>3. StreamsNumbered'
  BY <1>1, <1>2 DEF StreamsNumbered
<1> QED BY <1>1, <1>2, <1>3

LEMMA OpenedStep ==
  ASSUME WindowInv, NEW w, NEW r, NEW view,
         \A i \in DOMAIN w : IsWindow(w[i]),
         next_window \in DOMAIN w, w[next_window].stream = next_stream,
         DOMAIN w \subseteq DOMAIN windows \cup next_window .. next_window' - 1,
         \A i \in DOMAIN w \ {next_window} :
            IF i \in DOMAIN windows THEN w[i].stream = windows[i].stream ELSE w[i].stream = 0,
         \A i \in DOMAIN windows \cap DOMAIN w : w[i].reversed = windows[i].reversed,
         windows' = LaidOut(w, r, view), AddStream(WindowStream(next_window)),
         next_window' \in {next_window + 1, next_window + 2}
  PROVE  WindowInv' /\ SameOrder /\ OthersStay
<1> USE DEF WindowInv
<1>1. /\ next_stream' \in Nat \ {0} /\ StreamsNumbered' /\ next_stream \notin DOMAIN streams
      /\ DOMAIN streams' = DOMAIN streams \cup {next_stream}
      /\ streams'[next_stream] = WindowStream(next_window)
      /\ \A s \in DOMAIN streams : streams'[s] = streams[s]
      /\ next_stream' = next_stream + 1
  BY AddedStream
<1>2. WindowStream(next_window).kind = "window"
  BY DEF WindowStream
<1>3. OthersStay
  BY <1>1, <1>2 DEF OthersStay
<1>4. /\ DOMAIN windows' = DOMAIN w
      /\ \A i \in DOMAIN w : /\ IsWindow(windows'[i])
                             /\ windows'[i].stream = w[i].stream
                             /\ windows'[i].reversed = w[i].reversed
  <2>1. DOMAIN windows' = DOMAIN w
    BY DEF LaidOut
  <2> QED BY <2>1, LaidOutKeeps
<1>5. SameOrder
  BY <1>4 DEF SameOrder
<1>6. next_window \in Nat \ {0} /\ next_stream \in Nat \ {0}
  BY DEF WindowsFormed
<1>7. WindowsFormed'
  <2>1. next_window' \in Nat \ {0}
    BY <1>6
  <2>2. ASSUME NEW i \in DOMAIN w
        PROVE  i \in 1 .. next_window' - 1 /\ w[i].stream \in 0 .. next_stream' - 1
    <3>1. CASE i \in DOMAIN windows
      <4>1. i \in 1 .. next_window - 1 /\ windows[i].stream \in 0 .. next_stream - 1
        BY <3>1 DEF WindowsFormed
      <4>2. i # next_window /\ w[i].stream = windows[i].stream
        BY <3>1, <4>1, <1>6
      <4> QED BY <4>1, <4>2, <1>1, <1>6
    <3>2. CASE i \notin DOMAIN windows
      <4>1. i \in next_window .. next_window' - 1
        BY <3>2
      <4>2. w[i].stream \in {0, next_stream}
        BY <3>2
      <4> QED BY <4>1, <4>2, <1>1, <1>6
    <3> QED BY <3>1, <3>2
  <2> QED BY <1>1, <1>4, <2>1, <2>2 DEF WindowsFormed
<1>8. WindowsApart'
  <2> SUFFICES ASSUME NEW i \in DOMAIN w, w[i].stream \in DOMAIN streams'
               PROVE  streams'[w[i].stream].kind = "window"
    BY <1>4 DEF WindowsApart
  <2>1. CASE w[i].stream = next_stream
    BY <2>1, <1>1, <1>2
  <2>2. CASE w[i].stream # next_stream
    <3>1. i # next_window /\ w[i].stream \in DOMAIN streams
      BY <2>2, <1>1
    <3>2. w[i].stream # 0
      BY <3>1 DEF StreamsNumbered, WindowsFormed
    <3>3. i \in DOMAIN windows /\ w[i].stream = windows[i].stream
      BY <3>1, <3>2
    <3> QED BY <3>1, <3>3, <1>1 DEF WindowsApart
  <2> QED BY <2>1, <2>2
<1> QED BY <1>1, <1>3, <1>5, <1>7, <1>8

LEMMA TreeStep ==
  ASSUME WindowInv, TreeNext
  PROVE  WindowInv' /\ SameOrder /\ OthersStay
<1> USE DEF WindowInv
<1>1. ASSUME NEW kind \in Kinds, OpenFirst(kind)
      PROVE  WindowInv' /\ SameOrder /\ OthersStay
  <2> DEFINE w == [i \in {next_window} |-> NewWindow(kind, 0, next_stream)]
  <2>1. /\ windows' = LaidOut(w, next_window, viewport) /\ AddStream(WindowStream(next_window))
        /\ next_window' = next_window + 1
    BY <1>1 DEF OpenFirst, Arrange
  <2>2. next_window \in Nat \ {0} /\ next_window \notin DOMAIN windows
    BY DEF WindowsFormed
  <2>3. DOMAIN w = {next_window} /\ w[next_window] = NewWindow(kind, 0, next_stream)
    OBVIOUS
  <2> HIDE DEF w
  <2>4. /\ \A i \in DOMAIN w : IsWindow(w[i])
        /\ w[next_window].stream = next_stream
    BY <2>3, NewWindowFormed
  <2>5. DOMAIN w \subseteq DOMAIN windows \cup next_window .. next_window' - 1
    BY <2>1, <2>2, <2>3
  <2> QED BY <2>1, <2>2, <2>3, <2>4, <2>5, OpenedStep
<1>2. ASSUME NEW split \in DOMAIN windows, NEW method \in Methods, NEW size \in Sizes, NEW kind \in Kinds,
             OpenBeside(split, method, size, kind)
      PROVE  WindowInv' /\ SameOrder /\ OthersStay
  <2> DEFINE w == Split(split, next_window, kind, method, size)
             r == IF split = root THEN next_window + 1 ELSE root
  <2>1. /\ windows' = LaidOut(w, r, viewport) /\ AddStream(WindowStream(next_window))
        /\ next_window' = next_window + 2
    BY <1>2 DEF OpenBeside, Arrange
  <2>2. next_window \in Nat \ {0} /\ next_window \notin DOMAIN windows /\ next_window + 1 \notin DOMAIN windows
    BY DEF WindowsFormed
  <2>3. /\ DOMAIN w = DOMAIN windows \cup {next_window, next_window + 1}
        /\ \A i \in DOMAIN w : IsWindow(w[i])
        /\ w[next_window].stream = next_stream /\ w[next_window + 1].stream = 0
        /\ \A i \in DOMAIN windows : w[i].stream = windows[i].stream
                                     /\ w[i].reversed = windows[i].reversed
    BY SplitKeeps
  <2> HIDE DEF w, r
  <2>4. DOMAIN w \subseteq DOMAIN windows \cup next_window .. next_window' - 1
    BY <2>1, <2>2, <2>3
  <2>5. \A i \in DOMAIN w \ {next_window} :
           IF i \in DOMAIN windows THEN w[i].stream = windows[i].stream ELSE w[i].stream = 0
    BY <2>2, <2>3
  <2> QED BY <2>1, <2>2, <2>3, <2>4, <2>5, OpenedStep
<1>3. ASSUME NEW id \in DOMAIN windows, CloseWindow(id)
      PROVE  WindowInv' /\ SameOrder /\ OthersStay
  <2>1. /\ windows' = LaidOut(Pruned(id), NewRoot(id), viewport)
        /\ streams' = [s \in DOMAIN streams \ Closing(id) |-> streams[s]]
        /\ UNCHANGED <<next_window, next_stream>>
    BY <1>3 DEF CloseWindow, Arrange, Restrict
  <2>2. Moved(windows')
    BY <2>1, PrunedKeeps, LaidOutMoved
  <2>3. DOMAIN streams' \subseteq DOMAIN streams /\ \A s \in DOMAIN streams' : streams'[s] = streams[s]
    BY <2>1
  <2>4. WindowsFormed' /\ WindowsApart'
    BY <2>1, <2>2, <2>3, MovedStep
  <2>5. ASSUME NEW s \in DOMAIN streams, s \in Closing(id)
        PROVE  streams[s].kind = "window"
    <3>1. PICK i \in DOMAIN windows : s = windows[i].stream
      BY <2>5 DEF Closing, Inside
    <3> QED BY <3>1 DEF WindowsApart
  <2>6. OthersStay
    BY <2>1, <2>5 DEF OthersStay
  <2> QED BY <2>1, <2>2, <2>3, <2>4, <2>6 DEF StreamsNumbered, SameOrder, Moved
<1> QED BY <1>1, <1>2, <1>3 DEF TreeNext

Rearranged(v, method, size, key) == [v EXCEPT !.method = method, !.size = size, !.key = key]

LEMMA RearrangedKeeps ==
  ASSUME NEW v, IsWindow(v), NEW method, NEW size, NEW key
  PROVE  LET u == Rearranged(v, method, size, key)
         IN  IsWindow(u) /\ u.stream = v.stream /\ u.reversed = v.reversed
BY DEF Rearranged, IsWindow, Fields

LEMMA LayoutStep ==
  ASSUME WindowInv, LayoutNext \/ EchoNext
  PROVE  WindowInv' /\ SameOrder /\ OthersStay
<1> USE DEF WindowInv
<1>1. Moved(windows') /\ UNCHANGED <<next_window, next_stream, streams>>
  <2>0. \A i \in DOMAIN windows : IsWindow(windows[i])
    BY DEF WindowsFormed
  <2>1. ASSUME NEW id \in DOMAIN windows, NEW method \in Methods, NEW size \in Sizes,
               NEW key \in DOMAIN windows \cup {0}, SetArrangement(id, method, size, key)
        PROVE  Moved(windows') /\ UNCHANGED <<next_window, next_stream, streams>>
    <3> DEFINE w == [windows EXCEPT ![id].method = method, ![id].size = size,
                                    ![id].key = IF key # 0 THEN key ELSE @]
    <3>1. windows' = LaidOut(w, root, viewport) /\ UNCHANGED <<next_window, next_stream, streams>>
      BY <2>1 DEF SetArrangement, Arrange
    <3>2. /\ DOMAIN w = DOMAIN windows
          /\ \A i \in DOMAIN windows :
               w[i] = Rearranged(windows[i], method, size, IF key # 0 THEN key ELSE windows[i].key)
                      \/ w[i] = windows[i]
      BY DEF Rearranged
    <3> HIDE DEF w
    <3>3. \A i \in DOMAIN windows : /\ IsWindow(w[i])
                                    /\ w[i].stream = windows[i].stream
                                    /\ w[i].reversed = windows[i].reversed
      BY <2>0, <3>2, RearrangedKeeps
    <3>4. Moved(w)
      BY <3>2, <3>3 DEF Moved
    <3> QED BY <3>1, <3>4, LaidOutMoved
  <2>2. ASSUME NEW size \in Viewports, SetViewport(size)
        PROVE  Moved(windows') /\ UNCHANGED <<next_window, next_stream, streams>>
    <3>1. windows' = LaidOut(windows, root, size) /\ UNCHANGED <<next_window, next_stream, streams>>
      BY <2>2 DEF SetViewport, Arrange
    <3>2. Moved(windows)
      BY <2>0 DEF Moved
    <3> QED BY <3>1, <3>2, LaidOutMoved
  <2>3. ASSUME NEW id \in DOMAIN windows, NEW st \in DOMAIN streams \cup {0}, SetEcho(id, st)
        PROVE  Moved(windows') /\ UNCHANGED <<next_window, next_stream, streams>>
    <3>1. windows' = [windows EXCEPT ![id].echo = st] /\ UNCHANGED <<next_window, next_stream, streams>>
      BY <2>3 DEF SetEcho
    <3> QED BY <2>0, <3>1 DEF Moved, IsWindow, Fields
  <2>4. ASSUME NEW st \in DOMAIN streams \cup {0}, SetCurrent(st)
        PROVE  Moved(windows') /\ UNCHANGED <<next_window, next_stream, streams>>
    BY <2>0, <2>4 DEF SetCurrent, Moved
  <2> QED BY <2>1, <2>2, <2>3, <2>4 DEF LayoutNext, EchoNext
<1>2. WindowsFormed' /\ WindowsApart'
  BY <1>1, MovedStep
<1> QED BY <1>1, <1>2 DEF StreamsNumbered, SameOrder, Moved, OthersStay

-----------------------------------------------------------------------------
(* Streams of files and buffers *)

Bytes == Values \cup {0, 1}
Contents == [bytes : Seq(Bytes), dirty : BOOLEAN, out : Nodes \cup {None}]
Memories == [kind : {"memory"}, window : {0}, mode : Modes, length : Nat, position : Nat, extent : Nat]
Files == [kind : {"file"}, window : {0}, mode : Modes, path : Paths, identity : Nodes \cup Paths,
          shared : Nat, position : Nat]

\* A stream is one of three kinds; what may be read of a buffer is all of it.
StreamsFormed ==
  \A s \in DOMAIN streams :
    \/ streams[s].kind = "window"
    \/ /\ streams[s] \in Memories
       /\ streams[s].position <= streams[s].extent /\ streams[s].extent <= streams[s].length
       /\ streams[s].mode # "write" => streams[s].extent = streams[s].length
    \/ streams[s] \in Files

\* What a path leads to is there.
DiskFormed ==
  /\ links \in [Paths -> Nodes \cup {None}]
  /\ DOMAIN disk \subseteq Nodes
  /\ \A n \in DOMAIN disk : disk[n] \in Seq(Bytes)
  /\ \A path \in Paths : links[path] = None \/ links[path] \in DOMAIN disk

\* Contents are held by a stream.
ContentsFormed ==
  /\ DOMAIN contents = Held(streams)
  /\ \A c \in DOMAIN contents : contents[c] \in Contents

\* A file has its contents unless they are dirty, and contents to be written without an
\* open file find it by the path of each of their streams.
Bound ==
  \A s \in FileStreams :
    LET c == contents[streams[s].shared] IN
    /\ streams[s].identity \in DOMAIN disk
    /\ c.out \in {None, streams[s].identity}
    /\ Unbound(s) => links[streams[s].path] = streams[s].identity
    /\ ~ c.dirty => disk[streams[s].identity] = c.bytes

Formed == WindowInv /\ StreamsFormed /\ DiskFormed /\ ContentsFormed

StreamsInv == Formed /\ OneContents /\ (~ Strays => Bound)

LEMMA FileFacts ==
  ASSUME StreamsFormed, ContentsFormed, NEW s \in FileStreams
  PROVE  /\ s \in DOMAIN streams /\ streams[s] \in Files /\ streams[s].kind = "file"
         /\ streams[s].shared \in DOMAIN contents /\ contents[streams[s].shared] \in Contents
<1>1. s \in DOMAIN streams /\ streams[s].kind = "file"
  BY DEF FileStreams, IsFile
<1>2. streams[s] \in Files
  BY <1>1 DEF StreamsFormed, Memories
<1>3. streams[s].shared \in DOMAIN contents
  BY <1>1 DEF ContentsFormed, Held
<1> QED BY <1>1, <1>2, <1>3 DEF ContentsFormed

LEMMA HeldIs == Held(streams) = {streams[s].shared : s \in FileStreams}
BY DEF Held, FileStreams, IsFile

LEMMA HeldNext == Held(streams') = {streams'[s].shared : s \in FileStreams'}
BY DEF Held, FileStreams, IsFile

\* The streams of files are the same, but for their marks.
SameFiles ==
  /\ FileStreams' = FileStreams
  /\ \A s \in FileStreams : /\ streams'[s].mode = streams[s].mode
                            /\ streams'[s].path = streams[s].path
                            /\ streams'[s].identity = streams[s].identity
                            /\ streams'[s].shared = streams[s].shared

LEMMA QuietStep ==
  ASSUME StreamsInv, SameFiles, UNCHANGED fileVars
  PROVE  DiskFormed' /\ ContentsFormed' /\ OneContents' /\ (~ Strays => Bound')
<1> USE DEF StreamsInv, Formed
<1>1. UNCHANGED <<contents, links, disk>>
  BY DEF fileVars
<1>2. DiskFormed'
  BY <1>1 DEF DiskFormed
<1>3. Held(streams') = Held(streams)
  <2>1. Held(streams') = {streams[s].shared : s \in FileStreams}
    BY HeldNext DEF SameFiles
  <2> QED BY <2>1, HeldIs
<1>4. ContentsFormed'
  BY <1>1, <1>3 DEF ContentsFormed
<1>5. OneContents'
  BY DEF OneContents, SameFiles
<1>6. ASSUME ~ Strays PROVE Bound'
  <2>1. \A s \in FileStreams : Unbound(s)' => Unbound(s)
    BY <1>1 DEF Unbound, SameFiles
  <2>2. Bound
    BY <1>6
  <2> QED BY <1>1, <2>1, <2>2 DEF Bound, SameFiles
<1> QED BY <1>2, <1>4, <1>5, <1>6

LEMMA WindowsStep ==
  ASSUME StreamsInv, TreeNext \/ LayoutNext \/ EchoNext, UNCHANGED fileVars
  PROVE  StreamsInv'
<1> USE DEF StreamsInv, Formed
<1>1. WindowInv' /\ OthersStay
  BY TreeStep, LayoutStep
<1>2. SameFiles
  BY <1>1 DEF OthersStay, SameFiles, FileStreams, IsFile
<1>3. StreamsFormed'
  BY <1>1 DEF OthersStay, StreamsFormed
<1> QED BY <1>1, <1>2, <1>3, QuietStep

-----------------------------------------------------------------------------
(* Marks *)

\* What a step of files and buffers leaves of the windows.
LEMMA WindowsStay ==
  ASSUME WindowInv, UNCHANGED <<windows, next_window, next_stream>>, DOMAIN streams' = DOMAIN streams,
         \A s \in DOMAIN streams : streams'[s].kind = streams[s].kind
  PROVE  WindowInv'
BY DEF WindowInv, WindowsFormed, WindowsApart, StreamsNumbered

LEMMA ClampedInside ==
  ASSUME NEW at \in Int, NEW length \in Nat
  PROVE  Clamped(at, length) \in 0 .. length
<1>1. Min({at, length}) = IF at <= length THEN at ELSE length
  BY DEF Min
<1>2. \A m \in Int : Max({0, m}) = IF m <= 0 THEN 0 ELSE m
  BY DEF Max
<1> QED BY <1>1, <1>2 DEF Clamped

LEMMA MaxOfTwo ==
  ASSUME NEW a \in Nat, NEW b \in Nat
  PROVE  Max({a, b}) = IF a <= b THEN b ELSE a
BY DEF Max

GoodMemory(m) ==
  /\ m \in Memories /\ m.position <= m.extent /\ m.extent <= m.length
  /\ m.mode # "write" => m.extent = m.length

\* The mark of a file or a buffer moves, or a buffer has been written further.
LEMMA OneMark ==
  ASSUME StreamsInv, NEW s \in DOMAIN streams, streams[s].kind # "window",
         NEW m, streams' = [streams EXCEPT ![s] = m], UNCHANGED <<windows, next_window, next_stream>>,
         streams[s].kind = "memory" => GoodMemory(m),
         streams[s].kind = "file" => /\ m \in Files /\ m.mode = streams[s].mode /\ m.path = streams[s].path
                                     /\ m.identity = streams[s].identity
                                     /\ m.shared = streams[s].shared
  PROVE  WindowInv' /\ StreamsFormed' /\ SameFiles
<1> USE DEF StreamsInv, Formed
<1>1. /\ DOMAIN streams' = DOMAIN streams /\ streams'[s] = m
      /\ \A t \in DOMAIN streams \ {s} : streams'[t] = streams[t]
  OBVIOUS
<1>2. \/ streams[s].kind = "memory" /\ GoodMemory(m)
      \/ streams[s].kind = "file" /\ m \in Files
  BY DEF StreamsFormed, Memories, Files
<1>3. m.kind = streams[s].kind
  BY <1>2 DEF GoodMemory, Memories, Files
<1>4. WindowInv'
  BY <1>1, <1>3, WindowsStay
<1>5. StreamsFormed'
  <2> SUFFICES ASSUME NEW t \in DOMAIN streams
               PROVE  streams'[t].kind = "window" \/ GoodMemory(streams'[t]) \/ streams'[t] \in Files
    BY <1>1 DEF StreamsFormed, GoodMemory
  <2>1. CASE t = s
    BY <1>1, <1>2, <2>1
  <2>2. CASE t # s
    <3>1. streams[t].kind = "window" \/ GoodMemory(streams[t]) \/ streams[t] \in Files
      BY DEF StreamsFormed, GoodMemory
    <3> QED BY <1>1, <2>2, <3>1
  <2> QED BY <2>1, <2>2
<1>6. FileStreams' = FileStreams
  BY <1>1, <1>3 DEF FileStreams, IsFile
<1>7. ASSUME NEW t \in FileStreams
      PROVE  /\ streams'[t].mode = streams[t].mode /\ streams'[t].path = streams[t].path
             /\ streams'[t].identity = streams[t].identity /\ streams'[t].shared = streams[t].shared
  <2>1. t \in DOMAIN streams /\ streams[t].kind = "file"
    BY DEF FileStreams, IsFile
  <2> QED BY <1>1, <2>1
<1> QED BY <1>4, <1>5, <1>6, <1>7 DEF SameFiles

\* Where nothing else changes.
LEMMA OnlyMark ==
  ASSUME StreamsInv, NEW s \in DOMAIN streams, streams[s].kind # "window",
         NEW m, streams' = [streams EXCEPT ![s] = m], UNCHANGED <<windows, next_window, next_stream>>,
         UNCHANGED fileVars,
         streams[s].kind = "memory" => GoodMemory(m),
         streams[s].kind = "file" => /\ m \in Files /\ m.mode = streams[s].mode /\ m.path = streams[s].path
                                     /\ m.identity = streams[s].identity
                                     /\ m.shared = streams[s].shared
  PROVE  StreamsInv'
<1>1. WindowInv' /\ StreamsFormed' /\ SameFiles
  BY OneMark
<1> QED BY <1>1, QuietStep DEF StreamsInv, Formed

LEMMA MemoryFacts ==
  ASSUME StreamsFormed, NEW s, IsMemory(s)
  PROVE  s \in DOMAIN streams /\ streams[s].kind = "memory" /\ GoodMemory(streams[s])
BY DEF IsMemory, StreamsFormed, Files, GoodMemory

LEMMA PositionMoved ==
  ASSUME NEW m, NEW position \in Nat
  PROVE  /\ m \in Memories => /\ [m EXCEPT !.position = position] \in Memories
                              /\ [m EXCEPT !.position = position].position = position
                              /\ [m EXCEPT !.position = position].extent = m.extent
                              /\ [m EXCEPT !.position = position].length = m.length
                              /\ [m EXCEPT !.position = position].mode = m.mode
         /\ m \in Files => /\ [m EXCEPT !.position = position] \in Files
                           /\ [m EXCEPT !.position = position].mode = m.mode
                           /\ [m EXCEPT !.position = position].path = m.path
                           /\ [m EXCEPT !.position = position].identity = m.identity
                           /\ [m EXCEPT !.position = position].shared = m.shared
BY DEF Memories, Files

LEMMA WriteMemoryStep ==
  ASSUME StreamsInv, NEW s, NEW v \in Values, WriteMemory(s, v)
  PROVE  StreamsInv'
<1> USE DEF StreamsInv, Formed
<1> DEFINE m == streams[s]
           e == Max({m.extent, m.position + 1})
           n == [m EXCEPT !.position = m.position + 1, !.extent = e]
<1>1. /\ s \in DOMAIN streams /\ m.kind = "memory" /\ GoodMemory(m)
      /\ m.mode # "read" /\ m.position < m.length
  BY MemoryFacts DEF WriteMemory
<1>2. /\ streams' = [streams EXCEPT ![s] = n]
      /\ UNCHANGED <<windows, next_window, next_stream>> /\ UNCHANGED fileVars
  BY DEF WriteMemory
<1>3. m.extent \in Nat /\ m.position \in Nat /\ m.length \in Nat /\ m.position <= m.extent /\ m.extent <= m.length
  BY <1>1 DEF GoodMemory, Memories
<1>4. e = IF m.extent <= m.position + 1 THEN m.position + 1 ELSE m.extent
  BY <1>3, MaxOfTwo
<1> HIDE DEF e, m
<1>5. e \in Nat /\ m.position + 1 \in Nat /\ m.position + 1 <= e /\ e <= m.length /\ (m.extent = m.length => e = m.length)
  BY <1>1, <1>3, <1>4
<1>6. /\ n \in Memories /\ n.position = m.position + 1 /\ n.extent = e
      /\ n.length = m.length /\ n.mode = m.mode
  BY <1>1, <1>5 DEF GoodMemory, Memories
<1>7. GoodMemory(n)
  BY <1>1, <1>5, <1>6 DEF GoodMemory
<1> HIDE DEF n
<1>8. streams[s].kind = "memory"
  BY <1>1 DEF m
<1> QED BY <1>1, <1>2, <1>7, <1>8, OnlyMark

LEMMA MarkStep ==
  ASSUME StreamsInv, NEW s, IsFile(s) \/ IsMemory(s), NEW position \in Nat,
         IsMemory(s) => position <= streams[s].extent,
         streams' = [streams EXCEPT ![s].position = position],
         UNCHANGED <<windows, next_window, next_stream>>, UNCHANGED fileVars
  PROVE  StreamsInv'
<1> USE DEF StreamsInv, Formed
<1> DEFINE m == [streams[s] EXCEPT !.position = position]
<1>1. streams' = [streams EXCEPT ![s] = m]
  OBVIOUS
<1>2. s \in DOMAIN streams /\ streams[s].kind # "window"
  BY DEF IsFile, IsMemory
<1>3. ASSUME streams[s].kind = "memory" PROVE GoodMemory(m)
  <2>1. IsMemory(s) /\ GoodMemory(streams[s])
    BY <1>2, <1>3, MemoryFacts DEF IsMemory
  <2> QED BY <2>1, PositionMoved DEF GoodMemory
<1>4. ASSUME streams[s].kind = "file"
      PROVE  /\ m \in Files /\ m.mode = streams[s].mode /\ m.path = streams[s].path
             /\ m.identity = streams[s].identity /\ m.shared = streams[s].shared
  <2>1. s \in FileStreams
    BY <1>2, <1>4 DEF FileStreams, IsFile
  <2> QED BY <2>1, FileFacts, PositionMoved
<1> HIDE DEF m
<1> QED BY <1>1, <1>2, <1>3, <1>4, OnlyMark

LEMMA ReadValueStep ==
  ASSUME StreamsInv, NEW s, ReadValue(s)
  PROVE  StreamsInv'
<1> USE DEF StreamsInv, Formed
<1>1. /\ IsFile(s) \/ IsMemory(s)
      /\ streams' = [streams EXCEPT ![s].position = streams[s].position + 1]
      /\ UNCHANGED <<windows, next_window, next_stream>> /\ UNCHANGED fileVars
  BY DEF ReadValue, ReadFile, ReadMemory
<1>2. CASE IsMemory(s)
  <2>1. GoodMemory(streams[s]) /\ streams[s].kind = "memory"
    BY <1>2, MemoryFacts
  <2>2. streams[s].mode # "write" /\ streams[s].position < streams[s].length
    BY <1>2, <2>1 DEF ReadValue, ReadFile, ReadMemory, IsFile
  <2>3. streams[s].position + 1 \in Nat /\ streams[s].position + 1 <= streams[s].extent
    BY <2>1, <2>2 DEF GoodMemory, Memories
  <2> QED BY <1>1, <2>3, MarkStep
<1>3. CASE IsFile(s)
  <2>1. s \in FileStreams /\ ~ IsMemory(s)
    BY <1>3 DEF FileStreams, IsFile, IsMemory
  <2>2. streams[s].position + 1 \in Nat
    BY <2>1, FileFacts DEF Files
  <2> QED BY <1>1, <2>1, <2>2, MarkStep
<1> QED BY <1>1, <1>2, <1>3

LEMMA SeekStep ==
  ASSUME StreamsInv, NEW s, NEW offset \in Offsets, NEW from \in {"start", "mark", "end"},
         Seek(s, offset, from)
  PROVE  StreamsInv'
<1> USE DEF StreamsInv, Formed
<1> DEFINE length == IF IsFile(s) THEN Len(contents[streams[s].shared].bytes) ELSE streams[s].extent
           base == CASE from = "start" -> 0 [] from = "mark" -> streams[s].position [] from = "end" -> length
           position == Clamped(base + offset, length)
<1>1. /\ IsFile(s) \/ IsMemory(s)
      /\ streams' = [streams EXCEPT ![s].position = position]
      /\ UNCHANGED <<windows, next_window, next_stream>> /\ UNCHANGED fileVars
  BY DEF Seek
<1>2. length \in Nat /\ streams[s].position \in Nat /\ (IsMemory(s) => length = streams[s].extent)
  <2>1. CASE IsMemory(s)
    <3>1. GoodMemory(streams[s]) /\ ~ IsFile(s)
      BY <2>1, MemoryFacts DEF IsFile
    <3> QED BY <3>1 DEF GoodMemory, Memories
  <2>2. CASE IsFile(s)
    <3>1. s \in FileStreams /\ ~ IsMemory(s)
      BY <2>2 DEF FileStreams, IsFile, IsMemory
    <3>2. streams[s].position \in Nat /\ contents[streams[s].shared].bytes \in Seq(Bytes)
      BY <3>1, FileFacts DEF Files, Contents
    <3> QED BY <2>2, <3>1, <3>2
  <2> QED BY <1>1, <2>1, <2>2
<1> HIDE DEF length
<1>3. base \in Nat
  BY <1>2
<1> HIDE DEF base
<1>4. position \in 0 .. length
  <2>1. offset \in Int
    BY StreamsAssumption
  <2>2. base + offset \in Int
    BY <1>3, <2>1
  <2> QED BY <1>2, <2>2, ClampedInside
<1> HIDE DEF position
<1>5. position \in Nat /\ position <= length
  BY <1>2, <1>4
<1> QED BY <1>1, <1>2, <1>5, MarkStep

LEMMA OverwrittenBytes ==
  ASSUME NEW bytes \in Seq(Bytes), NEW position \in Nat, NEW v \in Values
  PROVE  Overwritten(bytes, position, v) \in Seq(Bytes)
<1>1. Max({Len(bytes), position + 1}) \in Nat
  BY MaxOfTwo
<1> DEFINE n == Max({Len(bytes), position + 1})
<1> HIDE DEF n
<1>2. n \in Nat
  BY <1>1 DEF n
<1>3. [i \in 1 .. n |-> IF i = position + 1 THEN v ELSE IF i <= Len(bytes) THEN bytes[i] ELSE 0] \in Seq(Bytes)
  BY <1>2 DEF Bytes
<1> QED BY <1>3 DEF Overwritten, n

LEMMA WriteFileStep ==
  ASSUME StreamsInv, NEW s, NEW v \in Values, WriteFile(s, v)
  PROVE  StreamsInv'
<1> USE DEF StreamsInv, Formed
<1> DEFINE c == streams[s].shared
           m == [streams[s] EXCEPT !.position = streams[s].position + 1]
           b == Overwritten(contents[c].bytes, streams[s].position, v)
<1>1. s \in FileStreams /\ streams[s].mode # "read"
  BY DEF WriteFile, FileStreams, IsFile
<1>2. /\ s \in DOMAIN streams /\ streams[s] \in Files /\ streams[s].kind = "file"
      /\ c \in DOMAIN contents /\ contents[c] \in Contents
  BY <1>1, FileFacts
<1>3. /\ streams' = [streams EXCEPT ![s] = m]
      /\ contents' = [contents EXCEPT ![c] = [contents[c] EXCEPT !.bytes = b, !.dirty = TRUE]]
      /\ UNCHANGED <<windows, next_window, next_stream, links, disk>>
  BY DEF WriteFile
<1>4. b \in Seq(Bytes)
  BY <1>2, OverwrittenBytes DEF Files, Contents
<1>5. /\ m \in Files /\ m.mode = streams[s].mode /\ m.path = streams[s].path
      /\ m.identity = streams[s].identity /\ m.shared = streams[s].shared
  <2>1. streams[s].position + 1 \in Nat
    BY <1>2 DEF Files
  <2> QED BY <1>2, <2>1, PositionMoved
<1> HIDE DEF m, b, c
<1>6. WindowInv' /\ StreamsFormed' /\ SameFiles
  BY <1>2, <1>3, <1>5, OneMark
<1>7. /\ DOMAIN contents' = DOMAIN contents /\ contents'[c] \in Contents
      /\ contents'[c].dirty = TRUE /\ contents'[c].out = contents[c].out
      /\ \A d \in DOMAIN contents \ {c} : contents'[d] = contents[d]
  BY <1>2, <1>3, <1>4 DEF Contents
<1>8. DiskFormed'
  BY <1>3 DEF DiskFormed
<1>9. ContentsFormed'
  <2>1. Held(streams') = Held(streams)
    <3>1. Held(streams') = {streams[t].shared : t \in FileStreams}
      BY <1>6, HeldNext DEF SameFiles
    <3> QED BY <3>1, HeldIs
  <2> QED BY <1>7, <2>1 DEF ContentsFormed
<1>10. OneContents'
  BY <1>6 DEF OneContents, SameFiles
<1>11. ASSUME ~ Strays PROVE Bound'
  <2> SUFFICES ASSUME NEW t \in FileStreams
               PROVE  LET d == contents'[streams[t].shared] IN
                      /\ streams[t].identity \in DOMAIN disk
                      /\ d.out \in {None, streams[t].identity}
                      /\ Unbound(t)' => links[streams[t].path] = streams[t].identity
                      /\ ~ d.dirty => disk[streams[t].identity] = d.bytes
    BY <1>3, <1>6 DEF Bound, SameFiles
  <2>1. LET d == contents[streams[t].shared] IN
        /\ streams[t].identity \in DOMAIN disk
        /\ d.out \in {None, streams[t].identity}
        /\ Unbound(t) => links[streams[t].path] = streams[t].identity
        /\ ~ d.dirty => disk[streams[t].identity] = d.bytes
    BY <1>11 DEF Bound
  <2>2. streams[t].shared \in DOMAIN contents
    BY FileFacts
  <2>3. CASE streams[t].shared = c
    <3>1. Unbound(t)' => Unbound(t)
      BY <1>1, <1>6, <1>7, <2>3 DEF Unbound, SameFiles, c
    <3> QED BY <1>7, <2>1, <2>3, <3>1
  <2>4. CASE streams[t].shared # c
    <3>1. contents'[streams[t].shared] = contents[streams[t].shared]
      BY <1>7, <2>2, <2>4
    <3>2. Unbound(t)' => Unbound(t)
      BY <1>6, <3>1 DEF Unbound, SameFiles
    <3> QED BY <2>1, <3>1, <3>2
  <2> QED BY <2>3, <2>4
<1> QED BY <1>6, <1>8, <1>9, <1>10, <1>11

-----------------------------------------------------------------------------
(* Opening and closing *)

LEMMA OpenMemoryStep ==
  ASSUME StreamsInv, NEW mode \in Modes \ {"append"}, NEW length \in Lengths, OpenMemory(mode, length)
  PROVE  StreamsInv'
<1> USE DEF StreamsInv, Formed, WindowInv
<1> DEFINE m == MemoryStream(mode, length)
<1>1. /\ next_stream' \in Nat \ {0} /\ StreamsNumbered' /\ next_stream \notin DOMAIN streams
      /\ DOMAIN streams' = DOMAIN streams \cup {next_stream}
      /\ streams'[next_stream] = m
      /\ \A s \in DOMAIN streams : streams'[s] = streams[s]
      /\ next_stream' = next_stream + 1
  BY AddedStream DEF OpenMemory
<1>2. UNCHANGED <<windows, next_window>> /\ UNCHANGED fileVars
  BY DEF OpenMemory
<1>3. length \in Nat
  BY StreamsAssumption
<1>4. GoodMemory(m) /\ m.kind = "memory"
  BY <1>3 DEF MemoryStream, GoodMemory, Memories
<1> HIDE DEF m
<1>5. WindowsFormed'
  BY <1>1, <1>2 DEF WindowsFormed
<1>6. WindowsApart'
  <2>1. \A i \in DOMAIN windows : windows[i].stream # next_stream
    BY DEF WindowsFormed
  <2> QED BY <1>1, <1>2, <2>1 DEF WindowsApart
<1>7. StreamsFormed'
  BY <1>1, <1>4 DEF StreamsFormed, GoodMemory
<1>8. SameFiles
  <2>1. FileStreams' = FileStreams
    BY <1>1, <1>4 DEF FileStreams, IsFile
  <2>2. \A s \in FileStreams : streams'[s] = streams[s]
    BY <1>1 DEF FileStreams
  <2> QED BY <2>1, <2>2 DEF SameFiles
<1> QED BY <1>1, <1>2, <1>5, <1>6, <1>7, <1>8, QuietStep

\* A stream that closes takes the references to it along.
LEMMA DetachedStep ==
  ASSUME WindowInv, StreamsFormed, NEW s, Detached(s)
  PROVE  /\ WindowInv' /\ StreamsFormed'
         /\ FileStreams' = FileStreams \ {s}
         /\ \A t \in FileStreams \ {s} : streams'[t] = streams[t]
<1> USE DEF WindowInv
<1>1. /\ streams' = [t \in DOMAIN streams \ {s} |-> streams[t]]
      /\ windows' = [i \in DOMAIN windows |-> [windows[i] EXCEPT !.echo = IF @ = s THEN 0 ELSE @]]
      /\ UNCHANGED <<next_window, next_stream>>
  BY DEF Detached, Restrict
<1>2. Moved(windows')
  <2>1. DOMAIN windows' = DOMAIN windows
    BY <1>1
  <2>2. ASSUME NEW i \in DOMAIN windows
        PROVE  /\ IsWindow(windows'[i])
               /\ windows'[i].stream = windows[i].stream /\ windows'[i].reversed = windows[i].reversed
    <3>1. windows'[i] = [windows[i] EXCEPT !.echo = IF @ = s THEN 0 ELSE @]
      BY <1>1
    <3>2. IsWindow(windows[i])
      BY DEF WindowsFormed
    <3> QED BY <3>1, <3>2 DEF IsWindow, Fields
  <2> QED BY <2>1, <2>2 DEF Moved
<1>3. DOMAIN streams' \subseteq DOMAIN streams /\ \A t \in DOMAIN streams' : streams'[t] = streams[t]
  BY <1>1
<1>4. WindowsFormed' /\ WindowsApart'
  BY <1>1, <1>2, <1>3, MovedStep
<1> QED BY <1>1, <1>3, <1>4 DEF StreamsNumbered, StreamsFormed, FileStreams, IsFile

LEMMA CloseMemoryStep ==
  ASSUME StreamsInv, NEW s, CloseMemory(s)
  PROVE  StreamsInv'
<1> USE DEF StreamsInv, Formed
<1>1. Detached(s) /\ IsMemory(s) /\ UNCHANGED fileVars
  BY DEF CloseMemory
<1>2. /\ WindowInv' /\ StreamsFormed' /\ FileStreams' = FileStreams \ {s}
      /\ \A t \in FileStreams \ {s} : streams'[t] = streams[t]
  BY <1>1, DetachedStep
<1>3. s \notin FileStreams
  BY <1>1 DEF FileStreams, IsFile, IsMemory
<1>4. SameFiles
  BY <1>2, <1>3 DEF SameFiles
<1> QED BY <1>1, <1>2, <1>4, QuietStep

-----------------------------------------------------------------------------
(* The file system *)

\* A path leads to its file or, where there is room, to a new one.
LEMMA NodeFacts ==
  ASSUME DiskFormed, NEW path \in Paths, links[path] # None \/ CanMake
  PROVE  /\ NodeOf(path) \in Nodes
         /\ links[path] # None => NodeOf(path) = links[path] /\ NodeOf(path) \in DOMAIN disk
         /\ links[path] = None => NodeOf(path) \notin DOMAIN disk
<1>1. CASE links[path] # None
  BY <1>1 DEF DiskFormed, NodeOf
<1>2. CASE links[path] = None
  <2>1. \E n \in Nodes : n \notin DOMAIN disk
    BY <1>2 DEF CanMake, DiskFormed
  <2>2. FreshNode \in Nodes /\ FreshNode \notin DOMAIN disk
    BY <2>1, Zenon DEF FreshNode
  <2> QED BY <1>2, <2>2 DEF NodeOf
<1> QED BY <1>1, <1>2

\* A file is opened, or made, and given contents.
LEMMA DiskWritten ==
  ASSUME DiskFormed, NEW path \in Paths, NEW node \in Nodes, NEW bytes \in Seq(Bytes),
         links' \in {links, [links EXCEPT ![path] = node]}, disk' = With(disk, node, bytes)
  PROVE  /\ DiskFormed' /\ DOMAIN disk' = DOMAIN disk \cup {node} /\ disk'[node] = bytes
         /\ \A n \in DOMAIN disk \ {node} : disk'[n] = disk[n]
<1>1. /\ DOMAIN disk' = DOMAIN disk \cup {node} /\ disk'[node] = bytes
      /\ \A n \in DOMAIN disk \ {node} : disk'[n] = disk[n]
  BY DEF With
<1>2. \A n \in DOMAIN disk' : disk'[n] \in Seq(Bytes)
  BY <1>1 DEF DiskFormed
<1>3. links' \in [Paths -> Nodes \cup {None}]
  BY DEF DiskFormed
<1>4. \A q \in Paths : links'[q] = None \/ links'[q] \in DOMAIN disk'
  BY <1>1 DEF DiskFormed
<1> QED BY <1>1, <1>2, <1>3, <1>4 DEF DiskFormed

LEMMA DeleteStep ==
  ASSUME StreamsInv, NEW path \in Paths, Delete(path)
  PROVE  StreamsInv'
<1> USE DEF StreamsInv, Formed
<1>1. /\ links' = [links EXCEPT ![path] = None]
      /\ UNCHANGED <<windows, next_window, streams, next_stream, contents, disk>>
      /\ Strays \/ \A s \in FileStreams : Unbound(s) => streams[s].path # path
  BY DEF Delete, winVars
<1>2. WindowInv' /\ StreamsFormed' /\ ContentsFormed' /\ OneContents' /\ FileStreams' = FileStreams
  BY <1>1 DEF WindowInv, WindowsFormed, WindowsApart, StreamsNumbered, StreamsFormed, ContentsFormed,
              OneContents, FileStreams, IsFile, Held
<1>3. DiskFormed'
  BY <1>1 DEF DiskFormed
<1>4. ASSUME ~ Strays PROVE Bound'
  <2>1. \A s \in FileStreams : Unbound(s)' => Unbound(s)
    BY <1>1, <1>2 DEF Unbound
  <2>2. \A s \in FileStreams : streams[s].path # path => links'[streams[s].path] = links[streams[s].path]
    <3>1. \A s \in FileStreams : streams[s].path \in Paths
      BY FileFacts DEF Files
    <3> QED BY <1>1, <3>1 DEF DiskFormed
  <2> QED BY <1>1, <1>2, <1>4, <2>1, <2>2 DEF Bound
<1> QED BY <1>2, <1>3, <1>4

-----------------------------------------------------------------------------
(* Writing and closing *)

\* The file that contents are written to.
Destination(s) ==
  IF contents[streams[s].shared].out = None THEN NodeOf(streams[s].path)
  ELSE contents[streams[s].shared].out

LEMMA DestinationFacts ==
  ASSUME StreamsInv, NEW s \in FileStreams, NeedsFlush(s), CanFlush(s)
  PROVE  /\ Destination(s) \in Nodes
         /\ ~ Strays => /\ Destination(s) = streams[s].identity
                        /\ contents[streams[s].shared].out = None =>
                             links[streams[s].path] = Destination(s)
<1> USE DEF StreamsInv, Formed
<1> DEFINE c == streams[s].shared
           path == streams[s].path
<1>1. /\ contents[c] \in Contents /\ path \in Paths /\ contents[c].dirty = TRUE
  BY FileFacts DEF Files, NeedsFlush, Contents
<1>2. CASE contents[c].out # None
  <2>1. Destination(s) = contents[c].out
    BY <1>2 DEF Destination
  <2> QED BY <1>1, <1>2, <2>1 DEF Contents, Bound
<1>3. CASE contents[c].out = None
  <2>1. Destination(s) = NodeOf(path)
    BY <1>3 DEF Destination
  <2>2. links[path] # None \/ CanMake
    BY <1>3 DEF CanFlush
  <2>3. NodeOf(path) \in Nodes /\ (links[path] # None => NodeOf(path) = links[path])
    BY <1>1, <2>2, NodeFacts
  <2>4. ASSUME ~ Strays
        PROVE  Destination(s) = streams[s].identity /\ links[path] = Destination(s)
    <3>1. Unbound(s)
      BY <1>1, <1>3 DEF Unbound
    <3>2. links[path] = streams[s].identity /\ streams[s].identity \in DOMAIN disk
      BY <2>4, <3>1 DEF Bound
    <3>3. links[path] # None
      BY <3>2, StreamsAssumption DEF DiskFormed
    <3> QED BY <2>1, <2>3, <3>2, <3>3
  <2> QED BY <2>1, <2>3, <2>4
<1> QED BY <1>2, <1>3

\* Streams of files may go, and with them what they alone held.
Shed ==
  /\ FileStreams' \subseteq FileStreams
  /\ \A t \in FileStreams' : streams'[t] = streams[t]
  /\ DOMAIN contents' = Held(streams')

LEMMA ShedHeld ==
  ASSUME StreamsInv, Shed
  PROVE  Held(streams') \subseteq DOMAIN contents
<1>1. Held(streams') = {streams[s].shared : s \in FileStreams'}
  BY HeldNext DEF Shed
<1> QED BY <1>1, HeldIs DEF StreamsInv, Formed, ContentsFormed, Shed

LEMMA ShedUnbound ==
  ASSUME Shed, NEW t \in FileStreams', contents'[streams[t].shared] = contents[streams[t].shared]
  PROVE  Unbound(t)' => Unbound(t)
BY DEF Unbound, Shed

LEMMA ShedOne ==
  ASSUME OneContents, Shed
  PROVE  OneContents'
BY DEF OneContents, Shed

LEMMA ShedStep ==
  ASSUME StreamsInv, Shed, WindowInv', StreamsFormed', UNCHANGED <<links, disk>>,
         \A d \in DOMAIN contents' : contents'[d] = contents[d]
  PROVE  StreamsInv'
<1> USE DEF StreamsInv, Formed
<1>1. DiskFormed'
  BY DEF DiskFormed
<1>2. ContentsFormed'
  BY ShedHeld DEF ContentsFormed, Shed
<1>3. OneContents'
  BY ShedOne
<1>4. ASSUME ~ Strays, NEW t \in FileStreams'
      PROVE  LET c == contents'[streams'[t].shared] IN
             /\ streams'[t].identity \in DOMAIN disk'
             /\ c.out \in {None, streams'[t].identity}
             /\ Unbound(t)' => links'[streams'[t].path] = streams'[t].identity
             /\ ~ c.dirty => disk'[streams'[t].identity] = c.bytes
  <2>1. t \in FileStreams /\ streams'[t] = streams[t]
    BY DEF Shed
  <2>2. streams[t].shared \in DOMAIN contents'
    BY <2>1, HeldNext DEF Shed
  <2>3. contents'[streams[t].shared] = contents[streams[t].shared]
    BY <2>2
  <2>4. Unbound(t)' => Unbound(t)
    BY <2>3, ShedUnbound
  <2> QED BY <1>4, <2>1, <2>3, <2>4 DEF Bound
<1>5. ~ Strays => Bound'
  BY <1>4 DEF Bound
<1> QED BY <1>1, <1>2, <1>3, <1>5

LEMMA WrittenStep ==
  ASSUME StreamsInv, Shed, WindowInv', StreamsFormed',
         NEW s \in FileStreams, NeedsFlush(s), CanFlush(s),
         \A d \in DOMAIN contents' :
            contents'[d] = IF d = streams[s].shared
                           THEN [contents[d] EXCEPT !.dirty = FALSE, !.out = Destination(s)]
                           ELSE contents[d],
         disk' = With(disk, Destination(s), contents[streams[s].shared].bytes),
         links' = IF contents[streams[s].shared].out = None
                  THEN [links EXCEPT ![streams[s].path] = Destination(s)] ELSE links
  PROVE  StreamsInv'
<1> USE DEF StreamsInv, Formed
<1> DEFINE c == streams[s].shared
           node == Destination(s)
           path == streams[s].path
<1>1. /\ node \in Nodes
      /\ ~ Strays => node = streams[s].identity /\ (contents[c].out = None => links[path] = node)
  BY DestinationFacts
<1>2. path \in Paths /\ c \in DOMAIN contents /\ contents[c] \in Contents /\ contents[c].bytes \in Seq(Bytes)
  BY FileFacts DEF Files, Contents
<1> HIDE DEF node
<1>3. /\ links' \in {links, [links EXCEPT ![path] = node]}
      /\ disk' = With(disk, node, contents[c].bytes)
      /\ \A d \in DOMAIN contents' :
           contents'[d] = IF d = c THEN [contents[d] EXCEPT !.dirty = FALSE, !.out = node] ELSE contents[d]
  BY DEF node
<1>4. /\ DiskFormed' /\ DOMAIN disk' = DOMAIN disk \cup {node} /\ disk'[node] = contents[c].bytes
      /\ \A n \in DOMAIN disk \ {node} : disk'[n] = disk[n]
  BY <1>1, <1>2, <1>3, DiskWritten
<1> HIDE DEF c, path
<1>5. /\ c \in DOMAIN contents' => /\ contents'[c] \in Contents /\ contents'[c].bytes = contents[c].bytes
                                   /\ contents'[c].dirty = FALSE /\ contents'[c].out = node
      /\ \A d \in DOMAIN contents' \ {c} : contents'[d] = contents[d]
  BY <1>1, <1>2, <1>3 DEF Contents
<1>6. ContentsFormed'
  BY <1>5, ShedHeld DEF ContentsFormed, Shed
<1>7. OneContents'
  BY ShedOne
<1>8. ASSUME ~ Strays, NEW t \in FileStreams'
      PROVE  LET b == contents'[streams'[t].shared] IN
             /\ streams'[t].identity \in DOMAIN disk'
             /\ b.out \in {None, streams'[t].identity}
             /\ Unbound(t)' => links'[streams'[t].path] = streams'[t].identity
             /\ ~ b.dirty => disk'[streams'[t].identity] = b.bytes
  <2>1. t \in FileStreams /\ streams'[t] = streams[t]
    BY DEF Shed
  <2>2. streams[t].shared \in DOMAIN contents'
    BY <2>1, HeldNext DEF Shed
  <2>3. (streams[s].identity = streams[t].identity) <=> (c = streams[t].shared)
    BY <2>1 DEF OneContents, c
  <2>4. CASE streams[t].shared = c
    <3>1. streams[t].identity = node
      BY <1>1, <1>8, <2>3, <2>4
    <3>2. ~ Unbound(t)'
      BY <1>1, <1>5, <2>1, <2>2, <2>4, StreamsAssumption DEF Unbound
    <3> QED BY <1>4, <1>5, <2>1, <2>2, <2>4, <3>1, <3>2
  <2>5. CASE streams[t].shared # c
    <3>1. contents'[streams[t].shared] = contents[streams[t].shared]
      BY <1>5, <2>2, <2>5
    <3>2. streams[t].identity # node
      BY <1>1, <1>8, <2>3, <2>5
    <3>3. Unbound(t)' => Unbound(t)
      BY <3>1, ShedUnbound
    <3>4. streams[t].path \in Paths
      BY <2>1, FileFacts DEF Files
    <3>5. links'[streams[t].path] = links[streams[t].path]
      BY <1>1, <1>3, <1>8, <3>4 DEF DiskFormed, node, c, path
    <3>6. LET b == contents[streams[t].shared] IN
          /\ streams[t].identity \in DOMAIN disk
          /\ b.out \in {None, streams[t].identity}
          /\ Unbound(t) => links[streams[t].path] = streams[t].identity
          /\ ~ b.dirty => disk[streams[t].identity] = b.bytes
      BY <1>8, <2>1 DEF Bound
    <3>7. disk'[streams[t].identity] = disk[streams[t].identity] /\ streams[t].identity \in DOMAIN disk'
      BY <1>4, <3>2, <3>6
    <3> QED BY <2>1, <3>1, <3>3, <3>5, <3>6, <3>7
  <2> QED BY <2>4, <2>5
<1>9. ~ Strays => Bound'
  BY <1>8 DEF Bound
<1> QED BY <1>4, <1>6, <1>7, <1>9

LEMMA FlushStep ==
  ASSUME StreamsInv, NEW s \in FileStreams, Flush(s)
  PROVE  StreamsInv'
<1> USE DEF StreamsInv, Formed
<1>1. /\ NeedsFlush(s) /\ CanFlush(s) /\ UNCHANGED <<windows, next_window, streams, next_stream>>
      /\ contents' = [contents EXCEPT ![streams[s].shared].dirty = FALSE,
                                      ![streams[s].shared].out = Destination(s)]
      /\ disk' = With(disk, Destination(s), contents[streams[s].shared].bytes)
      /\ links' = IF contents[streams[s].shared].out = None
                  THEN [links EXCEPT ![streams[s].path] = Destination(s)] ELSE links
  BY DEF Flush, FlushOne, Destination, winVars
<1>2. WindowInv' /\ StreamsFormed' /\ FileStreams' = FileStreams /\ Held(streams') = Held(streams)
  BY <1>1 DEF WindowInv, WindowsFormed, WindowsApart, StreamsNumbered, StreamsFormed, FileStreams, IsFile
<1>3. DOMAIN contents' = DOMAIN contents
      /\ \A d \in DOMAIN contents :
           contents'[d] = IF d = streams[s].shared
                          THEN [contents[d] EXCEPT !.dirty = FALSE, !.out = Destination(s)]
                          ELSE contents[d]
  BY <1>1
<1>4. Shed
  BY <1>1, <1>2, <1>3 DEF Shed, ContentsFormed
<1> QED BY <1>1, <1>2, <1>3, <1>4, WrittenStep

LEMMA CloseFileStep ==
  ASSUME StreamsInv, NEW s \in FileStreams, CloseFile(s)
  PROVE  StreamsInv'
<1> USE DEF StreamsInv, Formed
<1> DEFINE c == streams[s].shared
<1>1. /\ Detached(s) /\ (NeedsFlush(s) => CanFlush(s))
      /\ contents' = [d \in DOMAIN contents \cap Held(streams') |->
                        IF d = c /\ NeedsFlush(s)
                        THEN [contents[d] EXCEPT !.dirty = FALSE, !.out = Destination(s)]
                        ELSE contents[d]]
      /\ disk' = IF NeedsFlush(s) THEN With(disk, Destination(s), contents[c].bytes) ELSE disk
      /\ links' = IF NeedsFlush(s) /\ contents[c].out = None
                  THEN [links EXCEPT ![streams[s].path] = Destination(s)] ELSE links
  BY DEF CloseFile, Destination
<1>2. /\ WindowInv' /\ StreamsFormed' /\ FileStreams' = FileStreams \ {s}
      /\ \A t \in FileStreams \ {s} : streams'[t] = streams[t]
  BY <1>1, DetachedStep
<1>3. Held(streams') \subseteq DOMAIN contents
  <2>1. Held(streams') = {streams[t].shared : t \in FileStreams \ {s}}
    BY <1>2, HeldNext
  <2> QED BY <2>1, HeldIs DEF ContentsFormed
<1>4. Shed
  BY <1>1, <1>2, <1>3 DEF Shed
<1>5. CASE NeedsFlush(s)
  BY <1>1, <1>2, <1>4, <1>5, WrittenStep
<1>6. CASE ~ NeedsFlush(s)
  BY <1>1, <1>2, <1>4, <1>6, ShedStep
<1> QED BY <1>5, <1>6

LEMMA CloseFileFailsStep ==
  ASSUME StreamsInv, NEW s \in FileStreams, CloseFileFails(s)
  PROVE  StreamsInv'
<1> USE DEF StreamsInv, Formed
<1>1. /\ Detached(s) /\ UNCHANGED <<links, disk>>
      /\ contents' = [d \in Held(streams') |-> contents[d]]
  BY DEF CloseFileFails, Restrict
<1>2. /\ WindowInv' /\ StreamsFormed' /\ FileStreams' = FileStreams \ {s}
      /\ \A t \in FileStreams \ {s} : streams'[t] = streams[t]
  BY <1>1, DetachedStep
<1>3. Shed
  BY <1>1, <1>2 DEF Shed
<1> QED BY <1>1, <1>2, <1>3, ShedStep

-----------------------------------------------------------------------------
(* Opening a file *)

\* There is a number left for contents: each is held by a stream, and streams are few.
LEMMA NewIdFresh ==
  ASSUME StreamsInv, next_stream <= StreamLimit
  PROVE  NewId \in 1 .. StreamLimit /\ NewId \notin DOMAIN contents
<1> USE DEF StreamsInv, Formed, WindowInv
<1>1. ASSUME 1 .. StreamLimit \subseteq DOMAIN contents PROVE FALSE
  <2> DEFINE holder == [c \in 1 .. StreamLimit |-> CHOOSE s \in FileStreams : streams[s].shared = c]
             S == 1 .. next_stream - 1
  <2>1. \A c \in 1 .. StreamLimit : \E s \in FileStreams : streams[s].shared = c
    BY <1>1, HeldIs DEF ContentsFormed
  <2>2. \A c \in 1 .. StreamLimit : holder[c] \in FileStreams /\ streams[holder[c]].shared = c
    BY <2>1
  <2>3. FileStreams \subseteq S
    BY DEF FileStreams, StreamsNumbered
  <2>4. holder \in [1 .. StreamLimit -> S]
    BY <2>2, <2>3
  <2>5. next_stream \in Nat \ {0} /\ StreamLimit \in Nat
    BY StreamsAssumption DEF WindowsFormed
  <2>6. /\ IsFiniteSet(S) /\ Cardinality(S) = next_stream - 1
        /\ IsFiniteSet(1 .. StreamLimit) /\ Cardinality(1 .. StreamLimit) = StreamLimit
    BY <2>5, FS_Interval
  <2> HIDE DEF holder, S
  <2>7. Cardinality(S) < Cardinality(1 .. StreamLimit)
    BY <2>5, <2>6
  <2>8. \E x, y \in 1 .. StreamLimit : x # y /\ holder[x] = holder[y]
    BY <2>4, <2>6, <2>7, FS_PigeonHole
  <2> QED BY <2>2, <2>8
<1>2. \E c \in 1 .. StreamLimit : c \notin DOMAIN contents
  BY <1>1
<1> QED BY <1>2, Zenon DEF NewId

LEMMA StoredBytes ==
  ASSUME DiskFormed, NEW path \in Paths
  PROVE  Stored(path) \in Seq(Bytes)
BY DEF DiskFormed, Stored

\* What the streams of a file share, if there are any, and what a new one gets.
Given(path, mode) ==
  LET node == NodeOf(path)
  IN  IF Sharing(node) = {} THEN Loaded(path, node, mode) ELSE Joined(SharedAs(node), node, mode)

LEMMA SharedFacts ==
  ASSUME StreamsInv, next_stream <= StreamLimit, NEW node
  PROVE  /\ SharedAs(node) \in Nat
         /\ \A s \in FileStreams : (streams[s].identity = node) <=> (streams[s].shared = SharedAs(node))
         /\ Sharing(node) # {} => \E s \in FileStreams : /\ streams[s].identity = node
                                                         /\ streams[s].shared = SharedAs(node)
         /\ Sharing(node) = {} => SharedAs(node) \notin DOMAIN contents
<1> USE DEF StreamsInv, Formed
<1>1. CASE Sharing(node) = {}
  <2>1. SharedAs(node) = NewId
    BY <1>1 DEF SharedAs
  <2>2. NewId \in 1 .. StreamLimit /\ NewId \notin DOMAIN contents
    BY NewIdFresh
  <2>3. \A s \in FileStreams : streams[s].identity # node
    BY <1>1 DEF Sharing
  <2>4. \A s \in FileStreams : streams[s].shared \in DOMAIN contents
    BY FileFacts
  <2>5. NewId \in Nat
    BY <2>2, StreamsAssumption
  <2> QED BY <1>1, <2>1, <2>2, <2>3, <2>4, <2>5
<1>2. CASE Sharing(node) # {}
  <2>1. SharedAs(node) \in Sharing(node)
    BY <1>2 DEF SharedAs
  <2>2. PICK t \in FileStreams : streams[t].identity = node /\ streams[t].shared = SharedAs(node)
    BY <2>1 DEF Sharing
  <2>3. streams[t].shared \in Nat
    BY FileFacts DEF Files
  <2>4. \A s \in FileStreams : (streams[s].identity = streams[t].identity) <=> (streams[s].shared = streams[t].shared)
    BY DEF OneContents
  <2> QED BY <1>2, <2>2, <2>3, <2>4
<1> QED BY <1>1, <1>2

LEMMA GivenFacts ==
  ASSUME StreamsInv, next_stream <= StreamLimit, NEW path \in Paths, NEW mode \in Modes,
         NodeOf(path) \in Nodes
  PROVE  Given(path, mode) \in Contents
<1> USE DEF StreamsInv, Formed
<1> DEFINE node == NodeOf(path)
           c == SharedAs(node)
<1>1. CASE Sharing(node) = {}
  <2>1. Given(path, mode) = Loaded(path, node, mode)
    BY <1>1 DEF Given
  <2>2. Stored(path) \in Seq(Bytes) /\ <<>> \in Seq(Bytes)
    BY StoredBytes
  <2> QED BY <2>1, <2>2 DEF Loaded, Contents
<1>2. CASE Sharing(node) # {}
  <2>1. Given(path, mode) = Joined(c, node, mode)
    BY <1>2 DEF Given
  <2>2. PICK t \in FileStreams : streams[t].shared = c
    BY <1>2, SharedFacts
  <2>3. contents[c] \in Contents
    BY <2>2, FileFacts
  <2>4. <<>> \in Seq(Bytes)
    OBVIOUS
  <2> HIDE DEF c
  <2> QED BY <2>1, <2>3, <2>4 DEF Joined, Contents
<1> QED BY <1>1, <1>2

LEMMA OpenFileStep ==
  ASSUME StreamsInv, NEW path \in Paths, NEW mode \in Modes, OpenFile(path, mode)
  PROVE  StreamsInv'
<1> USE DEF StreamsInv, Formed, WindowInv
<1> DEFINE node == NodeOf(path)
           c == SharedAs(node)
           new == Given(path, mode)
           bytes == IF mode = "write" THEN <<>> ELSE Stored(path)
           s == next_stream
           st == FileStream(mode, path, node, c, IF mode = "append" THEN Len(new.bytes) ELSE 0)
<1>1. /\ next_stream <= StreamLimit
      /\ links[path] = None => CanMake
      /\ links' = [links EXCEPT ![path] = node] /\ disk' = With(disk, node, bytes)
      /\ contents' = With(contents, c, new)
      /\ AddStream(st)
      /\ UNCHANGED <<windows, next_window>>
  BY DEF OpenFile, Opened, Given
<1>2. /\ node \in Nodes
      /\ links[path] # None => node = links[path] /\ node \in DOMAIN disk
      /\ links[path] = None => node \notin DOMAIN disk
  BY <1>1, NodeFacts
<1>3. /\ c \in Nat
      /\ \A t \in FileStreams : (streams[t].identity = node) <=> (streams[t].shared = c)
      /\ Sharing(node) # {} => \E t \in FileStreams : streams[t].identity = node /\ streams[t].shared = c
      /\ Sharing(node) = {} => c \notin DOMAIN contents
  BY <1>1, SharedFacts
<1>4. new \in Contents
  BY <1>1, <1>2, GivenFacts
<1>5. bytes \in Seq(Bytes)
  BY StoredBytes
<1>6. new = IF Sharing(node) = {} THEN Loaded(path, node, mode) ELSE Joined(c, node, mode)
  BY DEF Given
<1>7. /\ st \in Files /\ st.kind = "file" /\ st.path = path /\ st.identity = node
      /\ st.shared = c /\ st.mode = mode
  <2>1. Len(new.bytes) \in Nat
    BY <1>4 DEF Contents
  <2> HIDE DEF new, c, node
  <2> QED BY <1>2, <1>3, <2>1 DEF FileStream, Files
<1> HIDE DEF new, c, node, st
<1>8. /\ next_stream' \in Nat \ {0} /\ StreamsNumbered' /\ s \notin DOMAIN streams
      /\ DOMAIN streams' = DOMAIN streams \cup {s}
      /\ streams'[s] = st
      /\ \A t \in DOMAIN streams : streams'[t] = streams[t]
      /\ next_stream' = s + 1
  BY <1>1, AddedStream
<1>9. /\ FileStreams' = FileStreams \cup {s}
      /\ s \notin FileStreams /\ \A t \in FileStreams : streams'[t] = streams[t]
  BY <1>7, <1>8 DEF FileStreams, IsFile
<1>10. WindowInv' /\ StreamsFormed'
  <2>1. WindowsFormed'
    BY <1>1, <1>8 DEF WindowsFormed
  <2>2. \A i \in DOMAIN windows : windows[i].stream # s
    BY DEF WindowsFormed
  <2>3. WindowsApart'
    BY <1>1, <1>8, <2>2 DEF WindowsApart
  <2>4. StreamsFormed'
    BY <1>7, <1>8 DEF StreamsFormed
  <2> QED BY <1>8, <2>1, <2>3, <2>4
<1>11. /\ DiskFormed' /\ DOMAIN disk' = DOMAIN disk \cup {node} /\ disk'[node] = bytes
       /\ \A n \in DOMAIN disk \ {node} : disk'[n] = disk[n]
  <2> HIDE DEF bytes
  <2>1. links' \in {links, [links EXCEPT ![path] = node]}
    BY <1>1
  <2> QED BY <1>1, <1>2, <1>5, <2>1, DiskWritten
<1>12. /\ DOMAIN contents' = DOMAIN contents \cup {c} /\ contents'[c] = new
       /\ \A d \in DOMAIN contents \ {c} : contents'[d] = contents[d]
  BY <1>1 DEF With
<1>13. ContentsFormed'
  <2>1. Held(streams') = {streams'[t].shared : t \in FileStreams \cup {s}}
    BY <1>9, HeldNext
  <2>2. Held(streams') = Held(streams) \cup {c}
    BY <1>7, <1>8, <1>9, <2>1, HeldIs
  <2> QED BY <1>4, <1>12, <2>2 DEF ContentsFormed
<1>14. OneContents'
  <2>1. ASSUME NEW t \in FileStreams', NEW u \in FileStreams'
        PROVE  (streams'[t].identity = streams'[u].identity) <=> (streams'[t].shared = streams'[u].shared)
    <3>1. CASE t \in FileStreams /\ u \in FileStreams
      BY <1>9, <3>1 DEF OneContents
    <3>2. CASE t \in FileStreams /\ u = s
      BY <1>3, <1>7, <1>8, <1>9, <3>2
    <3>3. CASE t = s /\ u \in FileStreams
      BY <1>3, <1>7, <1>8, <1>9, <3>3
    <3>4. CASE t = s /\ u = s
      BY <3>4
    <3> QED BY <1>9, <3>1, <3>2, <3>3, <3>4
  <2> QED BY <2>1 DEF OneContents
<1>15. ASSUME ~ Strays, NEW t \in FileStreams'
       PROVE  LET b == contents'[streams'[t].shared] IN
              /\ streams'[t].identity \in DOMAIN disk'
              /\ b.out \in {None, streams'[t].identity}
              /\ Unbound(t)' => links'[streams'[t].path] = streams'[t].identity
              /\ ~ b.dirty => disk'[streams'[t].identity] = b.bytes
  <2>0. links'[path] = node /\ path \in Paths
        /\ \A q \in Paths \ {path} : links'[q] = links[q]
    BY <1>1 DEF DiskFormed
  <2>1. ASSUME NEW u \in FileStreams
        PROVE  LET b == contents[streams[u].shared] IN
               /\ streams[u].identity \in DOMAIN disk
               /\ b.out \in {None, streams[u].identity}
               /\ Unbound(u) => links[streams[u].path] = streams[u].identity
               /\ ~ b.dirty => disk[streams[u].identity] = b.bytes
               /\ streams[u].path \in Paths /\ streams[u].shared \in DOMAIN contents
    BY <1>15, FileFacts DEF Bound, Files
  <2>2. node \in DOMAIN disk => (bytes = IF mode = "write" THEN <<>> ELSE disk[node])
    BY <1>2 DEF Stored
  <2>3. CASE streams'[t].shared = c
    <3>1. streams'[t].identity = node
      BY <1>3, <1>7, <1>8, <1>9, <2>3
    <3>2. new.out \in {None, node} /\ (~ new.dirty => bytes = new.bytes)
      <4>1. CASE Sharing(node) = {}
        BY <1>6, <4>1 DEF Loaded
      <4>2. CASE Sharing(node) # {}
        <5>1. PICK u \in FileStreams : streams[u].identity = node /\ streams[u].shared = c
          BY <1>3, <4>2
        <5>2. /\ node \in DOMAIN disk /\ contents[c].out \in {None, node}
              /\ ~ contents[c].dirty => disk[node] = contents[c].bytes
          BY <2>1, <5>1
        <5>3. /\ new.bytes = IF mode = "write" THEN <<>> ELSE contents[c].bytes
              /\ new.dirty = (mode # "write" /\ contents[c].dirty)
              /\ new.out = IF mode = "read" THEN contents[c].out ELSE node
          BY <1>6, <4>2 DEF Joined
        <5>4. bytes = IF mode = "write" THEN <<>> ELSE disk[node]
          BY <2>2, <5>2
        <5> HIDE DEF bytes
        <5>5. new.out \in {None, node}
          BY <5>2, <5>3
        <5>6. CASE mode = "write"
          BY <5>3, <5>4, <5>5, <5>6
        <5>7. CASE mode # "write"
          BY <5>2, <5>3, <5>4, <5>5, <5>7
        <5> QED BY <5>6, <5>7
      <4> QED BY <4>1, <4>2
    <3>3. Unbound(t)' => links'[streams'[t].path] = node
      <4> SUFFICES ASSUME Unbound(t)' PROVE links'[streams'[t].path] = node
        OBVIOUS
      <4>1. CASE t = s
        BY <1>7, <1>8, <2>0, <4>1
      <4>2. CASE t \in FileStreams
        <5>1. streams'[t] = streams[t] /\ streams[t].shared = c /\ streams[t].identity = node
          BY <1>9, <2>3, <3>1, <4>2
        <5>2. Sharing(node) # {}
          BY <4>2, <5>1 DEF Sharing
        <5>3. new = Joined(c, node, mode)
          BY <1>6, <5>2
        <5>4. /\ new.out = None
              /\ new.dirty \/ \E u \in FileStreams' : streams'[u].shared = c /\ streams'[u].mode # "read"
          BY <1>12, <2>3 DEF Unbound
        <5>5. node # None
          BY <1>2, StreamsAssumption
        <5>6. mode = "read" /\ contents[c].out = None
          BY <5>3, <5>4, <5>5 DEF Joined
        <5>7. new.dirty => contents[c].dirty
          BY <5>3 DEF Joined
        <5>8. \A u \in FileStreams' : streams'[u].shared = c /\ streams'[u].mode # "read" =>
                 u \in FileStreams /\ streams[u].shared = c /\ streams[u].mode # "read"
          BY <1>7, <1>8, <1>9, <5>6
        <5>9. Unbound(t)
          BY <5>1, <5>4, <5>6, <5>7, <5>8 DEF Unbound
        <5>10. links[streams[t].path] = node /\ streams[t].path \in Paths
          BY <2>1, <4>2, <5>1, <5>9
        <5> QED BY <2>0, <5>1, <5>10
      <4> QED BY <1>9, <4>1, <4>2
    <3> QED BY <1>11, <1>12, <2>3, <3>1, <3>2, <3>3
  <2>4. CASE streams'[t].shared # c
    <3>1. t \in FileStreams /\ streams'[t] = streams[t]
      BY <1>7, <1>8, <1>9, <2>4
    <3>2. streams[t].identity # node /\ streams[t].shared \in DOMAIN contents /\ streams[t].shared # c
      BY <1>3, <2>1, <2>4, <3>1
    <3>3. contents'[streams[t].shared] = contents[streams[t].shared]
      BY <1>12, <3>2
    <3>4. disk'[streams[t].identity] = disk[streams[t].identity] /\ streams[t].identity \in DOMAIN disk'
      BY <1>11, <2>1, <3>1, <3>2
    <3>5. Unbound(t)' => Unbound(t)
      <4>1. \A u \in FileStreams' : streams'[u].shared = streams[t].shared =>
               u \in FileStreams /\ streams'[u] = streams[u]
        BY <1>7, <1>8, <1>9, <3>2
      <4> QED BY <3>1, <3>3, <4>1 DEF Unbound
    <3>6. ASSUME links[streams[t].path] = streams[t].identity
          PROVE  links'[streams[t].path] = streams[t].identity
      <4>1. streams[t].identity # None /\ streams[t].path \in Paths
        BY <2>1, <3>1, StreamsAssumption DEF DiskFormed
      <4>2. streams[t].path # path
        BY <1>2, <3>2, <3>6, <4>1
      <4> QED BY <2>0, <3>6, <4>1, <4>2
    <3> QED BY <2>1, <3>1, <3>3, <3>4, <3>5, <3>6
  <2> QED BY <2>3, <2>4
<1>16. ~ Strays => Bound'
  BY <1>15 DEF Bound
<1> QED BY <1>10, <1>11, <1>13, <1>14, <1>16

-----------------------------------------------------------------------------
(* Sessions *)

\* Streams lead to one file exactly if the same stream brings its contents.
LEMMA LeadFacts ==
  ASSUME FileStreams \subseteq Nat, NEW s \in FileStreams
  PROVE  /\ Lead(s) \in FileStreams /\ Target(Lead(s)) = Target(s)
         /\ \A t \in FileStreams : (Target(s) = Target(t)) <=> (Lead(s) = Lead(t))
<1>1. ASSUME NEW t \in FileStreams
      PROVE  /\ Lead(t) \in FileStreams /\ Target(Lead(t)) = Target(t)
             /\ \A u \in FileStreams : Target(u) = Target(t) => Lead(t) <= u
  <2> DEFINE D == {u \in FileStreams : Target(u) = Target(t)}
  <2>1. Min(D) \in D /\ \A u \in D : Min(D) <= u
    <3>1. D \subseteq Nat /\ t \in D
      OBVIOUS
    <3> HIDE DEF D
    <3> QED BY <3>1, LeastIsIn
  <2>2. \E u \in FileStreams : /\ Target(u) = Target(t)
                               /\ \A v \in FileStreams : Target(v) = Target(t) => u <= v
    BY <2>1
  <2> QED BY <2>2 DEF Lead
<1>2. ASSUME NEW t \in FileStreams, Target(s) = Target(t) PROVE Lead(s) = Lead(t)
  <2>1. Lead(s) \in Nat /\ Lead(t) \in Nat
    BY <1>1
  <2>2. Lead(s) <= Lead(t) /\ Lead(t) <= Lead(s)
    BY <1>1, <1>2
  <2> QED BY <2>1, <2>2
<1>3. ASSUME NEW t \in FileStreams, Lead(s) = Lead(t) PROVE Target(s) = Target(t)
  BY <1>1, <1>3
<1> QED BY <1>1, <1>2, <1>3

\* A resumed stream, and the contents it finds.
LEMMA ResumedStream ==
  ASSUME StreamsInv, Resume, NEW s \in FileStreams
  PROVE  /\ streams'[s] \in Files /\ streams'[s].kind = "file" /\ streams'[s].path = streams[s].path
         /\ streams'[s].mode = streams[s].mode /\ streams'[s].position = streams[s].position
         /\ streams'[s].identity = Target(s) /\ streams'[s].shared = Lead(s)
         /\ Lead(s) \in FileStreams /\ Lead(s) \in DOMAIN contents'
         /\ contents'[Lead(s)] \in Contents /\ contents'[Lead(s)].out = None
         /\ contents'[Lead(s)].bytes = contents[streams[s].shared].bytes
         /\ contents'[Lead(s)].dirty = contents[streams[s].shared].dirty
<1> USE DEF StreamsInv, Formed
<1>1. FileStreams \subseteq Nat
  BY DEF FileStreams, WindowInv, StreamsNumbered
<1>2. Lead(s) \in FileStreams /\ Target(Lead(s)) = Target(s)
  BY <1>1, LeadFacts
<1>3. /\ s \in DOMAIN streams /\ streams[s] \in Files /\ contents[streams[s].shared] \in Contents
      /\ IsFile(s)
  BY FileFacts DEF FileStreams
<1>4. Target(s) \in Nodes \cup Paths
  BY <1>3 DEF Files, Target, DiskFormed
<1>5. streams'[s] = [streams[s] EXCEPT !.shared = Lead(s), !.identity = Target(s)]
  BY <1>3 DEF Resume
<1>6. contents'[Lead(s)] = Copy(Lead(s)) /\ Lead(s) \in DOMAIN contents'
  BY DEF Resume
<1>7. Copy(s) = Copy(Lead(s))
  BY <1>2 DEF Resume, SessionAccepted
<1>8. Lead(s) \in Nat
  BY <1>1, <1>2
<1>9. /\ streams'[s] \in Files /\ streams'[s].kind = "file" /\ streams'[s].path = streams[s].path
      /\ streams'[s].mode = streams[s].mode /\ streams'[s].position = streams[s].position
      /\ streams'[s].identity = Target(s) /\ streams'[s].shared = Lead(s)
  BY <1>3, <1>4, <1>5, <1>8 DEF Files
<1>10. /\ Copy(s) \in Contents /\ Copy(s).out = None
       /\ Copy(s).bytes = contents[streams[s].shared].bytes
       /\ Copy(s).dirty = contents[streams[s].shared].dirty
  BY <1>3 DEF Copy, Contents
<1> QED BY <1>2, <1>6, <1>7, <1>9, <1>10

LEMMA ResumeStep ==
  ASSUME StreamsInv, Resume
  PROVE  StreamsInv'
<1> USE DEF StreamsInv, Formed
<1>1. /\ DOMAIN streams' = DOMAIN streams
      /\ \A s \in DOMAIN streams : ~ IsFile(s) => streams'[s] = streams[s]
      /\ UNCHANGED <<windows, next_window, next_stream, links, disk>>
      /\ DOMAIN contents' = {Lead(s) : s \in FileStreams}
      /\ ~ Strays => \A s \in FileStreams : links[streams[s].path] = streams[s].identity
  BY DEF Resume
<1>2. \A s \in DOMAIN streams : IsFile(s) <=> s \in FileStreams
  BY DEF FileStreams
<1>3. \A s \in DOMAIN streams : streams'[s].kind = streams[s].kind
  BY <1>1, <1>2, FileFacts, ResumedStream
<1>4. WindowInv'
  BY <1>1, <1>3, WindowsStay
<1>5. StreamsFormed'
  <2> SUFFICES ASSUME NEW s \in DOMAIN streams
               PROVE  streams'[s].kind = "window" \/ GoodMemory(streams'[s]) \/ streams'[s] \in Files
    BY <1>1 DEF StreamsFormed, GoodMemory
  <2>1. CASE s \in FileStreams
    BY <2>1, ResumedStream
  <2>2. CASE s \notin FileStreams
    BY <1>1, <1>2, <2>2 DEF StreamsFormed, GoodMemory
  <2> QED BY <2>1, <2>2
<1>6. FileStreams' = FileStreams
  BY <1>1, <1>3 DEF FileStreams, IsFile
<1>7. DiskFormed'
  BY <1>1 DEF DiskFormed
<1>8. ContentsFormed'
  <2>1. Held(streams') = {streams'[s].shared : s \in FileStreams}
    BY <1>6, HeldNext
  <2>2. Held(streams') = {Lead(s) : s \in FileStreams}
    BY <2>1, ResumedStream
  <2>3. \A c \in DOMAIN contents' : contents'[c] \in Contents
    BY <1>1, ResumedStream
  <2> QED BY <1>1, <2>2, <2>3 DEF ContentsFormed
<1>9. FileStreams \subseteq Nat
  BY DEF FileStreams, WindowInv, StreamsNumbered
<1>10. OneContents'
  BY <1>6, <1>9, LeadFacts, ResumedStream DEF OneContents
<1>11. ASSUME ~ Strays, NEW s \in FileStreams
       PROVE  LET b == contents'[streams'[s].shared] IN
              /\ streams'[s].identity \in DOMAIN disk'
              /\ b.out \in {None, streams'[s].identity}
              /\ Unbound(s)' => links'[streams'[s].path] = streams'[s].identity
              /\ ~ b.dirty => disk'[streams'[s].identity] = b.bytes
  <2>1. LET b == contents[streams[s].shared] IN
        /\ streams[s].identity \in DOMAIN disk /\ (~ b.dirty => disk[streams[s].identity] = b.bytes)
    BY <1>11 DEF Bound
  <2>2. links[streams[s].path] = streams[s].identity
    BY <1>1, <1>11
  <2>3. Target(s) = streams[s].identity
    BY <2>1, <2>2, StreamsAssumption DEF Target, DiskFormed
  <2> QED BY <1>1, <2>1, <2>2, <2>3, ResumedStream
<1>12. ~ Strays => Bound'
  BY <1>6, <1>11 DEF Bound
<1> QED BY <1>4, <1>5, <1>7, <1>8, <1>10, <1>12

-----------------------------------------------------------------------------
(* All of it *)

LEMMA InitStreams == StreamsInit => StreamsInv
<1> SUFFICES ASSUME StreamsInit PROVE StreamsInv
  OBVIOUS
<1>1. /\ DOMAIN windows = {} /\ DOMAIN streams = {} /\ DOMAIN contents = {}
      /\ next_window = 1 /\ next_stream = 1
  BY DEF StreamsInit, WinInit, FileInit
<1>2. links \in [Paths -> Nodes \cup {None}]
  BY StreamsAssumption DEF StreamsInit, FileInit
<1>3. disk = [n \in {links[p] : p \in Paths} \ {None} |-> <<1>>]
  BY <1>2 DEF StreamsInit, FileInit, Range
<1>4. <<1>> \in Seq(Bytes)
  BY DEF Bytes
<1>5. DiskFormed
  BY <1>2, <1>3, <1>4 DEF DiskFormed
<1>6. FileStreams = {} /\ Held(streams) = {}
  BY <1>1 DEF FileStreams, Held
<1> QED BY <1>1, <1>5, <1>6 DEF StreamsInv, Formed, WindowInv, WindowsFormed, WindowsApart, StreamsNumbered,
          StreamsFormed, ContentsFormed, OneContents, Bound

LEMMA NextStreams ==
  ASSUME StreamsInv, [StreamsNext]_<<winVars, fileVars>>
  PROVE  StreamsInv'
<1>1. CASE UNCHANGED <<winVars, fileVars>>
  <2>1. /\ UNCHANGED <<windows, next_window, streams, next_stream>>
        /\ UNCHANGED <<contents, links, disk>>
    BY <1>1 DEF winVars, fileVars
  <2> QED BY <2>1 DEF StreamsInv, Formed, WindowInv, WindowsFormed, WindowsApart, StreamsNumbered,
          StreamsFormed, DiskFormed, ContentsFormed, OneContents, Bound, FileStreams, IsFile, Held, Unbound
<1>2. CASE (TreeNext \/ LayoutNext \/ EchoNext) /\ UNCHANGED fileVars
  BY <1>2, WindowsStep
<1>3. CASE FileNext
  BY <1>3, OpenFileStep, DeleteStep, FlushStep, CloseFileStep, CloseFileFailsStep, ResumeStep DEF FileNext
<1>4. CASE MarkNext
  BY <1>4, OpenMemoryStep, CloseMemoryStep, WriteMemoryStep, WriteFileStep, ReadValueStep, SeekStep
     DEF MarkNext, Put
<1> QED BY <1>1, <1>2, <1>3, <1>4 DEF StreamsNext

LEMMA StreamsInvariant == StreamsSpec => []StreamsInv
BY InitStreams, NextStreams, PTL DEF StreamsSpec

\* Whatever is opened, written, closed and resumed, streams share the contents of one file and
\* of no other, and marks stay inside their buffers.
THEOREM SharedAndInside == StreamsSpec => [](OneContents /\ MarksInside)
<1>1. StreamsInv => OneContents /\ MarksInside
  <2> SUFFICES ASSUME StreamsInv PROVE MarksInside
    BY DEF StreamsInv
  <2>1. ASSUME NEW s \in DOMAIN streams, streams[s].kind = "memory" PROVE GoodMemory(streams[s])
    BY <2>1, MemoryFacts DEF StreamsInv, Formed, IsMemory
  <2>2. \A m : GoodMemory(m) => m.position \in 0 .. m.extent /\ m.extent <= m.length
    BY DEF GoodMemory, Memories
  <2> QED BY <2>1, <2>2 DEF MarksInside
<1> QED BY <1>1, StreamsInvariant, PTL

\* Where the files of a resumed session are those it was saved with, contents that are not
\* marked dirty are in their file: flush_streams and close_stream leave nothing behind.
THEOREM FilesStayTrue == ~ Strays => (StreamsSpec => []FilesAgree)
<1> SUFFICES ASSUME ~ Strays PROVE StreamsSpec => []FilesAgree
  OBVIOUS
<1>1. StreamsInv => CleanOnDisk
  <2> SUFFICES ASSUME StreamsInv PROVE CleanOnDisk
    OBVIOUS
  <2>1. Bound
    BY DEF StreamsInv
  <2> QED BY <2>1 DEF Bound, CleanOnDisk
<1>2. StreamsSpec => []CleanOnDisk
  BY <1>1, StreamsInvariant, PTL
<1> QED BY <1>2, SharedAndInside, PTL DEF FilesAgree

\* restore_file_streams: every stream of a resumed session reads what it read, where it was.
THEOREM SessionsKeepFiles == StreamsSpec => ResumedAsSaved
<1>1. ASSUME StreamsInv, Resume, NEW s \in FileStreams, NEW t \in FileStreams
      PROVE  /\ contents'[streams'[s].shared].bytes = contents[streams[s].shared].bytes
             /\ streams'[s].position = streams[s].position
             /\ (streams[s].shared = streams[t].shared /\ streams[s].path = streams[t].path)
                  => streams'[s].shared = streams'[t].shared
  <2>1. FileStreams \subseteq Nat
    BY <1>1 DEF StreamsInv, Formed, FileStreams, WindowInv, StreamsNumbered
  <2>2. streams[s].path = streams[t].path => Target(s) = Target(t)
    BY DEF Target
  <2> QED BY <1>1, <2>1, <2>2, LeadFacts, ResumedStream
<1>2. StreamsInv => [Resume => \A s, t \in FileStreams :
         /\ contents'[streams'[s].shared].bytes = contents[streams[s].shared].bytes
         /\ streams'[s].position = streams[s].position
         /\ (streams[s].shared = streams[t].shared /\ streams[s].path = streams[t].path)
              => streams'[s].shared = streams'[t].shared]_<<winVars, fileVars>>
  BY <1>1
<1> QED BY <1>2, StreamsInvariant, PTL DEF ResumedAsSaved

\* A pair keeps the order of its children, whatever is opened, closed or arranged.
THEOREM ChildrenStay == StreamsSpec => OrderKept
<1>1. ASSUME StreamsInv, [StreamsNext]_<<winVars, fileVars>>
      PROVE  SameOrder
  <2> USE DEF StreamsInv, Formed
  <2>1. CASE windows' = windows
    BY <2>1 DEF SameOrder
  <2>2. CASE TreeNext \/ LayoutNext \/ EchoNext
    BY <1>1, <2>2, TreeStep, LayoutStep
  <2>3. ASSUME NEW s, Detached(s) PROVE SameOrder
    <3>1. /\ DOMAIN windows' = DOMAIN windows
          /\ \A i \in DOMAIN windows :
               windows'[i] = [windows[i] EXCEPT !.echo = IF @ = s THEN 0 ELSE @]
      BY <2>3 DEF Detached
    <3>2. \A i \in DOMAIN windows : IsWindow(windows[i])
      BY <1>1 DEF WindowInv, WindowsFormed
    <3> QED BY <3>1, <3>2 DEF SameOrder, IsWindow, Fields
  <2>4. CASE FileNext
    <3>1. windows' = windows \/ \E s : Detached(s)
      BY <2>4 DEF FileNext, OpenFile, Delete, Flush, CloseFile, CloseFileFails, Resume, winVars
    <3> QED BY <2>1, <2>3, <3>1
  <2>5. CASE MarkNext
    <3>1. windows' = windows \/ \E s : Detached(s)
      BY <2>5 DEF MarkNext, OpenMemory, CloseMemory, Put, WriteMemory, WriteFile, ReadValue, ReadFile, ReadMemory, Seek
    <3> QED BY <2>1, <2>3, <3>1
  <2>6. CASE UNCHANGED <<winVars, fileVars>>
    BY <2>1, <2>6 DEF winVars
  <2> QED BY <1>1, <2>2, <2>4, <2>5, <2>6 DEF StreamsNext
<1>2. ASSUME StreamsInv, [StreamsNext]_<<winVars, fileVars>>
      PROVE  [\A i \in DOMAIN windows \cap DOMAIN windows' :
                (IsPair(windows[i]) /\ windows'[i].first = windows[i].first /\ windows'[i].second = windows[i].second)
                  => (windows'[i].reversed <=> windows[i].reversed)]_winVars
  <2>1. SameOrder
    BY <1>1, <1>2
  <2> QED BY <2>1 DEF SameOrder
<1> QED BY <1>2, StreamsInvariant, PTL DEF StreamsSpec, OrderKept

-----------------------------------------------------------------------------
(* Chains of parents *)

\* A rank that falls from each element of D to the one it names as its parent.
Falls(D, p, rank) ==
  /\ rank \in [D -> Nat]
  /\ \A i \in D : p[i] \in D => rank[p[i]] < rank[i]

\* What holds of an element when it holds of everything of lower rank holds of all.
Climbs(D, rank, G) == \A i \in D : (\A j \in D : rank[j] < rank[i] => j \in G) => i \in G

LEMMA RankInduction ==
  ASSUME NEW D, NEW rank \in [D -> Nat], NEW G \in SUBSET D, Climbs(D, rank, G)
  PROVE  G = D
<1> USE DEF Climbs
<1> DEFINE S == {n \in Nat : \A i \in D : rank[i] < n => i \in G}
<1>1. 0 \in S
  OBVIOUS
<1>2. ASSUME NEW n \in S PROVE n + 1 \in S
  <2>1. n \in Nat /\ n + 1 \in Nat /\ \A i \in D : rank[i] < n => i \in G
    BY <1>2
  <2>2. ASSUME NEW i \in D, rank[i] < n + 1 PROVE i \in G
    <3>1. rank[i] <= n /\ rank[i] \in Nat
      BY <2>1, <2>2
    <3>2. ASSUME NEW j \in D, rank[j] < rank[i] PROVE j \in G
      <4>1. rank[j] \in Nat /\ rank[j] < n
        BY <3>1, <3>2, <2>1
      <4> QED BY <2>1, <4>1
    <3> QED BY <3>2
  <2> QED BY <2>1, <2>2
<1>3. S = Nat
  <2> HIDE DEF S
  <2>1. S \in SUBSET Nat
    BY DEF S
  <2> QED BY <1>1, <1>2, <2>1, SetInduction
<1>4. ASSUME NEW i \in D PROVE i \in G
  <2>1. rank[i] \in Nat /\ rank[i] + 1 \in S /\ rank[i] < rank[i] + 1
    BY <1>3
  <2> QED BY <2>1
<1> QED BY <1>4

\* A recursive function that goes up a chain of parents: g gives its value from that of the
\* parent, b without one.
IsDescent(f, D, p, b, g) == \A i \in D : f[i] = IF p[i] \in D THEN g[i][f[p[i]]] ELSE b[i]

LEMMA DescentExists ==
  ASSUME NEW D, NEW p, NEW rank, Falls(D, p, rank), NEW V, NEW b \in [D -> V], NEW g \in [D -> [V -> V]]
  PROVE  \E f \in [D -> V] : IsDescent(f, D, p, b, g)
<1> DEFINE Part(n) == {i \in D : rank[i] < n}
           Good(n, f) == \A i \in Part(n) : f[i] = IF p[i] \in D THEN g[i][f[p[i]]] ELSE b[i]
           S == {n \in Nat : \E f \in [Part(n) -> V] : Good(n, f)}
           Of(n) == CHOOSE f \in [Part(n) -> V] : Good(n, f)
<1>0. \A i \in D : rank[i] \in Nat /\ (p[i] \in D => rank[p[i]] < rank[i] /\ rank[p[i]] \in Nat)
  BY DEF Falls
<1>1. 0 \in S
  <2>1. Part(0) = {}
    BY <1>0
  <2>2. [i \in Part(0) |-> b[i]] \in [Part(0) -> V] /\ Good(0, [i \in Part(0) |-> b[i]])
    BY <2>1
  <2> QED BY <2>2
<1>2. ASSUME NEW n \in S PROVE n + 1 \in S
  <2>1. PICK f \in [Part(n) -> V] : Good(n, f)
    BY <1>2
  <2>2. n \in Nat
    BY <1>2
  <2> DEFINE h == [i \in Part(n + 1) |-> IF i \in Part(n) THEN f[i]
                                         ELSE IF p[i] \in D THEN g[i][f[p[i]]] ELSE b[i]]
  <2>3. ASSUME NEW i \in Part(n + 1), p[i] \in D PROVE p[i] \in Part(n)
    BY <1>0, <2>2, <2>3
  <2>4. ASSUME NEW i \in Part(n + 1) PROVE h[i] \in V
    <3>1. CASE i \in Part(n) BY <3>1
    <3>2. CASE i \notin Part(n)
      <4>1. CASE p[i] \in D
        <5>1. f[p[i]] \in V BY <2>3, <4>1
        <5> QED BY <5>1, <4>1, <3>2
      <4>2. CASE p[i] \notin D BY <4>2, <3>2
      <4> QED BY <4>1, <4>2
    <3> QED BY <3>1, <3>2
  <2>5. Good(n + 1, h)
    <3> SUFFICES ASSUME NEW i \in Part(n + 1)
                 PROVE  h[i] = IF p[i] \in D THEN g[i][h[p[i]]] ELSE b[i]
      OBVIOUS
    <3>1. p[i] \in D => p[i] \in Part(n) /\ p[i] \in Part(n + 1) /\ h[p[i]] = f[p[i]]
      BY <2>3, <1>0, <2>2
    <3>2. i \in Part(n) => f[i] = IF p[i] \in D THEN g[i][f[p[i]]] ELSE b[i]
      BY <2>1
    <3> QED BY <3>1, <3>2
  <2>6. h \in [Part(n + 1) -> V]
    BY <2>4
  <2>7. \E k \in [Part(n + 1) -> V] : Good(n + 1, k)
    <3> HIDE DEF h, Part, Good
    <3> QED BY <2>5, <2>6
  <2> HIDE DEF h, Part, Good
  <2> QED BY <2>2, <2>7
<1>3. S = Nat
  <2> HIDE DEF S
  <2>1. S \in SUBSET Nat
    BY DEF S
  <2> QED BY <1>1, <1>2, <2>1, SetInduction
<1>4. ASSUME NEW n \in Nat PROVE Of(n) \in [Part(n) -> V] /\ Good(n, Of(n))
  BY <1>3
<1> HIDE DEF Of
<1>5. ASSUME NEW m \in Nat, NEW n \in Nat
      PROVE  \A i \in D : i \in Part(m) /\ i \in Part(n) => Of(m)[i] = Of(n)[i]
  <2> DEFINE G == {i \in D : i \in Part(m) /\ i \in Part(n) => Of(m)[i] = Of(n)[i]}
  <2>1. ASSUME NEW i \in D, \A j \in D : rank[j] < rank[i] => j \in G PROVE i \in G
    <3> SUFFICES ASSUME i \in Part(m), i \in Part(n) PROVE Of(m)[i] = Of(n)[i]
      OBVIOUS
    <3>1. p[i] \in D => p[i] \in G /\ p[i] \in Part(m) /\ p[i] \in Part(n)
      BY <1>0, <2>1
    <3>2. /\ Of(m)[i] = IF p[i] \in D THEN g[i][Of(m)[p[i]]] ELSE b[i]
          /\ Of(n)[i] = IF p[i] \in D THEN g[i][Of(n)[p[i]]] ELSE b[i]
      BY <1>4
    <3> QED BY <3>1, <3>2
  <2>2. rank \in [D -> Nat]
    BY DEF Falls
  <2>3. G = D
    <3> HIDE DEF G, Part, Good, S
    <3>1. G \in SUBSET D BY DEF G
    <3>2. Climbs(D, rank, G)
      BY <2>1 DEF Climbs
    <3> QED BY <2>2, <3>1, <3>2, RankInduction
  <2> QED BY <2>3
<1> DEFINE f == [i \in D |-> Of(rank[i] + 1)[i]]
<1>6. ASSUME NEW i \in D PROVE rank[i] + 1 \in Nat /\ i \in Part(rank[i] + 1)
  BY <1>0
<1>7. f \in [D -> V]
  BY <1>4, <1>6
<1>8. ASSUME NEW i \in D PROVE f[i] = IF p[i] \in D THEN g[i][f[p[i]]] ELSE b[i]
  <2>1. f[i] = IF p[i] \in D THEN g[i][Of(rank[i] + 1)[p[i]]] ELSE b[i]
    BY <1>4, <1>6
  <2>2. p[i] \in D => f[p[i]] = Of(rank[i] + 1)[p[i]]
    <3> SUFFICES ASSUME p[i] \in D PROVE f[p[i]] = Of(rank[i] + 1)[p[i]]
      OBVIOUS
    <3>1. p[i] \in Part(rank[i] + 1) /\ p[i] \in Part(rank[p[i]] + 1)
      BY <1>0
    <3> QED BY <3>1, <1>5, <1>6
  <2> QED BY <2>1, <2>2
<1>9. IsDescent(f, D, p, b, g)
  <2> HIDE DEF f
  <2> QED BY <1>8 DEF IsDescent
<1> QED BY <1>7, <1>9

-----------------------------------------------------------------------------
(* The tree of windows *)

\* The depth of windows, or anything that falls from each window to its parent.
RankedBy(w, rank, N) ==
  /\ rank \in [DOMAIN w -> 0 .. N]
  /\ \A i \in DOMAIN w : w[i].parent \in DOMAIN w => rank[w[i].parent] < rank[i]

Ranked(w) == \E N \in Nat : \E rank : RankedBy(w, rank, N)

LEMMA RankedFalls ==
  ASSUME NEW w, NEW N \in Nat, NEW rank, RankedBy(w, rank, N)
  PROVE  /\ rank \in [DOMAIN w -> Nat]
         /\ Falls(DOMAIN w, [i \in DOMAIN w |-> w[i].parent], rank)
BY DEF RankedBy, Falls

\* A window, and what is above its parent.
LEMMA AboveIs ==
  ASSUME NEW w, Ranked(w), NEW i \in DOMAIN w
  PROVE  /\ Above(w, i) = {i} \cup IF w[i].parent \in DOMAIN w THEN Above(w, w[i].parent) ELSE {}
         /\ Above(w, i) \subseteq DOMAIN w
<1> DEFINE D == DOMAIN w
           p == [j \in D |-> w[j].parent]
           b == [j \in D |-> {j}]
           g == [j \in D |-> [S \in SUBSET D |-> {j} \cup S]]
           Is(f) == f = [j \in D |-> {j} \cup IF w[j].parent \in D THEN f[w[j].parent] ELSE {}]
           chain == CHOOSE f : Is(f)
<1>1. PICK N, rank : N \in Nat /\ RankedBy(w, rank, N)
  BY DEF Ranked
<1>2. Falls(D, p, rank)
  BY <1>1, RankedFalls
<1>3. b \in [D -> SUBSET D] /\ g \in [D -> [SUBSET D -> SUBSET D]]
  OBVIOUS
<1>4. PICK f \in [D -> SUBSET D] : IsDescent(f, D, p, b, g)
  <2> HIDE DEF D, p, b, g
  <2> QED BY <1>2, <1>3, DescentExists
<1>5. \A j \in D : f[j] = {j} \cup IF w[j].parent \in D THEN f[w[j].parent] ELSE {}
  <2> SUFFICES ASSUME NEW j \in D PROVE f[j] = {j} \cup IF w[j].parent \in D THEN f[w[j].parent] ELSE {}
    OBVIOUS
  <2>1. f[j] = IF p[j] \in D THEN g[j][f[p[j]]] ELSE b[j]
    BY <1>4 DEF IsDescent
  <2>2. p[j] \in D => f[p[j]] \in SUBSET D
    BY <1>4
  <2> QED BY <2>1, <2>2
<1>6. Is(f)
  <2>1. f = [j \in D |-> f[j]]
    BY <1>4
  <2> QED BY <1>5, <2>1
<1>7. Is(chain)
  BY <1>6
<1>8. \A j : Above(w, j) = IF j \in D THEN chain[j] ELSE {}
  BY DEF Above
<1>9. \A j \in D : chain[j] = {j} \cup IF w[j].parent \in D THEN chain[w[j].parent] ELSE {}
  <2> HIDE DEF chain
  <2> QED BY <1>7
<1>10. chain \in [D -> SUBSET D]
  <2> DEFINE G == {j \in D : chain[j] \subseteq D}
  <2>1. rank \in [D -> Nat]
    BY <1>1, RankedFalls
  <2>2. ASSUME NEW j \in D, \A k \in D : rank[k] < rank[j] => k \in G PROVE j \in G
    <3>1. w[j].parent \in D => w[j].parent \in G
      BY <1>1, <2>2 DEF RankedBy
    <3> HIDE DEF chain
    <3> QED BY <3>1, <1>9
  <2>3. G = D
    <3> HIDE DEF G, D
    <3>1. G \in SUBSET D BY DEF G
    <3>2. Climbs(D, rank, G) BY <2>2 DEF Climbs
    <3> QED BY <2>1, <3>1, <3>2, RankInduction
  <2> HIDE DEF chain
  <2>4. chain = [j \in D |-> chain[j]]
    BY <1>7
  <2> QED BY <2>3, <2>4
<1> HIDE DEF chain
<1> QED BY <1>8, <1>9, <1>10

\* Nothing above a window but the window itself has its rank.
LEMMA AboveRanks ==
  ASSUME NEW w, NEW N \in Nat, NEW rank, RankedBy(w, rank, N)
  PROVE  \A i \in DOMAIN w : \A j \in Above(w, i) :
           j \in DOMAIN w /\ (j # i => rank[j] < rank[i])
<1> DEFINE D == DOMAIN w
           G == {i \in D : \A j \in Above(w, i) : j \in D /\ (j # i => rank[j] < rank[i])}
<1>1. rank \in [D -> Nat]
  BY RankedFalls
<1>2. ASSUME NEW i \in D, \A k \in D : rank[k] < rank[i] => k \in G PROVE i \in G
  <2>1. Above(w, i) = {i} \cup IF w[i].parent \in D THEN Above(w, w[i].parent) ELSE {}
    BY AboveIs DEF Ranked
  <2>2. w[i].parent \in D => w[i].parent \in G /\ rank[w[i].parent] < rank[i]
    BY <1>2 DEF RankedBy
  <2>3. ASSUME NEW j \in Above(w, i), j # i PROVE j \in D /\ rank[j] < rank[i]
    <3>1. w[i].parent \in D /\ j \in Above(w, w[i].parent)
      BY <2>1, <2>3
    <3>2. j \in D /\ (j = w[i].parent \/ rank[j] < rank[w[i].parent])
      BY <2>2, <3>1
    <3> QED BY <3>1, <3>2, <2>2, <1>1
  <2> QED BY <2>3
<1>3. G = D
  <2> HIDE DEF G, D
  <2>1. G \in SUBSET D BY DEF G
  <2>2. Climbs(D, rank, G) BY <1>2 DEF Climbs
  <2> QED BY <1>1, <2>1, <2>2, RankInduction
<1> QED BY <1>3

\* What is above a window above another is above this one.
LEMMA AboveTransitive ==
  ASSUME NEW w, Ranked(w)
  PROVE  \A i \in DOMAIN w : \A j \in Above(w, i) : Above(w, j) \subseteq Above(w, i)
<1> DEFINE D == DOMAIN w
           G == {i \in D : \A j \in Above(w, i) : Above(w, j) \subseteq Above(w, i)}
<1>0. PICK N, rank : N \in Nat /\ RankedBy(w, rank, N)
  BY DEF Ranked
<1>1. rank \in [D -> Nat]
  BY <1>0, RankedFalls
<1>2. ASSUME NEW i \in D, \A k \in D : rank[k] < rank[i] => k \in G PROVE i \in G
  <2>1. Above(w, i) = {i} \cup IF w[i].parent \in D THEN Above(w, w[i].parent) ELSE {}
    BY AboveIs
  <2>2. w[i].parent \in D => w[i].parent \in G
    BY <1>0, <1>2 DEF RankedBy
  <2> QED BY <2>1, <2>2
<1>3. G = D
  <2> HIDE DEF G, D
  <2>1. G \in SUBSET D BY DEF G
  <2>2. Climbs(D, rank, G) BY <1>2 DEF Climbs
  <2> QED BY <1>1, <2>1, <2>2, RankInduction
<1> QED BY <1>3

\* Windows of v that have above them what they had above them in w, as far as it is in K.
LEMMA AboveStays ==
  ASSUME NEW w, NEW v, NEW rank \in [DOMAIN w -> Nat], NEW K \in SUBSET DOMAIN w,
         \A i \in K : /\ i \in Above(v, i)
                      /\ \/ Above(w, i) \cap K \subseteq {i}
                         \/ \E j \in K : /\ rank[j] < rank[i]
                                         /\ Above(w, i) \cap K \subseteq {i} \cup Above(w, j)
                                         /\ Above(v, j) \subseteq Above(v, i)
  PROVE  \A i \in K : Above(w, i) \cap K \subseteq Above(v, i)
<1> DEFINE D == DOMAIN w
           G == {i \in D : i \in K => Above(w, i) \cap K \subseteq Above(v, i)}
<1>1. ASSUME NEW i \in D, \A k \in D : rank[k] < rank[i] => k \in G PROVE i \in G
  BY <1>1
<1>2. G = D
  <2> HIDE DEF G, D
  <2>1. G \in SUBSET D BY DEF G
  <2>2. Climbs(D, rank, G) BY <1>1 DEF Climbs
  <2>3. rank \in [D -> Nat] BY DEF D
  <2> QED BY <2>1, <2>2, <2>3, RankInduction
<1> QED BY <1>2

\* A child that its parent names, and what children a window has.
UnderParent(w, i) == w[i].parent \in DOMAIN w /\ i \in {w[w[i].parent].first, w[w[i].parent].second}

HasChildren(w, i) ==
  IF IsPair(w[i])
  THEN /\ w[i].first # w[i].second
       /\ \A c \in {w[i].first, w[i].second} : c \in DOMAIN w /\ w[c].parent = i
  ELSE w[i].first = 0 /\ w[i].second = 0

TreeOf(w, r) ==
  /\ 0 \notin DOMAIN w /\ (r = 0 <=> DOMAIN w = {})
  /\ r # 0 => r \in DOMAIN w /\ w[r].parent = 0
  /\ \A i \in DOMAIN w : (i # r => UnderParent(w, i)) /\ HasChildren(w, i)

KeysOf(w) ==
  \A i \in DOMAIN w : w[i].key # 0 =>
    IsPair(w[i]) /\ w[i].key \in DOMAIN w /\ i \in Above(w, w[i].key) /\ ~ IsPair(w[w[i].key])

Rooted(w, r) == TreeOf(w, r) /\ Ranked(w) /\ KeysOf(w)

\* In a tree everything is under the root.
LEMMA RootAbove ==
  ASSUME NEW w, NEW r, TreeOf(w, r), Ranked(w)
  PROVE  \A i \in DOMAIN w : r \in Above(w, i)
<1> DEFINE D == DOMAIN w
           G == {i \in D : r \in Above(w, i)}
<1>0. PICK N, rank : N \in Nat /\ RankedBy(w, rank, N)
  BY DEF Ranked
<1>1. rank \in [D -> Nat]
  BY <1>0, RankedFalls
<1>2. ASSUME NEW i \in D, \A k \in D : rank[k] < rank[i] => k \in G PROVE i \in G
  <2>1. Above(w, i) = {i} \cup IF w[i].parent \in D THEN Above(w, w[i].parent) ELSE {}
    BY AboveIs
  <2>2. CASE i = r BY <2>1, <2>2
  <2>3. CASE i # r
    <3>1. w[i].parent \in D
      BY <2>3 DEF TreeOf, UnderParent
    <3>2. w[i].parent \in G
      BY <3>1, <1>0, <1>2 DEF RankedBy
    <3> QED BY <2>1, <3>1, <3>2
  <2> QED BY <2>2, <2>3
<1>3. G = D
  <2> HIDE DEF G, D
  <2>1. G \in SUBSET D BY DEF G
  <2>2. Climbs(D, rank, G) BY <1>2 DEF Climbs
  <2> QED BY <1>1, <2>1, <2>2, RankInduction
<1> QED BY <1>3

\* The layout and the streams are not part of the tree.
SameShape(w, v) ==
  /\ DOMAIN v = DOMAIN w
  /\ \A i \in DOMAIN w : /\ v[i].kind = w[i].kind /\ v[i].parent = w[i].parent
                         /\ v[i].first = w[i].first /\ v[i].second = w[i].second

LEMMA SameAbove ==
  ASSUME NEW w, NEW v, SameShape(w, v), Ranked(w)
  PROVE  Ranked(v) /\ \A i \in DOMAIN w : Above(v, i) = Above(w, i)
<1> DEFINE D == DOMAIN w
           G == {i \in D : Above(v, i) = Above(w, i)}
<1>0. PICK N, rank : N \in Nat /\ RankedBy(w, rank, N)
  BY DEF Ranked
<1>1. RankedBy(v, rank, N)
  BY <1>0 DEF RankedBy, SameShape
<1>2. Ranked(v)
  BY <1>0, <1>1 DEF Ranked
<1>3. rank \in [D -> Nat]
  BY <1>0, RankedFalls
<1>4. ASSUME NEW i \in D, \A k \in D : rank[k] < rank[i] => k \in G PROVE i \in G
  <2>1. Above(w, i) = {i} \cup IF w[i].parent \in D THEN Above(w, w[i].parent) ELSE {}
    BY AboveIs
  <2>2. Above(v, i) = {i} \cup IF w[i].parent \in D THEN Above(v, w[i].parent) ELSE {}
    <3>1. i \in DOMAIN v /\ DOMAIN v = D /\ v[i].parent = w[i].parent
      BY DEF SameShape
    <3> QED BY <3>1, <1>2, AboveIs
  <2>3. w[i].parent \in D => w[i].parent \in G
    BY <1>0, <1>4 DEF RankedBy
  <2> QED BY <2>1, <2>2, <2>3
<1>5. G = D
  <2> HIDE DEF G, D
  <2>1. G \in SUBSET D BY DEF G
  <2>2. Climbs(D, rank, G) BY <1>4 DEF Climbs
  <2> QED BY <1>3, <2>1, <2>2, RankInduction
<1> QED BY <1>2, <1>5

LEMMA RootedSame ==
  ASSUME NEW w, NEW v, NEW r, Rooted(w, r), SameShape(w, v),
         \A i \in DOMAIN w : v[i].key # w[i].key /\ v[i].key # 0 =>
           IsPair(w[i]) /\ v[i].key \in DOMAIN w /\ i \in Above(w, v[i].key) /\ ~ IsPair(w[v[i].key])
  PROVE  Rooted(v, r)
<1>1. /\ DOMAIN v = DOMAIN w
      /\ \A i \in DOMAIN w : /\ v[i].parent = w[i].parent /\ (IsPair(v[i]) <=> IsPair(w[i]))
                             /\ v[i].first = w[i].first /\ v[i].second = w[i].second
  BY DEF SameShape, IsPair
<1>2. TreeOf(v, r)
  BY <1>1 DEF Rooted, TreeOf, UnderParent, HasChildren
<1>3. Ranked(v) /\ \A i \in DOMAIN w : Above(v, i) = Above(w, i)
  BY SameAbove DEF Rooted
<1>4. KeysOf(v)
  <2> SUFFICES ASSUME NEW i \in DOMAIN w, v[i].key # 0
               PROVE  IsPair(v[i]) /\ v[i].key \in DOMAIN w /\ i \in Above(v, v[i].key) /\ ~ IsPair(v[v[i].key])
    BY <1>1 DEF KeysOf
  <2>1. IsPair(w[i]) /\ v[i].key \in DOMAIN w /\ i \in Above(w, v[i].key) /\ ~ IsPair(w[v[i].key])
    BY DEF Rooted, KeysOf
  <2> QED BY <2>1, <1>1, <1>3
<1> QED BY <1>2, <1>3, <1>4 DEF Rooted

LEMMA LaidOutShape ==
  ASSUME NEW w, NEW r, NEW view, \A i \in DOMAIN w : IsWindow(w[i])
  PROVE  /\ SameShape(w, LaidOut(w, r, view))
         /\ \A i \in DOMAIN w : /\ LaidOut(w, r, view)[i].key = w[i].key
                                /\ LaidOut(w, r, view)[i].echo = w[i].echo
<1> SUFFICES ASSUME NEW i \in DOMAIN w
             PROVE  LET v == LaidOut(w, r, view)[i]
                    IN  /\ v.kind = w[i].kind /\ v.parent = w[i].parent /\ v.first = w[i].first
                        /\ v.second = w[i].second /\ v.key = w[i].key /\ v.echo = w[i].echo
  <2>1. DOMAIN LaidOut(w, r, view) = DOMAIN w
    BY DEF LaidOut
  <2> QED BY <2>1 DEF SameShape
<1> DEFINE place == Place(w, r, view, i)
           e == Extent(w[i].kind, place)
<1>1. LaidOut(w, r, view)[i] = [w[i] EXCEPT !.rect = place, !.extent = e]
  BY DEF LaidOut
<1> HIDE DEF place, e
<1> QED BY <1>1 DEF IsWindow, Fields

LEMMA RootedLaidOut ==
  ASSUME NEW w, NEW r, NEW view, \A i \in DOMAIN w : IsWindow(w[i]), Rooted(w, r)
  PROVE  Rooted(LaidOut(w, r, view), r)
BY LaidOutShape, RootedSame

\* What a split makes of the windows w, field by field.
SplitInto(v, w, split, id, kind) ==
  LET pair == id + 1
      up == w[split].parent
  IN  /\ DOMAIN v = DOMAIN w \cup {id, pair}
      /\ v[id].kind = kind /\ v[id].parent = pair /\ v[id].key = 0
      /\ v[id].first = 0 /\ v[id].second = 0 /\ v[id].echo = 0
      /\ IsPair(v[pair]) /\ v[pair].parent = up /\ v[pair].key = id
      /\ v[pair].first = split /\ v[pair].second = id /\ v[pair].echo = 0
      /\ \A i \in DOMAIN w :
           /\ v[i].kind = w[i].kind /\ v[i].key = w[i].key /\ v[i].echo = w[i].echo
           /\ v[i].parent = IF i = split THEN pair ELSE w[i].parent
           /\ v[i].first = IF i = up /\ w[i].first = split THEN pair ELSE w[i].first
           /\ v[i].second = IF i = up /\ w[i].second = split THEN pair ELSE w[i].second

LEMMA SplitFields ==
  ASSUME WindowsFormed, TreeOf(windows, root), NEW split \in DOMAIN windows,
         NEW kind, NEW method, NEW size
  PROVE  SplitInto(Split(split, next_window, kind, method, size), windows, split, next_window, kind)
<1> DEFINE w == windows
           id == next_window
           pair == id + 1
           above == w[split].parent
           adopted == Adopted(above, split, pair)
           kept == [adopted EXCEPT ![split].parent = pair]
           v == Split(split, id, kind, method, size)
<1>1. v = With(With(kept, id, NewWindow(kind, pair, next_stream)), pair, NewPair(split, id, method, size))
  BY DEF Split
<1>2. id # pair /\ id \notin DOMAIN w /\ pair \notin DOMAIN w
  BY DEF WindowsFormed
<1>3. \A i \in DOMAIN w : IsWindow(w[i])
  BY DEF WindowsFormed
<1>4. above = 0 \/ above \in DOMAIN w
  BY DEF TreeOf, UnderParent
<1>5. DOMAIN adopted = DOMAIN w /\ \A i \in DOMAIN w : IsWindow(adopted[i])
  BY AdoptedKeeps
<1>6. \A i \in DOMAIN w : adopted[i] = IF i = above THEN Replace(w[i], split, pair) ELSE w[i]
  <2>1. 0 \notin DOMAIN w
    BY DEF TreeOf
  <2> QED BY <2>1, <1>4 DEF Adopted
<1>7. \A i \in DOMAIN w :
        LET x == Replace(w[i], split, pair) IN
        /\ x.kind = w[i].kind /\ x.key = w[i].key /\ x.parent = w[i].parent /\ x.echo = w[i].echo
        /\ x.first = IF w[i].first = split THEN pair ELSE w[i].first
        /\ x.second = IF w[i].second = split THEN pair ELSE w[i].second
  BY <1>3 DEF Replace, IsWindow, Fields
<1> HIDE DEF v, adopted, above, id, pair
<1>8. \A i \in DOMAIN w :
        /\ adopted[i].kind = w[i].kind /\ adopted[i].key = w[i].key /\ adopted[i].parent = w[i].parent
        /\ adopted[i].echo = w[i].echo
        /\ adopted[i].first = IF i = above /\ w[i].first = split THEN pair ELSE w[i].first
        /\ adopted[i].second = IF i = above /\ w[i].second = split THEN pair ELSE w[i].second
  BY <1>6, <1>7
<1>9. /\ DOMAIN kept = DOMAIN w
      /\ \A i \in DOMAIN w :
           /\ kept[i].kind = adopted[i].kind /\ kept[i].key = adopted[i].key
           /\ kept[i].parent = IF i = split THEN pair ELSE adopted[i].parent
           /\ kept[i].first = adopted[i].first /\ kept[i].second = adopted[i].second /\ kept[i].echo = adopted[i].echo
  <2>1. DOMAIN kept = DOMAIN w
    BY <1>5
  <2>2. ASSUME NEW i \in DOMAIN w
        PROVE  /\ kept[i].kind = adopted[i].kind /\ kept[i].key = adopted[i].key
               /\ kept[i].parent = IF i = split THEN pair ELSE adopted[i].parent
               /\ kept[i].first = adopted[i].first /\ kept[i].second = adopted[i].second /\ kept[i].echo = adopted[i].echo
    <3>1. CASE i = split
      <4>1. kept[i] = [adopted[i] EXCEPT !.parent = pair] /\ IsWindow(adopted[i])
        BY <3>1, <1>5
      <4> QED BY <4>1, <3>1 DEF IsWindow, Fields
    <3>2. CASE i # split
      <4>1. kept[i] = adopted[i]
        BY <3>2, <1>5
      <4> QED BY <4>1, <3>2
    <3> QED BY <3>1, <3>2
  <2> QED BY <2>1, <2>2
<1> HIDE DEF kept
<1>10. /\ DOMAIN v = DOMAIN w \cup {id, pair}
       /\ v[id] = NewWindow(kind, pair, next_stream) /\ v[pair] = NewPair(split, id, method, size)
       /\ \A i \in DOMAIN w : v[i] = kept[i]
  BY <1>1, <1>2, <1>9 DEF With
<1>11. LET x == NewWindow(kind, pair, next_stream) IN
       /\ x.kind = kind /\ x.parent = pair /\ x.key = 0 /\ x.first = 0 /\ x.second = 0 /\ x.echo = 0
  BY DEF NewWindow
<1>12. LET x == NewPair(split, id, method, size) IN
       /\ x.kind = "pair" /\ x.parent = w[split].parent /\ x.key = id /\ x.first = split /\ x.second = id /\ x.echo = 0
  BY DEF NewPair, NewWindow
<1>13. /\ v[id].kind = kind /\ v[id].parent = pair /\ v[id].key = 0
       /\ v[id].first = 0 /\ v[id].second = 0 /\ v[id].echo = 0
  BY <1>10, <1>11
<1>14. /\ IsPair(v[pair]) /\ v[pair].parent = w[split].parent /\ v[pair].key = id
       /\ v[pair].first = split /\ v[pair].second = id /\ v[pair].echo = 0
  BY <1>10, <1>12 DEF IsPair
<1>15. \A i \in DOMAIN w :
         /\ v[i].kind = w[i].kind /\ v[i].key = w[i].key /\ v[i].echo = w[i].echo
         /\ v[i].parent = IF i = split THEN pair ELSE w[i].parent
         /\ v[i].first = IF i = above /\ w[i].first = split THEN pair ELSE w[i].first
         /\ v[i].second = IF i = above /\ w[i].second = split THEN pair ELSE w[i].second
  BY <1>8, <1>9, <1>10
<1>16. SplitInto(v, w, split, id, kind)
  BY <1>10, <1>13, <1>14, <1>15 DEF SplitInto, pair, above
<1> QED BY <1>16 DEF v, id, w

\* A split puts the new pair between a window and its parent.
LEMMA SplitRooted ==
  ASSUME WindowsFormed, Rooted(windows, root), NEW split \in DOMAIN windows,
         NEW kind, kind # "pair", NEW method, NEW size
  PROVE  Rooted(Split(split, next_window, kind, method, size),
                IF split = root THEN next_window + 1 ELSE root)
<1> DEFINE w == windows
           id == next_window
           pair == id + 1
           up == w[split].parent
           v == Split(split, id, kind, method, size)
           r == IF split = root THEN pair ELSE root
<1>0. TreeOf(w, root) /\ Ranked(w) /\ KeysOf(w)
  BY DEF Rooted
<1>1. /\ DOMAIN v = DOMAIN w \cup {id, pair}
      /\ v[id].kind = kind /\ v[id].parent = pair /\ v[id].key = 0
      /\ v[id].first = 0 /\ v[id].second = 0
      /\ IsPair(v[pair]) /\ v[pair].parent = up /\ v[pair].key = id
      /\ v[pair].first = split /\ v[pair].second = id
      /\ \A i \in DOMAIN w :
           /\ v[i].kind = w[i].kind /\ v[i].key = w[i].key
           /\ v[i].parent = IF i = split THEN pair ELSE w[i].parent
           /\ v[i].first = IF i = up /\ w[i].first = split THEN pair ELSE w[i].first
           /\ v[i].second = IF i = up /\ w[i].second = split THEN pair ELSE w[i].second
  <2>1. SplitInto(v, w, split, id, kind)
    BY <1>0, SplitFields
  <2> HIDE DEF v, id, w
  <2> QED BY <2>1 DEF SplitInto
<1>2. /\ split \in DOMAIN w /\ id # pair /\ id \notin DOMAIN w /\ pair \notin DOMAIN w /\ id # 0 /\ pair # 0
      /\ \A i \in DOMAIN w : i # id /\ i # pair
  BY DEF WindowsFormed
<1>3. /\ 0 \notin DOMAIN w /\ root # 0 /\ root \in DOMAIN w /\ w[root].parent = 0
      /\ \A i \in DOMAIN w : (i # root => UnderParent(w, i)) /\ HasChildren(w, i)
  BY <1>0 DEF TreeOf
<1>4. IF split = root THEN up = 0 ELSE up \in DOMAIN w /\ split \in {w[up].first, w[up].second}
  BY <1>3 DEF UnderParent
<1>5. ~ IsPair(v[id]) /\ \A i \in DOMAIN w : IsPair(v[i]) <=> IsPair(w[i])
  BY <1>1 DEF IsPair
<1> HIDE DEF v, id, pair, up, w
<1>6. \A i \in DOMAIN w : w[i].parent = 0 \/ w[i].parent \in DOMAIN w
  BY <1>3 DEF UnderParent
<1>7. TreeOf(v, r)
  <2>1. 0 \notin DOMAIN v /\ r # 0 /\ DOMAIN v # {}
    BY <1>1, <1>2, <1>3
  <2>2. r \in DOMAIN v /\ v[r].parent = 0
    BY <1>1, <1>2, <1>3, <1>4
  <2>3. ASSUME NEW i \in DOMAIN v, i # r PROVE UnderParent(v, i)
    <3>1. CASE i = id BY <3>1, <1>1 DEF UnderParent
    <3>2. CASE i = pair
      <4>1. split # root /\ up \in DOMAIN w /\ split \in {w[up].first, w[up].second}
        BY <2>3, <3>2, <1>4
      <4>2. pair \in {v[up].first, v[up].second}
        BY <4>1, <1>1
      <4> QED BY <4>1, <4>2, <3>2, <1>1 DEF UnderParent
    <3>3. CASE i = split
      BY <3>3, <1>1, <1>2 DEF UnderParent
    <3>4. CASE i \in DOMAIN w \ {split}
      <4>1. i # root
        BY <2>3, <3>4
      <4>2. w[i].parent \in DOMAIN w /\ i \in {w[w[i].parent].first, w[w[i].parent].second}
        BY <4>1, <3>4, <1>3 DEF UnderParent
      <4>3. v[i].parent = w[i].parent
        BY <3>4, <1>1
      <4>4. i \in {v[w[i].parent].first, v[w[i].parent].second}
        BY <4>2, <3>4, <1>1
      <4> QED BY <4>2, <4>3, <4>4, <1>1 DEF UnderParent
    <3> QED BY <3>1, <3>2, <3>3, <3>4, <1>1
  <2>4. ASSUME NEW i \in DOMAIN v PROVE HasChildren(v, i)
    <3>1. CASE i = id BY <3>1, <1>1, <1>5 DEF HasChildren
    <3>2. CASE i = pair BY <3>2, <1>1, <1>2 DEF HasChildren
    <3>3. CASE i \in DOMAIN w
      <4>1. HasChildren(w, i) /\ (IsPair(v[i]) <=> IsPair(w[i]))
        BY <3>3, <1>3, <1>5
      <4>2. CASE ~ IsPair(w[i])
        <5>1. w[i].first = 0 /\ w[i].second = 0 /\ split # 0
          BY <4>1, <4>2, <1>2, <1>3 DEF HasChildren
        <5>2. v[i].first = 0 /\ v[i].second = 0
          BY <5>1, <3>3, <1>1
        <5> QED BY <4>1, <4>2, <5>2 DEF HasChildren
      <4>3. CASE IsPair(w[i])
        <5>1. /\ w[i].first # w[i].second
              /\ \A c \in {w[i].first, w[i].second} : c \in DOMAIN w /\ w[c].parent = i
          BY <4>1, <4>3 DEF HasChildren
        <5>2. v[i].first # v[i].second
          BY <5>1, <3>3, <1>1, <1>2
        <5>3. ASSUME NEW c \in {v[i].first, v[i].second} PROVE c \in DOMAIN v /\ v[c].parent = i
          <6>1. CASE c = pair
            <7>1. i = up
              BY <6>1, <5>1, <5>3, <3>3, <1>1, <1>2
            <7> QED BY <6>1, <7>1, <1>1
          <6>2. CASE c # pair
            <7>1. c \in {w[i].first, w[i].second}
              BY <5>3, <6>2, <3>3, <1>1
            <7>2. c # split
              BY <7>1, <5>1, <5>3, <6>2, <3>3, <1>1 DEF up
            <7> QED BY <5>1, <7>1, <7>2, <1>1
          <6> QED BY <6>1, <6>2
        <5> QED BY <4>1, <4>3, <5>2, <5>3 DEF HasChildren
      <4> QED BY <4>2, <4>3
    <3> QED BY <3>1, <3>2, <3>3, <1>1
  <2> QED BY <2>1, <2>2, <2>3, <2>4 DEF TreeOf
<1>8. PICK N, rank : N \in Nat /\ RankedBy(w, rank, N)
  BY <1>0 DEF Ranked
<1>9. Ranked(v)
  <2> DEFINE h == [i \in DOMAIN v |-> IF i \in {id, pair} THEN 2 * rank[split] + (IF i = id THEN 1 ELSE 0)
                                      ELSE 2 * rank[i] + 1]
  <2>1. \A i \in DOMAIN w : rank[i] \in Nat /\ rank[i] <= N
    BY <1>8 DEF RankedBy
  <2>2. split \in DOMAIN w
    BY DEF w
  <2>3. h \in [DOMAIN v -> 0 .. 2 * N + 1]
    <3> SUFFICES ASSUME NEW i \in DOMAIN v PROVE h[i] \in 0 .. 2 * N + 1
      OBVIOUS
    <3>1. i \in {id, pair} \/ i \in DOMAIN w
      BY <1>1
    <3> QED BY <1>8, <3>1, <2>1, <2>2
  <2>4. ASSUME NEW i \in DOMAIN v, v[i].parent \in DOMAIN v PROVE h[v[i].parent] < h[i]
    <3>1. h[id] = 2 * rank[split] + 1 /\ h[pair] = 2 * rank[split]
          /\ \A j \in DOMAIN w : h[j] = 2 * rank[j] + 1
      <4>1. id \in DOMAIN v /\ pair \in DOMAIN v /\ pair # id
        BY <1>1, <1>2
      <4>2. h[id] = 2 * rank[split] + 1
        BY <4>1
      <4>3. h[pair] = 2 * rank[split] + 0 /\ rank[split] \in Nat
        BY <4>1, <2>1, <2>2
      <4>4. \A j \in DOMAIN w : h[j] = 2 * rank[j] + 1
        BY <1>1, <1>2
      <4> HIDE DEF h
      <4> QED BY <4>2, <4>3, <4>4
    <3> HIDE DEF h
    <3>2. CASE i = id BY <3>1, <3>2, <1>1, <2>1, <2>2
    <3>3. CASE i = pair
      <4>1. up \in DOMAIN w
        BY <3>3, <2>4, <1>1, <1>3, <1>4, <1>7 DEF TreeOf
      <4>2. rank[up] < rank[split]
        BY <4>1, <1>8, <2>2 DEF RankedBy, up
      <4> QED BY <4>1, <4>2, <3>1, <3>3, <1>1, <2>1, <2>2
    <3>4. CASE i = split BY <3>1, <3>4, <1>1, <2>1, <2>2
    <3>5. CASE i \in DOMAIN w \ {split}
      <4>1. v[i].parent = w[i].parent /\ w[i].parent \in DOMAIN w
        BY <3>5, <2>4, <1>1, <1>6, <1>7 DEF TreeOf
      <4>2. rank[w[i].parent] < rank[i]
        BY <4>1, <3>5, <1>8 DEF RankedBy
      <4> QED BY <4>1, <4>2, <3>1, <3>5, <2>1
    <3> QED BY <3>2, <3>3, <3>4, <3>5, <1>1
  <2> HIDE DEF h
  <2>5. RankedBy(v, h, 2 * N + 1) /\ 2 * N + 1 \in Nat
    BY <1>8, <2>3, <2>4 DEF RankedBy
  <2> QED BY <2>5 DEF Ranked
<1>10. \A i \in DOMAIN w : Above(w, i) \subseteq Above(v, i)
  <2>1. rank \in [DOMAIN w -> Nat]
    BY <1>8, RankedFalls
  <2>2. ASSUME NEW i \in DOMAIN w
        PROVE  /\ i \in Above(v, i)
               /\ \/ Above(w, i) \cap DOMAIN w \subseteq {i}
                  \/ \E j \in DOMAIN w : /\ rank[j] < rank[i]
                                         /\ Above(w, i) \cap DOMAIN w \subseteq {i} \cup Above(w, j)
                                         /\ Above(v, j) \subseteq Above(v, i)
    <3>1. Above(w, i) = {i} \cup IF w[i].parent \in DOMAIN w THEN Above(w, w[i].parent) ELSE {}
      BY <1>0, AboveIs
    <3>2. i \in DOMAIN v
      BY <1>1
    <3>3. Above(v, i) = {i} \cup IF v[i].parent \in DOMAIN v THEN Above(v, v[i].parent) ELSE {}
      BY <1>9, <3>2, AboveIs
    <3>4. CASE w[i].parent \in DOMAIN w
      <4>1. rank[w[i].parent] < rank[i]
        BY <3>4, <1>8 DEF RankedBy
      <4>2. Above(v, w[i].parent) \subseteq Above(v, i)
        <5>1. CASE i # split
          BY <5>1, <3>3, <3>4, <1>1
        <5>2. CASE i = split
          <6>1. Above(v, pair) = {pair} \cup IF up \in DOMAIN v THEN Above(v, up) ELSE {}
            BY <1>1, <1>9, AboveIs
          <6>2. v[i].parent = pair /\ w[i].parent = up
            BY <5>2, <1>1 DEF up
          <6> QED BY <6>1, <6>2, <3>3, <3>4, <1>1
        <5> QED BY <5>1, <5>2
      <4> QED BY <3>1, <3>3, <3>4, <4>1, <4>2
    <3>5. CASE w[i].parent \notin DOMAIN w
      BY <3>1, <3>3, <3>5
    <3> QED BY <3>4, <3>5
  <2>3. \A i \in DOMAIN w : Above(w, i) \cap DOMAIN w \subseteq Above(v, i)
    <3> DEFINE K == DOMAIN w
    <3>1. K \in SUBSET DOMAIN w OBVIOUS
    <3>2. \A i \in K : /\ i \in Above(v, i)
                       /\ \/ Above(w, i) \cap K \subseteq {i}
                          \/ \E j \in K : /\ rank[j] < rank[i]
                                          /\ Above(w, i) \cap K \subseteq {i} \cup Above(w, j)
                                          /\ Above(v, j) \subseteq Above(v, i)
      BY <2>2
    <3> HIDE DEF K
    <3>3. \A i \in K : Above(w, i) \cap K \subseteq Above(v, i)
      BY <2>1, <3>1, <3>2, AboveStays
    <3> QED BY <3>3 DEF K
  <2>4. \A i \in DOMAIN w : Above(w, i) \subseteq DOMAIN w
    BY <1>0, AboveIs
  <2> QED BY <2>3, <2>4
<1>11. KeysOf(v)
  <2> SUFFICES ASSUME NEW i \in DOMAIN v, v[i].key # 0
               PROVE  IsPair(v[i]) /\ v[i].key \in DOMAIN v /\ i \in Above(v, v[i].key) /\ ~ IsPair(v[v[i].key])
    BY DEF KeysOf
  <2>1. CASE i = pair
    <3>1. id \in DOMAIN v /\ pair \in DOMAIN v /\ v[id].parent = pair
      BY <1>1
    <3>2. pair \in Above(v, pair) /\ Above(v, pair) \subseteq Above(v, id)
      BY <3>1, <1>9, AboveIs
    <3> QED BY <2>1, <3>1, <3>2, <1>1, <1>5
  <2>2. CASE i \in DOMAIN w
    <3>1. /\ v[i].key = w[i].key
          /\ IsPair(w[i]) /\ w[i].key \in DOMAIN w /\ i \in Above(w, w[i].key) /\ ~ IsPair(w[w[i].key])
      BY <2>2, <1>0, <1>1 DEF KeysOf
    <3> QED BY <3>1, <2>2, <1>1, <1>5, <1>10
  <2> QED BY <2>1, <2>2, <1>1
<1>12. Rooted(v, r)
  BY <1>7, <1>9, <1>11 DEF Rooted
<1> QED BY <1>12 DEF v, r, id, pair

\* The window a closing puts in the place of the pair.
LEMMA SiblingIs ==
  ASSUME NEW w, NEW r, TreeOf(w, r), NEW id \in DOMAIN w, w[id].parent # 0
  PROVE  LET pair == w[id].parent
             sib == Sibling(w[pair], id)
         IN  /\ id # r /\ pair \in DOMAIN w /\ IsPair(w[pair])
             /\ {w[pair].first, w[pair].second} = {id, sib} /\ sib # id
             /\ sib \in DOMAIN w /\ w[sib].parent = pair
<1> DEFINE pair == w[id].parent
           sib == Sibling(w[pair], id)
<1>1. id # r /\ UnderParent(w, id) /\ id # 0
  BY DEF TreeOf
<1>2. pair \in DOMAIN w /\ id \in {w[pair].first, w[pair].second} /\ HasChildren(w, pair)
  BY <1>1 DEF UnderParent, TreeOf
<1> HIDE DEF pair
<1>3. /\ IsPair(w[pair]) /\ w[pair].first # w[pair].second
      /\ \A c \in {w[pair].first, w[pair].second} : c \in DOMAIN w /\ w[c].parent = pair
  BY <1>1, <1>2 DEF HasChildren
<1>4. \E c \in {w[pair].first, w[pair].second} : c # id
  BY <1>3
<1>5. sib \in {w[pair].first, w[pair].second} /\ sib # id
  BY <1>4 DEF Sibling
<1> HIDE DEF sib
<1>6. {w[pair].first, w[pair].second} = {id, sib}
  BY <1>2, <1>5
<1> QED BY <1>1, <1>2, <1>3, <1>5, <1>6 DEF sib, pair

\* What is left of the windows w when id is closed, field by field.
PrunedFrom(v, w, id, closing) ==
  LET pair == w[id].parent
      sib == Sibling(w[pair], id)
      up == w[pair].parent
  IN  /\ DOMAIN v = DOMAIN w \ ({pair} \cup Inside(w, id))
      /\ \A i \in DOMAIN v :
           /\ v[i].kind = w[i].kind
           /\ v[i].parent = IF i = sib THEN up ELSE w[i].parent
           /\ v[i].first = IF i = up /\ w[i].first = pair THEN sib ELSE w[i].first
           /\ v[i].second = IF i = up /\ w[i].second = pair THEN sib ELSE w[i].second
           /\ v[i].key = IF w[i].key \in DOMAIN v THEN w[i].key ELSE 0
           /\ v[i].echo = IF w[i].echo \in closing THEN 0 ELSE w[i].echo

LEMMA PrunedFields ==
  ASSUME WindowsFormed, TreeOf(windows, root), NEW id \in DOMAIN windows, windows[id].parent # 0
  PROVE  PrunedFrom(Pruned(id), windows, id, Closing(id))
<1> DEFINE w == windows
           pair == w[id].parent
           sib == Sibling(w[pair], id)
           up == w[pair].parent
           adopted == Adopted(up, pair, sib)
           kept == [adopted EXCEPT ![sib].parent = up]
           p == Promoted(id)
           v == Pruned(id)
           closing == Closing(id)
<1>1. p = Restrict(kept, DOMAIN w \ {pair})
  BY DEF Promoted
<1>2. /\ pair \in DOMAIN w /\ sib \in DOMAIN w
      /\ 0 \notin DOMAIN w /\ (up = 0 \/ up \in DOMAIN w)
  <2>1. pair \in DOMAIN w /\ sib \in DOMAIN w
    BY SiblingIs
  <2>2. up = 0 \/ up \in DOMAIN w
    BY <2>1 DEF TreeOf, UnderParent
  <2> QED BY <2>1, <2>2 DEF TreeOf
<1>3. \A i \in DOMAIN w : IsWindow(w[i])
  BY DEF WindowsFormed
<1>4. DOMAIN adopted = DOMAIN w /\ \A i \in DOMAIN w : IsWindow(adopted[i])
  BY AdoptedKeeps
<1>5. \A i \in DOMAIN w : adopted[i] = IF i = up THEN Replace(w[i], pair, sib) ELSE w[i]
  BY <1>2 DEF Adopted
<1>6. \A i \in DOMAIN w :
        LET x == Replace(w[i], pair, sib) IN
        /\ x.kind = w[i].kind /\ x.key = w[i].key /\ x.parent = w[i].parent /\ x.echo = w[i].echo
        /\ x.first = IF w[i].first = pair THEN sib ELSE w[i].first
        /\ x.second = IF w[i].second = pair THEN sib ELSE w[i].second
  BY <1>3 DEF Replace, IsWindow, Fields
<1>7. /\ DOMAIN v = DOMAIN p \ Inside(w, id)
      /\ \A i \in DOMAIN v : v[i] = [p[i] EXCEPT !.echo = IF @ \in closing THEN 0 ELSE @,
                                                 !.key = IF @ \in DOMAIN v THEN @ ELSE 0]
  BY DEF Pruned
<1> HIDE DEF v, p, adopted, up, sib, pair, closing
<1>8. \A i \in DOMAIN w :
        /\ adopted[i].kind = w[i].kind /\ adopted[i].key = w[i].key
        /\ adopted[i].parent = w[i].parent /\ adopted[i].echo = w[i].echo
        /\ adopted[i].first = IF i = up /\ w[i].first = pair THEN sib ELSE w[i].first
        /\ adopted[i].second = IF i = up /\ w[i].second = pair THEN sib ELSE w[i].second
  BY <1>5, <1>6
<1>9. /\ DOMAIN kept = DOMAIN w
      /\ \A i \in DOMAIN w :
           /\ IsWindow(kept[i])
           /\ kept[i].kind = adopted[i].kind /\ kept[i].key = adopted[i].key
           /\ kept[i].parent = IF i = sib THEN up ELSE adopted[i].parent
           /\ kept[i].first = adopted[i].first /\ kept[i].second = adopted[i].second
           /\ kept[i].echo = adopted[i].echo
  <2>1. DOMAIN kept = DOMAIN w
    BY <1>4
  <2>2. ASSUME NEW i \in DOMAIN w
        PROVE  /\ IsWindow(kept[i])
               /\ kept[i].kind = adopted[i].kind /\ kept[i].key = adopted[i].key
               /\ kept[i].parent = IF i = sib THEN up ELSE adopted[i].parent
               /\ kept[i].first = adopted[i].first /\ kept[i].second = adopted[i].second
               /\ kept[i].echo = adopted[i].echo
    <3>1. CASE i = sib
      <4>1. kept[i] = [adopted[i] EXCEPT !.parent = up] /\ IsWindow(adopted[i])
        BY <3>1, <1>4
      <4> QED BY <4>1, <3>1 DEF IsWindow, Fields
    <3>2. CASE i # sib
      <4>1. kept[i] = adopted[i]
        BY <3>2, <1>4
      <4> QED BY <4>1, <3>2, <1>4
    <3> QED BY <3>1, <3>2
  <2> QED BY <2>1, <2>2
<1> HIDE DEF kept
<1>10. DOMAIN p = DOMAIN w \ {pair} /\ \A i \in DOMAIN p : p[i] = kept[i]
  BY <1>1, <1>9 DEF Restrict
<1>11. DOMAIN v = DOMAIN w \ ({pair} \cup Inside(w, id))
  BY <1>7, <1>10
<1>12. ASSUME NEW i \in DOMAIN v
       PROVE  /\ v[i].kind = w[i].kind
              /\ v[i].parent = IF i = sib THEN up ELSE w[i].parent
              /\ v[i].first = IF i = up /\ w[i].first = pair THEN sib ELSE w[i].first
              /\ v[i].second = IF i = up /\ w[i].second = pair THEN sib ELSE w[i].second
              /\ v[i].key = IF w[i].key \in DOMAIN v THEN w[i].key ELSE 0
              /\ v[i].echo = IF w[i].echo \in closing THEN 0 ELSE w[i].echo
  <2>1. i \in DOMAIN w /\ i \in DOMAIN p
    BY <1>7, <1>11
  <2>2. /\ v[i] = [kept[i] EXCEPT !.echo = IF @ \in closing THEN 0 ELSE @,
                                  !.key = IF @ \in DOMAIN v THEN @ ELSE 0]
        /\ IsWindow(kept[i])
    BY <2>1, <1>7, <1>9, <1>10
  <2>3. /\ v[i].kind = kept[i].kind /\ v[i].parent = kept[i].parent
        /\ v[i].first = kept[i].first /\ v[i].second = kept[i].second
        /\ v[i].key = IF kept[i].key \in DOMAIN v THEN kept[i].key ELSE 0
        /\ v[i].echo = IF kept[i].echo \in closing THEN 0 ELSE kept[i].echo
    BY <2>2 DEF IsWindow, Fields
  <2> QED BY <2>1, <2>3, <1>8, <1>9
<1>13. PrunedFrom(v, w, id, closing)
  BY <1>11, <1>12 DEF PrunedFrom, pair, sib, up
<1> QED BY <1>13 DEF v, closing

\* A window is kept when it is neither the pair nor inside what is closed; so is its parent, or
\* its parent is the pair.
LEMMA KeptBy ==
  ASSUME NEW w, NEW r, TreeOf(w, r), Ranked(w), NEW id \in DOMAIN w, w[id].parent # 0
  PROVE  LET pair == w[id].parent
             sib == Sibling(w[pair], id)
             up == w[pair].parent
             K == DOMAIN w \ ({pair} \cup Inside(w, id))
         IN  /\ sib \in K /\ up # pair /\ sib # pair
             /\ up \in DOMAIN w => up \in K
             /\ \A i \in K : i # id /\ id \notin Above(w, i) /\ (w[i].parent = pair <=> i = sib)
             /\ \A i \in K : w[i].parent \in DOMAIN w => w[i].parent \in K \cup {pair}
             /\ \A i \in K : \A c \in DOMAIN w : w[c].parent = i => c \in K \cup {pair}
             /\ r \in K \cup {pair}
<1> DEFINE pair == w[id].parent
           sib == Sibling(w[pair], id)
           up == w[pair].parent
           K == DOMAIN w \ ({pair} \cup Inside(w, id))
<1>1. /\ id # r /\ pair \in DOMAIN w /\ IsPair(w[pair])
      /\ {w[pair].first, w[pair].second} = {id, sib} /\ sib # id
      /\ sib \in DOMAIN w /\ w[sib].parent = pair
  BY SiblingIs
<1>2. PICK N, rank : N \in Nat /\ RankedBy(w, rank, N)
  BY DEF Ranked
<1>3. \A i \in DOMAIN w : rank[i] \in Nat /\ (w[i].parent \in DOMAIN w => rank[w[i].parent] < rank[i])
  BY <1>2 DEF RankedBy
<1>4. \A i \in DOMAIN w : \A j \in Above(w, i) : j \in DOMAIN w /\ (j # i => rank[j] < rank[i])
  BY <1>2, AboveRanks
<1>5. \A i \in DOMAIN w :
        Above(w, i) = {i} \cup IF w[i].parent \in DOMAIN w THEN Above(w, w[i].parent) ELSE {}
  BY AboveIs
<1>6. rank[pair] < rank[id] /\ rank[pair] < rank[sib]
  BY <1>1, <1>3
<1>7. \A i \in K : i \in DOMAIN w /\ i # pair /\ id \notin Above(w, i) /\ i # id
  BY <1>5 DEF Inside
<1>8. \A i \in DOMAIN w : i # pair /\ id \notin Above(w, i) => i \in K
  BY DEF Inside
<1> HIDE DEF K
<1>9. id \notin Above(w, pair)
  <2> SUFFICES ASSUME id \in Above(w, pair) PROVE FALSE
    OBVIOUS
  <2>1. id = pair \/ rank[id] < rank[pair]
    BY <1>1, <1>4
  <2> QED BY <2>1, <1>1, <1>3, <1>6
<1>10. sib # pair /\ id \notin Above(w, sib)
  <2>1. Above(w, sib) = {sib} \cup Above(w, pair)
    BY <1>1, <1>5
  <2> QED BY <2>1, <1>1, <1>3, <1>6, <1>9
<1>11. sib \in K
  BY <1>1, <1>8, <1>10
<1>12. up # pair /\ (up \in DOMAIN w => up \in K)
  <2>1. up # pair
    BY <1>1, <1>3
  <2>2. ASSUME up \in DOMAIN w PROVE id \notin Above(w, up)
    <3>1. Above(w, pair) = {pair} \cup Above(w, up)
      BY <2>2, <1>1, <1>5
    <3> QED BY <3>1, <1>9
  <2> QED BY <2>1, <2>2, <1>8
<1>13. ASSUME NEW i \in K PROVE w[i].parent = pair <=> i = sib
  <2>1. ASSUME w[i].parent = pair PROVE i = sib
    <3>1. i # r
      <4> SUFFICES ASSUME i = r PROVE FALSE
        OBVIOUS
      <4>1. w[r].parent = 0 /\ 0 \notin DOMAIN w
        BY <1>7 DEF TreeOf
      <4> QED BY <4>1, <2>1, <1>1
    <3>2. i \in {w[pair].first, w[pair].second}
      <4>1. UnderParent(w, i)
        BY <3>1, <1>7 DEF TreeOf
      <4> QED BY <4>1, <2>1 DEF UnderParent
    <3> QED BY <3>2, <1>1, <1>7
  <2> QED BY <2>1, <1>1
<1>14. ASSUME NEW i \in K, w[i].parent \in DOMAIN w PROVE w[i].parent \in K \cup {pair}
  <2>1. Above(w, i) = {i} \cup Above(w, w[i].parent)
    BY <1>5, <1>7, <1>14
  <2> QED BY <2>1, <1>7, <1>8, <1>14
<1>15. ASSUME NEW i \in K, NEW c \in DOMAIN w, w[c].parent = i PROVE c \in K \cup {pair}
  <2>1. Above(w, c) = {c} \cup Above(w, i)
    BY <1>5, <1>7, <1>15
  <2>2. c # id
    BY <1>7, <1>15
  <2> QED BY <2>1, <2>2, <1>7, <1>8
<1>16. r \in K \cup {pair}
  <2>1. r \in DOMAIN w /\ w[r].parent = 0 /\ 0 \notin DOMAIN w
    BY <1>1 DEF TreeOf
  <2>2. Above(w, r) = {r}
    BY <2>1, <1>5
  <2> QED BY <2>1, <2>2, <1>1, <1>8
<1> QED BY <1>7, <1>10, <1>11, <1>12, <1>13, <1>14, <1>15, <1>16 DEF K

LEMMA PrunedRooted ==
  ASSUME WindowsFormed, Rooted(windows, root), NEW id \in DOMAIN windows
  PROVE  Rooted(Pruned(id), NewRoot(id))
<1> DEFINE w == windows
           v == Pruned(id)
           r == NewRoot(id)
<1>0. TreeOf(w, root) /\ Ranked(w) /\ KeysOf(w)
  BY DEF Rooted
<1>1. CASE w[id].parent = 0
  <2>1. root \in DOMAIN w /\ id = root
    BY <1>0, <1>1 DEF TreeOf, UnderParent
  <2>2. Inside(w, id) = DOMAIN w
    BY <2>1, <1>0, RootAbove DEF Inside
  <2>3. DOMAIN v = {}
    <3>1. Promoted(id) = w
      BY <1>1 DEF Promoted
    <3> QED BY <3>1, <2>2 DEF Pruned
  <2>4. r = 0
    BY <1>0, <1>1, <2>1 DEF NewRoot, TreeOf
  <2> HIDE DEF v, r
  <2>5. TreeOf(v, r) /\ KeysOf(v)
    BY <2>3, <2>4 DEF TreeOf, KeysOf
  <2>6. RankedBy(v, [i \in DOMAIN v |-> 0], 0)
    BY <2>3 DEF RankedBy
  <2>7. Rooted(v, r)
    BY <2>5, <2>6 DEF Rooted, Ranked
  <2> QED BY <2>7 DEF v, r
<1>2. CASE w[id].parent # 0
  <2> DEFINE pair == w[id].parent
             sib == Sibling(w[pair], id)
             up == w[pair].parent
             K == DOMAIN w \ ({pair} \cup Inside(w, id))
  <2>1. /\ id # root /\ pair \in DOMAIN w /\ IsPair(w[pair])
        /\ {w[pair].first, w[pair].second} = {id, sib} /\ sib # id
        /\ sib \in DOMAIN w /\ w[sib].parent = pair
    BY <1>0, <1>2, SiblingIs
  <2>2. /\ sib \in K /\ up # pair /\ sib # pair
        /\ up \in DOMAIN w => up \in K
        /\ \A i \in K : i # id /\ id \notin Above(w, i) /\ (w[i].parent = pair <=> i = sib)
        /\ \A i \in K : w[i].parent \in DOMAIN w => w[i].parent \in K \cup {pair}
        /\ \A i \in K : \A c \in DOMAIN w : w[c].parent = i => c \in K \cup {pair}
        /\ root \in K \cup {pair}
    BY <1>0, <1>2, KeptBy
  <2>3. /\ DOMAIN v = K
        /\ \A i \in K :
             /\ v[i].kind = w[i].kind
             /\ v[i].parent = IF i = sib THEN up ELSE w[i].parent
             /\ v[i].first = IF i = up /\ w[i].first = pair THEN sib ELSE w[i].first
             /\ v[i].second = IF i = up /\ w[i].second = pair THEN sib ELSE w[i].second
             /\ v[i].key = IF w[i].key \in K THEN w[i].key ELSE 0
    <3>1. PrunedFrom(v, w, id, Closing(id))
      BY <1>0, <1>2, PrunedFields
    <3> HIDE DEF v, w
    <3> QED BY <3>1 DEF PrunedFrom
  <2>4. r = IF pair = root THEN sib ELSE root
    BY <1>2 DEF NewRoot
  <2>5. /\ K \subseteq DOMAIN w /\ pair \notin K
        /\ 0 \notin DOMAIN w /\ root # 0 /\ w[root].parent = 0 /\ root \in DOMAIN w
        /\ \A i \in DOMAIN w : (i # root => UnderParent(w, i)) /\ HasChildren(w, i)
    BY <1>0, <2>1 DEF TreeOf
  <2>6. \A i \in K : IsPair(v[i]) <=> IsPair(w[i])
    BY <2>3 DEF IsPair
  <2>7. pair # root => up \in DOMAIN w /\ pair \in {w[up].first, w[up].second}
    BY <2>1, <2>5 DEF UnderParent
  <2>8. pair = root => up = 0
    BY <2>5
  <2> HIDE DEF v, r, K, up, sib, pair, w
  <2>9. TreeOf(v, r)
    <3>1. 0 \notin DOMAIN v /\ r # 0 /\ DOMAIN v # {}
      BY <2>2, <2>3, <2>4, <2>5
    <3>2. r \in DOMAIN v /\ v[r].parent = 0
      <4>1. CASE pair = root BY <4>1, <2>2, <2>3, <2>4, <2>8
      <4>2. CASE pair # root
        <5>1. root \in K /\ r = root
          BY <4>2, <2>2, <2>4
        <5>2. root # sib
          BY <2>1, <2>5
        <5> QED BY <5>1, <5>2, <2>3, <2>5
      <4> QED BY <4>1, <4>2
    <3>3. ASSUME NEW i \in K, i # r PROVE UnderParent(v, i)
      <4>1. CASE i = sib
        <5>1. pair # root
          BY <3>3, <4>1, <2>4
        <5>2. up \in DOMAIN w /\ pair \in {w[up].first, w[up].second} /\ up \in K
          BY <5>1, <2>2, <2>7
        <5>3. v[i].parent = up /\ sib \in {v[up].first, v[up].second}
          BY <4>1, <5>2, <2>3, <3>3
        <5> QED BY <5>2, <5>3, <4>1, <2>3 DEF UnderParent
      <4>2. CASE i # sib
        <5>1. i # root
          BY <3>3, <2>2, <2>4, <2>5
        <5>2. w[i].parent \in DOMAIN w /\ i \in {w[w[i].parent].first, w[w[i].parent].second}
          BY <5>1, <3>3, <2>5 DEF UnderParent
        <5>3. w[i].parent \in K
          BY <5>2, <4>2, <3>3, <2>2
        <5>4. v[i].parent = w[i].parent /\ i # pair
          BY <4>2, <3>3, <2>3, <2>5
        <5>5. i \in {v[w[i].parent].first, v[w[i].parent].second}
          BY <5>2, <5>3, <5>4, <2>3
        <5> QED BY <5>3, <5>4, <5>5, <2>3 DEF UnderParent
      <4> QED BY <4>1, <4>2
    <3>4. ASSUME NEW i \in K PROVE HasChildren(v, i)
      <4>0. HasChildren(w, i) /\ (IsPair(v[i]) <=> IsPair(w[i])) /\ i \in DOMAIN w
        BY <3>4, <2>5, <2>6
      <4>1. CASE ~ IsPair(w[i])
        <5>1. w[i].first = 0 /\ w[i].second = 0 /\ pair # 0
          BY <4>0, <4>1, <2>1, <2>5 DEF HasChildren
        <5>2. v[i].first = 0 /\ v[i].second = 0
          BY <5>1, <3>4, <2>3
        <5> QED BY <4>0, <4>1, <5>2 DEF HasChildren
      <4>2. CASE IsPair(w[i])
        <5>1. /\ w[i].first # w[i].second
              /\ \A c \in {w[i].first, w[i].second} : c \in DOMAIN w /\ w[c].parent = i
          BY <4>0, <4>2 DEF HasChildren
        <5>2. w[i].first # sib /\ w[i].second # sib
          BY <5>1, <2>1, <2>5, <3>4
        <5>3. v[i].first # v[i].second
          BY <5>1, <5>2, <3>4, <2>3
        <5>4. ASSUME NEW c \in {v[i].first, v[i].second} PROVE c \in K /\ v[c].parent = i
          <6>1. CASE c = sib
            <7>1. i = up
              BY <6>1, <5>2, <5>4, <3>4, <2>3
            <7> QED BY <6>1, <7>1, <2>2, <2>3
          <6>2. CASE c # sib
            <7>1. c \in {w[i].first, w[i].second} /\ (c = pair => i # up)
              BY <6>2, <5>4, <3>4, <2>3
            <7>2. c \in DOMAIN w /\ w[c].parent = i
              BY <7>1, <5>1
            <7>3. c # pair
              BY <7>1, <7>2 DEF up
            <7>4. c \in K
              BY <7>2, <7>3, <2>2, <3>4
            <7> QED BY <6>2, <7>2, <7>4, <2>3
          <6> QED BY <6>1, <6>2
        <5> QED BY <4>0, <4>2, <5>3, <5>4, <2>3 DEF HasChildren
      <4> QED BY <4>1, <4>2
    <3> QED BY <3>1, <3>2, <3>3, <3>4, <2>3 DEF TreeOf
  <2>10. PICK N, rank : N \in Nat /\ RankedBy(w, rank, N)
    BY <1>0 DEF Ranked
  <2>11. \A i \in DOMAIN w : rank[i] \in 0 .. N /\ (w[i].parent \in DOMAIN w => rank[w[i].parent] < rank[i])
    BY <2>10 DEF RankedBy
  <2>12. up \in DOMAIN w => rank[up] < rank[sib]
    <3> SUFFICES ASSUME up \in DOMAIN w PROVE rank[up] < rank[sib]
      OBVIOUS
    <3>1. rank[up] < rank[pair] /\ rank[pair] < rank[sib]
      BY <2>1, <2>11 DEF up
    <3>2. rank[up] \in Nat /\ rank[pair] \in Nat /\ rank[sib] \in Nat
      BY <2>1, <2>11
    <3> QED BY <3>1, <3>2
  <2>13. Ranked(v)
    <3> DEFINE h == [i \in DOMAIN v |-> rank[i]]
    <3>1. h \in [DOMAIN v -> 0 .. N]
      BY <2>3, <2>5, <2>11
    <3>2. ASSUME NEW i \in DOMAIN v, v[i].parent \in DOMAIN v PROVE h[v[i].parent] < h[i]
      <4>1. CASE i = sib
        <5>1. v[i].parent = up /\ up \in DOMAIN w
          BY <4>1, <3>2, <2>3, <2>5
        <5> QED BY <5>1, <4>1, <3>2, <2>12
      <4>2. CASE i # sib
        <5>1. v[i].parent = w[i].parent /\ w[i].parent \in DOMAIN w /\ i \in DOMAIN w
          BY <4>2, <3>2, <2>3, <2>5
        <5> QED BY <5>1, <3>2, <2>11
      <4> QED BY <4>1, <4>2
    <3> HIDE DEF h
    <3>3. RankedBy(v, h, N)
      BY <3>1, <3>2 DEF RankedBy
    <3> QED BY <3>3, <2>10 DEF Ranked
  <2>14. \A i \in K : Above(w, i) \cap K \subseteq Above(v, i)
    <3>1. rank \in [DOMAIN w -> Nat]
      BY <2>10, RankedFalls
    <3>2. ASSUME NEW i \in K
          PROVE  /\ i \in Above(v, i)
                 /\ \/ Above(w, i) \cap K \subseteq {i}
                    \/ \E j \in K : /\ rank[j] < rank[i]
                                    /\ Above(w, i) \cap K \subseteq {i} \cup Above(w, j)
                                    /\ Above(v, j) \subseteq Above(v, i)
      <4>1. Above(w, i) = {i} \cup IF w[i].parent \in DOMAIN w THEN Above(w, w[i].parent) ELSE {}
        BY <1>0, <2>5, <3>2, AboveIs DEF w
      <4>2. Above(v, i) = {i} \cup IF v[i].parent \in K THEN Above(v, v[i].parent) ELSE {}
        BY <2>3, <2>13, <3>2, AboveIs
      <4>3. CASE i = sib
        <5>1. Above(w, pair) = {pair} \cup IF up \in DOMAIN w THEN Above(w, up) ELSE {}
          BY <1>0, <2>1, AboveIs DEF w, up
        <5>2. w[i].parent = pair /\ v[i].parent = up
          BY <4>3, <2>1, <2>3, <3>2
        <5>3. CASE up \in DOMAIN w
          <6>1. up \in K
            BY <5>3, <2>2
          <6>2. Above(w, i) \cap K \subseteq {i} \cup Above(w, up)
            BY <4>1, <5>1, <5>2, <5>3, <2>1, <2>5
          <6> QED BY <6>1, <6>2, <4>2, <4>3, <5>2, <5>3, <2>12
        <5>4. CASE up \notin DOMAIN w
          BY <5>4, <5>1, <5>2, <4>1, <4>2, <2>1, <2>5
        <5> QED BY <5>3, <5>4
      <4>4. CASE i # sib
        <5>1. v[i].parent = w[i].parent
          BY <4>4, <2>3, <3>2
        <5>2. CASE w[i].parent \in DOMAIN w
          <6>1. w[i].parent \in K
            BY <5>2, <4>4, <2>2, <3>2
          <6>2. rank[w[i].parent] < rank[i]
            BY <5>2, <2>5, <2>11, <3>2
          <6> QED BY <6>1, <6>2, <5>1, <5>2, <4>1, <4>2
        <5>3. CASE w[i].parent \notin DOMAIN w
          BY <5>3, <4>1, <4>2
        <5> QED BY <5>2, <5>3
      <4> QED BY <4>3, <4>4
    <3>3. K \in SUBSET DOMAIN w
      BY <2>5
    <3> QED BY <3>1, <3>2, <3>3, AboveStays
  <2>15. KeysOf(v)
    <3> SUFFICES ASSUME NEW i \in K, v[i].key # 0
                 PROVE  IsPair(v[i]) /\ v[i].key \in K /\ i \in Above(v, v[i].key) /\ ~ IsPair(v[v[i].key])
      BY <2>3 DEF KeysOf
    <3>1. v[i].key = w[i].key /\ w[i].key \in K /\ w[i].key # 0
      BY <2>3
    <3>2. IsPair(w[i]) /\ i \in Above(w, w[i].key) /\ ~ IsPair(w[w[i].key])
      BY <3>1, <1>0, <2>5 DEF KeysOf, w
    <3> QED BY <3>1, <3>2, <2>6, <2>14
  <2>16. Rooted(v, r)
    BY <2>9, <2>13, <2>15 DEF Rooted
  <2> QED BY <2>16 DEF v, r
<1> QED BY <1>1, <1>2

-----------------------------------------------------------------------------
(* Windows and the streams they refer to *)

\* Windows with contents and their streams refer to each other, and nothing to what is gone.
Live(w, st, current) ==
  /\ \A i \in DOMAIN w : IF IsPair(w[i]) THEN w[i].stream = 0
                         ELSE w[i].stream \in DOMAIN st /\ st[w[i].stream].window = i
  /\ \A s \in DOMAIN st : st[s].window # 0 =>
       st[s].window \in DOMAIN w /\ ~ IsPair(w[st[s].window]) /\ w[st[s].window].stream = s
  /\ \A i \in DOMAIN w : w[i].echo \in DOMAIN st \cup {0}
  /\ current \in DOMAIN st \cup {0}

LinkInv ==
  /\ windows = [i \in DOMAIN windows |-> windows[i]]
  /\ Rooted(windows, root) /\ Live(windows, streams, current_stream)

\* Live leaves out where windows are.
LEMMA LiveLaidOut ==
  ASSUME NEW w, NEW r, NEW view, \A i \in DOMAIN w : IsWindow(w[i]), NEW st, NEW current, Live(w, st, current)
  PROVE  Live(LaidOut(w, r, view), st, current)
<1> DEFINE v == LaidOut(w, r, view)
<1>1. /\ DOMAIN v = DOMAIN w
      /\ \A i \in DOMAIN w : /\ IsPair(v[i]) <=> IsPair(w[i])
                             /\ v[i].stream = w[i].stream /\ v[i].echo = w[i].echo
  BY LaidOutShape, LaidOutKeeps DEF SameShape, IsPair
<1> HIDE DEF v
<1>2. Live(v, st, current)
  BY <1>1 DEF Live
<1> QED BY <1>2 DEF v

\* A change of the tree is one of the windows before the layout.
LEMMA ArrangedLinks ==
  ASSUME NEW w, NEW r, NEW view, \A i \in DOMAIN w : IsWindow(w[i]),
         Rooted(w, r), Live(w, streams', current_stream'),
         windows' = LaidOut(w, r, view), root' = r
  PROVE  LinkInv'
<1>1. windows' = [i \in DOMAIN windows' |-> windows'[i]]
  BY DEF LaidOut
<1> QED BY <1>1, LiveLaidOut, RootedLaidOut DEF LinkInv

LEMMA OpenFirstLinks ==
  ASSUME WindowInv, LinkInv, "pair" \notin Kinds, NEW kind \in Kinds, OpenFirst(kind)
  PROVE  LinkInv'
<1> USE DEF WindowInv
<1> DEFINE id == next_window
           w == [i \in {id} |-> NewWindow(kind, 0, next_stream)]
<1>1. /\ windows' = LaidOut(w, id, viewport) /\ root' = id /\ root = 0
      /\ AddStream(WindowStream(id)) /\ current_stream' = current_stream
  BY DEF OpenFirst, Arrange
<1>2. id \in Nat \ {0} /\ next_stream \in Nat \ {0}
  BY DEF WindowsFormed
<1>3. DOMAIN w = {id} /\ w[id] = NewWindow(kind, 0, next_stream)
  OBVIOUS
<1>4. /\ w[id].kind = kind /\ w[id].parent = 0 /\ w[id].key = 0 /\ w[id].echo = 0
      /\ w[id].first = 0 /\ w[id].second = 0 /\ w[id].stream = next_stream
  BY DEF NewWindow
<1>5. ~ IsPair(w[id])
  BY <1>4 DEF IsPair
<1>6. \A i \in DOMAIN w : IsWindow(w[i])
  BY <1>3, NewWindowFormed
<1> HIDE DEF w, id
<1>7. Rooted(w, id)
  <2>1. TreeOf(w, id) /\ KeysOf(w)
    BY <1>2, <1>3, <1>4, <1>5 DEF TreeOf, HasChildren, KeysOf
  <2>2. RankedBy(w, [i \in DOMAIN w |-> 0], 0)
    BY <1>2, <1>3, <1>4 DEF RankedBy
  <2> QED BY <2>1, <2>2 DEF Rooted, Ranked
<1>8. DOMAIN windows = {}
  BY <1>1 DEF LinkInv, Rooted, TreeOf
<1>9. /\ DOMAIN streams' = DOMAIN streams \cup {next_stream} /\ next_stream \notin DOMAIN streams
      /\ streams'[next_stream] = WindowStream(id)
      /\ \A s \in DOMAIN streams : streams'[s] = streams[s]
  BY <1>1, AddedStream
<1>10. WindowStream(id).window = id
  BY DEF WindowStream
<1>11. Live(w, streams', current_stream')
  BY <1>1, <1>3, <1>4, <1>5, <1>8, <1>9, <1>10 DEF LinkInv, Live
<1> QED BY <1>1, <1>6, <1>7, <1>11, ArrangedLinks

LEMMA OpenBesideLinks ==
  ASSUME WindowInv, LinkInv, "pair" \notin Kinds, NEW split \in DOMAIN windows,
         NEW method \in Methods, NEW size \in Sizes, NEW kind \in Kinds,
         OpenBeside(split, method, size, kind)
  PROVE  LinkInv'
<1> USE DEF WindowInv
<1> DEFINE id == next_window
           w == Split(split, id, kind, method, size)
           r == IF split = root THEN id + 1 ELSE root
<1>1. /\ windows' = LaidOut(w, r, viewport) /\ root' = r
      /\ AddStream(WindowStream(id)) /\ current_stream' = current_stream
  BY DEF OpenBeside, Arrange
<1>2. Rooted(w, r)
  BY SplitRooted DEF LinkInv
<1>3. SplitInto(w, windows, split, id, kind)
  BY SplitFields DEF LinkInv, Rooted
<1>4. /\ DOMAIN w = DOMAIN windows \cup {id, id + 1}
      /\ \A i \in DOMAIN w : IsWindow(w[i])
      /\ w[id].stream = next_stream /\ w[id + 1].stream = 0
      /\ \A i \in DOMAIN windows : w[i].stream = windows[i].stream
  <2> DEFINE v == Split(split, next_window, kind, method, size)
  <2>1. /\ DOMAIN v = DOMAIN windows \cup {next_window, next_window + 1}
        /\ \A i \in DOMAIN v : IsWindow(v[i])
        /\ v[next_window].stream = next_stream /\ v[next_window + 1].stream = 0
        /\ \A i \in DOMAIN windows : v[i].stream = windows[i].stream
                                     /\ v[i].reversed = windows[i].reversed
    BY SplitKeeps
  <2> HIDE DEF v
  <2> QED BY <2>1 DEF v
<1>5. id # id + 1 /\ id # 0 /\ id \notin DOMAIN windows /\ id + 1 \notin DOMAIN windows
  BY DEF WindowsFormed
<1>6. /\ DOMAIN streams' = DOMAIN streams \cup {next_stream} /\ next_stream \notin DOMAIN streams
      /\ streams'[next_stream] = WindowStream(id)
      /\ \A s \in DOMAIN streams : streams'[s] = streams[s]
  BY <1>1, AddedStream
<1>7. WindowStream(id).window = id
  BY DEF WindowStream
<1>8. kind # "pair"
  OBVIOUS
<1> HIDE DEF w, id, r
<1>9. /\ ~ IsPair(w[id]) /\ IsPair(w[id + 1]) /\ w[id].echo = 0 /\ w[id + 1].echo = 0
      /\ \A i \in DOMAIN windows : (IsPair(w[i]) <=> IsPair(windows[i])) /\ w[i].echo = windows[i].echo
  BY <1>3, <1>8 DEF SplitInto, IsPair
<1>10. Live(windows, streams, current_stream)
  BY DEF LinkInv
<1>11. Live(w, streams', current_stream')
  <2>1. ASSUME NEW i \in DOMAIN w
        PROVE  IF IsPair(w[i]) THEN w[i].stream = 0
               ELSE w[i].stream \in DOMAIN streams' /\ streams'[w[i].stream].window = i
    <3>1. CASE i = id BY <3>1, <1>4, <1>6, <1>7, <1>9
    <3>2. CASE i = id + 1 BY <3>2, <1>4, <1>9
    <3>3. CASE i \in DOMAIN windows BY <3>3, <1>4, <1>6, <1>9, <1>10 DEF Live
    <3> QED BY <3>1, <3>2, <3>3, <1>4
  <2>2. ASSUME NEW s \in DOMAIN streams', streams'[s].window # 0
        PROVE  LET i == streams'[s].window IN i \in DOMAIN w /\ ~ IsPair(w[i]) /\ w[i].stream = s
    <3>1. CASE s = next_stream BY <3>1, <1>4, <1>6, <1>7, <1>9
    <3>2. CASE s \in DOMAIN streams BY <3>2, <2>2, <1>4, <1>6, <1>9, <1>10 DEF Live
    <3> QED BY <3>1, <3>2, <1>6
  <2>3. ASSUME NEW i \in DOMAIN w PROVE w[i].echo \in DOMAIN streams' \cup {0}
    BY <1>4, <1>6, <1>9, <1>10 DEF Live
  <2>4. current_stream' \in DOMAIN streams' \cup {0}
    BY <1>1, <1>6, <1>10 DEF Live
  <2> QED BY <2>1, <2>2, <2>3, <2>4 DEF Live
<1> QED BY <1>1, <1>2, <1>4, <1>11, ArrangedLinks

LEMMA CloseLinks ==
  ASSUME WindowInv, LinkInv, NEW id \in DOMAIN windows, CloseWindow(id)
  PROVE  LinkInv'
<1> USE DEF WindowInv
<1> DEFINE w == Pruned(id)
           r == NewRoot(id)
           closing == Closing(id)
<1>1. /\ windows' = LaidOut(w, r, viewport) /\ root' = r
      /\ streams' = Restrict(streams, DOMAIN streams \ closing)
      /\ current_stream' = IF current_stream \in closing THEN 0 ELSE current_stream
  BY DEF CloseWindow, Arrange
<1>2. Rooted(w, r)
  BY PrunedRooted DEF LinkInv
<1>3. /\ DOMAIN w \subseteq DOMAIN windows
      /\ \A i \in DOMAIN w : IsWindow(w[i]) /\ w[i].stream = windows[i].stream
  BY PrunedKeeps DEF Moved
<1>4. Live(windows, streams, current_stream) /\ TreeOf(windows, root)
  BY DEF LinkInv, Rooted
<1>5. closing = {windows[i].stream : i \in Inside(windows, id)} \ {0} /\ Inside(windows, id) \subseteq DOMAIN windows
  BY DEF Closing, Inside
<1>6. /\ \A i \in DOMAIN windows \ DOMAIN w : i \in Inside(windows, id) \/ IsPair(windows[i])
      /\ DOMAIN w \cap Inside(windows, id) = {}
      /\ \A i \in DOMAIN w : /\ IsPair(w[i]) <=> IsPair(windows[i])
                             /\ w[i].echo = IF windows[i].echo \in closing THEN 0 ELSE windows[i].echo
  <2>1. CASE windows[id].parent = 0
    <3>1. id = root
      BY <2>1, <1>4 DEF TreeOf, UnderParent
    <3>2. Inside(windows, id) = DOMAIN windows
      BY <3>1, RootAbove DEF Inside, LinkInv, Rooted
    <3>3. Promoted(id) = windows
      BY <2>1 DEF Promoted
    <3>4. DOMAIN w = {}
      BY <3>2, <3>3 DEF Pruned
    <3> HIDE DEF w
    <3> QED BY <3>2, <3>4
  <2>2. CASE windows[id].parent # 0
    <3>1. PrunedFrom(w, windows, id, closing)
      BY <2>2, <1>4, PrunedFields
    <3>2. IsPair(windows[windows[id].parent])
      BY <2>2, <1>4, SiblingIs
    <3> HIDE DEF w, closing
    <3> QED BY <3>1, <3>2 DEF PrunedFrom, IsPair
  <2> QED BY <2>1, <2>2
<1> HIDE DEF w, closing, r
<1>7. /\ DOMAIN streams' = DOMAIN streams \ closing
      /\ \A s \in DOMAIN streams' : streams'[s] = streams[s]
  BY <1>1 DEF Restrict
<1>8. 0 \notin DOMAIN streams
  BY DEF StreamsNumbered, WindowsFormed
<1>9. Live(w, streams', current_stream')
  <2>1. ASSUME NEW i \in DOMAIN w
        PROVE  IF IsPair(w[i]) THEN w[i].stream = 0
               ELSE w[i].stream \in DOMAIN streams' /\ streams'[w[i].stream].window = i
    <3>1. CASE IsPair(w[i]) BY <3>1, <1>3, <1>4, <1>6 DEF Live
    <3>2. CASE ~ IsPair(w[i])
      <4>1. i \in DOMAIN windows /\ ~ IsPair(windows[i]) /\ i \notin Inside(windows, id)
        BY <3>2, <1>3, <1>6
      <4>2. windows[i].stream \in DOMAIN streams /\ streams[windows[i].stream].window = i
        BY <4>1, <1>4 DEF Live
      <4>3. ASSUME windows[i].stream \in closing PROVE FALSE
        <5>1. PICK j \in Inside(windows, id) : windows[j].stream = windows[i].stream
          BY <4>3, <1>5
        <5>2. j \in DOMAIN windows /\ windows[j].stream # 0
          BY <5>1, <4>2, <1>5, <1>8
        <5>3. streams[windows[j].stream].window = j
          BY <5>2, <1>4 DEF Live
        <5> QED BY <5>1, <5>3, <4>1, <4>2
      <4> QED BY <3>2, <4>2, <4>3, <1>3, <1>7
    <3> QED BY <3>1, <3>2
  <2>2. ASSUME NEW s \in DOMAIN streams', streams'[s].window # 0
        PROVE  LET i == streams'[s].window IN i \in DOMAIN w /\ ~ IsPair(w[i]) /\ w[i].stream = s
    <3> DEFINE i == streams[s].window
    <3>1. s \in DOMAIN streams /\ s \notin closing /\ streams'[s] = streams[s] /\ s # 0
      BY <1>7, <1>8
    <3>2. i \in DOMAIN windows /\ ~ IsPair(windows[i]) /\ windows[i].stream = s
      BY <2>2, <3>1, <1>4 DEF Live
    <3>3. i \in DOMAIN w
      BY <3>1, <3>2, <1>5, <1>6
    <3> QED BY <3>1, <3>2, <3>3, <1>3, <1>6
  <2>3. ASSUME NEW i \in DOMAIN w PROVE w[i].echo \in DOMAIN streams' \cup {0}
    BY <1>3, <1>4, <1>6, <1>7 DEF Live
  <2>4. current_stream' \in DOMAIN streams' \cup {0}
    BY <1>1, <1>4, <1>7 DEF Live
  <2> QED BY <2>1, <2>2, <2>3, <2>4 DEF Live
<1> QED BY <1>1, <1>2, <1>3, <1>9, ArrangedLinks

LEMMA SetArrangementLinks ==
  ASSUME WindowInv, LinkInv, NEW id \in DOMAIN windows, NEW method \in Methods, NEW size \in Sizes,
         NEW key \in DOMAIN windows \cup {0}, SetArrangement(id, method, size, key)
  PROVE  LinkInv'
<1> USE DEF WindowInv
<1> DEFINE w == [windows EXCEPT ![id].method = method, ![id].size = size,
                                ![id].key = IF key # 0 THEN key ELSE @]
<1>1. /\ windows' = LaidOut(w, root, viewport) /\ root' = root
      /\ UNCHANGED <<streams, current_stream>>
      /\ IsPair(windows[id])
      /\ key # 0 => key \in Inside(windows, id) /\ ~ IsPair(windows[key])
  BY DEF SetArrangement, Arrange
<1>2. DOMAIN w = DOMAIN windows
  OBVIOUS
<1>3. ASSUME NEW i \in DOMAIN windows
      PROVE  /\ IsWindow(w[i]) /\ w[i].kind = windows[i].kind /\ w[i].parent = windows[i].parent
             /\ w[i].first = windows[i].first /\ w[i].second = windows[i].second
             /\ w[i].stream = windows[i].stream /\ w[i].echo = windows[i].echo
             /\ w[i].key = IF i = id /\ key # 0 THEN key ELSE windows[i].key
  <2>1. IsWindow(windows[i])
    BY DEF WindowsFormed
  <2>2. CASE i = id
    <3>1. w[i] = [windows[i] EXCEPT !.method = method, !.size = size, !.key = IF key # 0 THEN key ELSE @]
      BY <2>2
    <3> HIDE DEF w
    <3> QED BY <2>1, <2>2, <3>1 DEF IsWindow, Fields
  <2>3. CASE i # id
    <3>1. w[i] = windows[i]
      BY <2>3
    <3> HIDE DEF w
    <3> QED BY <2>1, <2>3, <3>1
  <2> QED BY <2>2, <2>3
<1> HIDE DEF w
<1>4. Rooted(w, root)
  <2>1. SameShape(windows, w)
    BY <1>2, <1>3 DEF SameShape
  <2>2. ASSUME NEW i \in DOMAIN windows, w[i].key # windows[i].key, w[i].key # 0
        PROVE  IsPair(windows[i]) /\ w[i].key \in DOMAIN windows /\ i \in Above(windows, w[i].key)
               /\ ~ IsPair(windows[w[i].key])
    <3>1. i = id /\ key # 0 /\ w[i].key = key
      BY <2>2, <1>3
    <3> QED BY <3>1, <1>1 DEF Inside
  <2> QED BY <2>1, <2>2, RootedSame DEF LinkInv
<1>5. Live(w, streams', current_stream')
  <2>1. \A i \in DOMAIN windows : IsPair(w[i]) <=> IsPair(windows[i])
    BY <1>3 DEF IsPair
  <2> QED BY <2>1, <1>1, <1>2, <1>3 DEF Live, LinkInv
<1> QED BY <1>1, <1>2, <1>3, <1>4, <1>5, ArrangedLinks

LEMMA SetViewportLinks ==
  ASSUME WindowInv, LinkInv, NEW size \in Viewports, SetViewport(size)
  PROVE  LinkInv'
<1>1. /\ windows' = LaidOut(windows, root, size) /\ root' = root
      /\ UNCHANGED <<streams, current_stream>>
  BY DEF SetViewport, Arrange
<1>2. \A i \in DOMAIN windows : IsWindow(windows[i])
  BY DEF WindowInv, WindowsFormed
<1>3. Live(windows, streams', current_stream')
  BY <1>1 DEF LinkInv
<1> QED BY <1>1, <1>2, <1>3, ArrangedLinks DEF LinkInv

\* What leaves the windows as they are but for their echoes.
LEMMA EchoesLink ==
  ASSUME WindowInv, LinkInv, root' = root,
         windows' = [i \in DOMAIN windows |-> windows'[i]],
         \A i \in DOMAIN windows :
           /\ windows'[i] = [windows[i] EXCEPT !.echo = windows'[i].echo]
           /\ windows'[i].echo \in DOMAIN streams' \cup {0},
         \A s \in DOMAIN streams : streams[s].window # 0 => s \in DOMAIN streams' /\ streams'[s] = streams[s],
         \A s \in DOMAIN streams' : streams'[s].window # 0 => s \in DOMAIN streams /\ streams'[s] = streams[s],
         current_stream' \in DOMAIN streams' \cup {0}
  PROVE  LinkInv'
<1>1. DOMAIN windows' = DOMAIN windows
  OBVIOUS
<1>2. ASSUME NEW i \in DOMAIN windows
      PROVE  /\ windows'[i].kind = windows[i].kind /\ windows'[i].parent = windows[i].parent
             /\ windows'[i].first = windows[i].first /\ windows'[i].second = windows[i].second
             /\ windows'[i].stream = windows[i].stream /\ windows'[i].key = windows[i].key
             /\ IsPair(windows'[i]) <=> IsPair(windows[i])
  <2>1. IsWindow(windows[i])
    BY DEF WindowInv, WindowsFormed
  <2>2. PICK e : windows'[i] = [windows[i] EXCEPT !.echo = e]
    OBVIOUS
  <2> QED BY <2>1, <2>2 DEF IsWindow, Fields, IsPair
<1>3. Rooted(windows', root')
  <2>1. SameShape(windows, windows')
    BY <1>1, <1>2 DEF SameShape
  <2>2. Rooted(windows, root)
    BY DEF LinkInv
  <2>3. \A i \in DOMAIN windows : windows'[i].key = windows[i].key
    BY <1>2
  <2> QED BY <2>1, <2>2, <2>3, RootedSame
<1>4. Live(windows, streams, current_stream) /\ 0 \notin DOMAIN windows
  BY DEF LinkInv, Rooted, TreeOf
<1>5. Live(windows', streams', current_stream')
  <2>1. ASSUME NEW i \in DOMAIN windows
        PROVE  IF IsPair(windows'[i]) THEN windows'[i].stream = 0
               ELSE windows'[i].stream \in DOMAIN streams' /\ streams'[windows'[i].stream].window = i
    <3>1. CASE IsPair(windows[i]) BY <3>1, <1>2, <1>4 DEF Live
    <3>2. CASE ~ IsPair(windows[i])
      <4>1. windows[i].stream \in DOMAIN streams /\ streams[windows[i].stream].window = i /\ i # 0
        BY <3>2, <1>4 DEF Live
      <4> QED BY <4>1, <3>2, <1>2
    <3> QED BY <3>1, <3>2
  <2>2. ASSUME NEW s \in DOMAIN streams', streams'[s].window # 0
        PROVE  LET i == streams'[s].window
               IN  i \in DOMAIN windows' /\ ~ IsPair(windows'[i]) /\ windows'[i].stream = s
    <3>1. s \in DOMAIN streams /\ streams'[s] = streams[s]
      BY <2>2
    <3>2. LET i == streams[s].window
          IN  i \in DOMAIN windows /\ ~ IsPair(windows[i]) /\ windows[i].stream = s
      BY <2>2, <3>1, <1>4 DEF Live
    <3> QED BY <3>1, <3>2, <1>1, <1>2
  <2> QED BY <2>1, <2>2, <1>1 DEF Live
<1> QED BY <1>1, <1>3, <1>5 DEF LinkInv

LEMMA SameEcho ==
  ASSUME NEW x, IsWindow(x)
  PROVE  x = [x EXCEPT !.echo = x.echo] /\ \A e : [x EXCEPT !.echo = e].echo = e
BY DEF IsWindow, Fields

LEMMA EchoLinks ==
  ASSUME WindowInv, LinkInv, EchoNext
  PROVE  LinkInv'
<1>0. /\ \A i \in DOMAIN windows : IsWindow(windows[i])
      /\ Live(windows, streams, current_stream) /\ windows = [i \in DOMAIN windows |-> windows[i]]
  BY DEF WindowInv, WindowsFormed, LinkInv
<1>1. ASSUME NEW id \in DOMAIN windows, NEW st \in DOMAIN streams \cup {0}, SetEcho(id, st)
      PROVE  LinkInv'
  <2>1. /\ windows' = [windows EXCEPT ![id].echo = st]
        /\ UNCHANGED <<root, streams, current_stream>>
    BY <1>1 DEF SetEcho
  <2>2. windows' = [i \in DOMAIN windows |-> windows'[i]]
    BY <2>1
  <2>3. ASSUME NEW i \in DOMAIN windows
        PROVE  /\ windows'[i] = [windows[i] EXCEPT !.echo = windows'[i].echo]
               /\ windows'[i].echo \in DOMAIN streams' \cup {0}
    <3>1. CASE i = id
      <4>1. windows'[i] = [windows[i] EXCEPT !.echo = st]
        BY <2>1, <3>1
      <4>2. windows'[i].echo = st
        BY <1>0, <4>1, SameEcho
      <4> QED BY <2>1, <4>1, <4>2
    <3>2. CASE i # id
      <4>1. windows'[i] = windows[i]
        BY <2>1, <3>2
      <4> QED BY <1>0, <2>1, <4>1, SameEcho DEF Live
    <3> QED BY <3>1, <3>2
  <2> QED BY <1>0, <2>1, <2>2, <2>3, EchoesLink DEF Live
<1>2. ASSUME NEW st \in DOMAIN streams \cup {0}, SetCurrent(st)
      PROVE  LinkInv'
  <2>1. current_stream' = st /\ UNCHANGED <<windows, root, streams>>
    BY <1>2 DEF SetCurrent
  <2>2. \A i \in DOMAIN windows :
          /\ windows'[i] = [windows[i] EXCEPT !.echo = windows'[i].echo]
          /\ windows'[i].echo \in DOMAIN streams' \cup {0}
    BY <1>0, <2>1, SameEcho DEF Live
  <2> QED BY <1>0, <1>2, <2>1, <2>2, EchoesLink
<1> QED BY <1>1, <1>2 DEF EchoNext

\* Streams that are no window's come, move and go.
OthersMove ==
  /\ UNCHANGED <<windows, root, current_stream>>
  /\ DOMAIN streams \subseteq DOMAIN streams'
  /\ \A s \in DOMAIN streams : streams[s].window = streams'[s].window
                               /\ (streams[s].window # 0 => streams'[s] = streams[s])
  /\ \A s \in DOMAIN streams' \ DOMAIN streams : streams'[s].window = 0

LEMMA OthersLink ==
  ASSUME WindowInv, LinkInv, OthersMove
  PROVE  LinkInv'
<1>0. /\ \A i \in DOMAIN windows : IsWindow(windows[i])
      /\ Live(windows, streams, current_stream) /\ windows = [i \in DOMAIN windows |-> windows[i]]
  BY DEF WindowInv, WindowsFormed, LinkInv
<1>1. \A i \in DOMAIN windows :
        /\ windows'[i] = [windows[i] EXCEPT !.echo = windows'[i].echo]
        /\ windows'[i].echo \in DOMAIN streams' \cup {0}
  BY <1>0, SameEcho DEF Live, OthersMove
<1>2. current_stream' \in DOMAIN streams' \cup {0}
  BY <1>0 DEF Live, OthersMove
<1>3. windows' = [i \in DOMAIN windows |-> windows'[i]] /\ root' = root
  BY <1>0 DEF OthersMove
<1>4. \A s \in DOMAIN streams : streams[s].window # 0 => s \in DOMAIN streams' /\ streams'[s] = streams[s]
  BY DEF OthersMove
<1>5. \A s \in DOMAIN streams' : streams'[s].window # 0 => s \in DOMAIN streams /\ streams'[s] = streams[s]
  BY DEF OthersMove
<1> QED BY <1>1, <1>2, <1>3, <1>4, <1>5, EchoesLink

\* A stream that is no window's belongs to none.
LEMMA OtherStreams ==
  ASSUME StreamsFormed, NEW s \in DOMAIN streams, streams[s].kind # "window"
  PROVE  streams[s].window = 0 /\ (streams[s] \in Memories \/ streams[s] \in Files)
BY DEF StreamsFormed, Memories, Files

LEMMA DetachedLinks ==
  ASSUME StreamsInv, LinkInv, NEW s, Detached(s)
  PROVE  LinkInv'
<1>0. /\ WindowInv /\ \A i \in DOMAIN windows : IsWindow(windows[i])
      /\ Live(windows, streams, current_stream)
  BY DEF StreamsInv, Formed, WindowInv, WindowsFormed, LinkInv
<1>1. /\ s \in DOMAIN streams /\ streams[s].kind # "window"
      /\ DOMAIN streams' = DOMAIN streams \ {s} /\ \A t \in DOMAIN streams' : streams'[t] = streams[t]
      /\ current_stream' = IF current_stream = s THEN 0 ELSE current_stream
      /\ windows' = [i \in DOMAIN windows |-> [windows[i] EXCEPT !.echo = IF @ = s THEN 0 ELSE @]]
      /\ root' = root
  BY DEF Detached, Restrict
<1>2. streams[s].window = 0
  BY <1>1, OtherStreams DEF StreamsInv, Formed
<1>3. ASSUME NEW i \in DOMAIN windows
      PROVE  /\ windows'[i] = [windows[i] EXCEPT !.echo = windows'[i].echo]
             /\ windows'[i].echo \in DOMAIN streams' \cup {0}
  <2> DEFINE e == IF windows[i].echo = s THEN 0 ELSE windows[i].echo
  <2>1. windows'[i] = [windows[i] EXCEPT !.echo = e]
    BY <1>1
  <2>2. e \in DOMAIN streams' \cup {0}
    BY <1>0, <1>1 DEF Live
  <2> HIDE DEF e
  <2>3. windows'[i].echo = e
    BY <1>0, <2>1, SameEcho
  <2> QED BY <2>1, <2>2, <2>3
<1>4. windows' = [i \in DOMAIN windows |-> windows'[i]]
  BY <1>1
<1>5. current_stream' \in DOMAIN streams' \cup {0}
  BY <1>0, <1>1 DEF Live
<1>6. \A t \in DOMAIN streams : streams[t].window # 0 => t \in DOMAIN streams' /\ streams'[t] = streams[t]
  BY <1>1, <1>2
<1>7. \A t \in DOMAIN streams' : streams'[t].window # 0 => t \in DOMAIN streams /\ streams'[t] = streams[t]
  BY <1>1
<1> QED BY <1>0, <1>1, <1>3, <1>4, <1>5, <1>6, <1>7, EchoesLink

LEMMA AddedOther ==
  ASSUME StreamsInv, NEW st, st.window = 0, AddStream(st), UNCHANGED <<windows, root, current_stream>>
  PROVE  OthersMove
<1>1. /\ DOMAIN streams' = DOMAIN streams \cup {next_stream} /\ streams'[next_stream] = st
      /\ \A s \in DOMAIN streams : streams'[s] = streams[s]
  BY AddedStream DEF StreamsInv, Formed, WindowInv
<1> QED BY <1>1 DEF OthersMove

\* What changes one stream of a file or a buffer, and only its mark.
LEMMA MovedOther ==
  ASSUME StreamsInv, NEW s \in DOMAIN streams, streams[s].kind # "window",
         UNCHANGED <<windows, root, current_stream>>, DOMAIN streams' = DOMAIN streams,
         \A t \in DOMAIN streams : t # s => streams'[t] = streams[t],
         streams'[s].window = streams[s].window
  PROVE  OthersMove
<1>1. streams[s].window = 0
  BY OtherStreams DEF StreamsInv, Formed
<1> QED BY <1>1 DEF OthersMove

LEMMA WindowOf ==
  ASSUME NEW x, x \in Memories \/ x \in Files
  PROVE  /\ \A at : [x EXCEPT !.position = at].window = x.window
         /\ \A at, e : [x EXCEPT !.position = at, !.extent = e].window = x.window
BY DEF Memories, Files

\* What does not change the tree leaves windows alone, or closes a stream that is no window's.
ApartFromWindows == OthersMove \/ \E t : Detached(t)

LEMMA MarkMoves ==
  ASSUME StreamsInv, MarkNext
  PROVE  ApartFromWindows
<1> USE DEF ApartFromWindows
<1>1. ASSUME NEW mode, NEW length, OpenMemory(mode, length) PROVE ApartFromWindows
  <2>1. MemoryStream(mode, length).window = 0
    BY DEF MemoryStream
  <2>2. AddStream(MemoryStream(mode, length)) /\ UNCHANGED <<windows, root, current_stream>>
    BY <1>1 DEF OpenMemory
  <2> QED BY <2>1, <2>2, AddedOther
<1>2. ASSUME NEW s, CloseMemory(s) PROVE ApartFromWindows
  BY <1>2 DEF CloseMemory
<1>3. ASSUME NEW s, NEW at, NEW m, s \in DOMAIN streams, streams[s].kind # "window",
             streams' = [streams EXCEPT ![s] = m],
             m = [streams[s] EXCEPT !.position = at]
               \/ \E e : m = [streams[s] EXCEPT !.position = at, !.extent = e],
             UNCHANGED <<windows, root, current_stream>>
      PROVE  ApartFromWindows
  <2>1. streams[s] \in Memories \/ streams[s] \in Files
    BY <1>3, OtherStreams DEF StreamsInv, Formed
  <2>2. m.window = streams[s].window
    <3>1. CASE m = [streams[s] EXCEPT !.position = at]
      BY <2>1, <3>1, WindowOf
    <3>2. ASSUME NEW e, m = [streams[s] EXCEPT !.position = at, !.extent = e] PROVE m.window = streams[s].window
      BY <2>1, <3>2, WindowOf
    <3> QED BY <1>3, <3>1, <3>2
  <2>3. DOMAIN streams' = DOMAIN streams /\ streams'[s] = m
        /\ \A t \in DOMAIN streams : t # s => streams'[t] = streams[t]
    BY <1>3
  <2> QED BY <1>3, <2>2, <2>3, MovedOther
<1>4. ASSUME NEW s, NEW v, WriteMemory(s, v) \/ WriteFile(s, v) PROVE ApartFromWindows
  <2>1. s \in DOMAIN streams /\ streams[s].kind # "window" /\ UNCHANGED <<windows, root, current_stream>>
    BY <1>4 DEF WriteMemory, WriteFile, IsMemory, IsFile
  <2>2. CASE WriteMemory(s, v)
    <3>1. streams' = [streams EXCEPT ![s] = [streams[s] EXCEPT !.position = streams[s].position + 1,
                        !.extent = Max({streams[s].extent, streams[s].position + 1})]]
      BY <2>2 DEF WriteMemory
    <3> QED BY <2>1, <3>1, <1>3
  <2>3. CASE WriteFile(s, v)
    <3>1. streams' = [streams EXCEPT ![s] = [streams[s] EXCEPT !.position = streams[s].position + 1]]
      BY <2>3 DEF WriteFile
    <3> QED BY <2>1, <3>1, <1>3
  <2> QED BY <1>4, <2>2, <2>3
<1>5. ASSUME NEW s, ReadValue(s) PROVE ApartFromWindows
  <2>1. s \in DOMAIN streams /\ streams[s].kind # "window" /\ UNCHANGED <<windows, root, current_stream>>
    BY <1>5 DEF ReadValue, ReadFile, ReadMemory, IsMemory, IsFile
  <2>2. streams' = [streams EXCEPT ![s] = [streams[s] EXCEPT !.position = streams[s].position + 1]]
    BY <1>5 DEF ReadValue, ReadFile, ReadMemory
  <2> QED BY <2>1, <2>2, <1>3
<1>6. ASSUME NEW s, NEW offset, NEW from, Seek(s, offset, from) PROVE ApartFromWindows
  <2>1. s \in DOMAIN streams /\ streams[s].kind # "window" /\ UNCHANGED <<windows, root, current_stream>>
    BY <1>6 DEF Seek, IsMemory, IsFile
  <2>2. PICK at : streams' = [streams EXCEPT ![s] = [streams[s] EXCEPT !.position = at]]
    BY <1>6 DEF Seek
  <2> QED BY <2>1, <2>2, <1>3
<1> QED BY <1>1, <1>2, <1>4, <1>5, <1>6 DEF MarkNext, Put

LEMMA FileMoves ==
  ASSUME StreamsInv, FileNext
  PROVE  ApartFromWindows
<1> USE DEF ApartFromWindows
<1>1. ASSUME NEW path, NEW mode, OpenFile(path, mode) PROVE ApartFromWindows
  <2>1. \A c, n, at : FileStream(mode, path, n, c, at).window = 0
    BY DEF FileStream
  <2>2. \E st : st.window = 0 /\ AddStream(st) /\ UNCHANGED <<windows, root, current_stream>>
    BY <1>1, <2>1 DEF OpenFile
  <2> QED BY <2>2, AddedOther
<1>2. ASSUME UNCHANGED winVars PROVE ApartFromWindows
  BY <1>2 DEF winVars, OthersMove
<1>3. ASSUME NEW s, CloseFile(s) \/ CloseFileFails(s) PROVE ApartFromWindows
  BY <1>3 DEF CloseFile, CloseFileFails
<1>4. ASSUME Resume PROVE ApartFromWindows
  <2>1. /\ UNCHANGED <<windows, root, current_stream>> /\ DOMAIN streams' = DOMAIN streams
        /\ \A s \in DOMAIN streams : streams'[s] =
             IF IsFile(s) THEN [streams[s] EXCEPT !.shared = Lead(s), !.identity = Target(s)] ELSE streams[s]
    BY <1>4 DEF Resume
  <2>2. ASSUME NEW s \in DOMAIN streams
        PROVE  streams[s].window = streams'[s].window /\ (streams[s].window # 0 => streams'[s] = streams[s])
    <3>1. CASE IsFile(s)
      <4>1. streams[s].window = 0 /\ (streams[s] \in Memories \/ streams[s] \in Files)
        BY <3>1, OtherStreams DEF StreamsInv, Formed, IsFile
      <4>2. [streams[s] EXCEPT !.shared = Lead(s), !.identity = Target(s)].window = streams[s].window
        BY <4>1 DEF Memories, Files
      <4>3. streams'[s] = [streams[s] EXCEPT !.shared = Lead(s), !.identity = Target(s)]
        BY <3>1, <2>1
      <4> QED BY <4>1, <4>2, <4>3
    <3>2. CASE ~ IsFile(s) BY <3>2, <2>1
    <3> QED BY <3>1, <3>2
  <2>3. OthersMove
    BY <2>1, <2>2 DEF OthersMove
  <2> QED BY <2>3
<1> QED BY <1>1, <1>2, <1>3, <1>4 DEF FileNext, Delete, Flush

LEMMA ApartLinks ==
  ASSUME StreamsInv, LinkInv, ApartFromWindows
  PROVE  LinkInv'
<1>1. WindowInv
  BY DEF StreamsInv, Formed
<1> QED BY <1>1, OthersLink, DetachedLinks DEF ApartFromWindows

LEMMA InitLinks == StreamsInit => LinkInv
<1> SUFFICES ASSUME StreamsInit PROVE LinkInv
  OBVIOUS
<1>1. windows = <<>> /\ root = 0 /\ streams = <<>> /\ current_stream = 0
  BY DEF StreamsInit, WinInit
<1>2. DOMAIN windows = {} /\ DOMAIN streams = {} /\ windows = [i \in DOMAIN windows |-> windows[i]]
  BY <1>1
<1>3. TreeOf(windows, root) /\ KeysOf(windows) /\ Live(windows, streams, current_stream)
  BY <1>1, <1>2 DEF TreeOf, KeysOf, Live
<1>4. RankedBy(windows, [i \in DOMAIN windows |-> 0], 0)
  BY <1>2 DEF RankedBy
<1> QED BY <1>2, <1>3, <1>4 DEF LinkInv, Rooted, Ranked

LEMMA NextLinks ==
  ASSUME StreamsInv, LinkInv, [StreamsNext]_<<winVars, fileVars>>
  PROVE  LinkInv'
<1>0. WindowInv
  BY DEF StreamsInv, Formed
<1>1. CASE UNCHANGED <<winVars, fileVars>>
  BY <1>1 DEF winVars, LinkInv
<1>2. CASE TreeNext
  BY <1>0, <1>2, OpenFirstLinks, OpenBesideLinks, CloseLinks, WindowsAssumption DEF TreeNext
<1>3. CASE LayoutNext
  BY <1>0, <1>3, SetArrangementLinks, SetViewportLinks DEF LayoutNext
<1>4. CASE EchoNext
  BY <1>0, <1>4, EchoLinks
<1>5. CASE FileNext
  BY <1>5, FileMoves, ApartLinks
<1>6. CASE MarkNext
  BY <1>6, MarkMoves, ApartLinks
<1> QED BY <1>1, <1>2, <1>3, <1>4, <1>5, <1>6 DEF StreamsNext

LEMMA LinkInvSays == LinkInv => Tree /\ KeysInside /\ StreamsLive
<1> SUFFICES ASSUME LinkInv PROVE Tree /\ KeysInside /\ StreamsLive
  OBVIOUS
<1>0. TreeOf(windows, root) /\ Ranked(windows) /\ KeysOf(windows) /\ Live(windows, streams, current_stream)
  BY DEF LinkInv, Rooted
<1>1. Tree
  <2>1. root = 0 <=> windows = <<>>
    <3>1. windows = [i \in DOMAIN windows |-> windows[i]]
      BY DEF LinkInv
    <3>2. windows = <<>> => DOMAIN windows = {}
      OBVIOUS
    <3>3. DOMAIN windows = {} => windows = <<>>
      BY <3>1
    <3> QED BY <3>2, <3>3, <1>0 DEF TreeOf
  <2>2. \A i \in DOMAIN windows : root \in Above(windows, i)
    BY <1>0, RootAbove
  <2> QED BY <1>0, <2>1, <2>2 DEF Tree, TreeOf, UnderParent, HasChildren
<1>2. KeysInside
  BY <1>0 DEF KeysInside, KeysOf, Inside, Leaves
<1>3. StreamsLive
  BY <1>0 DEF StreamsLive, Live, Leaves
<1> QED BY <1>1, <1>2, <1>3

-----------------------------------------------------------------------------
(* The screen: where the layout puts windows *)

Rects == Nat \X Nat \X Nat \X Nat

\* The layout takes the numbers of a pair as they are.
Measured(w) == \A i \in DOMAIN w : w[i].method \in Nat /\ w[i].size \in Nat

LEMMA Products == \A x, y \in Nat : x * y \in Nat
OBVIOUS

LEMMA Rectangles ==
  /\ \A a, b, c, d \in Nat : <<a, b, c, d>> \in Rects
  /\ \A r \in Rects : r[1] \in Nat /\ r[2] \in Nat /\ r[3] \in Nat /\ r[4] \in Nat
                      /\ r = <<r[1], r[2], r[3], r[4]>>
BY DEF Rects

\* The constrained child gets no more than there is.
LEMMA ConstrainedFits ==
  ASSUME NEW w, NEW pair, pair.method \in Nat, pair.size \in Nat, NEW extent \in Nat
  PROVE  Constrained(w, pair, extent) \in 0 .. extent
<1> DEFINE part == (extent * Least(pair.size, 100)) \div 100
           all == pair.size * Unit(w, pair)
<1>1. part \in Nat
  <2>1. Least(pair.size, 100) \in Nat
    BY DEF Least
  <2>2. extent * Least(pair.size, 100) \in Nat
    BY <2>1, Products
  <2> HIDE DEF Least
  <2> QED BY <2>2
<1>2. all \in Nat
  <2>1. Cell[1] \in Nat /\ Cell[2] \in Nat /\ TextCell[1] \in Nat /\ TextCell[2] \in Nat
    BY WindowsAssumption
  <2>2. Unit(w, pair) \in Nat
    BY <2>1 DEF Unit
  <2> QED BY <2>2, Products
<1> HIDE DEF part, all
<1>3. Constrained(w, pair, extent) = Least(extent, IF Division(pair.method) = 2 THEN part ELSE all)
  BY DEF Constrained, part, all
<1> QED BY <1>1, <1>2, <1>3 DEF Least

\* Two rectangles that make up a third, one beside the other or above it.
Halves(R, S, T) ==
  \/ \E c \in 0 .. R[4] : S = <<R[1], R[2], R[3], c>> /\ T = <<R[1], R[2] + c, R[3], R[4] - c>>
  \/ \E c \in 0 .. R[3] : S = <<R[1], R[2], c, R[4]>> /\ T = <<R[1] + c, R[2], R[3] - c, R[4]>>

LEMMA SliceHalves ==
  ASSUME NEW w, NEW pair, pair.method \in Nat, pair.size \in Nat, pair.first # pair.second,
         NEW R \in Rects
  PROVE  LET S == Slice(w, pair, pair.first, R)
             T == Slice(w, pair, pair.second, R)
         IN  Halves(R, S, T) \/ Halves(R, T, S)
<1> DEFINE extent == R[IF Vertical(pair.method) THEN 4 ELSE 3]
           share == Constrained(w, pair, extent)
           ahead == IF pair.reversed THEN pair.second ELSE pair.first
           behind == IF pair.reversed THEN pair.first ELSE pair.second
           c == IF Side(pair.method) = 0 THEN share ELSE extent - share
<1>1. R[1] \in Nat /\ R[2] \in Nat /\ R[3] \in Nat /\ R[4] \in Nat /\ extent \in Nat
  BY Rectangles
<1>2. share \in 0 .. extent
  <2> HIDE DEF extent
  <2> QED BY <1>1, ConstrainedFits
<1>3. c \in 0 .. extent /\ extent - (extent - c) = c
  <2> HIDE DEF share, extent
  <2> QED BY <1>1, <1>2
<1>4. Slice(w, pair, ahead, R) = IF Vertical(pair.method) THEN <<R[1], R[2] + 0, R[3], c>>
                                 ELSE <<R[1] + 0, R[2], c, R[4]>>
  BY DEF Slice
<1>5. Slice(w, pair, behind, R) = IF Vertical(pair.method) THEN <<R[1], R[2] + c, R[3], extent - c>>
                                  ELSE <<R[1] + c, R[2], extent - c, R[4]>>
  <2>1. behind # ahead
    OBVIOUS
  <2> DEFINE mine == IF FALSE = (Side(pair.method) = 0) THEN share ELSE extent - share
  <2>2. mine = extent - c /\ extent - mine = c
    <3> HIDE DEF share, extent
    <3> QED BY <1>1, <1>2
  <2>3. Slice(w, pair, behind, R) = IF Vertical(pair.method) THEN <<R[1], R[2] + (extent - mine), R[3], mine>>
                                    ELSE <<R[1] + (extent - mine), R[2], mine, R[4]>>
    BY <2>1 DEF Slice
  <2> HIDE DEF mine, c
  <2> QED BY <2>2, <2>3
<1>6. Halves(R, Slice(w, pair, ahead, R), Slice(w, pair, behind, R))
  <2> HIDE DEF share, c, ahead, behind
  <2>1. CASE Vertical(pair.method)
    BY <2>1, <1>1, <1>3, <1>4, <1>5 DEF Halves
  <2>2. CASE ~ Vertical(pair.method)
    BY <2>2, <1>1, <1>3, <1>4, <1>5 DEF Halves
  <2> QED BY <2>1, <2>2
<1> QED BY <1>6

LEMMA HalvesFormed ==
  ASSUME NEW R \in Rects, NEW S, NEW T, Halves(R, S, T)
  PROVE  /\ S \in Rects /\ T \in Rects
         /\ Area(R) = Area(S) + Area(T)
<1>0. R[1] \in Nat /\ R[2] \in Nat /\ R[3] \in Nat /\ R[4] \in Nat
  BY Rectangles
<1>1. \A e \in Nat : \A c \in 0 .. e, x \in Nat : x * e = x * c + x * (e - c) /\ e * x = c * x + (e - c) * x
  OBVIOUS
<1>2. CASE \E c \in 0 .. R[4] : S = <<R[1], R[2], R[3], c>> /\ T = <<R[1], R[2] + c, R[3], R[4] - c>>
  <2>1. PICK c \in 0 .. R[4] : S = <<R[1], R[2], R[3], c>> /\ T = <<R[1], R[2] + c, R[3], R[4] - c>>
    BY <1>2
  <2>2. R[3] * R[4] = R[3] * c + R[3] * (R[4] - c)
    BY <1>0, <1>1
  <2>3. c \in Nat /\ R[4] - c \in Nat /\ R[2] + c \in Nat
    BY <1>0
  <2> QED BY <1>0, <2>1, <2>2, <2>3, Rectangles DEF Area
<1>3. CASE \E c \in 0 .. R[3] : S = <<R[1], R[2], c, R[4]>> /\ T = <<R[1] + c, R[2], R[3] - c, R[4]>>
  <2>1. PICK c \in 0 .. R[3] : S = <<R[1], R[2], c, R[4]>> /\ T = <<R[1] + c, R[2], R[3] - c, R[4]>>
    BY <1>3
  <2>2. R[3] * R[4] = c * R[4] + (R[3] - c) * R[4]
    BY <1>0, <1>1
  <2>3. c \in Nat /\ R[3] - c \in Nat /\ R[1] + c \in Nat
    BY <1>0
  <2> QED BY <1>0, <2>1, <2>2, <2>3, Rectangles DEF Area
<1> QED BY <1>2, <1>3 DEF Halves

\* Inside a rectangle.
Fits(r, s) == /\ s[1] <= r[1] /\ r[1] + r[3] <= s[1] + s[3]
              /\ s[2] <= r[2] /\ r[2] + r[4] <= s[2] + s[4]

LEMMA FitsTransitive ==
  ASSUME NEW r \in Rects, NEW s \in Rects, NEW t \in Rects, Fits(r, s), Fits(s, t)
  PROVE  Fits(r, t)
BY Rectangles DEF Fits

LEMMA HalvesApart ==
  ASSUME NEW R \in Rects, NEW S, NEW T, Halves(R, S, T)
  PROVE  /\ Fits(S, R) /\ Fits(T, R)
         /\ \A s, t \in Rects : Fits(s, S) /\ Fits(t, T) => Apart(s, t) /\ Apart(t, s)
<1>0. R[1] \in Nat /\ R[2] \in Nat /\ R[3] \in Nat /\ R[4] \in Nat
  BY Rectangles
<1>2. CASE \E c \in 0 .. R[4] : S = <<R[1], R[2], R[3], c>> /\ T = <<R[1], R[2] + c, R[3], R[4] - c>>
  <2>1. PICK c \in 0 .. R[4] : S = <<R[1], R[2], R[3], c>> /\ T = <<R[1], R[2] + c, R[3], R[4] - c>>
    BY <1>2
  <2> QED BY <1>0, <2>1, Rectangles DEF Fits, Apart
<1>3. CASE \E c \in 0 .. R[3] : S = <<R[1], R[2], c, R[4]>> /\ T = <<R[1] + c, R[2], R[3] - c, R[4]>>
  <2>1. PICK c \in 0 .. R[3] : S = <<R[1], R[2], c, R[4]>> /\ T = <<R[1] + c, R[2], R[3] - c, R[4]>>
    BY <1>3
  <2> QED BY <1>0, <2>1, Rectangles DEF Fits, Apart
<1> QED BY <1>2, <1>3 DEF Halves

\* What the layout makes of a parent's place for a child.
LEMMA SliceFormed ==
  ASSUME NEW w, NEW r, TreeOf(w, r), Measured(w), NEW i \in DOMAIN w, i # r, NEW R \in Rects
  PROVE  Slice(w, w[w[i].parent], i, R) \in Rects
<1> DEFINE pair == w[w[i].parent]
<1>1. w[i].parent \in DOMAIN w /\ i \in {pair.first, pair.second} /\ i # 0
  BY DEF TreeOf, UnderParent
<1>2. IsPair(pair) /\ pair.first # pair.second
  BY <1>1 DEF TreeOf, HasChildren
<1>3. pair.method \in Nat /\ pair.size \in Nat
  BY <1>1 DEF Measured
<1> HIDE DEF pair
<1>4. LET S == Slice(w, pair, pair.first, R)
          T == Slice(w, pair, pair.second, R)
      IN  Halves(R, S, T) \/ Halves(R, T, S)
  BY <1>2, <1>3, SliceHalves
<1>5. Slice(w, pair, pair.first, R) \in Rects /\ Slice(w, pair, pair.second, R) \in Rects
  BY <1>4, HalvesFormed
<1>6. Slice(w, pair, i, R) \in Rects
  BY <1>1, <1>5
<1> QED BY <1>6 DEF pair

\* The place of a window, from that of its parent.
LEMMA PlaceIs ==
  ASSUME NEW w, NEW r, TreeOf(w, r), Ranked(w), Measured(w), NEW view \in Nat \X Nat
  PROVE  \A i \in DOMAIN w :
           /\ Place(w, r, view, i) \in Rects
           /\ Place(w, r, view, i) =
                IF i = r THEN <<0, 0, view[1], view[2]>>
                ELSE Slice(w, w[w[i].parent], i, Place(w, r, view, w[i].parent))
<1> DEFINE D == DOMAIN w
           all == <<0, 0, view[1], view[2]>>
           p == [j \in D |-> w[j].parent]
           b == [j \in D |-> all]
           g == [j \in D |-> [R \in Rects |-> IF j = r THEN all ELSE Slice(w, w[w[j].parent], j, R)]]
           Is(f) == f = [j \in D |-> IF j = r \/ w[j].parent \notin D THEN all
                                     ELSE Slice(w, w[w[j].parent], j, f[w[j].parent])]
           place == CHOOSE f : Is(f)
<1>0. all \in Rects
  BY Rectangles
<1>1. PICK N, rank : N \in Nat /\ RankedBy(w, rank, N)
  BY DEF Ranked
<1>2. Falls(D, p, rank)
  BY <1>1, RankedFalls
<1>3. b \in [D -> Rects] /\ g \in [D -> [Rects -> Rects]]
  <2> HIDE DEF all
  <2>1. \A j \in D : \A R \in Rects : (IF j = r THEN all ELSE Slice(w, w[w[j].parent], j, R)) \in Rects
    <3> SUFFICES ASSUME NEW j \in D, NEW R \in Rects
                 PROVE  (IF j = r THEN all ELSE Slice(w, w[w[j].parent], j, R)) \in Rects
      OBVIOUS
    <3> QED BY <1>0, SliceFormed
  <2> QED BY <1>0, <2>1
<1>4. PICK f \in [D -> Rects] : IsDescent(f, D, p, b, g)
  <2> HIDE DEF D, p, b, g
  <2> QED BY <1>2, <1>3, DescentExists
<1>5. \A j \in D : j # r => w[j].parent \in D
  BY DEF TreeOf, UnderParent
<1>6. r \in D => w[r].parent \notin D
  BY DEF TreeOf
<1>7. \A j \in D : f[j] = IF j = r \/ w[j].parent \notin D THEN all
                          ELSE Slice(w, w[w[j].parent], j, f[w[j].parent])
  <2> SUFFICES ASSUME NEW j \in D
               PROVE  f[j] = IF j = r \/ w[j].parent \notin D THEN all
                             ELSE Slice(w, w[w[j].parent], j, f[w[j].parent])
    OBVIOUS
  <2>1. f[j] = IF p[j] \in D THEN g[j][f[p[j]]] ELSE b[j]
    BY <1>4 DEF IsDescent
  <2>2. p[j] \in D => f[p[j]] \in Rects
    BY <1>4
  <2> HIDE DEF all
  <2> QED BY <2>1, <2>2, <1>5, <1>6
<1>8. Is(f)
  <2>1. f = [j \in D |-> f[j]]
    BY <1>4
  <2> HIDE DEF all
  <2> QED BY <1>7, <2>1
<1>9. Is(place)
  BY <1>8
<1>10. \A j : Place(w, r, view, j) = place[j]
  BY DEF Place
<1>11. \A j \in D : place[j] = IF j = r THEN all
                               ELSE Slice(w, w[w[j].parent], j, place[w[j].parent])
  <2> HIDE DEF place, all
  <2> QED BY <1>5, <1>9
<1> HIDE DEF place
<1>12. \A j \in D : place[j] \in Rects
  <2> DEFINE G == {j \in D : place[j] \in Rects}
  <2>1. rank \in [D -> Nat]
    BY <1>1, RankedFalls
  <2>2. ASSUME NEW j \in D, \A k \in D : rank[k] < rank[j] => k \in G PROVE j \in G
    <3>1. CASE j = r
      BY <3>1, <1>0, <1>11
    <3>2. CASE j # r
      <4>1. w[j].parent \in G
        BY <1>1, <1>5, <2>2, <3>2 DEF RankedBy
      <4> QED BY <3>2, <4>1, <1>11, SliceFormed
    <3> QED BY <3>1, <3>2
  <2>3. G = D
    <3> HIDE DEF G, D
    <3>1. G \in SUBSET D
      BY DEF G
    <3> QED BY <2>1, <2>2, <3>1, RankInduction DEF Climbs
  <2> QED BY <2>3
<1> QED BY <1>10, <1>11, <1>12

\* Every window is where its parent leaves it room, and as large as what it shows.
LaidIn(w, r, view) ==
  \A i \in DOMAIN w :
    /\ w[i].rect \in Rects
    /\ w[i].rect = IF i = r THEN <<0, 0, view[1], view[2]>>
                   ELSE Slice(w, w[w[i].parent], i, w[w[i].parent].rect)
    /\ w[i].extent = Extent(w[i].kind, w[i].rect)

\* What the layout reads of windows, and leaves as it is.
SameMeasures(w, v) ==
  /\ SameShape(w, v)
  /\ \A i \in DOMAIN w : /\ v[i].method = w[i].method /\ v[i].size = w[i].size
                         /\ v[i].reversed = w[i].reversed /\ v[i].key = w[i].key

LEMMA LaidOutMeasures ==
  ASSUME NEW w, NEW r, NEW view, \A i \in DOMAIN w : IsWindow(w[i])
  PROVE  /\ SameMeasures(w, LaidOut(w, r, view))
         /\ \A i \in DOMAIN w : /\ LaidOut(w, r, view)[i].rect = Place(w, r, view, i)
                                /\ LaidOut(w, r, view)[i].extent = Extent(w[i].kind, Place(w, r, view, i))
<1> DEFINE v == LaidOut(w, r, view)
<1>1. SameShape(w, v)
  BY LaidOutShape
<1>2. ASSUME NEW i \in DOMAIN w
      PROVE  /\ v[i].method = w[i].method /\ v[i].size = w[i].size
             /\ v[i].reversed = w[i].reversed /\ v[i].key = w[i].key
             /\ v[i].rect = Place(w, r, view, i) /\ v[i].extent = Extent(w[i].kind, Place(w, r, view, i))
  <2> DEFINE place == Place(w, r, view, i)
             e == Extent(w[i].kind, place)
  <2>1. v[i] = [w[i] EXCEPT !.rect = place, !.extent = e]
    BY DEF LaidOut
  <2>2. IsWindow(w[i])
    OBVIOUS
  <2> HIDE DEF place, e, v
  <2>3. v[i].method = w[i].method /\ v[i].size = w[i].size /\ v[i].reversed = w[i].reversed
        /\ v[i].key = w[i].key /\ v[i].rect = place /\ v[i].extent = e
    BY <2>1, <2>2 DEF IsWindow, Fields
  <2> QED BY <2>3 DEF place, e
<1> QED BY <1>1, <1>2 DEF SameMeasures

\* A slice depends on the measures only.
LEMMA SameSlice ==
  ASSUME NEW w, NEW v, SameMeasures(w, v), NEW p \in DOMAIN w, NEW i, NEW R
  PROVE  Slice(v, v[p], i, R) = Slice(w, w[p], i, R)
<1>1. /\ DOMAIN v = DOMAIN w /\ \A k \in DOMAIN w : v[k].kind = w[k].kind
      /\ v[p].method = w[p].method /\ v[p].size = w[p].size /\ v[p].key = w[p].key
      /\ v[p].reversed = w[p].reversed /\ v[p].first = w[p].first /\ v[p].second = w[p].second
  BY DEF SameMeasures, SameShape
<1>2. Unit(v, v[p]) = Unit(w, w[p])
  BY <1>1 DEF Unit
<1>3. \A e : Constrained(v, v[p], e) = Constrained(w, w[p], e)
  BY <1>1, <1>2 DEF Constrained
<1> QED BY <1>1, <1>3 DEF Slice

LEMMA LaidOutIn ==
  ASSUME NEW w, NEW r, NEW view \in Nat \X Nat, \A i \in DOMAIN w : IsWindow(w[i]),
         TreeOf(w, r), Ranked(w), Measured(w)
  PROVE  LaidIn(LaidOut(w, r, view), r, view) /\ Measured(LaidOut(w, r, view))
<1> DEFINE v == LaidOut(w, r, view)
<1>1. /\ SameMeasures(w, v)
      /\ \A i \in DOMAIN w : /\ v[i].rect = Place(w, r, view, i)
                             /\ v[i].extent = Extent(w[i].kind, Place(w, r, view, i))
  BY LaidOutMeasures
<1> HIDE DEF v
<1>2. ASSUME NEW i \in DOMAIN v
      PROVE  /\ v[i].rect \in Rects
             /\ v[i].rect = IF i = r THEN <<0, 0, view[1], view[2]>>
                            ELSE Slice(v, v[v[i].parent], i, v[v[i].parent].rect)
             /\ v[i].extent = Extent(v[i].kind, v[i].rect)
  <2>1. i \in DOMAIN w /\ v[i].parent = w[i].parent /\ v[i].kind = w[i].kind
    BY <1>1 DEF SameMeasures, SameShape
  <2>2. /\ v[i].rect \in Rects
        /\ v[i].rect = IF i = r THEN <<0, 0, view[1], view[2]>>
                       ELSE Slice(w, w[w[i].parent], i, Place(w, r, view, w[i].parent))
    BY <1>1, <2>1, PlaceIs
  <2>3. i # r => w[i].parent \in DOMAIN w
    BY <2>1 DEF TreeOf, UnderParent
  <2>4. i # r => /\ v[w[i].parent].rect = Place(w, r, view, w[i].parent)
                 /\ Slice(v, v[w[i].parent], i, v[w[i].parent].rect)
                      = Slice(w, w[w[i].parent], i, v[w[i].parent].rect)
    BY <1>1, <2>3, SameSlice
  <2> QED BY <1>1, <2>1, <2>2, <2>4
<1>3. LaidIn(v, r, view)
  BY <1>2 DEF LaidIn
<1>4. Measured(v)
  BY <1>1 DEF Measured, SameMeasures, SameShape
<1> QED BY <1>3, <1>4 DEF v

\* The sum over two sets without common elements.
LEMMA SumUnion ==
  ASSUME NEW D, IsFiniteSet(D), NEW w, \A x \in D : w[x] \in Int,
         NEW A \in SUBSET D, NEW B \in SUBSET D, A \cap B = {}
  PROVE  SumOf(w, A \cup B) = SumOf(w, A) + SumOf(w, B)
<1> DEFINE G == {s \in SUBSET D : s \cap B = {} => SumOf(w, s \cup B) = SumOf(w, s) + SumOf(w, B)}
<1>1. \A s \in SUBSET D : IsFiniteSet(s) /\ \A x \in s : w[x] \in Int
  BY FS_Subset
<1>2. \A s \in SUBSET D : SumOf(w, s) \in Int
  <2> SUFFICES ASSUME NEW s \in SUBSET D PROVE SumOf(w, s) \in Int
    OBVIOUS
  <2> QED BY <1>1, SumCongruent
<1>3. ASSUME NEW s \in SUBSET D, \A x \in s : s \ {x} \in G PROVE s \in G
  <2> SUFFICES ASSUME s \cap B = {} PROVE SumOf(w, s \cup B) = SumOf(w, s) + SumOf(w, B)
    OBVIOUS
  <2>1. CASE s = {}
    <3>1. s \cup B = B /\ SumOf(w, s) = 0
      BY <2>1, SumEmpty
    <3>2. SumOf(w, B) \in Int
      BY <1>2
    <3>3. SumOf(w, s \cup B) = SumOf(w, B)
      BY <3>1, Zenon
    <3> QED BY <3>1, <3>2, <3>3
  <2>2. CASE s # {}
    <3>1. PICK x \in s : TRUE
      BY <2>2
    <3>2. SumOf(w, s) = w[x] + SumOf(w, s \ {x})
      BY <1>1, SumRemove
    <3>3. SumOf(w, s \cup B) = w[x] + SumOf(w, (s \cup B) \ {x})
      <4>1. s \cup B \in SUBSET D /\ x \in s \cup B
        OBVIOUS
      <4> QED BY <4>1, <1>1, SumRemove
    <3>4. SumOf(w, (s \cup B) \ {x}) = SumOf(w, (s \ {x}) \cup B)
      <4>1. x \notin B
        OBVIOUS
      <4>2. (s \cup B) \ {x} = (s \ {x}) \cup B
        BY <4>1
      <4> QED BY <4>2, Zenon
    <3>5. SumOf(w, (s \ {x}) \cup B) = SumOf(w, s \ {x}) + SumOf(w, B)
      BY <1>3
    <3>6. w[x] \in Int /\ SumOf(w, s \ {x}) \in Int /\ SumOf(w, B) \in Int
      BY <1>2
    <3> QED BY <3>2, <3>3, <3>4, <3>5, <3>6
  <2> QED BY <2>1, <2>2
<1>4. G = SUBSET D
  <2> HIDE DEF G
  <2>1. G \in SUBSET (SUBSET D)
    BY DEF G
  <2> QED BY <1>3, <2>1, SubsetInduction
<1>5. A \in G
  BY <1>4
<1> QED BY <1>5

-----------------------------------------------------------------------------
(* The screen is covered *)

\* The windows with contents inside one, and their areas.
LeavesIn(w, i) == {j \in DOMAIN w : ~ IsPair(w[j]) /\ i \in Above(w, j)}
Areas(w) == [j \in DOMAIN w |-> Area(w[j].rect)]

\* They are in its place, share nothing of it, and leave nothing out.
Covers(w, i) ==
  /\ \A j \in LeavesIn(w, i) : Fits(w[j].rect, w[i].rect)
  /\ \A j, k \in LeavesIn(w, i) : j # k => Apart(w[j].rect, w[k].rect)
  /\ SumOf(Areas(w), LeavesIn(w, i)) = Area(w[i].rect)

\* What is inside a pair is inside one of its children.
LEMMA LeavesOfPair ==
  ASSUME NEW w, NEW r, TreeOf(w, r), Ranked(w), NEW i \in DOMAIN w
  PROVE  /\ IsPair(w[i]) => /\ LeavesIn(w, i) = LeavesIn(w, w[i].first) \cup LeavesIn(w, w[i].second)
                            /\ LeavesIn(w, w[i].first) \cap LeavesIn(w, w[i].second) = {}
         /\ ~ IsPair(w[i]) => LeavesIn(w, i) = {i}
<1>1. PICK N, rank : N \in Nat /\ RankedBy(w, rank, N)
  BY DEF Ranked
<1>2. rank \in [DOMAIN w -> Nat]
  BY <1>1, RankedFalls
<1>3. \A j \in DOMAIN w : Above(w, j) = {j} \cup IF w[j].parent \in DOMAIN w THEN Above(w, w[j].parent) ELSE {}
  BY AboveIs
<1>4. \A j \in DOMAIN w : w[j].parent = i => IsPair(w[i]) /\ j \in {w[i].first, w[i].second}
  <2> SUFFICES ASSUME NEW j \in DOMAIN w, w[j].parent = i
               PROVE  IsPair(w[i]) /\ j \in {w[i].first, w[i].second}
    OBVIOUS
  <2>1. i # 0 /\ j # 0 /\ j # r
    BY DEF TreeOf
  <2>2. j \in {w[i].first, w[i].second}
    BY <2>1 DEF TreeOf, UnderParent
  <2> QED BY <2>1, <2>2 DEF TreeOf, HasChildren
<1>5. ASSUME ~ IsPair(w[i]) PROVE LeavesIn(w, i) = {i}
  <2> DEFINE G == {j \in DOMAIN w : i \in Above(w, j) => j = i}
  <2>1. ASSUME NEW j \in DOMAIN w, \A k \in DOMAIN w : rank[k] < rank[j] => k \in G PROVE j \in G
    <3>1. CASE w[j].parent \in DOMAIN w
      <4>1. w[j].parent \in G /\ w[j].parent # i
        BY <1>1, <1>4, <1>5, <2>1, <3>1 DEF RankedBy
      <4> QED BY <4>1, <3>1, <1>3
    <3>2. CASE w[j].parent \notin DOMAIN w
      BY <3>2, <1>3
    <3> QED BY <3>1, <3>2
  <2>2. G = DOMAIN w
    <3> HIDE DEF G
    <3>1. G \in SUBSET DOMAIN w
      BY DEF G
    <3> QED BY <1>2, <2>1, <3>1, RankInduction DEF Climbs
  <2>3. i \in Above(w, i)
    BY <1>3
  <2>4. \A j \in DOMAIN w : i \in Above(w, j) <=> j = i
    BY <2>2, <2>3
  <2> QED BY <2>4, <1>5 DEF LeavesIn
<1>6. ASSUME IsPair(w[i])
      PROVE  /\ LeavesIn(w, i) = LeavesIn(w, w[i].first) \cup LeavesIn(w, w[i].second)
             /\ LeavesIn(w, w[i].first) \cap LeavesIn(w, w[i].second) = {}
  <2> DEFINE a == w[i].first
             b == w[i].second
  <2>1. /\ a \in DOMAIN w /\ b \in DOMAIN w /\ a # b
        /\ w[a].parent = i /\ w[b].parent = i
    BY <1>6 DEF TreeOf, HasChildren
  <2>2. /\ Above(w, a) = {a} \cup Above(w, i) /\ Above(w, b) = {b} \cup Above(w, i)
        /\ a \notin Above(w, i) /\ b \notin Above(w, i) /\ i \in Above(w, i)
    <3>1. rank[i] < rank[a] /\ rank[i] < rank[b] /\ rank[i] \in Nat /\ rank[a] \in Nat /\ rank[b] \in Nat
      BY <1>1, <1>2, <2>1 DEF RankedBy
    <3>2. \A k \in Above(w, i) : k # i => rank[k] < rank[i] /\ rank[k] \in Nat
      BY <1>1, <1>2, AboveRanks
    <3> QED BY <3>1, <3>2, <2>1, <1>3
  <2> DEFINE G == {j \in DOMAIN w : /\ (i \in Above(w, j) <=> j = i \/ a \in Above(w, j) \/ b \in Above(w, j))
                                    /\ ~ (a \in Above(w, j) /\ b \in Above(w, j))}
  <2> HIDE DEF a, b
  <2>3. ASSUME NEW j \in DOMAIN w, \A k \in DOMAIN w : rank[k] < rank[j] => k \in G PROVE j \in G
    <3>1. CASE j = i
      BY <3>1, <2>2
    <3>2. CASE j = a
      BY <3>2, <2>1, <2>2
    <3>3. CASE j = b
      BY <3>3, <2>1, <2>2
    <3>4. CASE j \notin {i, a, b}
      <4>1. CASE w[j].parent \in DOMAIN w
        <5>1. w[j].parent \in G
          BY <1>1, <2>3, <4>1 DEF RankedBy
        <5>2. w[j].parent # i
          BY <1>4, <3>4 DEF a, b
        <5>3. Above(w, j) = {j} \cup Above(w, w[j].parent)
          BY <4>1, <1>3
        <5> QED BY <3>4, <5>1, <5>2, <5>3
      <4>2. CASE w[j].parent \notin DOMAIN w
        BY <3>4, <4>2, <1>3
      <4> QED BY <4>1, <4>2
    <3> QED BY <3>1, <3>2, <3>3, <3>4
  <2>4. G = DOMAIN w
    <3> HIDE DEF G
    <3>1. G \in SUBSET DOMAIN w
      BY DEF G
    <3> QED BY <1>2, <2>3, <3>1, RankInduction DEF Climbs
  <2>5. \A j \in DOMAIN w : /\ (i \in Above(w, j) <=> j = i \/ a \in Above(w, j) \/ b \in Above(w, j))
                            /\ ~ (a \in Above(w, j) /\ b \in Above(w, j))
    BY <2>4
  <2>6. LeavesIn(w, i) = LeavesIn(w, a) \cup LeavesIn(w, b) /\ LeavesIn(w, a) \cap LeavesIn(w, b) = {}
    BY <2>5, <1>6 DEF LeavesIn
  <2> QED BY <2>6 DEF a, b
<1> QED BY <1>5, <1>6

LEMMA RectArea == \A r \in Rects : Area(r) \in Nat
BY Rectangles, Products DEF Area

\* Two children that cover their places cover the place of the pair.
LEMMA PairCovers ==
  ASSUME NEW w, NEW r, NEW view, TreeOf(w, r), Ranked(w), Measured(w), LaidIn(w, r, view),
         IsFiniteSet(DOMAIN w),
         NEW i \in DOMAIN w, IsPair(w[i]), Covers(w, w[i].first), Covers(w, w[i].second)
  PROVE  Covers(w, i)
<1> DEFINE a == w[i].first
           b == w[i].second
           A == LeavesIn(w, a)
           B == LeavesIn(w, b)
           R == w[i].rect
           S == w[a].rect
           T == w[b].rect
<1>1. a \in DOMAIN w /\ b \in DOMAIN w /\ a # b /\ w[a].parent = i /\ w[b].parent = i /\ i # 0
  BY DEF TreeOf, HasChildren
<1>2. a # r /\ b # r
  BY <1>1 DEF TreeOf
<1>3. /\ R \in Rects /\ S \in Rects /\ T \in Rects
      /\ S = Slice(w, w[i], a, R) /\ T = Slice(w, w[i], b, R)
  BY <1>1, <1>2 DEF LaidIn
<1>4. Halves(R, S, T) \/ Halves(R, T, S)
  <2>1. w[i].method \in Nat /\ w[i].size \in Nat /\ w[i].first # w[i].second
    BY <1>1 DEF Measured
  <2>2. LET s == Slice(w, w[i], w[i].first, R)
            t == Slice(w, w[i], w[i].second, R)
        IN  Halves(R, s, t) \/ Halves(R, t, s)
    BY <1>3, <2>1, SliceHalves
  <2> HIDE DEF R, S, T
  <2> QED BY <2>2, <1>3
<1>5. /\ Fits(S, R) /\ Fits(T, R)
      /\ \A s, t \in Rects : Fits(s, S) /\ Fits(t, T) => Apart(s, t) /\ Apart(t, s)
      /\ Area(R) = Area(S) + Area(T)
  <2> HIDE DEF R, S, T
  <2>1. CASE Halves(R, S, T)
    BY <2>1, <1>3, HalvesApart, HalvesFormed
  <2>2. CASE Halves(R, T, S)
    <3>1. Area(R) = Area(T) + Area(S) /\ Area(T) \in Nat /\ Area(S) \in Nat
      BY <2>2, <1>3, HalvesFormed, RectArea
    <3>2. Area(R) = Area(S) + Area(T)
      BY <3>1
    <3> QED BY <2>2, <1>3, <3>2, HalvesApart
  <2> QED BY <2>1, <2>2, <1>4
<1>6. /\ LeavesIn(w, i) = A \cup B /\ A \cap B = {}
      /\ A \in SUBSET DOMAIN w /\ B \in SUBSET DOMAIN w
  <2>1. A \in SUBSET DOMAIN w /\ B \in SUBSET DOMAIN w
    BY DEF LeavesIn
  <2> HIDE DEF A, B
  <2> QED BY <2>1, LeavesOfPair DEF A, B
<1>7. \A j \in DOMAIN w : w[j].rect \in Rects
  BY DEF LaidIn
<1>8. /\ \A j \in A : Fits(w[j].rect, S)
      /\ \A j \in B : Fits(w[j].rect, T)
      /\ \A j, k \in A : j # k => Apart(w[j].rect, w[k].rect)
      /\ \A j, k \in B : j # k => Apart(w[j].rect, w[k].rect)
      /\ SumOf(Areas(w), A) = Area(S) /\ SumOf(Areas(w), B) = Area(T)
  BY DEF Covers
<1> HIDE DEF a, b, A, B, R, S, T
<1>9. \A j \in A \cup B : Fits(w[j].rect, R)
  <2> SUFFICES ASSUME NEW j \in A \cup B PROVE Fits(w[j].rect, R)
    OBVIOUS
  <2>1. w[j].rect \in Rects
    BY <1>6, <1>7
  <2>2. CASE j \in A
    <3>1. Fits(w[j].rect, S)
      BY <2>2, <1>8
    <3> QED BY <2>1, <3>1, <1>3, <1>5, FitsTransitive
  <2>3. CASE j \in B
    <3>1. Fits(w[j].rect, T)
      BY <2>3, <1>8
    <3> QED BY <2>1, <3>1, <1>3, <1>5, FitsTransitive
  <2> QED BY <2>2, <2>3
<1>10. \A j, k \in A \cup B : j # k => Apart(w[j].rect, w[k].rect)
  <2> SUFFICES ASSUME NEW j \in A \cup B, NEW k \in A \cup B, j # k PROVE Apart(w[j].rect, w[k].rect)
    OBVIOUS
  <2>1. w[j].rect \in Rects /\ w[k].rect \in Rects
    BY <1>6, <1>7
  <2> QED BY <2>1, <1>5, <1>8
<1>11. SumOf(Areas(w), A \cup B) = Area(R)
  <2>1. \A j \in DOMAIN w : Areas(w)[j] \in Int
    BY <1>7, RectArea DEF Areas
  <2>2. SumOf(Areas(w), A \cup B) = SumOf(Areas(w), A) + SumOf(Areas(w), B)
    BY <2>1, <1>6, SumUnion
  <2> QED BY <2>2, <1>5, <1>8
<1> QED BY <1>6, <1>9, <1>10, <1>11 DEF Covers, R

LEMMA AllCover ==
  ASSUME NEW w, NEW r, NEW view, TreeOf(w, r), Ranked(w), Measured(w), LaidIn(w, r, view),
         IsFiniteSet(DOMAIN w)
  PROVE  \A i \in DOMAIN w : Covers(w, i)
<1>1. PICK N, rank : N \in Nat /\ RankedBy(w, rank, N)
  BY DEF Ranked
<1> DEFINE D == DOMAIN w
           height == [i \in D |-> N - rank[i]]
           G == {i \in D : Covers(w, i)}
<1>2. height \in [D -> Nat]
  BY <1>1 DEF RankedBy
<1>3. ASSUME NEW i \in D, \A j \in D : height[j] < height[i] => j \in G PROVE i \in G
  <2>1. CASE IsPair(w[i])
    <3> DEFINE a == w[i].first
               b == w[i].second
    <3>1. a \in D /\ b \in D /\ w[a].parent = i /\ w[b].parent = i
      BY <2>1 DEF TreeOf, HasChildren
    <3>2. rank[i] < rank[a] /\ rank[i] < rank[b] /\ rank[i] \in 0 .. N /\ rank[a] \in 0 .. N /\ rank[b] \in 0 .. N
      BY <1>1, <3>1 DEF RankedBy
    <3>3. height[a] < height[i] /\ height[b] < height[i]
      BY <1>1, <3>1, <3>2
    <3>4. Covers(w, w[i].first) /\ Covers(w, w[i].second)
      BY <1>3, <3>1, <3>3
    <3>5. Covers(w, i)
      BY <2>1, <3>4, PairCovers
    <3> QED BY <3>5
  <2>2. CASE ~ IsPair(w[i])
    <3>1. LeavesIn(w, i) = {i}
      BY <2>2, LeavesOfPair
    <3>2. w[i].rect \in Rects
      BY DEF LaidIn
    <3>3. Fits(w[i].rect, w[i].rect)
      BY <3>2, Rectangles DEF Fits
    <3>4. SumOf(Areas(w), {i}) = Area(w[i].rect)
      <4>1. \A j \in {i} : Areas(w)[j] = Area(w[i].rect) /\ Areas(w)[j] \in Int
        BY <3>2, RectArea DEF Areas
      <4>2. SumOf(Areas(w), {i}) = Areas(w)[i] + SumOf(Areas(w), {i} \ {i})
        BY <4>1, SumRemove, FS_Singleton
      <4>3. {i} \ {i} = {}
        OBVIOUS
      <4> QED BY <4>1, <4>2, <4>3, SumEmpty
    <3>5. Covers(w, i)
      BY <3>1, <3>3, <3>4 DEF Covers
    <3> QED BY <3>5
  <2> QED BY <2>1, <2>2
<1>4. G = D
  <2> HIDE DEF G, D, height
  <2>1. G \in SUBSET D
    BY DEF G
  <2> QED BY <1>2, <1>3, <2>1, RankInduction DEF Climbs
<1> QED BY <1>4

-----------------------------------------------------------------------------
(* The screen stays covered, and the host has its canvases *)

\* The graphics windows with room for a canvas.
Shown(w) == {i \in DOMAIN w : w[i].kind = "graphics" /\ 0 \notin {w[i].extent[1], w[i].extent[2]}}

ScreenInv ==
  /\ viewport \in Viewports
  /\ Measured(windows) /\ LaidIn(windows, root, viewport)
  /\ canvases = [i \in Shown(windows) |-> windows[i].extent]

\* A step that lays out the windows w, all of them with numbers and the old ones of their kind.
Lays(w) ==
  /\ Arrange(w, root', viewport') /\ viewport' \in Viewports
  /\ Measured(w) /\ \A i \in DOMAIN w : IsWindow(w[i])
  /\ \A i \in DOMAIN w \cap DOMAIN windows : w[i].kind = windows[i].kind

\* What the host is told makes its canvases those of the new windows.
LEMMA CanvasesFollow ==
  ASSUME NEW old, NEW new, canvases = [i \in Shown(old) |-> old[i].extent],
         \A i \in DOMAIN old \cap DOMAIN new : new[i].kind = old[i].kind,
         \A i \in DOMAIN new : new[i].extent \in Nat \X Nat
  PROVE  Canvases(old, new) = [i \in Shown(new) |-> new[i].extent]
<1> DEFINE sized == {i \in DOMAIN new : /\ new[i].kind = "graphics"
                                        /\ new[i].extent # (IF i \in DOMAIN old THEN old[i].extent
                                                                                ELSE <<0, 0>>)}
           shown == {i \in sized : 0 \notin {new[i].extent[1], new[i].extent[2]}}
           kept == DOMAIN canvases \ ((DOMAIN old \ DOMAIN new) \cup sized)
<1>1. Canvases(old, new) = [i \in kept \cup shown |-> IF i \in shown THEN new[i].extent ELSE canvases[i]]
  BY DEF Canvases
<1>2. ASSUME NEW i \in kept
      PROVE  i \in Shown(new) /\ canvases[i] = new[i].extent
  <2>1. i \in Shown(old) /\ canvases[i] = old[i].extent /\ i \in DOMAIN new /\ i \in DOMAIN old
    BY DEF Shown
  <2>2. new[i].kind = "graphics" /\ new[i].extent = old[i].extent
    BY <2>1 DEF Shown
  <2> QED BY <2>1, <2>2 DEF Shown
<1>3. shown \subseteq Shown(new)
  BY DEF Shown
<1>4. ASSUME NEW i \in Shown(new), i \notin shown
      PROVE  i \in kept
  <2>1. i \in DOMAIN new /\ new[i].kind = "graphics" /\ 0 \notin {new[i].extent[1], new[i].extent[2]}
    BY DEF Shown
  <2>2. i \notin sized
    BY <2>1, <1>4
  <2>3. i \in DOMAIN old /\ new[i].extent = old[i].extent
    <3>1. new[i].extent # <<0, 0>>
      BY <2>1
    <3> QED BY <2>1, <2>2, <3>1
  <2>4. i \in Shown(old)
    BY <2>1, <2>3 DEF Shown
  <2> QED BY <2>2, <2>3, <2>4, <2>1
<1> HIDE DEF kept, shown
<1>5. kept \cup shown = Shown(new)
  BY <1>2, <1>3, <1>4
<1> QED BY <1>1, <1>2, <1>5

LEMMA ExtentFormed ==
  ASSUME NEW kind, NEW R \in Rects
  PROVE  Extent(kind, R) \in Nat \X Nat
<1>1. /\ Cell[1] \in Nat \ {0} /\ Cell[2] \in Nat \ {0}
      /\ TextCell[1] \in Nat \ {0} /\ TextCell[2] \in Nat \ {0}
  BY WindowsAssumption
<1>2. \A n \in Nat : \A d \in Nat \ {0} : n \div d \in Nat
  OBVIOUS
<1> QED BY <1>1, <1>2, Rectangles DEF Extent

LEMMA LaysScreen ==
  ASSUME ScreenInv, LinkInv', NEW w, Lays(w)
  PROVE  ScreenInv'
<1> DEFINE v == LaidOut(w, root', viewport')
<1>1. windows' = v /\ canvases' = Canvases(windows, v) /\ viewport' \in Nat \X Nat
  BY WindowsAssumption DEF Lays, Arrange
<1>2. SameShape(w, v)
  BY LaidOutShape DEF Lays
<1>3. Rooted(w, root')
  <2>0. \A i \in DOMAIN w : v[i].key = w[i].key
    BY LaidOutShape DEF Lays
  <2> HIDE DEF v
  <2>1. Rooted(v, root')
    BY <1>1 DEF LinkInv
  <2>2. SameShape(v, w)
    BY <1>2 DEF SameShape
  <2>3. \A i \in DOMAIN v : w[i].key = v[i].key
    BY <1>2, <2>0 DEF SameShape
  <2> QED BY <2>1, <2>2, <2>3, RootedSame
<1>4. LaidIn(v, root', viewport') /\ Measured(v)
  BY <1>1, <1>3, LaidOutIn DEF Lays, Rooted
<1>5. canvases' = [i \in Shown(v) |-> v[i].extent]
  <2> HIDE DEF v
  <2>1. \A i \in DOMAIN windows \cap DOMAIN v : v[i].kind = windows[i].kind
    BY <1>2 DEF SameShape, Lays
  <2>2. \A i \in DOMAIN v : v[i].extent \in Nat \X Nat
    BY <1>4, ExtentFormed DEF LaidIn
  <2>3. canvases = [i \in Shown(windows) |-> windows[i].extent]
    BY DEF ScreenInv
  <2> QED BY <1>1, <2>1, <2>2, <2>3, CanvasesFollow
<1> HIDE DEF v
<1> QED BY <1>1, <1>4, <1>5 DEF ScreenInv, Lays

\* What leaves the windows where they are: only echoes change.
LEMMA EchoesScreen ==
  ASSUME WindowInv, LinkInv, ScreenInv, UNCHANGED <<root, viewport, canvases>>, DOMAIN windows' = DOMAIN windows,
         \A i \in DOMAIN windows : \E e : windows'[i] = [windows[i] EXCEPT !.echo = e]
  PROVE  ScreenInv'
<1>1. ASSUME NEW i \in DOMAIN windows
      PROVE  /\ windows'[i].kind = windows[i].kind /\ windows'[i].parent = windows[i].parent
             /\ windows'[i].first = windows[i].first /\ windows'[i].second = windows[i].second
             /\ windows'[i].method = windows[i].method /\ windows'[i].size = windows[i].size
             /\ windows'[i].reversed = windows[i].reversed /\ windows'[i].key = windows[i].key
             /\ windows'[i].rect = windows[i].rect /\ windows'[i].extent = windows[i].extent
  <2>1. PICK e : windows'[i] = [windows[i] EXCEPT !.echo = e]
    OBVIOUS
  <2>2. IsWindow(windows[i])
    BY DEF WindowInv, WindowsFormed
  <2> QED BY <2>1, <2>2 DEF IsWindow, Fields
<1>2. SameMeasures(windows, windows')
  BY <1>1 DEF SameMeasures, SameShape
<1>3. LaidIn(windows', root, viewport)
  <2> SUFFICES ASSUME NEW i \in DOMAIN windows
               PROVE  /\ windows'[i].rect \in Rects
                      /\ windows'[i].rect = IF i = root THEN <<0, 0, viewport[1], viewport[2]>>
                           ELSE Slice(windows', windows'[windows'[i].parent], i, windows'[windows'[i].parent].rect)
                      /\ windows'[i].extent = Extent(windows'[i].kind, windows'[i].rect)
    BY DEF LaidIn
  <2>1. /\ windows[i].rect \in Rects
        /\ windows[i].rect = IF i = root THEN <<0, 0, viewport[1], viewport[2]>>
             ELSE Slice(windows, windows[windows[i].parent], i, windows[windows[i].parent].rect)
        /\ windows[i].extent = Extent(windows[i].kind, windows[i].rect)
    BY DEF ScreenInv, LaidIn
  <2>2. i # root => windows[i].parent \in DOMAIN windows
    BY DEF LinkInv, Rooted, TreeOf, UnderParent
  <2>3. i # root => windows'[windows'[i].parent].rect = windows[windows[i].parent].rect
    BY <2>2, <1>1
  <2>4. i # root => \A R : Slice(windows', windows'[windows[i].parent], i, R)
                             = Slice(windows, windows[windows[i].parent], i, R)
    BY <2>2, <1>2, SameSlice
  <2> QED BY <2>1, <2>3, <2>4, <1>1
<1>4. Measured(windows')
  BY <1>1 DEF Measured, ScreenInv
<1>5. canvases' = [i \in Shown(windows') |-> windows'[i].extent]
  <2>1. Shown(windows') = Shown(windows)
    BY <1>1 DEF Shown
  <2>2. \A i \in Shown(windows) : windows'[i].extent = windows[i].extent
    BY <1>1 DEF Shown
  <2> QED BY <2>1, <2>2 DEF ScreenInv
<1> QED BY <1>3, <1>4, <1>5 DEF ScreenInv

LEMMA OpenFirstScreen ==
  ASSUME WindowInv, ScreenInv, LinkInv', NEW kind \in Kinds, OpenFirst(kind), LinkInv
  PROVE  ScreenInv'
<1> DEFINE id == next_window
           w == [i \in {id} |-> NewWindow(kind, 0, next_stream)]
<1>1. Arrange(w, root', viewport') /\ viewport' = viewport /\ root = 0
  BY DEF OpenFirst, Arrange
<1>2. DOMAIN windows = {}
  BY <1>1 DEF LinkInv, Rooted, TreeOf
<1>3. DOMAIN w = {id} /\ w[id] = NewWindow(kind, 0, next_stream)
  OBVIOUS
<1>4. w[id].method = 0 /\ w[id].size = 0
  BY <1>3 DEF NewWindow
<1> HIDE DEF w
<1>5. Lays(w)
  BY <1>1, <1>2, <1>3, <1>4, NewWindowFormed DEF Lays, Measured, ScreenInv
<1> QED BY <1>5, LaysScreen

\* A split leaves the numbers of the windows that were there and takes those of the new pair.
LEMMA AdoptedMeasures ==
  ASSUME WindowsFormed, NEW above, NEW old, NEW new
  PROVE  \A i \in DOMAIN windows : /\ Adopted(above, old, new)[i].method = windows[i].method
                                   /\ Adopted(above, old, new)[i].size = windows[i].size
                                   /\ Adopted(above, old, new)[i].kind = windows[i].kind
<1> SUFFICES ASSUME NEW i \in DOMAIN windows
             PROVE  /\ Adopted(above, old, new)[i].method = windows[i].method
                    /\ Adopted(above, old, new)[i].size = windows[i].size
                    /\ Adopted(above, old, new)[i].kind = windows[i].kind
  OBVIOUS
<1>1. Adopted(above, old, new)[i] = windows[i] \/ Adopted(above, old, new)[i] = Replace(windows[i], old, new)
  BY DEF Adopted
<1>2. IsWindow(windows[i])
  BY DEF WindowsFormed
<1>3. /\ Replace(windows[i], old, new).method = windows[i].method
      /\ Replace(windows[i], old, new).size = windows[i].size
      /\ Replace(windows[i], old, new).kind = windows[i].kind
  BY <1>2 DEF Replace, IsWindow, Fields
<1> QED BY <1>1, <1>3

LEMMA ParentMeasures ==
  ASSUME NEW w, NEW at, NEW parent, NEW i \in DOMAIN w, IsWindow(w[i])
  PROVE  LET v == [w EXCEPT ![at].parent = parent]
         IN  v[i].method = w[i].method /\ v[i].size = w[i].size /\ v[i].kind = w[i].kind
<1>1. CASE i = at
  BY <1>1 DEF IsWindow, Fields
<1>2. CASE i # at
  BY <1>2
<1> QED BY <1>1, <1>2

LEMMA OpenBesideScreen ==
  ASSUME WindowInv, ScreenInv, LinkInv', NEW split \in DOMAIN windows,
         NEW method \in Methods, NEW size \in Sizes, NEW kind \in Kinds,
         OpenBeside(split, method, size, kind)
  PROVE  ScreenInv'
<1> DEFINE id == next_window
           pair == id + 1
           adopted == Adopted(windows[split].parent, split, pair)
           kept == [adopted EXCEPT ![split].parent = pair]
           w == Split(split, id, kind, method, size)
<1>1. Arrange(w, root', viewport') /\ viewport' = viewport
  BY DEF OpenBeside, Arrange
<1>2. w = With(With(kept, id, NewWindow(kind, pair, next_stream)), pair, NewPair(split, id, method, size))
  BY DEF Split
<1>3. id # pair /\ id \notin DOMAIN windows /\ pair \notin DOMAIN windows /\ WindowsFormed
  BY DEF WindowInv, WindowsFormed
<1>4. \A i \in DOMAIN w : IsWindow(w[i])
  <2> HIDE DEF w
  <2> QED BY <1>3, SplitKeeps DEF w
<1>5. /\ DOMAIN adopted = DOMAIN windows
      /\ \A i \in DOMAIN windows : /\ IsWindow(adopted[i]) /\ adopted[i].method = windows[i].method
                                   /\ adopted[i].size = windows[i].size /\ adopted[i].kind = windows[i].kind
  BY <1>3, AdoptedKeeps, AdoptedMeasures
<1> HIDE DEF w, pair, id, adopted
<1>6. /\ DOMAIN kept = DOMAIN windows
      /\ \A i \in DOMAIN windows : /\ kept[i].method = windows[i].method
                                   /\ kept[i].size = windows[i].size /\ kept[i].kind = windows[i].kind
  BY <1>5, ParentMeasures
<1> HIDE DEF kept
<1>7. /\ DOMAIN w = DOMAIN windows \cup {id, pair}
      /\ w[id] = NewWindow(kind, pair, next_stream) /\ w[pair] = NewPair(split, id, method, size)
      /\ \A i \in DOMAIN windows : w[i] = kept[i]
  BY <1>2, <1>3, <1>6 DEF With
<1>8. /\ w[id].method = 0 /\ w[id].size = 0
      /\ w[pair].method = method /\ w[pair].size = size
  BY <1>7 DEF NewPair, NewWindow
<1>9. method \in Nat /\ size \in Nat
  BY WindowsAssumption
<1>10. Measured(w)
  BY <1>6, <1>7, <1>8, <1>9 DEF Measured, ScreenInv
<1>11. \A i \in DOMAIN windows : w[i].kind = windows[i].kind
  BY <1>6, <1>7
<1>12. Lays(w)
  BY <1>1, <1>4, <1>10, <1>11 DEF Lays, ScreenInv
<1> QED BY <1>12, LaysScreen

LEMMA CloseScreen ==
  ASSUME WindowInv, ScreenInv, LinkInv', NEW id \in DOMAIN windows, CloseWindow(id)
  PROVE  ScreenInv'
<1> DEFINE above == windows[windows[id].parent].parent
           pair == windows[id].parent
           sibling == Sibling(windows[pair], id)
           adopted == Adopted(above, pair, sibling)
           kept == [adopted EXCEPT ![sibling].parent = above]
           p == Promoted(id)
           w == Pruned(id)
<1>0. WindowsFormed
  BY DEF WindowInv
<1>1. Arrange(w, root', viewport') /\ viewport' = viewport
  BY DEF CloseWindow, Arrange
<1>2. DOMAIN w \subseteq DOMAIN windows /\ \A i \in DOMAIN w : IsWindow(w[i])
  <2> HIDE DEF w
  <2> QED BY <1>0, PrunedKeeps DEF Moved, w
<1>3. /\ DOMAIN adopted = DOMAIN windows
      /\ \A i \in DOMAIN windows : /\ IsWindow(adopted[i]) /\ adopted[i].method = windows[i].method
                                   /\ adopted[i].size = windows[i].size /\ adopted[i].kind = windows[i].kind
  BY <1>0, AdoptedKeeps, AdoptedMeasures
<1>4. p = windows \/ p = Restrict(kept, DOMAIN windows \ {pair})
  BY DEF Promoted
<1>5. Moved(p)
  <2> HIDE DEF p
  <2> QED BY <1>0, PromotedKeeps DEF p
<1>6. DOMAIN w \subseteq DOMAIN p /\ \A i \in DOMAIN w : \E e, k : w[i] = [p[i] EXCEPT !.echo = e, !.key = k]
  <2> HIDE DEF p
  <2>1. DOMAIN w \subseteq DOMAIN p
    BY DEF Pruned, p
  <2>2. ASSUME NEW i \in DOMAIN w PROVE \E e, k : w[i] = [p[i] EXCEPT !.echo = e, !.key = k]
    <3>1. w[i] = [p[i] EXCEPT !.echo = IF @ \in Closing(id) THEN 0 ELSE @,
                              !.key = IF @ \in DOMAIN p \ Inside(windows, id) THEN @ ELSE 0]
      BY DEF Pruned, p
    <3> QED BY <3>1
  <2> QED BY <2>1, <2>2
<1> HIDE DEF adopted, sibling, above, w
<1>7. /\ DOMAIN kept = DOMAIN windows
      /\ \A i \in DOMAIN windows : /\ kept[i].method = windows[i].method
                                   /\ kept[i].size = windows[i].size /\ kept[i].kind = windows[i].kind
  BY <1>3, ParentMeasures
<1> HIDE DEF kept, p, pair
<1>8. \A i \in DOMAIN p : /\ i \in DOMAIN windows /\ p[i].method = windows[i].method
                          /\ p[i].size = windows[i].size /\ p[i].kind = windows[i].kind
  BY <1>4, <1>7 DEF Restrict
<1>9. ASSUME NEW i \in DOMAIN w
      PROVE  /\ i \in DOMAIN windows /\ w[i].method = windows[i].method
             /\ w[i].size = windows[i].size /\ w[i].kind = windows[i].kind
  <2>1. PICK e, k : w[i] = [p[i] EXCEPT !.echo = e, !.key = k]
    BY <1>6
  <2>2. i \in DOMAIN p /\ IsWindow(p[i])
    BY <1>5, <1>6 DEF Moved
  <2>3. w[i].method = p[i].method /\ w[i].size = p[i].size /\ w[i].kind = p[i].kind
    BY <2>1, <2>2 DEF IsWindow, Fields
  <2> QED BY <2>2, <2>3, <1>8
<1>10. Measured(w)
  BY <1>9 DEF Measured, ScreenInv
<1>11. Lays(w)
  BY <1>1, <1>2, <1>9, <1>10 DEF Lays, ScreenInv
<1> QED BY <1>11, LaysScreen

LEMMA SetArrangementScreen ==
  ASSUME WindowInv, ScreenInv, LinkInv', NEW id \in DOMAIN windows, NEW method \in Methods,
         NEW size \in Sizes, NEW key, SetArrangement(id, method, size, key)
  PROVE  ScreenInv'
<1> DEFINE w == [windows EXCEPT ![id].method = method, ![id].size = size,
                                ![id].key = IF key # 0 THEN key ELSE @]
<1>1. Arrange(w, root', viewport') /\ viewport' = viewport
  BY DEF SetArrangement, Arrange
<1>2. DOMAIN w = DOMAIN windows /\ method \in Nat /\ size \in Nat
  BY WindowsAssumption
<1>3. ASSUME NEW i \in DOMAIN windows
      PROVE  IsWindow(w[i]) /\ w[i].kind = windows[i].kind /\ w[i].method \in Nat /\ w[i].size \in Nat
  <2>1. IsWindow(windows[i]) /\ windows[i].method \in Nat /\ windows[i].size \in Nat
    BY DEF WindowInv, WindowsFormed, ScreenInv, Measured
  <2>2. CASE i = id
    <3>1. w[i] = [windows[i] EXCEPT !.method = method, !.size = size, !.key = IF key # 0 THEN key ELSE @]
      BY <2>2
    <3> HIDE DEF w
    <3> QED BY <2>1, <3>1, <1>2 DEF IsWindow, Fields
  <2>3. CASE i # id
    <3>1. w[i] = windows[i]
      BY <2>3
    <3> HIDE DEF w
    <3> QED BY <2>1, <3>1
  <2> QED BY <2>2, <2>3
<1> HIDE DEF w
<1>4. Lays(w)
  BY <1>1, <1>2, <1>3 DEF Lays, Measured, ScreenInv
<1> QED BY <1>4, LaysScreen

LEMMA SetViewportScreen ==
  ASSUME WindowInv, ScreenInv, LinkInv', NEW size \in Viewports, SetViewport(size)
  PROVE  ScreenInv'
<1>1. Arrange(windows, root', viewport') /\ viewport' \in Viewports
  BY DEF SetViewport, Arrange
<1>2. Lays(windows)
  BY <1>1 DEF Lays, ScreenInv, WindowInv, WindowsFormed
<1> QED BY <1>2, LaysScreen

\* Of what streams and files do the screen sees nothing.
LEMMA StillScreen ==
  ASSUME ScreenInv, UNCHANGED <<windows, root, viewport, canvases>>
  PROVE  ScreenInv'
BY DEF ScreenInv

LEMMA NextScreen ==
  ASSUME StreamsInv, LinkInv, ScreenInv, LinkInv', [StreamsNext]_<<winVars, fileVars>>
  PROVE  ScreenInv'
<1>0. WindowInv
  BY DEF StreamsInv, Formed
<1>1. CASE UNCHANGED <<winVars, fileVars>>
  BY <1>1, StillScreen DEF winVars
<1>2. CASE TreeNext
  BY <1>0, <1>2, OpenFirstScreen, OpenBesideScreen, CloseScreen DEF TreeNext
<1>3. CASE LayoutNext
  BY <1>0, <1>3, SetArrangementScreen, SetViewportScreen DEF LayoutNext
<1>4. CASE EchoNext
  <2>1. ASSUME NEW id, NEW stream, SetEcho(id, stream) PROVE ScreenInv'
    <3>1. /\ UNCHANGED <<root, viewport, canvases>> /\ windows' = [windows EXCEPT ![id].echo = stream]
          /\ id \in DOMAIN windows
      BY <2>1 DEF SetEcho
    <3>2. ASSUME NEW i \in DOMAIN windows PROVE \E e : windows'[i] = [windows[i] EXCEPT !.echo = e]
      <4>1. IsWindow(windows[i])
        BY <1>0 DEF WindowInv, WindowsFormed
      <4>2. windows[i] = [windows[i] EXCEPT !.echo = windows[i].echo]
        BY <4>1, SameEcho
      <4>3. i = id => windows'[i] = [windows[i] EXCEPT !.echo = stream]
        BY <3>1
      <4>4. i # id => windows'[i] = windows[i]
        BY <3>1
      <4> QED BY <4>2, <4>3, <4>4
    <3>3. DOMAIN windows' = DOMAIN windows
      BY <3>1
    <3> QED BY <1>0, <3>1, <3>2, <3>3, EchoesScreen
  <2>2. ASSUME NEW stream, SetCurrent(stream) PROVE ScreenInv'
    BY <2>2, StillScreen DEF SetCurrent
  <2> QED BY <1>4, <2>1, <2>2 DEF EchoNext
<1>5. ASSUME NEW s, Detached(s) PROVE ScreenInv'
  <2>1. /\ UNCHANGED <<root, viewport, canvases>> /\ DOMAIN windows' = DOMAIN windows
        /\ \A i \in DOMAIN windows :
             windows'[i] = [windows[i] EXCEPT !.echo = IF @ = s THEN 0 ELSE @]
    BY <1>5 DEF Detached
  <2> QED BY <1>0, <2>1, EchoesScreen
<1>6. CASE FileNext
  <2>1. UNCHANGED <<windows, root, viewport, canvases>> \/ \E s : Detached(s)
    BY <1>6 DEF FileNext, OpenFile, Delete, Flush, CloseFile, CloseFileFails, Resume, winVars, AddStream
  <2> QED BY <1>5, <2>1, StillScreen
<1>7. CASE MarkNext
  <2>1. UNCHANGED <<windows, root, viewport, canvases>> \/ \E s : Detached(s)
    BY <1>7 DEF MarkNext, OpenMemory, CloseMemory, Put, WriteMemory, WriteFile, ReadValue, ReadFile, ReadMemory, Seek, winVars, AddStream
  <2> QED BY <1>5, <2>1, StillScreen
<1> QED BY <1>1, <1>2, <1>3, <1>4, <1>6, <1>7 DEF StreamsNext

LEMMA InitScreen == StreamsInit => ScreenInv
<1> SUFFICES ASSUME StreamsInit PROVE ScreenInv
  OBVIOUS
<1>1. windows = <<>> /\ canvases = <<>> /\ viewport \in Viewports
  BY DEF StreamsInit, WinInit
<1>2. DOMAIN windows = {}
  BY <1>1
<1>3. Shown(windows) = {}
  BY <1>2 DEF Shown
<1>4. canvases = [i \in Shown(windows) |-> windows[i].extent]
  BY <1>1, <1>3
<1> QED BY <1>1, <1>2, <1>4 DEF ScreenInv, Measured, LaidIn

\* The sum that the screen is measured by.
LEMMA AreasSum ==
  ASSUME IsFiniteSet(DOMAIN windows), \A i \in DOMAIN windows : windows[i].rect \in Rects
  PROVE  MapThenSumSet(LAMBDA i : Area(windows[i].rect), Leaves) = SumOf(Areas(windows), Leaves)
<1> DEFINE w == Areas(windows)
           u == [i \in Leaves |-> w[i]]
           Is(f) == f = [s \in SUBSET Leaves |->
                           IF s = {} THEN 0 ELSE Area(windows[Pick(s)].rect) + f[s \ {Pick(s)}]]
           iter == CHOOSE f : Is(f)
<1>1. IsFiniteSet(Leaves) /\ Leaves \subseteq DOMAIN windows
  BY FS_Subset DEF Leaves
<1>2. \A i \in Leaves : w[i] = Area(windows[i].rect) /\ w[i] \in Int /\ u[i] = w[i]
  BY <1>1, RectArea DEF Areas
<1>3. u \in [Leaves -> Int]
  BY <1>2
<1> HIDE DEF w, u
<1>4. PICK h : IsSum(w, Leaves, h) /\ SumOf(w, Leaves) = h[Leaves]
  BY <1>1, <1>2, SumDefined
<1>5. \A s \in SUBSET Leaves : s # {} => Pick(s) \in Leaves
  BY DEF Pick
<1>6. \A f : Is(f) <=> IsSum(w, Leaves, f)
  <2> SUFFICES ASSUME NEW f PROVE Is(f) <=> IsSum(w, Leaves, f)
    OBVIOUS
  <2>1. [s \in SUBSET Leaves |-> IF s = {} THEN 0 ELSE Area(windows[Pick(s)].rect) + f[s \ {Pick(s)}]]
          = [s \in SUBSET Leaves |-> IF s = {} THEN 0 ELSE w[Pick(s)] + f[s \ {Pick(s)}]]
    BY <1>2, <1>5
  <2> QED BY <2>1 DEF IsSum
<1>7. IsSum(w, Leaves, iter)
  <2>1. Is(h)
    BY <1>4, <1>6
  <2>2. Is(iter)
    BY <2>1
  <2> HIDE DEF iter, Is
  <2> QED BY <2>2, <1>6
<1>8. PICK k : IsSum(u, Leaves, k)
  BY <1>1, <1>3, SumExists
<1>9. iter[Leaves] = k[Leaves] /\ h[Leaves] = k[Leaves]
  <2> HIDE DEF iter
  <2>1. \A x \in Leaves : w[x] = u[x]
    BY <1>2
  <2>2. \A s \in SUBSET Leaves : iter[s] = k[s] /\ iter[s] \in Int
    BY <2>1, <1>1, <1>3, <1>7, <1>8, SumUnique
  <2>3. \A s \in SUBSET Leaves : h[s] = k[s] /\ h[s] \in Int
    BY <2>1, <1>1, <1>3, <1>4, <1>8, SumUnique
  <2> QED BY <2>2, <2>3
<1>10. MapThenSumSet(LAMBDA i : Area(windows[i].rect), Leaves) = iter[Leaves]
  BY Zenon DEF MapThenSumSet, MapThenFoldSet, Pick
<1> QED BY <1>4, <1>9, <1>10 DEF w

LEMMA ScreenInvSays ==
  ASSUME WindowInv, LinkInv, ScreenInv
  PROVE  Screen
<1>0. /\ TreeOf(windows, root) /\ Ranked(windows) /\ Measured(windows)
      /\ LaidIn(windows, root, viewport) /\ viewport \in Nat \X Nat
  BY WindowsAssumption DEF LinkInv, Rooted, ScreenInv
<1>1. IsFiniteSet(DOMAIN windows)
  <2>1. DOMAIN windows \subseteq 1 .. next_window - 1 /\ next_window \in Nat
    BY DEF WindowInv, WindowsFormed
  <2>2. IsFiniteSet(1 .. next_window - 1)
    BY <2>1, FS_Interval
  <2> QED BY <2>1, <2>2, FS_Subset
<1>2. \A i \in DOMAIN windows : windows[i].rect \in Rects
  BY <1>0 DEF LaidIn
<1>3. Tiled
  <2> SUFFICES ASSUME root # 0
               PROVE  /\ \A i \in Leaves : LET r == windows[i].rect
                                           IN  /\ r \in Seq(Nat)
                                               /\ r[1] + r[3] <= viewport[1] /\ r[2] + r[4] <= viewport[2]
                      /\ \A i, j \in Leaves : i # j => Apart(windows[i].rect, windows[j].rect)
                      /\ MapThenSumSet(LAMBDA i : Area(windows[i].rect), Leaves) = viewport[1] * viewport[2]
    BY DEF Tiled
  <2>1. root \in DOMAIN windows
    BY <1>0 DEF TreeOf
  <2>2. LeavesIn(windows, root) = Leaves
    BY <1>0, RootAbove DEF LeavesIn, Leaves
  <2>3. Covers(windows, root)
    BY <2>1, <1>0, <1>1, AllCover
  <2>4. windows[root].rect = <<0, 0, viewport[1], viewport[2]>>
    BY <2>1, <1>0 DEF LaidIn
  <2>5. ASSUME NEW i \in Leaves
        PROVE  /\ windows[i].rect \in Seq(Nat)
               /\ windows[i].rect[1] + windows[i].rect[3] <= viewport[1]
               /\ windows[i].rect[2] + windows[i].rect[4] <= viewport[2]
    <3>1. windows[i].rect \in Rects
      BY <1>2 DEF Leaves
    <3>2. windows[i].rect \in Seq(Nat)
      <4> DEFINE r == windows[i].rect
      <4>1. r = <<r[1], r[2], r[3], r[4]>> /\ r[1] \in Nat /\ r[2] \in Nat /\ r[3] \in Nat /\ r[4] \in Nat
        BY <3>1, Rectangles
      <4> HIDE DEF r
      <4>2. <<r[1], r[2], r[3], r[4]>> \in Seq(Nat)
        BY <4>1
      <4> QED BY <4>1, <4>2 DEF r
    <3>3. Fits(windows[i].rect, windows[root].rect)
      BY <2>2, <2>3 DEF Covers
    <3>4. /\ windows[i].rect[1] + windows[i].rect[3] <= 0 + viewport[1]
          /\ windows[i].rect[2] + windows[i].rect[4] <= 0 + viewport[2]
      BY <3>3, <2>4 DEF Fits
    <3> QED BY <3>2, <3>4, <1>0
  <2>6. \A i, j \in Leaves : i # j => Apart(windows[i].rect, windows[j].rect)
    BY <2>2, <2>3 DEF Covers
  <2>7. MapThenSumSet(LAMBDA i : Area(windows[i].rect), Leaves) = viewport[1] * viewport[2]
    <3>1. SumOf(Areas(windows), Leaves) = Area(windows[root].rect)
      BY <2>2, <2>3 DEF Covers
    <3>2. Area(windows[root].rect) = viewport[1] * viewport[2]
      BY <2>4 DEF Area
    <3> QED BY <3>1, <3>2, <1>1, <1>2, AreasSum
  <2> QED BY <2>5, <2>6, <2>7
<1>4. CanvasesFit
  <2>1. \A x, y \in Nat : x * y # 0 <=> (x # 0 /\ y # 0)
    OBVIOUS
  <2>2. ASSUME NEW i \in DOMAIN windows, windows[i].kind = "graphics"
        PROVE  Area(windows[i].rect) # 0 <=> 0 \notin {windows[i].extent[1], windows[i].extent[2]}
    <3>1. windows[i].extent = <<windows[i].rect[3], windows[i].rect[4]>>
      BY <1>0, <2>2 DEF LaidIn, Extent
    <3>2. windows[i].rect[3] \in Nat /\ windows[i].rect[4] \in Nat
      BY <1>2, Rectangles
    <3> QED BY <2>1, <3>1, <3>2 DEF Area
  <2>3. Shown(windows) = {i \in Leaves : windows[i].kind = "graphics" /\ Area(windows[i].rect) # 0}
    BY <2>2 DEF Shown, Leaves, IsPair
  <2> QED BY <2>3 DEF CanvasesFit, ScreenInv
<1> QED BY <1>3, <1>4 DEF Screen

-----------------------------------------------------------------------------
(* Echoes: chains of streams *)

\* Where a rank falls, one below the number of elements does.
LEMMA SmallRank ==
  ASSUME NEW D, IsFiniteSet(D), NEW p, NEW rank, Falls(D, p, rank)
  PROVE  \E k \in [D -> 0 .. Cardinality(D) - 1] : Falls(D, p, k)
<1> DEFINE lower(i) == {j \in D : rank[j] < rank[i]}
           k == [i \in D |-> Cardinality(lower(i))]
<1>1. rank \in [D -> Nat] /\ \A i \in D : p[i] \in D => rank[p[i]] < rank[i]
  BY DEF Falls
<1>2. ASSUME NEW i \in D PROVE k[i] \in 0 .. Cardinality(D) - 1
  <2>1. lower(i) \subseteq D /\ i \notin lower(i)
    BY <1>1
  <2>2. lower(i) # D
    BY <2>1
  <2>3. Cardinality(lower(i)) < Cardinality(D) /\ Cardinality(lower(i)) \in Nat /\ Cardinality(D) \in Nat
    <3> HIDE DEF lower
    <3> QED BY <2>1, <2>2, FS_Subset, FS_CardinalityType
  <2> QED BY <2>3
<1>3. ASSUME NEW i \in D, p[i] \in D PROVE k[p[i]] < k[i]
  <2>1. rank[p[i]] < rank[i]
    BY <1>1, <1>3
  <2>2. lower(p[i]) \subseteq lower(i)
    BY <1>1, <1>3, <2>1
  <2>3. p[i] \in lower(i) /\ p[i] \notin lower(p[i])
    BY <1>1, <1>3, <2>1
  <2>4. IsFiniteSet(lower(i))
    <3>1. lower(i) \subseteq D
      OBVIOUS
    <3> QED BY <3>1, FS_Subset
  <2>5. Cardinality(lower(p[i])) < Cardinality(lower(i))
    <3> DEFINE A == lower(p[i])
               B == lower(i)
    <3>1. A \subseteq B /\ A # B /\ IsFiniteSet(B)
      BY <2>2, <2>3, <2>4
    <3> HIDE DEF A, B
    <3>2. Cardinality(A) < Cardinality(B)
      BY <3>1, FS_Subset, FS_CardinalityType
    <3> QED BY <3>2 DEF A, B
  <2> QED BY <1>3, <2>5
<1>4. k \in [D -> 0 .. Cardinality(D) - 1]
  <2>1. k = [i \in D |-> k[i]]
    OBVIOUS
  <2> HIDE DEF k
  <2> QED BY <1>2, <2>1
<1>5. Falls(D, p, k)
  <2>1. Cardinality(D) \in Nat
    BY FS_CardinalityType
  <2>2. k \in [D -> Nat]
    <3> HIDE DEF k
    <3> QED BY <1>4, <2>1
  <2> HIDE DEF k
  <2> QED BY <1>3, <2>2 DEF Falls
<1> HIDE DEF k
<1> QED BY <1>4, <1>5

\* What a stream leads to is below it, or it leads to nothing; and still is when some of it goes.
LEMMA RankOfRest ==
  ASSUME NEW D, NEW p, NEW rank, Falls(D, p, rank), NEW E, NEW q,
         \A s \in E : q[s] \notin E \/ (s \in D /\ p[s] \in D /\ q[s] = p[s])
  PROVE  \E k : Falls(E, q, k)
<1> DEFINE k == [s \in E |-> IF s \in D THEN rank[s] ELSE 0]
<1>1. k \in [E -> Nat]
  BY DEF Falls
<1>2. ASSUME NEW s \in E, q[s] \in E PROVE k[q[s]] < k[s]
  BY <1>2 DEF Falls
<1> HIDE DEF k
<1>3. Falls(E, q, k)
  BY <1>1, <1>2 DEF Falls
<1> QED BY <1>3

\* A stream led somewhere else, from where the chain does not come back to it.
LEMMA RankOfLed ==
  ASSUME NEW D, IsFiniteSet(D), NEW p, NEW rank, Falls(D, p, rank),
         NEW a \in D, NEW b, NEW R \in SUBSET D, a \notin R, b \in D => b \in R,
         \A s \in R : p[s] \in D => p[s] \in R,
         NEW q, q[a] = b, \A s \in D : s # a => q[s] = p[s]
  PROVE  \E k : Falls(D, q, k)
<1> DEFINE N == Cardinality(D)
<1>1. PICK l \in [D -> 0 .. N - 1] : Falls(D, p, l)
  BY SmallRank
<1>2. N \in Nat
  BY FS_CardinalityType
<1> HIDE DEF N
<1> DEFINE k == [s \in D |-> IF s \in R THEN l[s] ELSE l[s] + N]
<1>3. \A s \in D : l[s] \in Nat /\ l[s] < N
  BY <1>1, <1>2
<1>4. k \in [D -> Nat]
  BY <1>2, <1>3
<1>5. ASSUME NEW s \in D, q[s] \in D PROVE k[q[s]] < k[s]
  <2>1. CASE s = a
    <3>1. q[s] \in R /\ s \notin R
      BY <2>1, <1>5
    <3>2. k[q[s]] = l[q[s]] /\ k[s] = l[s] + N
      BY <3>1
    <3> QED BY <3>1, <3>2, <1>2, <1>3
  <2>2. CASE s # a
    <3>1. q[s] = p[s] /\ l[p[s]] < l[s]
      BY <2>2, <1>1, <1>5 DEF Falls
    <3>2. s \in R => p[s] \in R
      BY <3>1, <1>5
    <3>3. /\ k[s] = IF s \in R THEN l[s] ELSE l[s] + N
          /\ k[p[s]] = IF p[s] \in R THEN l[p[s]] ELSE l[p[s]] + N
      BY <3>1, <1>5
    <3> QED BY <3>1, <3>2, <3>3, <1>2, <1>3, <1>5
  <2> QED BY <2>1, <2>2
<1> HIDE DEF k
<1>6. Falls(D, q, k)
  BY <1>4, <1>5 DEF Falls
<1> QED BY <1>6

-----------------------------------------------------------------------------
(* Chains end *)

EchoPath(w, st) == [s \in DOMAIN st |-> EchoOf(w, st, s)]
EchoInv == \E rank : Falls(DOMAIN streams, EchoPath(windows, streams), rank)

\* Some windows lead nowhere any more, some streams are new or gone.
LEMMA EchoesFewer ==
  ASSUME EchoInv, Live(windows, streams, current_stream), 0 \notin DOMAIN streams',
         \A i \in DOMAIN windows' :
           windows'[i].echo = 0 \/ (i \in DOMAIN windows /\ windows'[i].echo = windows[i].echo),
         \A s \in DOMAIN streams' :
           IF s \in DOMAIN streams THEN streams'[s].window = streams[s].window
           ELSE streams'[s].window \notin DOMAIN windows
  PROVE  EchoInv'
<1> DEFINE p == EchoPath(windows, streams)
           q == EchoPath(windows', streams')
<1>1. PICK rank : Falls(DOMAIN streams, p, rank)
  BY DEF EchoInv
<1>2. ASSUME NEW s \in DOMAIN streams', q[s] \in DOMAIN streams'
      PROVE  s \in DOMAIN streams /\ p[s] \in DOMAIN streams /\ q[s] = p[s]
  <2> DEFINE i == streams'[s].window
  <2>1. i \in DOMAIN windows' /\ q[s] = windows'[i].echo /\ q[s] # 0
    BY <1>2 DEF EchoPath, EchoOf
  <2>2. i \in DOMAIN windows /\ windows'[i].echo = windows[i].echo
    BY <2>1
  <2>3. s \in DOMAIN streams /\ streams[s].window = i
    BY <2>2
  <2>4. p[s] = windows[i].echo
    BY <2>2, <2>3 DEF EchoPath, EchoOf
  <2>5. windows[i].echo \in DOMAIN streams \cup {0}
    BY <2>2 DEF Live
  <2> QED BY <2>1, <2>2, <2>3, <2>4, <2>5
<1> HIDE DEF p, q
<1>3. \E k : Falls(DOMAIN streams', q, k)
  BY <1>1, <1>2, RankOfRest
<1> QED BY <1>3 DEF q, EchoInv

\* What valid_echo reaches is the whole chain.
LEMMA ReachedAll ==
  ASSUME EchoInv, IsFiniteSet(DOMAIN streams), Live(windows, streams, current_stream),
         NEW stream \in DOMAIN streams \cup {0}
  PROVE  LET step(S) == S \cup {EchoOf(windows, streams, s) : s \in S \cap DOMAIN streams}
             reached == FoldSet(LAMBDA i, S : step(S), {stream}, DOMAIN streams)
         IN  /\ stream \in reached
             /\ \A s \in reached \cap DOMAIN streams : EchoOf(windows, streams, s) \in reached
<1> DEFINE D == DOMAIN streams
           p == EchoPath(windows, streams)
           N == Cardinality(D)
           step(S) == S \cup {EchoOf(windows, streams, s) : s \in S \cap DOMAIN streams}
           V == SUBSET (D \cup {0})
           Is(f) == f = [s \in SUBSET D |-> IF s = {} THEN {stream} ELSE step(f[s \ {Pick(s)}])]
           iter == CHOOSE f : Is(f)
<1>1. PICK r \in [D -> 0 .. N - 1] : Falls(D, p, r)
  BY SmallRank DEF EchoInv
<1>2. N \in Nat /\ \A s \in SUBSET D : IsFiniteSet(s) /\ Cardinality(s) \in Nat /\ Cardinality(s) <= N
  BY FS_Subset, FS_CardinalityType
<1>3. \A s \in D : EchoOf(windows, streams, s) \in D \cup {0} /\ p[s] = EchoOf(windows, streams, s)
  BY DEF Live, EchoOf, EchoPath
<1>4. \A S \in V : step(S) \in V
  BY <1>3
<1>5. Is(iter)
  <2> DEFINE g == [x \in D |-> [S \in V |-> step(S)]]
             c == [s \in SUBSET D |-> Pick(s)]
  <2>1. \A s \in SUBSET D : s # {} => c[s] \in s
    BY DEF Pick
  <2>2. g \in [D -> [V -> V]] /\ {stream} \in V
    <3> HIDE DEF step, V
    <3>1. g \in [D -> [V -> V]]
      BY <1>4
    <3> QED BY <3>1 DEF V
  <2> HIDE DEF g, c, V
  <2>3. PICK f \in [SUBSET D -> V] : IsFold(f, D, {stream}, g, c)
    BY <2>1, <2>2, FoldExists
  <2>4. ASSUME NEW s \in SUBSET D
        PROVE  f[s] = IF s = {} THEN {stream} ELSE step(f[s \ {Pick(s)}])
    <3>1. CASE s = {}
      BY <2>3, <3>1 DEF IsFold
    <3>2. CASE s # {}
      <4>1. c[s] = Pick(s) /\ c[s] \in D /\ s \ {c[s]} \in SUBSET D
        BY <2>1, <3>2 DEF c
      <4>2. f[s] = g[c[s]][f[s \ {c[s]}]]
        BY <2>3, <3>2 DEF IsFold
      <4>3. f[s \ {c[s]}] \in V
        BY <2>3, <4>1
      <4> HIDE DEF step
      <4> QED BY <3>2, <4>1, <4>2, <4>3 DEF g
    <3> QED BY <3>1, <3>2
  <2> HIDE DEF step
  <2>5. Is(f)
    <3>1. f = [s \in SUBSET D |-> f[s]]
      BY <2>3
    <3> QED BY <2>4, <3>1
  <2> QED BY <2>5
<1>6. FoldSet(LAMBDA i, S : step(S), {stream}, DOMAIN streams) = iter[D]
  BY Zenon DEF FoldSet, MapThenFoldSet, Pick
<1> HIDE DEF iter
<1> DEFINE Ahead(s) == \A t \in iter[s] \cap D : p[t] \notin iter[s] => r[t] + Cardinality(s) < N
           G == {s \in SUBSET D : iter[s] \in V /\ stream \in iter[s] /\ Ahead(s)}
<1>7. ASSUME NEW s \in SUBSET D, \A x \in s : s \ {x} \in G PROVE s \in G
  <2>1. CASE s = {}
    <3>1. iter[s] = {stream}
      BY <2>1, <1>5
    <3>2. Cardinality(s) = 0
      BY <2>1, FS_EmptySet
    <3>3. Ahead(s)
      BY <3>2, <1>1, <1>2
    <3> QED BY <3>1, <3>3
  <2>2. CASE s # {}
    <3> DEFINE q == s \ {Pick(s)}
               S == iter[q]
    <3>1. Pick(s) \in s
      BY <2>2 DEF Pick
    <3>2. q \in G /\ Cardinality(q) = Cardinality(s) - 1 /\ Cardinality(s) \in Nat
      BY <3>1, <1>7, <1>2, SmallerSubset
    <3>3. iter[s] = step(S)
      BY <2>2, <1>5
    <3>4. S \in V /\ stream \in S /\ Ahead(q)
      BY <3>2
    <3>5. ASSUME NEW t \in iter[s] \cap D, p[t] \notin iter[s] PROVE r[t] + Cardinality(s) < N
      <4>1. t \notin S
        BY <3>3, <3>5, <1>3
      <4>2. PICK u \in S \cap D : t = EchoOf(windows, streams, u)
        BY <4>1, <3>3
      <4>3. p[u] = t
        BY <4>2, <1>3
      <4>4. r[u] + Cardinality(q) < N
        BY <3>4, <4>1, <4>2, <4>3
      <4>5. r[t] < r[u] /\ r[t] \in Nat /\ r[u] \in Nat
        BY <1>1, <4>2, <4>3 DEF Falls
      <4> HIDE DEF N, q
      <4> QED BY <3>2, <4>4, <4>5, <1>2
    <3>6. Ahead(s)
      BY <3>5
    <3>7. iter[s] \in V /\ stream \in iter[s]
      BY <3>3, <3>4, <1>4
    <3> QED BY <3>6, <3>7
  <2> QED BY <2>1, <2>2
<1>8. G = SUBSET D
  <2> HIDE DEF G
  <2>1. G \in SUBSET (SUBSET D)
    BY DEF G
  <2> QED BY <1>7, <2>1, SubsetInduction
<1>9. stream \in iter[D] /\ Ahead(D)
  BY <1>8
<1>10. ASSUME NEW t \in iter[D] \cap D PROVE p[t] \in iter[D]
  <2>1. ASSUME p[t] \notin iter[D] PROVE FALSE
    <3>1. r[t] + N < N
      BY <1>9, <2>1
    <3>2. r[t] \in Nat
      BY <1>1, <1>2
    <3> HIDE DEF N
    <3> QED BY <3>1, <3>2, <1>2
  <2> QED BY <2>1
<1> QED BY <1>3, <1>6, <1>9, <1>10

\* Following the echoes for as many steps as there are windows leads out of them.
LEMMA EchoInvSays ==
  ASSUME EchoInv, WindowInv, Live(windows, streams, current_stream),
         IsFiniteSet(DOMAIN windows), IsFiniteSet(DOMAIN streams)
  PROVE  EchoesEnd
<1> DEFINE hop == [i \in Leaves |-> IF windows[i].echo \in DOMAIN streams
                                    THEN streams[windows[i].echo].window ELSE 0]
           W == DOMAIN windows
           M == Cardinality(Leaves)
<1>0. /\ Leaves \subseteq W /\ IsFiniteSet(Leaves) /\ M \in Nat /\ M <= Cardinality(W)
      /\ 0 \notin Leaves
  <2>1. Leaves \subseteq W
    BY DEF Leaves
  <2>2. 0 \notin W
    BY DEF WindowInv, WindowsFormed
  <2> QED BY <2>1, <2>2, FS_Subset, FS_CardinalityType
<1>1. PICK rank : Falls(DOMAIN streams, EchoPath(windows, streams), rank)
  BY DEF EchoInv
<1>2. \E k : Falls(Leaves, hop, k)
  <2> DEFINE k == [i \in Leaves |-> rank[windows[i].stream]]
  <2>1. \A i \in Leaves : windows[i].stream \in DOMAIN streams /\ streams[windows[i].stream].window = i
    BY DEF Leaves, Live
  <2>2. k \in [Leaves -> Nat]
    BY <2>1, <1>1 DEF Falls
  <2>3. ASSUME NEW i \in Leaves, hop[i] \in Leaves PROVE k[hop[i]] < k[i]
    <3> DEFINE s == windows[i].stream
               e == windows[i].echo
    <3>1. e \in DOMAIN streams /\ hop[i] = streams[e].window
      BY <1>0, <2>3
    <3>2. windows[hop[i]].stream = e
      BY <1>0, <2>3, <3>1 DEF Live
    <3>3. s \in DOMAIN streams /\ EchoPath(windows, streams)[s] = e
      BY <1>0, <2>1 DEF EchoPath, EchoOf
    <3>4. rank[e] < rank[s]
      BY <1>1, <3>1, <3>3 DEF Falls
    <3> QED BY <2>3, <3>2, <3>4
  <2> HIDE DEF k, hop
  <2>4. Falls(Leaves, hop, k)
    BY <2>2, <2>3 DEF Falls
  <2> QED BY <2>4
<1>3. PICK r \in [Leaves -> 0 .. M - 1] : Falls(Leaves, hop, r)
  <2> HIDE DEF hop, M
  <2> QED BY <1>0, <1>2, SmallRank DEF M
<1>4. ASSUME NEW i \in Leaves
      PROVE  FoldSet(LAMBDA n, at : IF at \in Leaves THEN hop[at] ELSE 0, i, W) \notin Leaves
  <2> DEFINE on(at) == IF at \in Leaves THEN hop[at] ELSE 0
             Is(f) == f = [s \in SUBSET W |-> IF s = {} THEN i ELSE on(f[s \ {Pick(s)}])]
             iter == CHOOSE f : Is(f)
             V == {i, 0} \cup {hop[j] : j \in Leaves}
  <2>1. Is(iter)
    <3> DEFINE g == [x \in W |-> [v \in V |-> on(v)]]
               c == [s \in SUBSET W |-> Pick(s)]
    <3>1. \A s \in SUBSET W : s # {} => c[s] \in s
      BY DEF Pick
    <3>2. g \in [W -> [V -> V]] /\ i \in V
      <4>1. \A v \in V : on(v) \in V
        OBVIOUS
      <4>2. i \in V
        OBVIOUS
      <4> HIDE DEF on, V
      <4> QED BY <4>1, <4>2
    <3> HIDE DEF g, c, V
    <3>3. PICK f \in [SUBSET W -> V] : IsFold(f, W, i, g, c)
      BY <3>1, <3>2, FoldExists
    <3>4. ASSUME NEW s \in SUBSET W
          PROVE  f[s] = IF s = {} THEN i ELSE on(f[s \ {Pick(s)}])
      <4>1. CASE s = {}
        BY <3>3, <4>1 DEF IsFold
      <4>2. CASE s # {}
        <5>1. c[s] = Pick(s) /\ c[s] \in W /\ s \ {c[s]} \in SUBSET W
          BY <3>1, <4>2 DEF c
        <5>2. f[s] = g[c[s]][f[s \ {c[s]}]]
          BY <3>3, <4>2 DEF IsFold
        <5>3. f[s \ {c[s]}] \in V
          BY <3>3, <5>1
        <5> HIDE DEF on
        <5> QED BY <4>2, <5>1, <5>2, <5>3 DEF g
      <4> QED BY <4>1, <4>2
    <3> HIDE DEF on
    <3>5. Is(f)
      <4>1. f = [s \in SUBSET W |-> f[s]]
        BY <3>3
      <4> QED BY <3>4, <4>1
    <3> QED BY <3>5
  <2>2. FoldSet(LAMBDA n, at : IF at \in Leaves THEN hop[at] ELSE 0, i, W) = iter[W]
    BY Zenon DEF FoldSet, MapThenFoldSet, Pick
  <2> HIDE DEF iter
  <2> DEFINE G == {s \in SUBSET W : iter[s] \in Leaves => r[iter[s]] + Cardinality(s) < M}
  <2>3. \A j \in Leaves : r[j] \in Nat /\ r[j] < M
    BY <1>0, <1>3
  <2>4. ASSUME NEW s \in SUBSET W, \A x \in s : s \ {x} \in G PROVE s \in G
    <3>1. CASE s = {}
      <4>1. iter[s] = i /\ Cardinality(s) = 0
        BY <3>1, <2>1, FS_EmptySet
      <4> HIDE DEF M
      <4> QED BY <4>1, <2>3
    <3>2. CASE s # {}
      <4> DEFINE q == s \ {Pick(s)}
                 at == iter[q]
      <4>1. Pick(s) \in s
        BY <3>2 DEF Pick
      <4>2. q \in G /\ Cardinality(q) = Cardinality(s) - 1 /\ Cardinality(s) \in Nat
        BY <4>1, <2>4, SmallerSubset
      <4>3. iter[s] = on(at)
        BY <3>2, <2>1
      <4>4. ASSUME iter[s] \in Leaves PROVE r[iter[s]] + Cardinality(s) < M
        <5>1. at \in Leaves /\ iter[s] = hop[at]
          BY <4>3, <4>4, <1>0
        <5>2. r[at] + Cardinality(q) < M
          BY <4>2, <5>1
        <5>3. r[iter[s]] < r[at]
          BY <4>4, <5>1, <1>3 DEF Falls
        <5>4. r[at] \in Nat /\ r[iter[s]] \in Nat
          BY <4>4, <5>1, <2>3
        <5> HIDE DEF M, q, at, hop
        <5> QED BY <4>2, <5>2, <5>3, <5>4, <1>0
      <4> QED BY <4>4
    <3> QED BY <3>1, <3>2
  <2>5. G = SUBSET W
    <3>2. IsFiniteSet(W)
      OBVIOUS
    <3> HIDE DEF G, W
    <3>1. G \in SUBSET (SUBSET W)
      BY DEF G
    <3> QED BY <2>4, <3>1, <3>2, SubsetInduction
  <2>6. iter[W] \in Leaves => r[iter[W]] + Cardinality(W) < M
    BY <2>5
  <2>7. Cardinality(W) \in Nat
    BY FS_CardinalityType
  <2>8. iter[W] \notin Leaves
    <3> HIDE DEF M, hop
    <3> QED BY <2>3, <2>6, <2>7, <1>0
  <2> QED BY <2>2, <2>8
<1> QED BY <1>4, Zenon DEF EchoesEnd

LEMMA StreamsFinite ==
  ASSUME WindowInv
  PROVE  IsFiniteSet(DOMAIN streams) /\ 0 \notin DOMAIN streams /\ IsFiniteSet(DOMAIN windows)
<1>1. /\ DOMAIN streams \subseteq 1 .. next_stream - 1 /\ next_stream \in Nat
      /\ DOMAIN windows \subseteq 1 .. next_window - 1 /\ next_window \in Nat
  BY DEF WindowInv, StreamsNumbered, WindowsFormed
<1>2. IsFiniteSet(1 .. next_stream - 1) /\ IsFiniteSet(1 .. next_window - 1)
  BY <1>1, FS_Interval
<1>3. IsFiniteSet(DOMAIN streams)
  BY <1>1, <1>2, FS_Subset
<1>4. IsFiniteSet(DOMAIN windows)
  BY <1>1, <1>2, FS_Subset
<1> QED BY <1>1, <1>3, <1>4

\* A window is led only to where the chain does not come back to it.
LEMMA SetEchoEnds ==
  ASSUME WindowInv, LinkInv, EchoInv, NEW id \in DOMAIN windows, NEW stream \in DOMAIN streams \cup {0},
         SetEcho(id, stream)
  PROVE  EchoInv'
<1> DEFINE D == DOMAIN streams
           p == EchoPath(windows, streams)
           q == EchoPath(windows', streams')
           step(S) == S \cup {EchoOf(windows, streams, s) : s \in S \cap DOMAIN streams}
           reached == FoldSet(LAMBDA i, S : step(S), {stream}, DOMAIN streams)
<1>0. Live(windows, streams, current_stream) /\ IsFiniteSet(D) /\ 0 \notin D
  BY StreamsFinite DEF LinkInv
<1>1. streams' = streams /\ windows' = [windows EXCEPT ![id].echo = stream]
  BY DEF SetEcho
<1>2. IsWindow(windows[id])
  BY DEF WindowInv, WindowsFormed
<1>3. DOMAIN windows' = DOMAIN windows /\ windows'[id].echo = stream
      /\ \A i \in DOMAIN windows : i # id => windows'[i] = windows[i]
  <2>1. windows'[id] = [windows[id] EXCEPT !.echo = stream]
    BY <1>1
  <2>2. windows'[id].echo = stream
    BY <2>1, <1>2, SameEcho
  <2> QED BY <2>2, <1>1
<1>4. \A s \in D : IF streams[s].window = id THEN q[s] = stream ELSE q[s] = p[s]
  BY <1>1, <1>3 DEF EchoPath, EchoOf
<1>5. PICK rank : Falls(D, p, rank)
  BY DEF EchoInv
<1>6. CASE IsPair(windows[id])
  <2>1. \A s \in D : streams[s].window # id
    BY <1>0, <1>6 DEF Live, WindowInv, WindowsFormed
  <2>2. \A s \in D : q[s] = p[s]
    BY <2>1, <1>4
  <2> HIDE DEF p, q, D
  <2>3. \E k : Falls(D, q, k)
    BY <2>2, <1>5, RankOfRest
  <2> QED BY <2>3, <1>1 DEF EchoInv, q, D
<1>7. CASE ~ IsPair(windows[id])
  <2> DEFINE a == windows[id].stream
             R == reached \cap D
  <2>1. a \in D /\ streams[a].window = id /\ id # 0
    BY <1>0, <1>7 DEF Live, WindowInv, WindowsFormed
  <2>2. \A s \in D : streams[s].window = id => s = a
    BY <1>0, <2>1 DEF Live
  <2>3. stream \in reached /\ \A s \in reached \cap D : EchoOf(windows, streams, s) \in reached
    <3> HIDE DEF D
    <3> QED BY <1>0, ReachedAll DEF D
  <2>4. \A s \in reached \ {0} : streams[s].window # id
    BY DEF SetEcho, ValidEcho
  <2> HIDE DEF reached, step
  <2>5. a \notin R
    BY <1>0, <2>1, <2>4
  <2>6. \A s \in R : p[s] \in D => p[s] \in R
    BY <2>3 DEF EchoPath
  <2>7. q[a] = stream /\ \A s \in D : s # a => q[s] = p[s]
    BY <1>4, <2>1, <2>2
  <2>8. stream \in D => stream \in R
    BY <2>3
  <2> HIDE DEF p, q, D, R, a
  <2>9. R \in SUBSET D
    BY DEF R
  <2>10. \E k : Falls(D, q, k)
    BY <1>0, <1>5, <2>1, <2>5, <2>6, <2>7, <2>8, <2>9, RankOfLed
  <2> QED BY <2>10, <1>1 DEF EchoInv, q, D
<1> QED BY <1>6, <1>7

\* The layout leaves the echoes.
LEMMA LaidOutEchoes ==
  ASSUME NEW w, NEW r, NEW view, \A i \in DOMAIN w : IsWindow(w[i])
  PROVE  /\ DOMAIN LaidOut(w, r, view) = DOMAIN w
         /\ \A i \in DOMAIN w : LaidOut(w, r, view)[i].echo = w[i].echo
BY LaidOutShape DEF SameShape

LEMMA OpenFirstEnds ==
  ASSUME StreamsInv, LinkInv, EchoInv, WindowInv', NEW kind, OpenFirst(kind)
  PROVE  EchoInv'
<1> DEFINE id == next_window
           w == [i \in {id} |-> NewWindow(kind, 0, next_stream)]
<1>0. WindowInv /\ Live(windows, streams, current_stream) /\ 0 \notin DOMAIN streams'
  BY StreamsFinite DEF StreamsInv, Formed, LinkInv, WindowInv, StreamsNumbered, WindowsFormed
<1>1. windows' = LaidOut(w, id, viewport) /\ root = 0 /\ AddStream(WindowStream(id))
  BY DEF OpenFirst, Arrange
<1>2. DOMAIN w = {id} /\ w[id] = NewWindow(kind, 0, next_stream) /\ DOMAIN windows = {}
  BY <1>1 DEF LinkInv, Rooted, TreeOf
<1>3. IsWindow(w[id]) /\ w[id].echo = 0
  BY <1>2, NewWindowFormed DEF NewWindow
<1>4. /\ DOMAIN streams' = DOMAIN streams \cup {next_stream}
      /\ \A s \in DOMAIN streams : streams'[s] = streams[s]
  BY <1>0, <1>1, AddedStream DEF WindowInv
<1> HIDE DEF w
<1>5. DOMAIN windows' = {id} /\ windows'[id].echo = 0
  BY <1>1, <1>2, <1>3, LaidOutEchoes
<1> QED BY <1>0, <1>2, <1>4, <1>5, EchoesFewer

LEMMA OpenBesideEnds ==
  ASSUME StreamsInv, LinkInv, EchoInv, WindowInv', NEW split \in DOMAIN windows,
         NEW method, NEW size, NEW kind, OpenBeside(split, method, size, kind)
  PROVE  EchoInv'
<1> DEFINE id == next_window
           w == Split(split, id, kind, method, size)
           r == IF split = root THEN id + 1 ELSE root
<1>0. WindowInv /\ Live(windows, streams, current_stream) /\ 0 \notin DOMAIN streams' /\ WindowsFormed
      /\ TreeOf(windows, root)
  BY DEF StreamsInv, Formed, LinkInv, WindowInv, StreamsNumbered, WindowsFormed, Rooted
<1>1. windows' = LaidOut(w, r, viewport) /\ AddStream(WindowStream(id))
  BY DEF OpenBeside, Arrange
<1>2. SplitInto(w, windows, split, id, kind)
  BY <1>0, SplitFields
<1>3. \A i \in DOMAIN w : IsWindow(w[i])
  <2> HIDE DEF w
  <2> QED BY <1>0, SplitKeeps DEF w
<1>4. /\ DOMAIN streams' = DOMAIN streams \cup {next_stream}
      /\ streams'[next_stream] = WindowStream(id) /\ next_stream \notin DOMAIN streams
      /\ \A s \in DOMAIN streams : streams'[s] = streams[s]
  BY <1>0, <1>1, AddedStream DEF WindowInv
<1>5. WindowStream(id).window = id /\ id \notin DOMAIN windows
  BY <1>0 DEF WindowStream, WindowsFormed
<1> HIDE DEF w, r, id
<1>6. /\ DOMAIN w = DOMAIN windows \cup {id, id + 1} /\ w[id].echo = 0 /\ w[id + 1].echo = 0
      /\ \A i \in DOMAIN windows : w[i].echo = windows[i].echo
  BY <1>2 DEF SplitInto
<1>7. \A i \in DOMAIN windows' : windows'[i].echo = 0 \/ (i \in DOMAIN windows /\ windows'[i].echo = windows[i].echo)
  BY <1>1, <1>3, <1>6, LaidOutEchoes
<1> QED BY <1>0, <1>4, <1>5, <1>7, EchoesFewer

LEMMA CloseEnds ==
  ASSUME StreamsInv, LinkInv, EchoInv, NEW id \in DOMAIN windows, CloseWindow(id)
  PROVE  EchoInv'
<1> DEFINE w == Pruned(id)
           r == NewRoot(id)
           closing == Closing(id)
<1>0. WindowInv /\ Live(windows, streams, current_stream) /\ 0 \notin DOMAIN streams
      /\ WindowsFormed /\ TreeOf(windows, root)
  BY StreamsFinite DEF StreamsInv, Formed, LinkInv, WindowInv, Rooted
<1>1. /\ windows' = LaidOut(w, r, viewport)
      /\ streams' = Restrict(streams, DOMAIN streams \ closing)
  BY DEF CloseWindow, Arrange
<1>2. DOMAIN w \subseteq DOMAIN windows /\ \A i \in DOMAIN w : IsWindow(w[i])
  <2> HIDE DEF w
  <2> QED BY <1>0, PrunedKeeps DEF Moved, w
<1>3. \A i \in DOMAIN w : w[i].echo = 0 \/ w[i].echo = windows[i].echo
  <2>1. CASE windows[id].parent = 0
    <3>1. id = root
      BY <2>1, <1>0 DEF TreeOf, UnderParent
    <3>2. Inside(windows, id) = DOMAIN windows
      BY <3>1, RootAbove DEF Inside, LinkInv, Rooted
    <3>3. DOMAIN w = {}
      BY <2>1, <3>2 DEF Promoted, Pruned
    <3> QED BY <3>3
  <2>2. CASE windows[id].parent # 0
    <3>1. PrunedFrom(w, windows, id, closing)
      BY <2>2, <1>0, PrunedFields
    <3> HIDE DEF w, closing
    <3> QED BY <3>1 DEF PrunedFrom
  <2> QED BY <2>1, <2>2
<1> HIDE DEF w, r, closing
<1>4. \A i \in DOMAIN windows' : windows'[i].echo = 0 \/ (i \in DOMAIN windows /\ windows'[i].echo = windows[i].echo)
  BY <1>1, <1>2, <1>3, LaidOutEchoes
<1>5. DOMAIN streams' \subseteq DOMAIN streams /\ \A s \in DOMAIN streams' : streams'[s] = streams[s]
  BY <1>1 DEF Restrict
<1> QED BY <1>0, <1>4, <1>5, EchoesFewer

\* Another arrangement or another size of the screen leaves echoes and streams.
LEMMA LayoutEnds ==
  ASSUME StreamsInv, LinkInv, EchoInv, LayoutNext
  PROVE  EchoInv'
<1>0. WindowInv /\ Live(windows, streams, current_stream) /\ 0 \notin DOMAIN streams
      /\ \A i \in DOMAIN windows : IsWindow(windows[i])
  BY StreamsFinite DEF StreamsInv, Formed, LinkInv, WindowInv, WindowsFormed
<1>1. ASSUME NEW w, NEW r, NEW view, windows' = LaidOut(w, r, view), streams' = streams,
             DOMAIN w = DOMAIN windows, \A i \in DOMAIN w : IsWindow(w[i]) /\ w[i].echo = windows[i].echo
      PROVE  EchoInv'
  <2>1. \A i \in DOMAIN windows' : i \in DOMAIN windows /\ windows'[i].echo = windows[i].echo
    BY <1>1, LaidOutEchoes
  <2> QED BY <2>1, <1>0, <1>1, EchoesFewer
<1>2. ASSUME NEW size, SetViewport(size) PROVE EchoInv'
  <2>1. windows' = LaidOut(windows, root, size) /\ streams' = streams
    BY <1>2 DEF SetViewport, Arrange
  <2> QED BY <2>1, <1>0, <1>1
<1>3. ASSUME NEW id \in DOMAIN windows, NEW method, NEW size, NEW key, SetArrangement(id, method, size, key)
      PROVE  EchoInv'
  <2> DEFINE w == [windows EXCEPT ![id].method = method, ![id].size = size,
                                  ![id].key = IF key # 0 THEN key ELSE @]
  <2>1. windows' = LaidOut(w, root, viewport) /\ streams' = streams
    BY <1>3 DEF SetArrangement, Arrange
  <2>2. ASSUME NEW i \in DOMAIN windows PROVE IsWindow(w[i]) /\ w[i].echo = windows[i].echo
    <3>1. CASE i = id
      <4>1. w[i] = [windows[i] EXCEPT !.method = method, !.size = size, !.key = IF key # 0 THEN key ELSE @]
        BY <3>1
      <4> HIDE DEF w
      <4> QED BY <4>1, <1>0 DEF IsWindow, Fields
    <3>2. CASE i # id
      <4>1. w[i] = windows[i]
        BY <3>2
      <4> HIDE DEF w
      <4> QED BY <4>1, <1>0
    <3> QED BY <3>1, <3>2
  <2>3. DOMAIN w = DOMAIN windows
    OBVIOUS
  <2> HIDE DEF w
  <2> QED BY <2>1, <2>2, <2>3, <1>1
<1> QED BY <1>2, <1>3 DEF LayoutNext

LEMMA ApartEnds ==
  ASSUME StreamsInv, LinkInv, EchoInv, WindowInv', ApartFromWindows
  PROVE  EchoInv'
<1>0. WindowInv /\ Live(windows, streams, current_stream) /\ 0 \notin DOMAIN streams'
      /\ \A i \in DOMAIN windows : IsWindow(windows[i])
  BY DEF StreamsInv, Formed, LinkInv, WindowInv, WindowsFormed, StreamsNumbered
<1>1. CASE OthersMove
  <2>1. 0 \notin DOMAIN windows
    BY <1>0 DEF WindowInv, WindowsFormed
  <2>2. \A s \in DOMAIN streams' :
          IF s \in DOMAIN streams THEN streams'[s].window = streams[s].window
          ELSE streams'[s].window \notin DOMAIN windows
    BY <1>1, <2>1 DEF OthersMove
  <2>3. windows' = windows
    BY <1>1 DEF OthersMove
  <2> QED BY <1>0, <2>2, <2>3, EchoesFewer
<1>2. ASSUME NEW t, Detached(t) PROVE EchoInv'
  <2>1. /\ DOMAIN windows' = DOMAIN windows
        /\ DOMAIN streams' \subseteq DOMAIN streams /\ \A s \in DOMAIN streams' : streams'[s] = streams[s]
    BY <1>2 DEF Detached, Restrict
  <2>2. ASSUME NEW i \in DOMAIN windows PROVE windows'[i].echo \in {0, windows[i].echo}
    <3> DEFINE e == IF windows[i].echo = t THEN 0 ELSE windows[i].echo
    <3>1. windows'[i] = [windows[i] EXCEPT !.echo = e]
      BY <1>2 DEF Detached
    <3>2. e \in {0, windows[i].echo}
      OBVIOUS
    <3> HIDE DEF e
    <3>3. windows'[i].echo = e
      BY <1>0, <3>1, SameEcho
    <3> QED BY <3>2, <3>3
  <2> QED BY <1>0, <2>1, <2>2, EchoesFewer
<1> QED BY <1>1, <1>2 DEF ApartFromWindows

-----------------------------------------------------------------------------
(* Windows: everything together *)

ArrangedInv == LinkInv /\ ScreenInv /\ EchoInv

LEMMA NextArranged ==
  ASSUME StreamsInv, ArrangedInv, StreamsInv', [StreamsNext]_<<winVars, fileVars>>
  PROVE  ArrangedInv'
<1>0. WindowInv /\ WindowInv' /\ LinkInv /\ ScreenInv /\ EchoInv
  BY DEF StreamsInv, Formed, ArrangedInv
<1>1. LinkInv'
  BY <1>0, NextLinks
<1>2. ScreenInv'
  BY <1>0, <1>1, NextScreen
<1>3. EchoInv'
  <2>1. CASE UNCHANGED <<winVars, fileVars>>
    BY <2>1, <1>0 DEF winVars, EchoInv
  <2>2. CASE TreeNext
    BY <1>0, <2>2, OpenFirstEnds, OpenBesideEnds, CloseEnds DEF TreeNext
  <2>3. CASE LayoutNext
    BY <1>0, <2>3, LayoutEnds
  <2>4. CASE EchoNext
    <3>1. \A stream : SetCurrent(stream) => windows' = windows /\ streams' = streams
      BY DEF SetCurrent
    <3>2. windows' = windows /\ streams' = streams => EchoInv'
      BY <1>0 DEF EchoInv
    <3> QED BY <1>0, <2>4, <3>1, <3>2, SetEchoEnds DEF EchoNext
  <2>5. CASE FileNext
    BY <1>0, <2>5, FileMoves, ApartEnds
  <2>6. CASE MarkNext
    BY <1>0, <2>6, MarkMoves, ApartEnds
  <2> QED BY <2>1, <2>2, <2>3, <2>4, <2>5, <2>6 DEF StreamsNext
<1> QED BY <1>1, <1>2, <1>3 DEF ArrangedInv

LEMMA InitArranged == StreamsInit => ArrangedInv
<1> SUFFICES ASSUME StreamsInit PROVE ArrangedInv
  OBVIOUS
<1>1. DOMAIN streams = {}
  BY DEF StreamsInit, WinInit
<1>2. Falls(DOMAIN streams, EchoPath(windows, streams), [s \in DOMAIN streams |-> 0])
  BY <1>1 DEF Falls
<1> QED BY <1>2, InitLinks, InitScreen DEF ArrangedInv, EchoInv

\* Whatever is opened, split, closed, arranged, led and resized in whatever order, windows form one
\* tree that refers to nothing gone, no echo comes back, and windows and canvases cover the screen.
THEOREM StaysArranged == StreamsSpec => []Arranged
<1>1. StreamsInit => StreamsInv /\ ArrangedInv
  BY InitStreams, InitArranged
<1>2. StreamsInv /\ ArrangedInv /\ [StreamsNext]_<<winVars, fileVars>> => StreamsInv' /\ ArrangedInv'
  BY NextStreams, NextArranged
<1>3. StreamsInv /\ ArrangedInv => Arranged
  <2> SUFFICES ASSUME StreamsInv, ArrangedInv PROVE Arranged
    OBVIOUS
  <2>1. WindowInv /\ LinkInv /\ ScreenInv /\ EchoInv /\ Live(windows, streams, current_stream)
    BY DEF StreamsInv, Formed, ArrangedInv, LinkInv
  <2>2. Tree /\ KeysInside /\ StreamsLive
    BY <2>1, LinkInvSays
  <2>3. EchoesEnd
    BY <2>1, StreamsFinite, EchoInvSays
  <2>4. Screen
    BY <2>1, ScreenInvSays
  <2> QED BY <2>2, <2>3, <2>4 DEF Arranged, Linked
<1> QED BY <1>1, <1>2, <1>3, PTL DEF StreamsSpec

=============================================================================
