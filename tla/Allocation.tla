------------------------------ MODULE Allocation ------------------------------
(***************************************************************************)
(* What malloc, mfree and setmemsize promise a story, without first fit,   *)
(* page rounding or the boundary between the heap and ordinary memory: the *)
(* memory outside the heap has a size that only setmemsize, restart and    *)
(* the restoring operations change, and the live blocks never overlap it   *)
(* or each other.                                                          *)
(***************************************************************************)
EXTENDS Integers, Sequences

CONSTANTS
  Word,      (* addresses are 0 .. Word - 1                                 *)
  OrigEnd,   (* memory size when the story starts                           *)
  Loadable   (* the saved games there are, as pairs <<size, live>>          *)

VARIABLES
  size,      \* end of the memory outside the heap
  live,      \* the allocated blocks, as pairs <<start, length>>
  saved      \* the retained snapshots of <<size, live>>, oldest first

avars == <<size, live, saved>>

Address == 0 .. Word - 1

Apart(b, c) == b[1] + b[2] <= c[1] \/ c[1] + c[2] <= b[1]

\* A memory size with blocks a program may hold at the same time.
Sound(n, blocks) ==
  /\ n \in OrigEnd .. Word - 1
  /\ blocks \subseteq Address \X Address
  /\ \A b \in blocks : b[2] > 0 /\ n <= b[1] /\ b[1] + b[2] < Word
  /\ \A b, c \in blocks : b # c => Apart(b, c)

AInit == size = OrigEnd /\ live = {} /\ saved = <<>>

\* setmemsize is refused while the heap is active.
SetSize(n) ==
  /\ live = {}
  /\ size' = n
  /\ UNCHANGED <<live, saved>>

Allocate(b) ==
  /\ b \notin live
  /\ live' = live \cup {b}
  /\ Sound(size, live')
  /\ UNCHANGED <<size, saved>>

Release(b) ==
  /\ b \in live
  /\ live' = live \ {b}
  /\ UNCHANGED <<size, saved>>

\* A snapshot is taken, and some of the oldest make room for it.
Save ==
  /\ \E k \in 0 .. Len(saved) :
       saved' = Append(SubSeq(saved, k + 1, Len(saved)), <<size, live>>)
  /\ UNCHANGED <<size, live>>

Restore ==
  /\ saved # <<>>
  /\ <<size', live'>> = saved[Len(saved)]
  /\ saved' = SubSeq(saved, 1, Len(saved) - 1)

\* The newest snapshot is discarded, or the oldest ones are trimmed.
Drop ==
  /\ \E i, j \in 0 .. Len(saved) : saved' = SubSeq(saved, i + 1, j)
  /\ UNCHANGED <<size, live>>

\* restart
Reset == size' = OrigEnd /\ live' = {} /\ UNCHANGED saved

\* A saved game brings its own memory and its own blocks.
Load ==
  /\ <<size', live'>> \in Loadable
  /\ Sound(size', live')
  /\ UNCHANGED saved

ANext ==
  \/ \E n \in Address : SetSize(n)
  \/ \E b \in Address \X Address : Allocate(b) \/ Release(b)
  \/ Save \/ Restore \/ Drop \/ Reset \/ Load

ASpec == AInit /\ [][ANext]_avars
=============================================================================
