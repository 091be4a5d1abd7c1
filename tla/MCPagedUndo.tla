----------------------------- MODULE MCPagedUndo -----------------------------
(* Values for the constants of PagedUndo that a configuration cannot write. *)
EXTENDS PagedUndo

\* The story's RAM: one page below ext_start, its last cell set.
MCInitial == [p \in 0 .. ExtPages - 1 |-> [o \in Offset |-> IF o = PageSize - 1 THEN 1 ELSE 0]]

\* No protection, and a range that reaches past the end of memory, however large.
MCRanges == {<<0, 0>>, <<0, MaxPages * PageSize + 1>>}

\* A range that begins inside a page and ends inside the next.
MCSplitRanges == {<<0, 0>>, <<1, 2>>}

\* A result in RAM, in the first page or in one that can go away, or elsewhere.
MCDestinations == {-1, 0, MaxPages * PageSize - 1}
MCTwoDestinations == {-1, 0}
=============================================================================
