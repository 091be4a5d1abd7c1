-------------------------------- MODULE MCHeap --------------------------------
(* Values for the constants of Heap. *)
EXTENDS Heap

\* Games saved by other interpreters: no heap, a heap with a gap at its start,
\* a block whose size is no multiple of Align, a heap that begins above
\* original_end, blocks that overlap, and blocks that reach past the memory.
MCFiles ==
  { [len |-> OrigEnd, heap_next |-> 0, blocks |-> {}],
    [len |-> OrigEnd + 2 * PageSize, heap_next |-> OrigEnd, blocks |-> {<<OrigEnd + Align, 3>>}],
    [len |-> OrigEnd + 2 * PageSize, heap_next |-> OrigEnd + PageSize,
     blocks |-> {<<OrigEnd + PageSize, Align>>}],
    [len |-> OrigEnd + 2 * PageSize, heap_next |-> OrigEnd,
     blocks |-> {<<OrigEnd, 2 * Align>>, <<OrigEnd + Align, Align>>}],
    [len |-> OrigEnd + PageSize, heap_next |-> OrigEnd, blocks |-> {<<OrigEnd + Align, 2 * Align>>}] }
=============================================================================
