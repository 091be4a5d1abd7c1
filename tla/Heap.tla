--------------------------------- MODULE Heap ---------------------------------
(***************************************************************************)
(* The heap of the virtual machine (malloc, mfree and setmemsize of        *)
(* src/src/vm.rs) with what saves and restores it: undo snapshots, restart,*)
(* saved games (src/src/vm/save.rs) and resumed sessions.                  *)
(*                                                                         *)
(* The heap lies above the memory the story had when it first called       *)
(* malloc.  heap_next is where it begins; it is only meaningful while there*)
(* are blocks.  Addresses are machine words: the checked additions of the  *)
(* code are comparisons with Word.  What the memory holds is in PagedUndo. *)
(***************************************************************************)
EXTENDS Queues

CONSTANTS
  Word,          (* 2^32 in the code                                        *)
  PageSize,      (* memory sizes are multiples of it: 256                   *)
  Align,         (* block sizes are multiples of it: 4                      *)
  OrigEnd,       (* original_end: the memory size of the story file         *)
  Limits,        (* memory limits the host may configure                    *)
  MaxUndo,       (* snapshots retained at most: 16 in the code              *)
  Sizes,         (* operands of malloc                                      *)
  Files          (* saved games of any run, or of another interpreter       *)

Address == 0 .. Word - 1

\* A block is the pair <<start, length>>.
Block == Address \X Address
HeapRecord == [len : Address, heap_next : Address, blocks : SUBSET Block]

ASSUME HeapAssumption ==
  /\ Word \in Nat /\ PageSize \in Nat \ {0} /\ Align \in Nat \ {0}
  /\ OrigEnd \in Nat /\ OrigEnd % PageSize = 0
  /\ Limits \subseteq OrigEnd .. Word - PageSize
  /\ \A m \in Limits : m % PageSize = 0
  /\ MaxUndo \in Nat \ {0}
  /\ Sizes \subseteq Address
  /\ Files \subseteq HeapRecord

VARIABLES
  len,           \* Memory.len
  maximum,       \* Memory.maximum
  heap_next,     \* Vm.heap_next
  blocks,        \* Vm.heap_blocks, as the set of its entries
  undo           \* the heap part of Vm.undo, oldest first

vars == <<len, maximum, heap_next, blocks, undo>>

RoundUp(n, k) == ((n + k - 1) \div k) * k

End(b) == b[1] + b[2]
Apart(b, c) == End(b) <= c[1] \/ End(c) <= b[1]

\* Memory::resize accepts n (the host may still be out of memory).
Sizable(n, limit) == n >= OrigEnd /\ n <= limit /\ n % PageSize = 0
Resizable(n) == Sizable(n, maximum)

-----------------------------------------------------------------------------
(* First fit over the live blocks *)

HeapStart == IF blocks = {} THEN len ELSE heap_next
\* Mutant: only the end of the last block is tried, so gaps are never reused.
CandidatesOnTop ==
  IF blocks = {} THEN {HeapStart}
  ELSE {End(b) : b \in {b \in blocks : \A c \in blocks : c[1] <= b[1]}}

Candidates == {HeapStart} \cup {End(b) : b \in blocks}
Fits(a, n) == \A b \in blocks : b[1] >= a => b[1] - a >= n
FirstFit(a, n) ==
  /\ a \in Candidates
  /\ Fits(a, n)
  /\ \A c \in Candidates : Fits(c, n) => a <= c

\* heap_blocks, by the address of the block.
LengthAt(a) == (CHOOSE b \in blocks : b[1] = a)[2]

\* Mutant: a gap of exactly the size asked for is passed over.
TurnStrict(at, start, n) ==
  IF at.found \/ start - at.address > n THEN [at EXCEPT !.found = TRUE]
  ELSE [address |-> start + LengthAt(start), found |-> FALSE]

\* One turn of the loop, at the block with this start: a gap is found before it,
\* or the address is moved past it.
Turn(at, start, n) ==
  IF at.found \/ start - at.address >= n THEN [at EXCEPT !.found = TRUE]
  ELSE [address |-> start + LengthAt(start), found |-> FALSE]

(* The loop of malloc: past the live blocks in address order, until a gap is *)
(* large enough.  Malloc is stated with FirstFit, which says what it finds.  *)
Scan(n) ==
  LET order == Ascending({b[1] : b \in blocks})
      turns[k \in 0 .. Len(order)] ==
        IF k = 0 THEN [address |-> HeapStart, found |-> FALSE] ELSE Turn(turns[k - 1], order[k], n)
  IN  turns[Len(order)].address

\* The size of the block malloc looks for, when the addition does not overflow.
Valid(size) == size # 0 /\ size + Align - 1 < Word
BlockSize(size) == RoundUp(size, Align)

-----------------------------------------------------------------------------
Init ==
  /\ len = OrigEnd
  /\ maximum \in Limits
  /\ heap_next = OrigEnd
  /\ blocks = {}
  /\ undo = <<>>

Without(a) == {b \in blocks : b[1] # a}

Grown(end) ==
  /\ end + PageSize - 1 < Word
  /\ Resizable(RoundUp(end, PageSize))
  /\ len' = RoundUp(end, PageSize)

Malloc(size) ==
  /\ Valid(size)
  /\ heap_next' = HeapStart
  /\ \E a \in Candidates :
       LET end == a + BlockSize(size) IN
       /\ FirstFit(a, BlockSize(size))
       /\ end < Word
       /\ IF end > len THEN Grown(end) ELSE UNCHANGED len
       /\ blocks' = Without(a) \cup {<<a, BlockSize(size)>>}
  /\ UNCHANGED <<maximum, undo>>

\* Refused when the memory cannot grow: the limit, an address that does not fit
\* a word, or a host that is out of memory.
Refused(size) ==
  /\ Valid(size)
  /\ \E a \in Candidates : FirstFit(a, BlockSize(size)) /\ a + BlockSize(size) > len

MallocFails(size) ==
  \/ ~ Valid(size) /\ UNCHANGED vars
  \/ /\ Refused(size)
     /\ heap_next' = HeapStart
     /\ UNCHANGED <<len, maximum, blocks, undo>>

\* Mutant: the memory of the heap is not given back.
MfreeKeeps(a) ==
  /\ \E b \in blocks : b[1] = a
  /\ blocks' = Without(a)
  /\ UNCHANGED <<len, maximum, heap_next, undo>>

\* Freeing the last block gives the memory back.
Mfree(a) ==
  /\ \E b \in blocks : b[1] = a
  /\ blocks' = Without(a)
  /\ len' = IF blocks' = {} /\ Resizable(heap_next) THEN heap_next ELSE len
  /\ UNCHANGED <<maximum, heap_next, undo>>

SetMemSize(n) ==
  /\ blocks = {}
  /\ Resizable(n)
  /\ len' = n
  /\ UNCHANGED <<maximum, heap_next, blocks, undo>>

Snapshot == [len |-> len, heap_next |-> heap_next, blocks |-> blocks]

\* trim_undo drops the k oldest; its byte budget is in PagedUndo.
SaveUndo ==
  /\ \E k \in 0 .. Len(undo) :
       /\ Len(undo) - k < MaxUndo
       /\ undo' = Append(SubSeq(undo, k + 1, Len(undo)), Snapshot)
  /\ UNCHANGED <<len, maximum, heap_next, blocks>>

\* Mutant: the snapshot brings back the memory but not its blocks.
RestoreUndoMemory ==
  /\ undo # <<>>
  /\ LET s == undo[Len(undo)] IN
       /\ s.len \in OrigEnd .. maximum
       /\ len' = s.len
       /\ heap_next' = s.heap_next
  /\ undo' = SubSeq(undo, 1, Len(undo) - 1)
  /\ UNCHANGED <<maximum, blocks>>

RestoreUndo ==
  /\ undo # <<>>
  /\ LET s == undo[Len(undo)] IN
       /\ s.len \in OrigEnd .. maximum
       /\ len' = s.len
       /\ heap_next' = s.heap_next
       /\ blocks' = s.blocks
  /\ undo' = SubSeq(undo, 1, Len(undo) - 1)
  /\ UNCHANGED <<maximum>>

DiscardUndo ==
  /\ undo # <<>>
  /\ undo' = SubSeq(undo, 1, Len(undo) - 1)
  /\ UNCHANGED <<len, maximum, heap_next, blocks>>

Restart ==
  /\ len' = OrigEnd
  /\ heap_next' = OrigEnd
  /\ blocks' = {}
  /\ UNCHANGED <<maximum, undo>>

\* encode_save writes the chunk of the heap only when there are blocks.
SavedGame == [Snapshot EXCEPT !.heap_next = IF blocks = {} THEN 0 ELSE heap_next]

\* Mutant: a heap that begins at original_end is not accepted.
AcceptedAbove(f, limit) ==
  /\ Sizable(f.len, limit)
  /\ IF f.blocks = {} THEN f.heap_next = 0
     ELSE f.heap_next > OrigEnd /\ f.heap_next < f.len /\ f.heap_next % PageSize = 0
  /\ \A b \in f.blocks : b[2] # 0 /\ b[1] >= f.heap_next /\ End(b) <= f.len
  /\ \A b, c \in f.blocks : b # c => Apart(b, c)

\* What decode_save asks of the memory size and of the heap chunk of a file.
Accepted(f, limit) ==
  /\ Sizable(f.len, limit)
  /\ IF f.blocks = {} THEN f.heap_next = 0
     ELSE f.heap_next >= OrigEnd /\ f.heap_next < f.len /\ f.heap_next % PageSize = 0
  /\ \A b \in f.blocks : b[2] # 0 /\ b[1] >= f.heap_next /\ End(b) <= f.len
  /\ \A b, c \in f.blocks : b # c => Apart(b, c)

RestoreFile(f) ==
  /\ Accepted(f, maximum)
  /\ len' = f.len
  /\ heap_next' = IF f.blocks = {} THEN f.len ELSE f.heap_next
  /\ blocks' = f.blocks
  /\ UNCHANGED <<maximum, undo>>

\* A resumed session keeps its heap; the limit is the one configured now, and
\* the snapshots over the budget configured now are trimmed.
ResumeSession(m) ==
  /\ len <= m
  /\ \E k \in 0 .. Len(undo) : undo' = SubSeq(undo, k + 1, Len(undo))
  /\ \A i \in DOMAIN undo' : undo'[i].len <= m
  /\ maximum' = m
  /\ UNCHANGED <<len, heap_next, blocks>>

Next ==
  \/ \E size \in Sizes : Malloc(size) \/ MallocFails(size)
  \/ \E a \in Address : Mfree(a) \/ SetMemSize(a)
  \/ SaveUndo \/ RestoreUndo \/ DiscardUndo \/ Restart
  \/ \E f \in Files : RestoreFile(f)
  \/ \E m \in Limits : ResumeSession(m)

Spec == Init /\ [][Next]_vars

-----------------------------------------------------------------------------
\* The type invariant; memory ends at a page boundary below the limit.
TypeOK ==
  /\ maximum \in Limits
  /\ Resizable(len)
  /\ heap_next \in Address
  /\ blocks \subseteq Block
  /\ undo \in Seq(HeapRecord)

WellFormed(s) ==
  /\ s.len \in OrigEnd .. maximum
  /\ s.len % PageSize = 0
  /\ s.blocks # {} => s.heap_next \in OrigEnd .. s.len /\ s.heap_next % PageSize = 0
  /\ \A b \in s.blocks : b[2] > 0 /\ s.heap_next <= b[1] /\ End(b) <= s.len
  /\ \A b, c \in s.blocks : b # c => Apart(b, c)

\* The live blocks are disjoint, inside memory and above heap_next, and so are
\* those of every snapshot restoreundo may bring back: first fit never returns
\* memory that is in use, and mfree never gives back memory under a block.
HeapSafe ==
  /\ WellFormed(Snapshot)
  /\ \A i \in DOMAIN undo : WellFormed(undo[i])

Free(a, n) == \A b \in blocks : Apart(<<a, n>>, b)

\* malloc returns 0 only when no gap between the live blocks would do: freed
\* neighbours count as one gap, whatever the order they were freed in.
RefusedOnlyWhenFull ==
  \A size \in Sizes :
    Refused(size) => \A a \in HeapStart .. len - BlockSize(size) : ~ Free(a, BlockSize(size))

\* First fit as the loop of malloc computes it and as Malloc states it agree, for
\* every operand, whatever blocks are live: the loop leaves no better gap behind.
ScanIsFirstFit == \A size \in Sizes : Valid(size) => FirstFit(Scan(BlockSize(size)), BlockSize(size))

\* A game saved now can be restored by any run whose limit it fits in: the checks
\* of decode_save refuse nothing that encode_save writes.
SavesAreAccepted == \A limit \in Limits : len <= limit => Accepted(SavedGame, limit)

\* The abstract specification sees the memory outside the heap.
Program(s) == IF s.blocks = {} THEN s.len ELSE s.heap_next

Abstract == INSTANCE Allocation WITH
  Loadable <- {<<Program(f), f.blocks>> : f \in Files},
  size  <- Program(Snapshot),
  live  <- blocks,
  saved <- [i \in DOMAIN undo |-> <<Program(undo[i]), undo[i].blocks>>]

\* Through first fit, growth, the memory given back with the last block, undo
\* and saved games, a story sees only what Allocation allows.
Allocates == Abstract!ASpec
=============================================================================
