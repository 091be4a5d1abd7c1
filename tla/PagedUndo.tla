------------------------------ MODULE PagedUndo ------------------------------
(***************************************************************************)
(* The paged memory of the virtual machine (src/src/memory.rs) and the     *)
(* snapshots behind saveundo, restoreundo, discardundo, restart, restore   *)
(* and the desktop session (src/src/vm.rs, vm/save.rs, vm/session.rs).     *)
(*                                                                         *)
(* A snapshot is incremental.  It starts from the page table of the newest *)
(* retained snapshot and looks only at the pages in dirty, the pages       *)
(* written since the last time dirty was cleared.  It is right only when   *)
(* those two starting points are the same one, which is what Aligned says. *)
(*                                                                         *)
(* Addresses are RAM-relative cells, PageSize of them to a page.  len,     *)
(* maximum, OrigPages and MaxPages count pages.  A cell holds one of       *)
(* ByteMod values.  Sizes in bytes (undo budget, stack, page payload) are  *)
(* small numbers with the same order as the real ones.  An operation that  *)
(* the code ends with a VmError, which stops the machine, is not a step.   *)
(***************************************************************************)
EXTENDS Integers, Sequences, FiniteSets, FiniteSetsExt

CONSTANTS
  PageSize,     (* cells of a page: 256 bytes in the code                    *)
  ByteMod,      (* number of values of a cell                                *)
  ExtPages,     (* RAM pages below ext_start, initialised from the story     *)
  OrigPages,    (* RAM pages below original_end                              *)
  MaxPages,     (* largest memory the host can allow                         *)
  Initial,      (* contents of the pages below ext_start                     *)
  MaxUndo,      (* snapshots retained at most: 16 in the code                *)
  PageCost,     (* payload charged for one retained page: 256 + 8 bytes      *)
  Budgets,      (* undo budgets the host may configure                       *)
  Limits,       (* memory limits the host may configure                      *)
  StackCosts,   (* sizes of the stack and the heap records                   *)
  StartCost,    (* the size just after the start function is entered         *)
  Destinations, (* where saveundo, restore and restoreundo put their result  *)
  Ranges,       (* <<start, length>> operands of protect                     *)
  MaxStore      (* longest run of cells one store writes                     *)

Page    == 0 .. MaxPages - 1
Offset  == 0 .. PageSize - 1
Byte    == 0 .. ByteMod - 1
Content == [Offset -> Byte]
Cell    == 0 .. MaxPages * PageSize - 1

ASSUME SizeAssumption ==
  /\ PageSize \in Nat \ {0}
  /\ ByteMod \in Nat \ {0, 1}
  /\ ExtPages \in Nat /\ OrigPages \in Nat \ {0} /\ MaxPages \in Nat
  /\ ExtPages <= OrigPages /\ OrigPages <= MaxPages
  /\ Initial \in [0 .. ExtPages - 1 -> Content]

ASSUME PolicyAssumption ==
  /\ MaxUndo \in Nat \ {0}
  /\ PageCost \in Nat \ {0}
  /\ MaxStore \in Nat
  /\ Budgets \subseteq Nat /\ StackCosts \subseteq Nat \ {0}
  /\ StartCost \in StackCosts
  /\ Limits \subseteq OrigPages .. MaxPages
  /\ Destinations \subseteq Cell \cup {-1}
  /\ Ranges \subseteq Nat \X Nat

VARIABLES
  mem,         \* Memory.pages: the contents of every page, Zero above len
  len,         \* Memory.len
  maximum,     \* Memory.maximum
  dirty,       \* Memory.dirty_pages
  undo,        \* Vm.undo, oldest first
  protection,  \* Vm.protection: <<start, length>>, length 0 for None
  budget,      \* resource_limits.undo_mib, in bytes
  stackCost    \* stack.bytes.len() + 8 * heap_blocks.len()

vars == <<mem, len, maximum, dirty, undo, protection, budget, stackCost>>

-----------------------------------------------------------------------------
(* Pages and snapshots *)

Zero == [o \in Offset |-> 0]

\* What a page holds until it is written, and after restart.
Baseline(p) == IF p < ExtPages THEN Initial[p] ELSE Zero

InRange(n) == {p \in Page : p < n}

Elsewhere == -1
Destination == Cell \cup {Elsewhere}

\* The cells from `from` on, `n` of them, set to the byte v.
Stored(image, from, n, v) ==
  [p \in Page |-> [o \in Offset |->
     IF p * PageSize + o \in from .. from + n - 1 THEN v % ByteMod ELSE image[p][o]]]

Touched(from, n) == {p \in Page : \E o \in Offset : p * PageSize + o \in from .. from + n - 1}

\* store_destination for a result in memory; other destinations are not RAM.
Result(image, dest, v) == IF dest = Elsewhere THEN image ELSE Stored(image, dest, 1, v)
ResultPages(dest) == IF dest = Elsewhere THEN {} ELSE Touched(dest, 1)
Writable(dest, n) == dest = Elsewhere \/ dest < n * PageSize

IsProtected(a) == a \in protection[1] .. protection[1] + protection[2] - 1

\* Mutant: one byte too many is put back.
ProtectOneMore(image, n) ==
  [p \in Page |-> [o \in Offset |->
     IF p < n /\ (IsProtected(p * PageSize + o) \/ IsProtected(p * PageSize + o - 1))
     THEN mem[p][o] ELSE image[p][o]]]

\* Mutant: the range is cut at original_end, whatever is restored.
ProtectOriginal(image, n) ==
  [p \in Page |-> [o \in Offset |->
     IF p < OrigPages /\ IsProtected(p * PageSize + o) THEN mem[p][o] ELSE image[p][o]]]

\* The restored image with the bytes under protection put back as they are now;
\* what the range covers above the present end of memory reads as zero.
Protect(image, n) ==
  [p \in Page |-> [o \in Offset |->
     IF p < n /\ IsProtected(p * PageSize + o) THEN mem[p][o] ELSE image[p][o]]]

\* A snapshot's image: its own pages over the baseline.
SnapImage(s) == [p \in Page |-> IF p \in DOMAIN s.pages THEN s.pages[p] ELSE Baseline(p)]

\* What the next snapshot starts from: undo.back(), or nothing but the baseline.
BasePages == IF undo = <<>> THEN [p \in {} |-> Zero] ELSE undo[Len(undo)].pages
Base == [p \in Page |-> IF p \in DOMAIN BasePages THEN BasePages[p] ELSE Baseline(p)]

Kept     == DOMAIN BasePages \cap InRange(len)
Changed  == dirty \cap InRange(len)
Reverted == {p \in Kept \cap Changed : mem[p] = Baseline(p)}
Inserted == {p \in Changed \ Kept : mem[p] # Baseline(p)}

\* snapshot_pages_with_limit: the page table of a new snapshot ...
SnapshotPages ==
  [p \in (Kept \ Reverted) \cup Inserted |-> IF p \in Changed THEN mem[p] ELSE BasePages[p]]

\* ... and when it gives up.  Dirty pages are visited in address order, so a
\* page inserted before a later one is dropped can meet the limit.
OverLimit(limit) ==
  \/ Cardinality(Kept) > limit
  \/ \E p \in Inserted :
       Cardinality((Kept \ {q \in Reverted : q < p}) \cup {q \in Inserted : q < p}) >= limit

UndoCost(queue) == MapThenSumSet(LAMBDA i : queue[i].cost, DOMAIN queue)

\* Mutant: makes no room for the snapshot that is coming.
TrimmableLate(queue, incoming, limit) ==
  /\ queue # <<>>
  /\ Len(queue) > MaxUndo \/ UndoCost(queue) + incoming > limit

\* trim_undo drops the k oldest snapshots of queue: no fewer would do.
Trimmable(queue, incoming, limit) ==
  /\ queue # <<>>
  /\ \/ Len(queue) >= MaxUndo /\ incoming # 0
     \/ UndoCost(queue) + incoming > limit
Without(queue, k) == SubSeq(queue, k + 1, Len(queue))
Trims(queue, incoming, limit, k) ==
  /\ ~ Trimmable(Without(queue, k), incoming, limit)
  /\ \A j \in 0 .. k - 1 : Trimmable(Without(queue, j), incoming, limit)

-----------------------------------------------------------------------------
Init ==
  /\ mem = [p \in Page |-> Baseline(p)]
  /\ len = OrigPages
  /\ maximum \in Limits
  /\ dirty = {}
  /\ undo = <<>>
  /\ protection = <<0, 0>>
  /\ budget \in Budgets
  /\ stackCost = StartCost

\* write8/16/32, zero and copy: a run of cells of RAM, possibly over a page edge.
Store(from, n, v) ==
  /\ n > 0
  /\ from + n <= len * PageSize
  /\ mem' = Stored(mem, from, n, v)
  /\ dirty' = dirty \cup Touched(from, n)
  /\ UNCHANGED <<len, maximum, undo, protection, budget, stackCost>>

\* The same run written by compiled code: the pages are copied back and only
\* those that differ are marked.
NativeStore(from, n, v) ==
  /\ n > 0
  /\ from + n <= len * PageSize
  /\ mem' = Stored(mem, from, n, v)
  /\ dirty' = dirty \cup {p \in Touched(from, n) : mem'[p] # mem[p]}
  /\ UNCHANGED <<len, maximum, undo, protection, budget, stackCost>>

\* Mutant: growing does not mark the new pages.
ResizeUnmarked(n) ==
  /\ n \in OrigPages .. maximum
  /\ n # len
  /\ len' = n
  /\ mem' = [p \in Page |-> IF p < n THEN mem[p] ELSE Zero]
  /\ UNCHANGED <<dirty, maximum, undo, protection, budget, stackCost>>

\* setmemsize, malloc and mfree: only what the memory grows by becomes dirty.
Resize(n) ==
  /\ n \in OrigPages .. maximum
  /\ n # len
  /\ len' = n
  /\ mem' = [p \in Page |-> IF p < n THEN mem[p] ELSE Zero]
  /\ dirty' = dirty \cup (InRange(n) \ InRange(len))
  /\ UNCHANGED <<maximum, undo, protection, budget, stackCost>>

\* The stack and the heap records grow and shrink with the program.
UseStack(c) ==
  /\ c # stackCost
  /\ stackCost' = c
  /\ UNCHANGED <<mem, len, maximum, dirty, undo, protection, budget>>

SetProtection(r) ==
  /\ r # protection
  /\ protection' = r
  /\ UNCHANGED <<mem, len, maximum, dirty, undo, budget, stackCost>>

CanSave ==
  /\ budget # 0
  /\ stackCost <= budget
  /\ ~ OverLimit((budget - stackCost) \div PageCost)

Snapshot(dest) ==
  [ len |-> len, pages |-> SnapshotPages, dest |-> dest, stack |-> stackCost,
    cost |-> stackCost + PageCost * Cardinality(DOMAIN SnapshotPages),
    image |-> mem ]    \* image: what the snapshot stands for, not kept by the code

SaveUndo(dest) ==
  /\ CanSave
  /\ Writable(dest, len)
  /\ \E k \in 0 .. Len(undo) :
       /\ Trims(undo, Snapshot(dest).cost, budget, k)
       /\ undo' = Append(Without(undo, k), Snapshot(dest))
  /\ mem' = Result(mem, dest, 0)
  /\ dirty' = ResultPages(dest)
  /\ UNCHANGED <<len, maximum, protection, budget, stackCost>>

SaveUndoFails(dest) ==
  /\ ~ CanSave
  /\ Writable(dest, len)
  /\ mem' = Result(mem, dest, 1)
  /\ dirty' = dirty \cup ResultPages(dest)
  /\ UNCHANGED <<len, maximum, undo, protection, budget, stackCost>>

\* pop_back and restore_pages; the result goes to the saved destination.
RestoreUndo ==
  /\ undo # <<>>
  /\ LET s == undo[Len(undo)] IN
       /\ s.len \in OrigPages .. maximum
       /\ Writable(s.dest, s.len)
       /\ len' = s.len
       /\ mem' = Result(Protect(SnapImage(s), s.len), s.dest, -1)
       /\ dirty' = dirty \cup InRange(s.len)
       /\ stackCost' = s.stack
  /\ undo' = SubSeq(undo, 1, Len(undo) - 1)
  /\ UNCHANGED <<maximum, protection, budget>>

RestoreUndoFails(dest) ==
  /\ undo = <<>>
  /\ Writable(dest, len)
  /\ mem' = Result(mem, dest, 1)
  /\ dirty' = dirty \cup ResultPages(dest)
  /\ UNCHANGED <<len, maximum, undo, protection, budget, stackCost>>

DiscardUndo ==
  /\ undo # <<>>
  /\ undo' = SubSeq(undo, 1, Len(undo) - 1)
  /\ UNCHANGED <<mem, len, maximum, dirty, protection, budget, stackCost>>

\* Mutant: restart does not mark what it resets.
RestartUnmarked ==
  /\ len' = OrigPages
  /\ mem' = Protect([p \in Page |-> Baseline(p)], OrigPages)
  /\ stackCost' = StartCost
  /\ UNCHANGED <<dirty, maximum, undo, protection, budget>>

\* restart keeps the snapshots and the protected bytes.
Restart ==
  /\ len' = OrigPages
  /\ mem' = Protect([p \in Page |-> Baseline(p)], OrigPages)
  /\ dirty' = dirty \cup InRange(OrigPages)
  /\ stackCost' = StartCost
  /\ UNCHANGED <<maximum, undo, protection, budget>>

\* decode_save commits a file written by any run of the same story.  (save
\* itself changes nothing here but its result, which is a Store.)
RestoreFile(image, n, dest, c) ==
  /\ n \in OrigPages .. maximum
  /\ \A p \in Page \ InRange(n) : image[p] = Zero
  /\ Writable(dest, n)
  /\ len' = n
  /\ mem' = Result(Protect(image, n), dest, -1)
  /\ dirty' = InRange(n)
  /\ stackCost' = c
  /\ UNCHANGED <<maximum, undo, protection, budget>>

\* Mutant: the snapshots are not checked against the new memory limit.
ResumeUnchecked(b, m) ==
  /\ \E k \in 0 .. Len(undo) :
       /\ Trims(undo, 0, b, k)
       /\ undo' = Without(undo, k)
  /\ len <= m
  /\ budget' = b
  /\ maximum' = m
  /\ dirty' = {}
  /\ UNCHANGED <<mem, len, protection, stackCost>>

\* The desktop player writes its session and a later run resumes it under the
\* limits configured then.  dirty is not part of what is written.  Resuming an
\* older session is a step to the same states: those in which dirty was dropped.
ResumeSession(b, m) ==
  /\ \E k \in 0 .. Len(undo) :
       /\ Trims(undo, 0, b, k)
       /\ undo' = Without(undo, k)
  /\ len <= m
  /\ \A i \in DOMAIN undo' : undo'[i].len <= m
  /\ budget' = b
  /\ maximum' = m
  /\ dirty' = {}
  /\ UNCHANGED <<mem, len, protection, stackCost>>

\* Everything but the two steps that part the newest snapshot from dirty.
ChainNext ==
  \/ \E from \in Cell, n \in 1 .. MaxStore, v \in Byte : Store(from, n, v)
  \/ \E from \in Cell, n \in 1 .. MaxStore, v \in Byte : NativeStore(from, n, v)
  \/ \E n \in OrigPages .. MaxPages : Resize(n)
  \/ \E c \in StackCosts : UseStack(c)
  \/ \E r \in Ranges : SetProtection(r)
  \/ \E dest \in Destinations : SaveUndo(dest) \/ SaveUndoFails(dest) \/ RestoreUndoFails(dest)
  \/ RestoreUndo
  \/ Restart
  \/ \E image \in [Page -> Content], n \in OrigPages .. MaxPages,
        dest \in Destinations, c \in StackCosts : RestoreFile(image, n, dest, c)

Resume == \E b \in Budgets, m \in Limits : ResumeSession(b, m)

Next == ChainNext \/ DiscardUndo \/ Resume

Spec        == Init /\ [][Next]_vars
ChainSpec   == Init /\ [][ChainNext]_vars
DiscardSpec == Init /\ [][ChainNext \/ DiscardUndo]_vars

-----------------------------------------------------------------------------
SnapshotType ==
  [ len   : OrigPages .. MaxPages,
    pages : UNION {[D -> Content] : D \in SUBSET Page},
    dest  : Destination,
    stack : StackCosts,
    cost  : Nat,
    image : [Page -> Content] ]

\* The type invariant: the variables of Memory and of Vm hold what they declare,
\* and nothing is stored above the end of memory.
TypeOK ==
  /\ mem \in [Page -> Content]
  /\ len \in OrigPages .. maximum
  /\ maximum \in Limits
  /\ dirty \subseteq Page
  /\ undo \in Seq(SnapshotType)
  /\ protection \in Nat \X Nat
  /\ budget \in Budgets
  /\ stackCost \in StackCosts
  /\ \A p \in Page : p >= len => mem[p] = Zero

\* Every retained snapshot holds exactly the memory there was when saveundo
\* took it: snapshot_pages_with_limit misses no page.
UndoExact == \A i \in DOMAIN undo : SnapImage(undo[i]) = undo[i].image

\* The next snapshot would be exact: a page that is not dirty still holds what
\* undo.back() (or, with no snapshot, the story) has for it.
Aligned == \A p \in InRange(len) \ dirty : mem[p] = Base[p]

\* Whatever the machine does, short of discarding a snapshot and of resuming a
\* session, mark_dirty_range and mark_all_pages_dirty keep the next snapshot exact.
KeepsAligned == [][Aligned /\ ~ DiscardUndo /\ ~ Resume => Aligned']_vars

\* restoreundo of any retained snapshot, after any sequence of the others, is
\* accepted by restore_pages: neither a lower memory limit nor a shorter memory
\* leaves a snapshot behind that would stop the machine with InvalidSave.
UndoRestorable ==
  \A i \in DOMAIN undo :
    /\ undo[i].len \in OrigPages .. maximum
    /\ DOMAIN undo[i].pages \subseteq InRange(undo[i].len)
    /\ Writable(undo[i].dest, undo[i].len)

\* The deque keeps to the snapshot count and to the configured byte budget.
UndoBounded == Len(undo) <= MaxUndo /\ UndoCost(undo) <= budget

\* restart and restoreundo leave the bytes under protection as they were,
\* whatever the memory sizes on either side, but for the result cell.
ProtectionHolds ==
  [][ \A p \in InRange(len) \cap InRange(len'), o \in Offset :
        /\ Restart \/ RestoreUndo
        /\ IsProtected(p * PageSize + o)
        /\ RestoreUndo => undo[Len(undo)].dest # p * PageSize + o
        => mem'[p][o] = mem[p][o] ]_vars

\* restoreundo brings back every unprotected byte of the memory saveundo saw.
UndoReturns ==
  [][ RestoreUndo =>
        /\ len' = undo[Len(undo)].len
        /\ \A p \in Page, o \in Offset :
             \/ IsProtected(p * PageSize + o)
             \/ undo[Len(undo)].dest = p * PageSize + o
             \/ mem'[p][o] = undo[Len(undo)].image[p][o] ]_vars
=============================================================================
