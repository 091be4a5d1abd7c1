------------------------------ MODULE HeapProofs ------------------------------
(* Proofs about Heap, for every word and page size, limit and operand: it is *)
(* safe, it refuses only when full, and it implements Allocation.            *)
EXTENDS Heap, CollectionLemmas, SequenceTheorems, WellFoundedInduction, TLAPS

\* Rounding up to a multiple moves a number by less than one unit.
LEMMA RoundUpProperties ==
  ASSUME NEW n \in Nat, NEW k \in Nat \ {0}
  PROVE  /\ RoundUp(n, k) \in Nat
         /\ n <= RoundUp(n, k) /\ RoundUp(n, k) <= n + k - 1
         /\ RoundUp(n, k) % k = 0
<1> DEFINE m == n + k - 1
           q == m \div k
<1>1. m \in Nat
  OBVIOUS
<1>2. q \in Nat /\ m = (k * q) + (m % k) /\ m % k \in 0 .. k - 1
  BY <1>1
<1>3. q * k \in Nat /\ q * k = m - (m % k)
  BY <1>2, <1>1
<1>4. (q * k) % k = 0
  BY <1>2
<1>5. RoundUp(n, k) = q * k
  BY DEF RoundUp
<1> QED BY <1>1, <1>2, <1>3, <1>4, <1>5

\* The size malloc looks for is at least the size asked for, and not zero.
LEMMA BlockSizeProperties ==
  ASSUME NEW size \in Sizes, Valid(size)
  PROVE  BlockSize(size) \in Nat /\ BlockSize(size) > 0 /\ BlockSize(size) < Word
<1>1. size \in Nat \ {0} /\ size + Align - 1 < Word
  BY HeapAssumption DEF Valid, Address
<1>2. Word \in Nat /\ Align \in Nat \ {0}
  BY HeapAssumption
<1>3. /\ RoundUp(size, Align) \in Nat
      /\ size <= RoundUp(size, Align) /\ RoundUp(size, Align) <= size + Align - 1
  BY <1>1, <1>2, RoundUpProperties
<1> QED BY <1>1, <1>2, <1>3 DEF BlockSize

-----------------------------------------------------------------------------
(* The inductive invariant: types, and well-formed heaps. *)

\* The live heap.
LiveOK ==
  /\ maximum \in Limits
  /\ len \in OrigEnd .. maximum /\ len % PageSize = 0
  /\ heap_next \in Address
  /\ blocks \subseteq Block
  /\ blocks # {} => heap_next \in OrigEnd .. len /\ heap_next % PageSize = 0
  /\ \A b \in blocks : b[2] > 0 /\ heap_next <= b[1] /\ End(b) <= len
  /\ \A b, c \in blocks : b # c => Apart(b, c)

\* The heaps that restoreundo may bring back.
UndoOK == undo \in Seq(HeapRecord) /\ \A i \in DOMAIN undo : WellFormed(undo[i])

Inv == LiveOK /\ UndoOK

\* The bounds that every step needs.
LEMMA Bounds ==
  ASSUME Inv
  PROVE  /\ len \in Nat /\ OrigEnd <= len /\ len <= maximum /\ len % PageSize = 0
         /\ maximum \in Nat /\ maximum <= Word - PageSize
         /\ HeapStart \in Nat /\ OrigEnd <= HeapStart /\ HeapStart <= len
         /\ HeapStart % PageSize = 0
         /\ \A b \in blocks : /\ b[1] \in Nat /\ b[2] \in Nat /\ b[2] > 0
                               /\ HeapStart <= b[1] /\ End(b) <= len
<1>1. /\ OrigEnd \in Nat /\ Word \in Nat /\ PageSize \in Nat \ {0}
      /\ maximum \in OrigEnd .. Word - PageSize
  BY HeapAssumption DEF Inv, LiveOK
<1>2. len \in OrigEnd .. maximum /\ len % PageSize = 0
  BY <1>1 DEF Inv, LiveOK
<1>3. heap_next \in Nat
  BY <1>1 DEF Inv, LiveOK, Address
<1>4. blocks # {} => heap_next \in OrigEnd .. len /\ heap_next % PageSize = 0
  BY DEF Inv, LiveOK
<1>5. ASSUME NEW b \in blocks
      PROVE  /\ b[1] \in Nat /\ b[2] \in Nat /\ b[2] > 0
             /\ HeapStart <= b[1] /\ End(b) <= len
  <2>1. b[1] \in Nat /\ b[2] \in Nat
    BY <1>1 DEF Inv, LiveOK, Block, Address
  <2>2. b[2] > 0 /\ heap_next <= b[1] /\ End(b) <= len
    BY DEF Inv, LiveOK
  <2> QED BY <2>1, <2>2 DEF HeapStart
<1> QED BY <1>1, <1>2, <1>3, <1>4, <1>5 DEF HeapStart

\* First fit: the block it finds overlaps no live block and lies in the heap.
LEMMA FirstFitIsFree ==
  ASSUME Inv, NEW n \in Nat \ {0}, NEW a \in Candidates, FirstFit(a, n)
  PROVE  a \in Nat /\ HeapStart <= a /\ Free(a, n)
<1>1. a \in Nat /\ HeapStart <= a
  BY Bounds DEF Candidates, End
<1>2. ASSUME NEW b \in blocks PROVE Apart(<<a, n>>, b)
  <2>1. CASE b[1] >= a
    BY <2>1, <1>1, Bounds DEF FirstFit, Fits, Apart, End
  <2>2. CASE b[1] < a
    <3>1. PICK c \in blocks : a = End(c)
      BY <2>2, Bounds, <1>1 DEF Candidates
    <3>2. c = b \/ Apart(b, c)
      BY DEF Inv, LiveOK
    <3> QED BY <2>2, <3>1, <3>2, <1>1, Bounds DEF Apart, End
  <2> QED BY <2>1, <2>2, <1>1, Bounds
<1> QED BY <1>1, <1>2 DEF Free

\* A heap just loaded satisfies the invariant.
LEMMA InitInv == Init => Inv
<1> SUFFICES ASSUME Init PROVE LiveOK /\ UndoOK
  BY DEF Inv
<1>1. undo = <<>> /\ undo \in Seq(HeapRecord) /\ DOMAIN undo = {}
  BY DEF Init
<1>2. OrigEnd \in Nat /\ OrigEnd % PageSize = 0 /\ PageSize \in Nat \ {0} /\ Word \in Nat
  BY HeapAssumption
<1>3. maximum \in OrigEnd .. Word - PageSize
  BY HeapAssumption DEF Init
<1> QED BY <1>1, <1>2, <1>3 DEF Init, LiveOK, UndoOK, Address

\* Steps that leave the snapshots and the limit alone.
LEMMA UndoKept == UndoOK /\ UNCHANGED <<maximum, undo>> => UndoOK'
BY DEF UndoOK, WellFormed

\* A malloc that succeeds puts its block where first fit says.
LEMMA MallocInv ==
  ASSUME Inv, NEW size \in Sizes, Malloc(size)
  PROVE  Inv'
<1> DEFINE n == BlockSize(size)
<1>1. n \in Nat \ {0} /\ n < Word
  BY BlockSizeProperties DEF Malloc
<1> HIDE DEF n
<1>2. PICK a \in Candidates :
        /\ FirstFit(a, n)
        /\ a + n < Word
        /\ IF a + n > len THEN Grown(a + n) ELSE UNCHANGED len
        /\ blocks' = Without(a) \cup {<<a, n>>}
  BY DEF Malloc, n
<1>3. a \in Nat /\ HeapStart <= a /\ \A b \in blocks : Apart(<<a, n>>, b)
  BY <1>1, <1>2, FirstFitIsFree DEF Free
<1>4. PageSize \in Nat \ {0} /\ Word \in Nat /\ OrigEnd \in Nat
  BY HeapAssumption
<1>5. len' \in Nat /\ len <= len' /\ a + n <= len' /\ len' <= maximum /\ len' % PageSize = 0
  <2>1. CASE a + n > len
    <3>1. /\ len' = RoundUp(a + n, PageSize) /\ len' % PageSize = 0 /\ len' <= maximum
      BY <2>1, <1>2 DEF Grown, Resizable, Sizable
    <3>2. a + n \in Nat
      BY <1>1, <1>3
    <3>3. a + n <= RoundUp(a + n, PageSize) /\ RoundUp(a + n, PageSize) \in Nat
      BY <3>2, <1>4, RoundUpProperties
    <3> QED BY <3>1, <3>3, <2>1, <1>1, <1>3, Bounds
  <2>2. CASE a + n <= len
    BY <2>2, <1>1, <1>2, <1>3, Bounds
  <2> QED BY <2>1, <2>2, <1>1, <1>3, Bounds
<1>6. heap_next' = HeapStart /\ maximum' = maximum /\ undo' = undo
  BY DEF Malloc
<1>7. LiveOK'
  <2>1. blocks' \subseteq Block
    BY <1>1, <1>2, <1>3, <1>4 DEF Inv, Block, Address, LiveOK, Without
  <2>2. \A b \in blocks' : b[2] > 0 /\ heap_next' <= b[1] /\ End(b) <= len'
    <3> SUFFICES ASSUME NEW b \in blocks' PROVE b[2] > 0 /\ heap_next' <= b[1] /\ End(b) <= len'
      OBVIOUS
    <3>1. CASE b = <<a, n>>
      BY <3>1, <1>1, <1>3, <1>5, <1>6 DEF End
    <3>2. CASE b \in blocks
      BY <3>2, <1>5, <1>6, Bounds DEF End
    <3> QED BY <3>1, <3>2, <1>2 DEF Without
  <2>3. \A b, c \in blocks' : b # c => Apart(b, c)
    <3> SUFFICES ASSUME NEW b \in blocks', NEW c \in blocks', b # c PROVE Apart(b, c)
      OBVIOUS
    <3>1. \A d \in blocks' : d = <<a, n>> \/ d \in blocks
      BY <1>2 DEF Without
    <3>2. CASE b \in blocks /\ c \in blocks
      BY <3>2 DEF Inv, LiveOK
    <3>3. CASE b = <<a, n>> /\ c \in blocks
      BY <3>3, <1>3
    <3>4. CASE b \in blocks /\ c = <<a, n>>
      BY <3>4, <1>3 DEF Apart
    <3> QED BY <3>1, <3>2, <3>3, <3>4
  <2>4. heap_next' \in Address /\ heap_next' \in OrigEnd .. len' /\ heap_next' % PageSize = 0
    BY <1>4, <1>5, <1>6, Bounds DEF Address
  <2>5. maximum' \in Limits /\ len' \in OrigEnd .. maximum'
    BY <1>4, <1>5, <1>6, Bounds DEF Inv, LiveOK
  <2> QED BY <2>1, <2>2, <2>3, <2>4, <2>5, <1>5 DEF LiveOK, End, Apart
<1> QED BY <1>6, <1>7, UndoKept DEF Inv

\* mfree keeps the invariant; with the last block the memory above the heap goes.
LEMMA MfreeInv ==
  ASSUME Inv, NEW a, Mfree(a)
  PROVE  Inv'
<1>1. blocks' \subseteq blocks /\ maximum' = maximum /\ heap_next' = heap_next /\ undo' = undo
  BY DEF Mfree, Without
<1>2. blocks # {} /\ (blocks' = {} \/ len' = len)
  BY DEF Mfree
<1>3. len' \in OrigEnd .. maximum /\ len' % PageSize = 0
  BY <1>2, Bounds, HeapAssumption DEF Mfree, Inv, LiveOK, Resizable, Sizable
<1>4. LiveOK'
  BY <1>1, <1>2, <1>3 DEF Inv, LiveOK, End, Apart
<1> QED BY <1>1, <1>4, UndoKept DEF Inv

\* setmemsize keeps the invariant: it only acts while there is no heap.
LEMMA SetMemSizeInv ==
  ASSUME Inv, NEW n \in Address, SetMemSize(n)
  PROVE  Inv'
<1>1. n \in OrigEnd .. maximum /\ n % PageSize = 0
  BY Bounds, HeapAssumption DEF SetMemSize, Resizable, Sizable, Address
<1>2. LiveOK'
  BY <1>1 DEF Inv, LiveOK, SetMemSize
<1> QED BY <1>2, UndoKept DEF Inv, SetMemSize

\* The oldest snapshots may go: what is left is still well formed.
LEMMA SuffixKept ==
  ASSUME UndoOK, NEW k \in 0 .. Len(undo)
  PROVE  LET q == SubSeq(undo, k + 1, Len(undo)) IN
         q \in Seq(HeapRecord) /\ \A i \in DOMAIN q : q[i] \in HeapRecord /\ WellFormed(q[i])
<1> DEFINE q == SubSeq(undo, k + 1, Len(undo))
<1>1. q \in Seq(HeapRecord) /\ Len(q) = Len(undo) - k
      /\ \A i \in 1 .. Len(undo) - k : q[i] = undo[k + i]
  BY SuffixProperties DEF UndoOK
<1> HIDE DEF q
<1>2. ASSUME NEW i \in DOMAIN q PROVE q[i] \in HeapRecord /\ WellFormed(q[i])
  <2>1. i \in 1 .. Len(undo) - k /\ k + i \in 1 .. Len(undo)
    BY <1>1
  <2>2. undo \in Seq(HeapRecord)
    BY DEF UndoOK
  <2> QED BY <1>1, <2>1, <2>2 DEF UndoOK
<1> QED BY <1>1, <1>2 DEF q

\* A snapshot of a heap in order is in order.
LEMMA SnapshotOK == Inv => Snapshot \in HeapRecord /\ WellFormed(Snapshot)
<1> SUFFICES ASSUME Inv PROVE Snapshot \in HeapRecord /\ WellFormed(Snapshot)
  OBVIOUS
<1>1. len \in Address
  BY Bounds, HeapAssumption DEF Address
<1> QED BY <1>1 DEF Inv, LiveOK, Snapshot, HeapRecord, WellFormed

\* saveundo keeps the invariant.
LEMMA SaveUndoInv ==
  ASSUME Inv, SaveUndo
  PROVE  Inv'
<1>1. PICK k \in 0 .. Len(undo) : undo' = Append(SubSeq(undo, k + 1, Len(undo)), Snapshot)
  BY DEF SaveUndo
<1> DEFINE q == SubSeq(undo, k + 1, Len(undo))
<1>2. q \in Seq(HeapRecord) /\ \A i \in DOMAIN q : WellFormed(q[i])
  BY SuffixKept DEF Inv
<1>3. Snapshot \in HeapRecord /\ WellFormed(Snapshot)
  BY SnapshotOK
<1>4. undo' = Append(q, Snapshot)
  BY <1>1
<1> HIDE DEF q
<1>5. /\ undo' \in Seq(HeapRecord)
      /\ \A i \in DOMAIN undo' : undo'[i] = Snapshot \/ (i \in DOMAIN q /\ undo'[i] = q[i])
  <2> DEFINE s == Snapshot
  <2> HIDE DEF s
  <2>1. undo' = Append(q, s) /\ s \in HeapRecord
    BY <1>3, <1>4 DEF s
  <2>2. /\ undo' \in Seq(HeapRecord)
        /\ \A i \in DOMAIN undo' : undo'[i] = s \/ (i \in DOMAIN q /\ undo'[i] = q[i])
    BY <1>2, <2>1
  <2> QED BY <2>2 DEF s
<1>6. \A i \in DOMAIN undo' : WellFormed(undo'[i])
  BY <1>2, <1>3, <1>5
<1>7. UndoOK'
  BY <1>5, <1>6 DEF UndoOK, WellFormed, SaveUndo
<1>8. LiveOK'
  BY DEF SaveUndo, Inv, LiveOK, End, Apart
<1> QED BY <1>7, <1>8 DEF Inv

\* The newest snapshot goes: the others stay well formed.
LEMMA FrontKept ==
  ASSUME UndoOK, undo # <<>>, undo' = SubSeq(undo, 1, Len(undo) - 1), maximum' = maximum
  PROVE  UndoOK'
<1>1. undo' \in Seq(HeapRecord) /\ Len(undo') = Len(undo) - 1
      /\ \A i \in 1 .. Len(undo) - 1 : undo'[i] = undo[i]
  BY FrontProperties DEF UndoOK
<1>2. undo \in Seq(HeapRecord)
  BY DEF UndoOK
<1>3. \A i \in DOMAIN undo' : i \in DOMAIN undo /\ undo'[i] = undo[i]
  BY <1>1, <1>2
<1> QED BY <1>1, <1>3 DEF UndoOK, WellFormed

\* restoreundo keeps the invariant: the snapshot was in order when it was taken.
LEMMA RestoreUndoInv ==
  ASSUME Inv, RestoreUndo
  PROVE  Inv'
<1> DEFINE s == undo[Len(undo)]
<1>1. undo \in Seq(HeapRecord) /\ undo # <<>>
  BY DEF Inv, UndoOK, RestoreUndo
<1>2. Len(undo) \in DOMAIN undo
  BY <1>1
<1>3. s \in HeapRecord /\ WellFormed(s)
  BY <1>1, <1>2 DEF Inv, UndoOK
<1>4. len' = s.len /\ heap_next' = s.heap_next /\ blocks' = s.blocks /\ maximum' = maximum
  BY DEF RestoreUndo
<1> HIDE DEF s
<1>5. LiveOK'
  BY <1>3, <1>4 DEF Inv, LiveOK, WellFormed, HeapRecord, End, Apart
<1>6. UndoOK'
  BY FrontKept DEF Inv, RestoreUndo
<1> QED BY <1>5, <1>6 DEF Inv

\* restart keeps the invariant.
LEMMA RestartInv == Inv /\ Restart => Inv'
<1> SUFFICES ASSUME Inv, Restart PROVE Inv'
  OBVIOUS
<1>1. OrigEnd \in OrigEnd .. maximum /\ OrigEnd % PageSize = 0 /\ OrigEnd \in Address
  BY Bounds, HeapAssumption DEF Address
<1>2. LiveOK'
  BY <1>1 DEF Restart, Inv, LiveOK
<1> QED BY <1>2, UndoKept DEF Restart, Inv

\* What decode_save accepts is a well-formed heap.
LEMMA RestoreFileInv ==
  ASSUME Inv, NEW f \in Files, RestoreFile(f)
  PROVE  Inv'
<1>1. f \in HeapRecord /\ OrigEnd \in Nat /\ Word \in Nat
  BY HeapAssumption
<1>2. f.len \in Nat /\ f.heap_next \in Nat /\ f.blocks \subseteq Block
  BY <1>1 DEF HeapRecord, Address
<1>3. /\ f.len >= OrigEnd /\ f.len <= maximum /\ f.len % PageSize = 0
      /\ f.blocks # {} => f.heap_next >= OrigEnd /\ f.heap_next < f.len /\ f.heap_next % PageSize = 0
      /\ \A b \in f.blocks : b[2] # 0 /\ b[1] >= f.heap_next /\ End(b) <= f.len
      /\ \A b, c \in f.blocks : b # c => Apart(b, c)
  BY DEF RestoreFile, Accepted, Sizable
<1>4. \A b \in f.blocks : b[2] > 0
  BY <1>1, <1>2, <1>3 DEF Block, Address
<1>5. /\ len' = f.len /\ blocks' = f.blocks /\ maximum' = maximum
      /\ f.blocks # {} => heap_next' = f.heap_next
      /\ heap_next' \in Address
  BY <1>1 DEF RestoreFile, HeapRecord
<1>6. f.len \in OrigEnd .. maximum
      /\ (f.blocks # {} => f.heap_next \in OrigEnd .. f.len)
  BY <1>1, <1>2, <1>3, Bounds
<1>7. maximum' \in Limits
  BY <1>5 DEF Inv, LiveOK
<1>8. \A b \in blocks' : heap_next' <= b[1]
  BY <1>2, <1>3, <1>5 DEF Block, Address
<1>9. LiveOK'
  BY <1>2, <1>3, <1>4, <1>5, <1>6, <1>7, <1>8 DEF LiveOK, End, Apart
<1> QED BY <1>9, UndoKept DEF Inv, RestoreFile

\* Resuming a session keeps the invariant.
LEMMA ResumeInv ==
  ASSUME Inv, NEW m \in Limits, ResumeSession(m)
  PROVE  Inv'
<1>1. PICK k \in 0 .. Len(undo) : undo' = SubSeq(undo, k + 1, Len(undo))
  BY DEF ResumeSession
<1>2. undo' \in Seq(HeapRecord)
      /\ \A i \in DOMAIN undo' : undo'[i] \in HeapRecord /\ WellFormed(undo'[i])
  BY <1>1, SuffixKept DEF Inv
<1>3. m \in Nat /\ maximum' = m /\ len <= m /\ \A i \in DOMAIN undo' : undo'[i].len <= m
  BY HeapAssumption DEF ResumeSession
<1>4. ASSUME NEW i \in DOMAIN undo' PROVE undo'[i].len \in OrigEnd .. maximum'
  <2>1. undo'[i].len \in Nat
    BY <1>2, HeapAssumption DEF HeapRecord, Address
  <2> QED BY <1>2, <1>3, <2>1, HeapAssumption DEF WellFormed
<1>5. UndoOK'
  BY <1>2, <1>4 DEF UndoOK, WellFormed
<1>6. len \in OrigEnd .. m
  BY <1>3, Bounds, HeapAssumption
<1>7. LiveOK'
  BY <1>3, <1>6 DEF ResumeSession, Inv, LiveOK, End, Apart
<1> QED BY <1>5, <1>7 DEF Inv

\* Every step preserves the invariant.
LEMMA InvNext == Inv /\ [Next]_vars => Inv'
<1> SUFFICES ASSUME Inv, [Next]_vars PROVE Inv'
  OBVIOUS
<1>1. ASSUME NEW size \in Sizes, Malloc(size) PROVE Inv'
  BY <1>1, MallocInv
<1>2. ASSUME NEW size \in Sizes, MallocFails(size) PROVE Inv'
  <2>1. /\ UNCHANGED <<len, maximum, blocks, undo>>
        /\ heap_next' = heap_next \/ heap_next' = HeapStart
    BY <1>2 DEF MallocFails, vars
  <2>2. heap_next' \in Address /\ (blocks # {} => heap_next' = heap_next)
    BY <2>1, Bounds, HeapAssumption DEF Address, HeapStart, Inv, LiveOK
  <2>3. LiveOK'
    BY <2>1, <2>2 DEF Inv, LiveOK, End, Apart
  <2> QED BY <2>1, <2>3, UndoKept DEF Inv
<1>3. ASSUME NEW a \in Address, Mfree(a) PROVE Inv'
  BY <1>3, MfreeInv
<1>4. ASSUME NEW a \in Address, SetMemSize(a) PROVE Inv'
  BY <1>4, SetMemSizeInv
<1>5. CASE SaveUndo
  BY <1>5, SaveUndoInv
<1>6. CASE RestoreUndo
  BY <1>6, RestoreUndoInv
<1>7. CASE DiscardUndo
  <2>1. LiveOK'
    BY <1>7 DEF DiscardUndo, Inv, LiveOK, End, Apart
  <2> QED BY <2>1, <1>7, FrontKept DEF DiscardUndo, Inv
<1>8. CASE Restart
  BY <1>8, RestartInv
<1>9. ASSUME NEW f \in Files, RestoreFile(f) PROVE Inv'
  BY <1>9, RestoreFileInv
<1>10. ASSUME NEW m \in Limits, ResumeSession(m) PROVE Inv'
  BY <1>10, ResumeInv
<1>11. CASE UNCHANGED vars
  BY <1>11, UndoKept DEF vars, Inv, LiveOK, End, Apart
<1> QED
  BY <1>1, <1>2, <1>3, <1>4, <1>5, <1>6, <1>7, <1>8, <1>9, <1>10, <1>11 DEF Next

\* What the invariant is for.
LEMMA InvImplies == Inv => TypeOK /\ HeapSafe /\ SavesAreAccepted
<1> SUFFICES ASSUME Inv PROVE TypeOK /\ HeapSafe /\ SavesAreAccepted
  OBVIOUS
<1>1. TypeOK
  BY Bounds DEF Inv, LiveOK, UndoOK, TypeOK, Resizable, Sizable
<1>2. HeapSafe
  BY SnapshotOK DEF Inv, UndoOK, HeapSafe
<1>3. ASSUME NEW limit \in Limits, len <= limit PROVE Accepted(SavedGame, limit)
  <2> DEFINE f == SavedGame
  <2>1. /\ f.len = len /\ f.blocks = blocks
        /\ f.heap_next = IF blocks = {} THEN 0 ELSE heap_next
    BY DEF SavedGame, Snapshot
  <2> HIDE DEF f
  <2>2. Sizable(f.len, limit)
    BY <1>3, <2>1, Bounds DEF Sizable
  <2>3. blocks # {} => heap_next >= OrigEnd /\ heap_next % PageSize = 0 /\ heap_next < len
    <3> SUFFICES ASSUME blocks # {}
                 PROVE  heap_next >= OrigEnd /\ heap_next % PageSize = 0 /\ heap_next < len
      OBVIOUS
    <3>1. PICK b \in blocks : TRUE
      OBVIOUS
    <3>2. heap_next = HeapStart
      BY DEF HeapStart
    <3> QED BY <3>1, <3>2, Bounds DEF End
  <2>4. \A b \in blocks : b[2] # 0 /\ b[1] >= heap_next /\ End(b) <= len
    BY Bounds DEF HeapStart
  <2>5. \A b, c \in blocks : b # c => Apart(b, c)
    BY DEF Inv, LiveOK
  <2>6. Accepted(f, limit)
    BY <2>1, <2>2, <2>3, <2>4, <2>5 DEF Accepted
  <2> QED BY <2>6 DEF f
<1> QED BY <1>1, <1>2, <1>3 DEF SavesAreAccepted

\* The variables hold what Memory and Vm declare, for every operand and limit.
THEOREM HeapTypeCorrect == Spec => []TypeOK
<1> QED BY InitInv, InvNext, InvImplies, PTL DEF Spec

\* No two live blocks ever overlap, none reaches past the end of memory or below
\* heap_next, and no snapshot of undo would bring such a heap back.
THEOREM HeapIsSafe == Spec => []HeapSafe
<1> QED BY InitInv, InvNext, InvImplies, PTL DEF Spec

\* decode_save accepts every game encode_save writes that fits the memory limit.
THEOREM OwnSavesAccepted == Spec => []SavesAreAccepted
<1> QED BY InitInv, InvNext, InvImplies, PTL DEF Spec

-----------------------------------------------------------------------------
(* First fit finds a gap whenever there is one.  The witness is the candidate *)
(* closest below the gap: the end of the block before it, or heap_next.       *)

\* A set of numbers with an upper bound has a largest element.
LEMMA Largest ==
  ASSUME NEW T, T \subseteq Nat, T # {}, NEW top \in Nat, \A c \in T : c <= top
  PROVE  \E c \in T : \A d \in T : d <= c
<1> DEFINE U == {top - c : c \in T}
<1>1. U \subseteq Nat /\ U # {}
  <2>1. \A c \in T : c \in Nat /\ c <= top /\ top - c \in Nat
    OBVIOUS
  <2>2. PICK c \in T : TRUE
    OBVIOUS
  <2>3. top - c \in U
    OBVIOUS
  <2> QED BY <2>1, <2>3
<1> HIDE DEF U
<1>2. PICK x \in U : \A y \in U : ~ (<<y, x>> \in OpToRel(<, Nat))
  BY <1>1, NatLessThanWellFounded, WFMin
<1>3. \A y \in U : ~ (y < x)
  BY <1>1, <1>2 DEF OpToRel
<1>4. PICK c \in T : x = top - c
  BY <1>2 DEF U
<1>5. ASSUME NEW d \in T PROVE d <= c
  <2>1. top - d \in U /\ c \in Nat /\ d \in Nat
    BY <1>5 DEF U
  <2>2. ~ (top - d < top - c)
    BY <2>1, <1>3, <1>4
  <2> QED BY <2>1, <2>2
<1> QED BY <1>5

\* A refusal contradicts any gap above the heap that would have been enough.
LEMMA RefusedIsFull ==
  ASSUME Inv, NEW size \in Sizes, Refused(size),
         NEW gap \in HeapStart .. len - BlockSize(size), Free(gap, BlockSize(size))
  PROVE  FALSE
<1> DEFINE n == BlockSize(size)
<1>1. n \in Nat \ {0}
  BY BlockSizeProperties DEF Refused
<1>2. gap \in Nat /\ HeapStart <= gap /\ gap + n <= len
  BY <1>1, Bounds
<1>3. \A b \in blocks : Apart(<<gap, n>>, b)
  BY DEF Free
<1>4. PICK a \in Candidates : FirstFit(a, n) /\ a + n > len
  BY DEF Refused
<1> HIDE DEF n
<1>5. Candidates \subseteq Nat /\ HeapStart \in Candidates
  BY Bounds DEF Candidates, End
<1> DEFINE T == {c \in Candidates : c <= gap}
<1>6. PICK c \in T : \A d \in T : d <= c
  BY <1>2, <1>5, Largest
<1>7. ASSUME NEW b \in blocks, b[1] >= c PROVE b[1] - c >= n
  <2>1. b[1] \in Nat /\ b[2] \in Nat /\ b[2] > 0
    BY Bounds
  <2>2. CASE gap + n <= b[1]
    BY <2>1, <2>2, <1>1, <1>2, <1>5, <1>6
  <2>3. CASE End(b) <= gap
    <3>1. End(b) \in T
      BY <2>3 DEF Candidates
    <3> QED BY <3>1, <2>1, <1>5, <1>6, <1>7 DEF End
  <2> QED BY <2>2, <2>3, <1>3 DEF Apart, End
<1>8. a <= c
  BY <1>4, <1>6, <1>7 DEF FirstFit, Fits
<1>9. a \in Nat /\ c \in Nat /\ c <= gap /\ len \in Nat
  BY <1>4, <1>5, <1>6, Bounds
<1> QED BY <1>1, <1>2, <1>4, <1>8, <1>9

\* malloc refuses a request only when no gap between the live blocks is large
\* enough: freed neighbours are one gap without any bookkeeping for it.
THEOREM FullWhenRefused == Spec => []RefusedOnlyWhenFull
<1>1. Inv => RefusedOnlyWhenFull
  BY RefusedIsFull DEF RefusedOnlyWhenFull
<1> QED BY <1>1, InitInv, InvNext, PTL DEF Spec

-----------------------------------------------------------------------------
(* The loop of malloc finds what FirstFit says.                              *)

Starts == {b[1] : b \in blocks}
Found(a, n) == Fits(a, n) /\ \A c \in Candidates : Fits(c, n) => a <= c

\* What the loop knows at address a, once it is past the blocks that start in X.
Past(a, X, n) ==
  /\ \A b \in blocks : b[1] \in X => End(b) <= a
  /\ \A c \in Candidates : c < a => ~ Fits(c, n)

\* A block and the addresses it may be placed at are numbers; blocks are apart.
LEMMA BlocksApart ==
  ASSUME Inv
  PROVE  /\ \A b \in blocks : /\ b[1] \in Nat /\ b[2] \in Nat /\ b[2] > 0
                               /\ End(b) \in Nat /\ End(b) \in Candidates
                               /\ HeapStart <= b[1] /\ b[1] < End(b)
         /\ \A b, c \in blocks : b # c => End(b) <= c[1] \/ End(c) <= b[1]
         /\ \A c \in Candidates : c \in Nat
         /\ HeapStart \in Nat
<1>1. \A b \in blocks : b[1] \in Nat /\ b[2] \in Nat /\ b[2] > 0 /\ HeapStart <= b[1]
  BY Bounds
<1>2. \A b \in blocks : End(b) \in Nat /\ b[1] < End(b) /\ End(b) \in Candidates
  BY <1>1 DEF End, Candidates
<1>3. \A b, c \in blocks : b # c => End(b) <= c[1] \/ End(c) <= b[1]
  BY DEF Inv, LiveOK, Apart
<1>4. HeapStart \in Nat
  BY Bounds
<1>5. \A c \in Candidates : c \in Nat
  BY <1>2, <1>4 DEF Candidates
<1> QED BY <1>1, <1>2, <1>3, <1>4, <1>5

\* The gap before the next block is large enough: the loop stops there.
LEMMA GapFound ==
  ASSUME Inv, NEW n \in Nat \ {0}, NEW a \in Candidates, NEW X, NEW x \in Nat,
         Past(a, X, n), x - a >= n, \A y \in Starts : y \in X \/ x <= y
  PROVE  Found(a, n)
<1>1. a \in Nat
  BY BlocksApart
<1>2. ASSUME NEW b \in blocks, b[1] >= a PROVE b[1] - a >= n
  <2>1. b[1] \in Nat /\ End(b) \in Nat /\ b[1] < End(b)
    BY BlocksApart
  <2>2. b[1] \notin X
    BY <1>1, <1>2, <2>1 DEF Past
  <2>3. x <= b[1]
    BY <2>2 DEF Starts
  <2> QED BY <1>1, <2>1, <2>3
<1>3. \A c \in Candidates : Fits(c, n) => a <= c
  <2> SUFFICES ASSUME NEW c \in Candidates, Fits(c, n) PROVE a <= c
    OBVIOUS
  <2>1. c \in Nat /\ ~ (c < a)
    BY BlocksApart DEF Past
  <2> QED BY <1>1, <2>1
<1> QED BY <1>2, <1>3 DEF Found, Fits

\* It is not: no address up to the end of that block will do.
LEMMA GapTooSmall ==
  ASSUME Inv, NEW n \in Nat \ {0}, NEW a \in Candidates, NEW X, NEW b \in blocks,
         Past(a, X, n), ~ (b[1] - a >= n), \A y \in X : y < b[1]
  PROVE  Past(End(b), X \cup {b[1]}, n)
<1>1. /\ a \in Nat /\ b[1] \in Nat /\ End(b) \in Nat /\ b[1] < End(b)
      /\ HeapStart \in Nat /\ HeapStart <= b[1]
  BY BlocksApart
<1>2. ASSUME NEW d \in blocks, d[1] \in X \cup {b[1]} PROVE End(d) <= End(b)
  <2>1. d[1] \in Nat /\ End(d) \in Nat /\ d[1] < End(d) /\ d[1] <= b[1]
    BY <1>1, <1>2, BlocksApart
  <2>2. CASE d = b
    BY <1>1, <2>2
  <2>3. CASE d # b
    <3>1. End(d) <= b[1] \/ End(b) <= d[1]
      BY <2>3, BlocksApart
    <3> QED BY <1>1, <2>1, <3>1
  <2> QED BY <2>2, <2>3
<1>3. ASSUME NEW c \in Candidates, c < End(b) PROVE ~ Fits(c, n)
  <2>1. c \in Nat
    BY BlocksApart
  <2>2. CASE c < a
    BY <2>2 DEF Past
  <2>3. CASE ~ (c < a)
    <3>1. c <= b[1]
      <4>1. CASE c = HeapStart
        BY <1>1, <4>1
      <4>2. CASE c # HeapStart
        <5>1. PICK d \in blocks : c = End(d)
          BY <4>2 DEF Candidates
        <5>2. d # b
          BY <1>1, <1>3, <5>1
        <5>3. d[1] \in Nat /\ d[1] < End(d) /\ (End(d) <= b[1] \/ End(b) <= d[1])
          BY <5>2, BlocksApart
        <5> QED BY <1>1, <1>3, <2>1, <5>1, <5>3
      <4> QED BY <4>1, <4>2
    <3>2. ~ (b[1] - c >= n)
      BY <1>1, <2>1, <2>3
    <3>3. b[1] >= c
      BY <1>1, <2>1, <3>1
    <3> QED BY <3>2, <3>3 DEF Fits
  <2> QED BY <2>2, <2>3
<1> QED BY <1>2, <1>3 DEF Past

\* All blocks are passed: behind the last one there is nothing in the way.
LEMMA PastAll ==
  ASSUME Inv, NEW n \in Nat \ {0}, NEW a \in Candidates, Past(a, Starts, n)
  PROVE  Found(a, n)
<1>1. a \in Nat
  BY BlocksApart
<1>2. ASSUME NEW b \in blocks PROVE ~ (b[1] >= a)
  <2>1. b[1] \in Nat /\ End(b) \in Nat /\ b[1] < End(b) /\ End(b) <= a
    BY BlocksApart DEF Past, Starts
  <2> QED BY <1>1, <2>1
<1>3. \A c \in Candidates : Fits(c, n) => a <= c
  <2> SUFFICES ASSUME NEW c \in Candidates, Fits(c, n) PROVE a <= c
    OBVIOUS
  <2>1. c \in Nat /\ ~ (c < a)
    BY BlocksApart DEF Past
  <2> QED BY <1>1, <2>1
<1> QED BY <1>2, <1>3 DEF Found, Fits

\* The live blocks in address order: what the loop goes through.
LEMMA OrderOfBlocks ==
  ASSUME Inv
  PROVE  /\ Ascending(Starts) \in Seq(Starts) /\ Range(Ascending(Starts)) = Starts
         /\ \A i, j \in DOMAIN Ascending(Starts) :
              i < j => Ascending(Starts)[i] < Ascending(Starts)[j]
         /\ Starts \subseteq Nat
<1>1. Starts \subseteq 0 .. Word - 1
  BY DEF Inv, LiveOK, Starts, Block, Address
<1>2. Word \in Nat
  BY HeapAssumption
<1>3. IsFiniteSet(0 .. Word - 1) /\ Starts \subseteq Nat
  BY <1>1, <1>2, FS_Interval
<1>4. IsFiniteSet(Starts)
  BY <1>1, <1>3, FS_Subset
<1>5. \E q \in [1 .. Cardinality(Starts) -> Starts] : IsAscending(q)
  BY <1>3, <1>4, AscendingExists
<1>6. IsAscending(Ascending(Starts))
  BY <1>5, Zenon DEF Ascending
<1>7. Ascending(Starts) \in Seq(Starts) /\ Range(Ascending(Starts)) = Starts
  BY <1>3, <1>4, AscendingElements
<1> QED BY <1>3, <1>6, <1>7 DEF IsAscending

\* What the loop starts with, and what it may have come to.
Begin == [address |-> HeapStart, found |-> FALSE]
Progress == [address : Candidates, found : BOOLEAN]

\* A turn keeps to the candidates, knows what it has passed and what it found.
LEMMA TurnPasses ==
  ASSUME Inv, NEW n \in Nat \ {0}, NEW p \in Progress, NEW k \in DOMAIN Ascending(Starts)
  PROVE  /\ Turn(p, Ascending(Starts)[k], n) \in Progress
         /\ (p.found => Found(p.address, n)) /\
            (~ p.found => Past(p.address, {Ascending(Starts)[i] : i \in 1 .. k - 1}, n)) =>
              LET t == Turn(p, Ascending(Starts)[k], n)
              IN  /\ t.found => Found(t.address, n)
                  /\ ~ t.found => Past(t.address, {Ascending(Starts)[i] : i \in 1 .. k}, n)
<1> DEFINE order == Ascending(Starts)
           x == order[k]
           X == {order[i] : i \in 1 .. k - 1}
           t == Turn(p, order[k], n)
           b == CHOOSE d \in blocks : d[1] = x
<1>1. /\ k \in 1 .. Len(order) /\ Len(order) \in Nat /\ DOMAIN order = 1 .. Len(order)
      /\ x \in Starts /\ x \in Nat
      /\ \A i, j \in DOMAIN order : i < j => order[i] < order[j]
      /\ \A y \in Starts : \E i \in DOMAIN order : y = order[i]
      /\ \A i \in DOMAIN order : order[i] \in Starts
  BY OrderOfBlocks DEF Range
<1>2. b \in blocks /\ b[1] = x
  <2>1. \E d \in blocks : d[1] = x
    BY <1>1 DEF Starts
  <2> QED BY <2>1
<1>3. x + LengthAt(x) = End(b) /\ End(b) \in Candidates
  BY <1>2, BlocksApart, Zenon DEF LengthAt, End
<1>4. {order[i] : i \in 1 .. k} = X \cup {x}
  BY <1>1
<1>5. /\ \A y \in X : y < x
      /\ \A y \in Starts : y \in X \/ x <= y
  <2>1. ASSUME NEW y \in X PROVE y < x
    BY <1>1
  <2>2. ASSUME NEW y \in Starts, y \notin X PROVE x <= y
    <3>1. PICK i \in DOMAIN order : y = order[i]
      BY <1>1
    <3>2. i >= k
      BY <1>1, <2>2, <3>1
    <3>3. y \in Nat
      BY <2>2, OrderOfBlocks
    <3>4. i = k \/ k < i
      BY <1>1, <3>2
    <3> QED BY <1>1, <3>1, <3>3, <3>4
  <2> QED BY <2>1, <2>2
<1>6. p.address \in Candidates /\ p.found \in BOOLEAN
  BY DEF Progress
<1> HIDE DEF order, x, X, b
<1>7. CASE p.found
  <2>1. t \in Progress /\ t.found /\ t.address = p.address
    BY <1>6, <1>7 DEF Turn, Progress, x
  <2> QED BY <1>7, <2>1 DEF order
<1>8. CASE ~ p.found /\ x - p.address >= n
  <2>1. t \in Progress /\ t.found /\ t.address = p.address
    BY <1>6, <1>8 DEF Turn, Progress, x
  <2>2. Past(p.address, X, n) => Found(p.address, n)
    BY <1>1, <1>5, <1>6, <1>8, GapFound
  <2> QED BY <1>8, <2>1, <2>2 DEF order, X
<1>9. CASE ~ p.found /\ ~ (x - p.address >= n)
  <2>1. t \in Progress /\ ~ t.found /\ t.address = End(b)
    BY <1>3, <1>9 DEF Turn, Progress, x
  <2>2. Past(p.address, X, n) => Past(End(b), X \cup {x}, n)
    BY <1>2, <1>5, <1>6, <1>9, GapTooSmall
  <2> QED BY <1>4, <1>9, <2>1, <2>2 DEF order, X
<1> QED BY <1>6, <1>7, <1>8, <1>9

LEMMA ScanFinds ==
  ASSUME Inv, NEW n \in Nat \ {0}
  PROVE  FirstFit(Scan(n), n)
<1> DEFINE order == Ascending(Starts)
           N == Len(order)
           g == [k \in 1 .. N |-> [p \in Progress |-> Turn(p, order[k], n)]]
           IsPast(f) == f = [k \in 0 .. N |->
             IF k = 0 THEN [address |-> HeapStart, found |-> FALSE] ELSE Turn(f[k - 1], order[k], n)]
           past == CHOOSE f : IsPast(f)
           V == Progress
           b == Begin
<1>1. N \in Nat /\ DOMAIN order = 1 .. N
  BY OrderOfBlocks
<1>2. Scan(n) = past[N].address
  BY Zenon DEF Scan, Starts
<1> HIDE DEF order, N, V, b
<1>3. g \in [1 .. N -> [V -> V]] /\ b \in V
  <2>1. \A k \in 1 .. N, p \in Progress : Turn(p, order[k], n) \in Progress
    BY <1>1, TurnPasses DEF order
  <2>2. HeapStart \in Candidates
    BY DEF Candidates
  <2> QED BY <2>1, <2>2 DEF V, b, Begin, Progress
<1> HIDE DEF g
<1>4. PICK f \in [0 .. N -> V] : IsSteps(f, N, b, g)
  <2>1. N \in Nat /\ b \in V /\ g \in [1 .. N -> [V -> V]]
    BY <1>1, <1>3
  <2>2. \E f \in [0 .. N -> V] : IsSteps(f, N, b, g)
    BY <2>1, StepsExist
  <2> QED BY <2>2
<1>5. \A k \in 0 .. N : f[k] = IF k = 0 THEN Begin ELSE Turn(f[k - 1], order[k], n)
  <2> SUFFICES ASSUME NEW k \in 0 .. N
               PROVE  f[k] = IF k = 0 THEN Begin ELSE Turn(f[k - 1], order[k], n)
    OBVIOUS
  <2>1. CASE k = 0
    BY <1>4, <2>1 DEF b, IsSteps
  <2>2. CASE k # 0
    <3>1. k \in 1 .. N /\ k - 1 \in 0 .. N
      BY <1>1, <2>2
    <3>2. f[k - 1] \in Progress
      BY <1>4, <3>1 DEF V
    <3> QED BY <1>4, <2>2, <3>1, <3>2 DEF g, IsSteps
  <2> QED BY <2>1, <2>2
<1>6. IsPast(f)
  <2>1. f = [k \in 0 .. N |-> f[k]]
    BY <1>4
  <2>2. \A k \in 0 .. N : f[k] = IF k = 0 THEN [address |-> HeapStart, found |-> FALSE]
                                  ELSE Turn(f[k - 1], order[k], n)
    BY <1>5, Zenon DEF Begin
  <2> QED BY <2>1, <2>2
<1>7. IsPast(past)
  BY <1>6
<1> HIDE DEF past
<1>8. \A k \in 0 .. N : past[k] = IF k = 0 THEN Begin ELSE Turn(past[k - 1], order[k], n)
  BY <1>7, Zenon DEF Begin
<1> DEFINE K == {k \in Nat : k <= N =>
             /\ past[k] \in Progress
             /\ past[k].found => Found(past[k].address, n)
             /\ ~ past[k].found => Past(past[k].address, {order[i] : i \in 1 .. k}, n)}
<1>9. 0 \in K
  <2>1. past[0] = Begin
    BY <1>1, <1>8
  <2>2. HeapStart \in Candidates
    BY DEF Candidates
  <2>3. Past(HeapStart, {order[i] : i \in 1 .. 0}, n)
    <3>1. \A c \in Candidates : ~ (c < HeapStart)
      <4> SUFFICES ASSUME NEW c \in Candidates PROVE ~ (c < HeapStart)
        OBVIOUS
      <4>1. CASE c = HeapStart
        BY <4>1, BlocksApart
      <4>2. CASE c # HeapStart
        <5>1. PICK d \in blocks : c = End(d)
          BY <4>2 DEF Candidates
        <5> QED BY <5>1, BlocksApart
      <4> QED BY <4>1, <4>2
    <3> QED BY <3>1 DEF Past
  <2>4. past[0] \in Progress /\ past[0].address = HeapStart /\ ~ past[0].found
    BY <2>1, <2>2 DEF Begin, Progress
  <2> QED BY <2>3, <2>4
<1>10. ASSUME NEW k \in K PROVE k + 1 \in K
  <2>1. SUFFICES ASSUME k + 1 <= N PROVE k + 1 \in K
    OBVIOUS
  <2>2. k \in Nat /\ k + 1 \in 1 .. N /\ k <= N /\ k + 1 \in 0 .. N /\ (k + 1) - 1 = k /\ k + 1 # 0
    BY <1>1, <2>1
  <2>3. past[k + 1] = Turn(past[k], order[k + 1], n)
    BY <1>8, <2>2
  <2>4. /\ past[k] \in Progress
        /\ past[k].found => Found(past[k].address, n)
        /\ ~ past[k].found => Past(past[k].address, {order[i] : i \in 1 .. (k + 1) - 1}, n)
    BY <2>2
  <2>5. k + 1 \in DOMAIN Ascending(Starts)
    BY <1>1, <2>2 DEF order
  <2> DEFINE m == k + 1
  <2> HIDE DEF m
  <2>6. m \in DOMAIN Ascending(Starts) /\ past[k + 1] = Turn(past[k], order[m], n)
    BY <2>3, <2>5 DEF m
  <2>7. /\ past[k].found => Found(past[k].address, n)
        /\ ~ past[k].found => Past(past[k].address, {order[i] : i \in 1 .. m - 1}, n)
    BY <2>4 DEF m
  <2>8. /\ past[k + 1] \in Progress
        /\ past[k + 1].found => Found(past[k + 1].address, n)
        /\ ~ past[k + 1].found => Past(past[k + 1].address, {order[i] : i \in 1 .. m}, n)
    BY <2>4, <2>6, <2>7, TurnPasses, Zenon DEF order
  <2> QED BY <2>2, <2>8 DEF m
<1>11. N \in K
  <2> HIDE DEF K
  <2>1. K \in SUBSET Nat
    BY DEF K
  <2> QED BY <1>1, <1>9, <1>10, <2>1, SetInduction
<1>12. /\ past[N] \in Progress
       /\ past[N].found => Found(past[N].address, n)
       /\ ~ past[N].found => Past(past[N].address, Starts, n)
  <2>1. {order[i] : i \in 1 .. N} = Starts
    BY <1>1, OrderOfBlocks DEF order, Range
  <2>2. /\ N <= N /\ N \in Nat
        /\ N \in K
    BY <1>1, <1>11
  <2> QED BY <2>1, <2>2
<1>13. past[N].address \in Candidates /\ past[N].found \in BOOLEAN
  BY <1>12 DEF Progress
<1>14. Found(past[N].address, n)
  BY <1>12, <1>13, PastAll
<1> QED BY <1>2, <1>13, <1>14 DEF FirstFit, Found

\* Malloc is stated with the block FirstFit names; the loop of the code returns
\* that block, for every operand, whatever blocks are live.
THEOREM LoopIsFirstFit == Spec => []ScanIsFirstFit
<1>1. Inv => ScanIsFirstFit
  BY BlockSizeProperties, ScanFinds DEF ScanIsFirstFit
<1> QED BY <1>1, InitInv, InvNext, PTL DEF Spec

-----------------------------------------------------------------------------
(* The refinement: every step of the heap is a step that Allocation allows  *)
(* a story to see, or none at all.                                           *)

\* The snapshots as Allocation sees them.
Seen(s) == <<Program(s), s.blocks>>
SeenAll(q) == [i \in DOMAIN q |-> Seen(q[i])]

\* Seeing a sequence of snapshots as Allocation does keeps its length and order.
LEMMA SeenAllProperties ==
  ASSUME NEW q \in Seq(HeapRecord)
  PROVE  /\ SeenAll(q) \in Seq({Seen(s) : s \in HeapRecord})
         /\ Len(SeenAll(q)) = Len(q)
         /\ \A i \in 1 .. Len(q) : SeenAll(q)[i] = Seen(q[i])
<1>1. DOMAIN q = 1 .. Len(q) /\ Len(q) \in Nat /\ \A i \in 1 .. Len(q) : q[i] \in HeapRecord
  OBVIOUS
<1> DEFINE S == {Seen(s) : s \in HeapRecord}
           r == SeenAll(q)
<1>2. r = [i \in 1 .. Len(q) |-> Seen(q[i])]
  BY <1>1 DEF SeenAll
<1>3. \A i \in 1 .. Len(q) : r[i] \in S
  BY <1>1, <1>2
<1>4. r \in [1 .. Len(q) -> S]
  BY <1>2, <1>3
<1>5. r \in Seq(S) /\ Len(r) = Len(q)
  <2> HIDE DEF S, r
  <2> QED BY <1>1, <1>4
<1> QED BY <1>2, <1>5

\* What is seen of a queue without its k oldest snapshots.
LEMMA SeenSuffix ==
  ASSUME NEW q \in Seq(HeapRecord), NEW k \in 0 .. Len(q)
  PROVE  SeenAll(SubSeq(q, k + 1, Len(q))) = SubSeq(SeenAll(q), k + 1, Len(SeenAll(q)))
<1> DEFINE S == {Seen(s) : s \in HeapRecord}
           r == SubSeq(q, k + 1, Len(q))
           u == SeenAll(q)
           w == SubSeq(u, k + 1, Len(u))
<1>1. /\ r \in Seq(HeapRecord) /\ Len(r) = Len(q) - k
      /\ \A i \in 1 .. Len(q) - k : r[i] = q[k + i]
  BY SuffixProperties
<1>2. u \in Seq(S) /\ Len(u) = Len(q) /\ \A i \in 1 .. Len(q) : u[i] = Seen(q[i])
  BY SeenAllProperties
<1> HIDE DEF S, u, r
<1>3. /\ w \in Seq(S) /\ Len(w) = Len(u) - k
      /\ \A i \in 1 .. Len(u) - k : w[i] = u[k + i]
  BY <1>2, SuffixProperties
<1>4. Len(q) \in Nat /\ k \in 0 .. Len(q)
  OBVIOUS
<1> HIDE DEF w
<1>5. /\ SeenAll(r) \in Seq(S) /\ Len(SeenAll(r)) = Len(r)
      /\ \A i \in 1 .. Len(r) : SeenAll(r)[i] = Seen(r[i])
  BY <1>1, SeenAllProperties DEF S
<1>6. ASSUME NEW i \in 1 .. Len(q) - k PROVE SeenAll(r)[i] = w[i]
  <2>1. k + i \in 1 .. Len(q) /\ i \in 1 .. Len(r)
    BY <1>1, <1>4
  <2> QED BY <2>1, <1>1, <1>2, <1>3, <1>5
<1>7. SeenAll(r) = w
  BY <1>1, <1>2, <1>3, <1>5, <1>6, SeqEqual
<1> QED BY <1>7 DEF r, w, u

\* ... without its newest ...
LEMMA SeenFront ==
  ASSUME NEW q \in Seq(HeapRecord), q # <<>>
  PROVE  SeenAll(SubSeq(q, 1, Len(q) - 1)) = SubSeq(SeenAll(q), 1, Len(SeenAll(q)) - 1)
<1> DEFINE S == {Seen(s) : s \in HeapRecord}
           r == SubSeq(q, 1, Len(q) - 1)
           u == SeenAll(q)
           w == SubSeq(u, 1, Len(u) - 1)
<1>1. /\ r \in Seq(HeapRecord) /\ Len(r) = Len(q) - 1
      /\ \A i \in 1 .. Len(q) - 1 : r[i] = q[i]
  BY FrontProperties
<1>2. u \in Seq(S) /\ Len(u) = Len(q) /\ \A i \in 1 .. Len(q) : u[i] = Seen(q[i])
  BY SeenAllProperties
<1>3. Len(q) \in Nat \ {0}
  OBVIOUS
<1> HIDE DEF S, u, r
<1>4. u # <<>>
  BY <1>2, <1>3, EmptySeq
<1>5. /\ w \in Seq(S) /\ Len(w) = Len(u) - 1
      /\ \A i \in 1 .. Len(u) - 1 : w[i] = u[i]
  BY <1>2, <1>4, FrontProperties
<1> HIDE DEF w
<1>6. /\ SeenAll(r) \in Seq(S) /\ Len(SeenAll(r)) = Len(r)
      /\ \A i \in 1 .. Len(r) : SeenAll(r)[i] = Seen(r[i])
  BY <1>1, SeenAllProperties DEF S
<1>7. ASSUME NEW i \in 1 .. Len(q) - 1 PROVE SeenAll(r)[i] = w[i]
  BY <1>1, <1>2, <1>3, <1>5, <1>6
<1>8. SeenAll(r) = w
  BY <1>1, <1>2, <1>5, <1>6, <1>7, SeqEqual
<1> QED BY <1>8 DEF r, w, u

\* ... and with one more.
LEMMA SeenAppend ==
  ASSUME NEW q \in Seq(HeapRecord), NEW s \in HeapRecord
  PROVE  SeenAll(Append(q, s)) = Append(SeenAll(q), Seen(s))
<1> DEFINE S == {Seen(t) : t \in HeapRecord}
           r == Append(q, s)
           u == SeenAll(q)
           w == Append(u, Seen(s))
<1>1. /\ r \in Seq(HeapRecord) /\ Len(r) = Len(q) + 1 /\ r[Len(q) + 1] = s
      /\ \A i \in 1 .. Len(q) : r[i] = q[i]
  BY AppendProperties
<1>2. u \in Seq(S) /\ Len(u) = Len(q) /\ \A i \in 1 .. Len(q) : u[i] = Seen(q[i])
  BY SeenAllProperties
<1>3. Seen(s) \in S /\ Len(q) \in Nat
  OBVIOUS
<1> HIDE DEF S, u, r
<1>4. /\ w \in Seq(S) /\ Len(w) = Len(u) + 1 /\ w[Len(u) + 1] = Seen(s)
      /\ \A i \in 1 .. Len(u) : w[i] = u[i]
  BY <1>2, <1>3, AppendProperties
<1> HIDE DEF w
<1>5. /\ SeenAll(r) \in Seq(S) /\ Len(SeenAll(r)) = Len(r)
      /\ \A i \in 1 .. Len(r) : SeenAll(r)[i] = Seen(r[i])
  BY <1>1, SeenAllProperties DEF S
<1>6. ASSUME NEW i \in 1 .. Len(r) PROVE SeenAll(r)[i] = w[i]
  <2>1. i = Len(q) + 1 \/ i \in 1 .. Len(q)
    BY <1>1, <1>3
  <2> QED BY <2>1, <1>1, <1>2, <1>4, <1>5
<1>7. SeenAll(r) = w
  BY <1>1, <1>2, <1>4, <1>5, <1>6, SeqEqual
<1> QED BY <1>7 DEF r, w, u

-----------------------------------------------------------------------------
(* The mapping of states *)

\* A live heap is one that Allocation calls sound, whatever its variables hold.
LEMMA SoundHeap ==
  ASSUME NEW l \in Nat, NEW h, NEW B, OrigEnd <= l, l < Word,
         B \subseteq Block,
         B # {} => h \in OrigEnd .. l,
         \A b \in B : b[2] > 0 /\ h <= b[1] /\ End(b) <= l,
         \A b, c \in B : b # c => Apart(b, c)
  PROVE  Abstract!Sound(IF B = {} THEN l ELSE h, B)
<1>1. OrigEnd \in Nat /\ Word \in Nat
  BY HeapAssumption
<1>2. (IF B = {} THEN l ELSE h) \in OrigEnd .. Word - 1
  <2>1. CASE B = {}
    BY <1>1, <2>1
  <2>2. CASE B # {}
    <3>1. h \in Nat /\ OrigEnd <= h /\ h <= l
      BY <1>1, <2>2
    <3> QED BY <1>1, <2>2, <3>1
  <2> QED BY <2>1, <2>2
<1>3. \A b \in B : b[1] \in Nat /\ b[2] \in Nat
  BY <1>1 DEF Block, Address
<1>4. \A b \in B : b[2] > 0 /\ (IF B = {} THEN l ELSE h) <= b[1] /\ b[1] + b[2] < Word
  BY <1>1, <1>3 DEF End
<1> QED BY <1>2, <1>4 DEF Abstract!Sound, Abstract!Address, Abstract!Apart, Apart, End, Block, Address

\* While the invariant holds, the memory outside the heap ends at HeapStart.
LEMMA ProgramIsHeapStart == Program(Snapshot) = HeapStart
BY DEF Program, Snapshot, HeapStart

\* The same in the next state.
LEMMA ProgramNext == Program(Snapshot)' = IF blocks' = {} THEN len' ELSE heap_next'
BY DEF Program, Snapshot

\* The deque, as the refinement mapping writes it.
LEMMA SavedIsSeen == [i \in DOMAIN undo |-> <<Program(undo[i]), undo[i].blocks>>] = SeenAll(undo)
BY DEF SeenAll, Seen

\* The same in the next state.
LEMMA SavedIsSeenNext ==
  [i \in DOMAIN undo |-> <<Program(undo[i]), undo[i].blocks>>]' = SeenAll(undo')
BY DEF SeenAll, Seen, Program

\* A step to a state in which Inv holds reaches a heap that is sound.
LEMMA SoundNext ==
  ASSUME Inv'
  PROVE  Abstract!Sound(Program(Snapshot)', blocks')
<1>1. Word \in Nat /\ OrigEnd \in Nat /\ PageSize \in Nat \ {0}
      /\ Limits \subseteq OrigEnd .. Word - PageSize
  BY HeapAssumption
<1>2. maximum' \in Limits /\ len' \in OrigEnd .. maximum'
  BY DEF Inv, LiveOK
<1>3. len' \in Nat /\ OrigEnd <= len' /\ len' < Word
  BY <1>1, <1>2
<1>4. /\ blocks' \subseteq Block
      /\ blocks' # {} => heap_next' \in OrigEnd .. len'
      /\ \A b \in blocks' : b[2] > 0 /\ heap_next' <= b[1] /\ End(b) <= len'
      /\ \A b, c \in blocks' : b # c => Apart(b, c)
  BY DEF Inv, LiveOK, End, Apart
<1>5. Abstract!Sound(IF blocks' = {} THEN len' ELSE heap_next', blocks')
  BY <1>3, <1>4, SoundHeap
<1> QED BY <1>5, ProgramNext

-----------------------------------------------------------------------------
(* The steps *)

LEMMA MallocAllocates ==
  ASSUME Inv, Inv', NEW size \in Sizes, Malloc(size)
  PROVE  Abstract!ANext
<1> DEFINE n == BlockSize(size)
<1>1. n \in Nat \ {0} /\ n < Word
  BY BlockSizeProperties DEF Malloc
<1> HIDE DEF n
<1>2. PICK a \in Candidates : FirstFit(a, n) /\ blocks' = Without(a) \cup {<<a, n>>}
  BY DEF Malloc, n
<1>3. a \in Nat /\ \A b \in blocks : Apart(<<a, n>>, b)
  BY <1>1, <1>2, FirstFitIsFree DEF Free
<1>4. \A b \in blocks : b[1] # a
  BY <1>1, <1>3, Bounds DEF Apart, End
<1>5. <<a, n>> \notin blocks /\ blocks' = blocks \cup {<<a, n>>}
  BY <1>2, <1>4 DEF Without
<1>6. heap_next' = HeapStart /\ Program(Snapshot)' = Program(Snapshot)
  BY <1>5, ProgramNext, ProgramIsHeapStart DEF Malloc
<1>7. <<a, n>> \in Abstract!Address \X Abstract!Address
  BY <1>5 DEF Inv, LiveOK, Block, Address, Abstract!Address
<1>8. UNCHANGED undo
  BY DEF Malloc
<1>9. Abstract!Allocate(<<a, n>>)
  BY <1>5, <1>6, <1>8, SoundNext, SavedIsSeen, SavedIsSeenNext DEF Abstract!Allocate
<1> QED BY <1>7, <1>9 DEF Abstract!ANext

\* mfree releases one block; giving the memory of the heap back is invisible.
LEMMA MfreeReleases ==
  ASSUME Inv, Inv', NEW a \in Address, Mfree(a)
  PROVE  Abstract!ANext
<1>1. PICK b \in blocks : b[1] = a
  BY DEF Mfree
<1>2. ASSUME NEW c \in blocks, c[1] = a PROVE c = b
  <2>1. c # b => Apart(b, c)
    BY DEF Inv, LiveOK
  <2> QED BY <1>1, <1>2, <2>1, Bounds DEF Apart, End
<1>3. blocks' = blocks \ {b}
  BY <1>1, <1>2 DEF Mfree, Without
<1>4. Resizable(heap_next) /\ HeapStart = heap_next
  BY <1>1, Bounds, HeapAssumption DEF Resizable, Sizable, HeapStart
<1>5. Program(Snapshot)' = Program(Snapshot)
  BY <1>4, ProgramNext, ProgramIsHeapStart DEF Mfree
<1>6. b \in Abstract!Address \X Abstract!Address
  BY DEF Inv, LiveOK, Block, Address, Abstract!Address
<1>7. UNCHANGED undo
  BY DEF Mfree
<1>8. Abstract!Release(b)
  BY <1>3, <1>5, <1>7, SavedIsSeen, SavedIsSeenNext DEF Abstract!Release
<1> QED BY <1>6, <1>8 DEF Abstract!ANext

\* saveundo saves what the story sees of its memory.
LEMMA SaveUndoSaves ==
  ASSUME Inv, SaveUndo
  PROVE  Abstract!ANext
<1>1. PICK k \in 0 .. Len(undo) : undo' = Append(SubSeq(undo, k + 1, Len(undo)), Snapshot)
  BY DEF SaveUndo
<1>2. undo \in Seq(HeapRecord) /\ Snapshot \in HeapRecord
  BY SnapshotOK DEF Inv, UndoOK
<1> DEFINE q == SubSeq(undo, k + 1, Len(undo))
           s == SeenAll(undo)
<1>3. q \in Seq(HeapRecord)
  BY <1>2, SuffixProperties
<1>4. SeenAll(q) = SubSeq(s, k + 1, Len(s)) /\ Len(s) = Len(undo)
  BY <1>2, SeenSuffix, SeenAllProperties
<1> HIDE DEF q, s
<1>5. SeenAll(undo') = Append(SeenAll(q), Seen(Snapshot))
  BY <1>1, <1>2, <1>3, SeenAppend DEF q
<1>6. SeenAll(undo') = Append(SubSeq(s, k + 1, Len(s)), <<Program(Snapshot), blocks>>)
  BY <1>4, <1>5 DEF Seen, Snapshot
<1>7. UNCHANGED <<Program(Snapshot), blocks>>
  BY DEF SaveUndo, Program, Snapshot
<1>8. Abstract!Save
  <2>1. k \in 0 .. Len(s)
    BY <1>4
  <2> QED BY <2>1, <1>6, <1>7, SavedIsSeen, SavedIsSeenNext DEF Abstract!Save, s
<1> QED BY <1>8 DEF Abstract!ANext

\* restoreundo restores it.
LEMMA RestoreUndoRestores ==
  ASSUME Inv, RestoreUndo
  PROVE  Abstract!ANext
<1>1. undo \in Seq(HeapRecord) /\ undo # <<>>
  BY DEF Inv, UndoOK, RestoreUndo
<1>2. Len(undo) \in 1 .. Len(undo)
  BY <1>1
<1> DEFINE s == SeenAll(undo)
<1>3. Len(s) = Len(undo) /\ s[Len(s)] = Seen(undo[Len(undo)])
  BY <1>1, <1>2, SeenAllProperties
<1>4. s # <<>>
  BY <1>2, <1>3, EmptySeq
<1>5. SeenAll(undo') = SubSeq(s, 1, Len(s) - 1)
  BY <1>1, SeenFront DEF RestoreUndo
<1>6. <<Program(Snapshot)', blocks'>> = Seen(undo[Len(undo)])
  BY DEF RestoreUndo, Program, Snapshot, Seen
<1>7. Abstract!Restore
  <2> HIDE DEF s
  <2>1. [i \in DOMAIN undo |-> <<Program(undo[i]), undo[i].blocks>>] = s
    BY SavedIsSeen DEF s
  <2> QED BY <2>1, <1>3, <1>4, <1>5, <1>6, SavedIsSeenNext DEF Abstract!Restore
<1> QED BY <1>7 DEF Abstract!ANext

\* discardundo drops the newest snapshot.
LEMMA DiscardUndoDrops ==
  ASSUME Inv, DiscardUndo
  PROVE  Abstract!ANext
<1>1. undo \in Seq(HeapRecord) /\ undo # <<>> /\ Len(undo) \in Nat \ {0}
  BY DEF Inv, UndoOK, DiscardUndo
<1> DEFINE s == SeenAll(undo)
<1>2. SeenAll(undo') = SubSeq(s, 1, Len(s) - 1) /\ Len(s) = Len(undo)
  BY <1>1, SeenFront, SeenAllProperties DEF DiscardUndo
<1>3. UNCHANGED <<Program(Snapshot), blocks>>
  BY DEF DiscardUndo, Program, Snapshot
<1>4. Abstract!Drop
  <2> HIDE DEF s
  <2>1. [i \in DOMAIN undo |-> <<Program(undo[i]), undo[i].blocks>>] = s
    BY SavedIsSeen DEF s
  <2>2. 0 \in 0 .. Len(s) /\ Len(s) - 1 \in 0 .. Len(s)
        /\ SeenAll(undo') = SubSeq(s, 0 + 1, Len(s) - 1)
    BY <1>1, <1>2
  <2> QED BY <2>1, <2>2, <1>3, SavedIsSeenNext DEF Abstract!Drop
<1> QED BY <1>4 DEF Abstract!ANext

\* Resuming a session drops snapshots at most.
LEMMA ResumeDrops ==
  ASSUME Inv, NEW m \in Limits, ResumeSession(m)
  PROVE  Abstract!ANext
<1>1. PICK k \in 0 .. Len(undo) : undo' = SubSeq(undo, k + 1, Len(undo))
  BY DEF ResumeSession
<1>2. undo \in Seq(HeapRecord) /\ Len(undo) \in Nat
  BY DEF Inv, UndoOK
<1> DEFINE s == SeenAll(undo)
<1>3. SeenAll(undo') = SubSeq(s, k + 1, Len(s)) /\ Len(s) = Len(undo)
  BY <1>1, <1>2, SeenSuffix, SeenAllProperties
<1>4. UNCHANGED <<Program(Snapshot), blocks>>
  BY DEF ResumeSession, Program, Snapshot
<1>5. Abstract!Drop
  <2> HIDE DEF s
  <2>1. [i \in DOMAIN undo |-> <<Program(undo[i]), undo[i].blocks>>] = s
    BY SavedIsSeen DEF s
  <2>2. k \in 0 .. Len(s) /\ Len(s) \in 0 .. Len(s)
    BY <1>2, <1>3
  <2> QED BY <2>1, <2>2, <1>3, <1>4, SavedIsSeenNext DEF Abstract!Drop
<1> QED BY <1>5 DEF Abstract!ANext

\* Every step of the heap is a step of Allocation, or invisible to the story.
LEMMA StepImplements == Inv /\ Inv' /\ [Next]_vars => [Abstract!ANext]_(Abstract!avars)
<1> SUFFICES ASSUME Inv, Inv', [Next]_vars PROVE [Abstract!ANext]_(Abstract!avars)
  OBVIOUS
<1>1. ASSUME NEW size \in Sizes, Malloc(size) PROVE Abstract!ANext
  BY <1>1, MallocAllocates
<1>2. ASSUME NEW size \in Sizes, MallocFails(size) PROVE UNCHANGED Abstract!avars
  <2>1. /\ UNCHANGED <<len, maximum, blocks, undo>>
        /\ heap_next' = heap_next \/ heap_next' = HeapStart
    BY <1>2 DEF MallocFails, vars
  <2>2. UNCHANGED Program(Snapshot)
    BY <2>1, ProgramNext, ProgramIsHeapStart DEF HeapStart
  <2> QED BY <2>1, <2>2, SavedIsSeen, SavedIsSeenNext DEF Abstract!avars
<1>3. ASSUME NEW a \in Address, Mfree(a) PROVE Abstract!ANext
  BY <1>3, MfreeReleases
<1>4. ASSUME NEW n \in Address, SetMemSize(n) PROVE Abstract!ANext
  <2>1. Program(Snapshot)' = n /\ blocks = {} /\ UNCHANGED <<blocks, undo>>
    BY <1>4, ProgramNext DEF SetMemSize
  <2>2. Abstract!SetSize(n)
    BY <2>1, SavedIsSeen, SavedIsSeenNext DEF Abstract!SetSize
  <2> QED BY <2>2 DEF Abstract!ANext, Abstract!Address, Address
<1>5. CASE SaveUndo
  BY <1>5, SaveUndoSaves
<1>6. CASE RestoreUndo
  BY <1>6, RestoreUndoRestores
<1>7. CASE DiscardUndo
  BY <1>7, DiscardUndoDrops
<1>8. CASE Restart
  <2>1. Program(Snapshot)' = OrigEnd /\ blocks' = {} /\ UNCHANGED undo
    BY <1>8, ProgramNext DEF Restart
  <2> QED BY <2>1, SavedIsSeen, SavedIsSeenNext DEF Abstract!Reset, Abstract!ANext
<1>9. ASSUME NEW f \in Files, RestoreFile(f) PROVE Abstract!ANext
  <2>1. UNCHANGED undo
    BY <1>9 DEF RestoreFile
  <2>2. Program(Snapshot)' = Program(f) /\ blocks' = f.blocks
    BY <1>9, ProgramNext DEF RestoreFile, Program
  <2>3. <<Program(Snapshot)', blocks'>> \in {<<Program(g), g.blocks>> : g \in Files}
    BY <2>2
  <2> QED BY <2>1, <2>3, SoundNext, SavedIsSeen, SavedIsSeenNext DEF Abstract!Load, Abstract!ANext
<1>10. ASSUME NEW m \in Limits, ResumeSession(m) PROVE Abstract!ANext
  BY <1>10, ResumeDrops
<1>11. CASE UNCHANGED vars
  <2>1. UNCHANGED <<Program(Snapshot), blocks, undo>>
    BY <1>11 DEF vars, Program, Snapshot
  <2> QED BY <2>1, SavedIsSeen, SavedIsSeenNext DEF Abstract!avars
<1> QED
  BY <1>1, <1>2, <1>3, <1>4, <1>5, <1>6, <1>7, <1>8, <1>9, <1>10, <1>11 DEF Next

\* A heap just loaded is an initial state of Allocation.
LEMMA InitImplements == Init => Abstract!AInit
<1> SUFFICES ASSUME Init PROVE Abstract!AInit
  OBVIOUS
<1>1. Program(Snapshot) = OrigEnd /\ blocks = {}
  BY ProgramIsHeapStart DEF Init, HeapStart
<1>2. undo = <<>> /\ undo \in Seq(HeapRecord)
  BY DEF Init
<1>3. SeenAll(undo) = <<>>
  <2>1. SeenAll(undo) \in Seq({Seen(s) : s \in HeapRecord}) /\ Len(SeenAll(undo)) = 0
    BY <1>2, SeenAllProperties
  <2> QED BY <2>1, EmptySeq
<1> QED BY <1>1, <1>3, SavedIsSeen DEF Abstract!AInit

\* First fit over a growing memory implements the allocator a story is promised:
\* blocks appear only where nothing lives, setmemsize, malloc and mfree leave
\* everything else alone, and undo brings back exactly what was saved.
THEOREM HeapAllocates == Spec => Allocates
<1>1. Spec => []Inv
  BY InitInv, InvNext, PTL DEF Spec
<1> QED BY <1>1, InitImplements, StepImplements, PTL DEF Spec, Allocates, Abstract!ASpec
=============================================================================
