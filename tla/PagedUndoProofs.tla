--------------------------- MODULE PagedUndoProofs ---------------------------
(* Proofs about PagedUndo, for every page size, story, limit and budget. *)
EXTENDS PagedUndo, CollectionLemmas, FiniteSetTheorems, SequenceTheorems, TLAPS

Image == [Page -> Content]

\* A page of zeros, what memory grows by, is a page.
LEMMA ZeroIsContent == Zero \in Content
BY SizeAssumption DEF Zero, Content, Byte, Offset

\* What baseline_page gives is a page, and zeros above the story.
LEMMA BaselineIsContent ==
  ASSUME NEW p \in Page
  PROVE  Baseline(p) \in Content /\ (p >= OrigPages => Baseline(p) = Zero)
BY SizeAssumption, ZeroIsContent DEF Baseline, Page

\* A stored value is truncated to a byte.
LEMMA ModIsByte == ASSUME NEW v \in Int PROVE v % ByteMod \in Byte
BY SizeAssumption DEF Byte

\* A write of write_bytes changes the touched pages only, and leaves pages.
LEMMA StoredIsImage ==
  ASSUME NEW image \in Image, NEW from \in Int, NEW n \in Int, NEW v \in Int
  PROVE  /\ Stored(image, from, n, v) \in Image
         /\ \A p \in Page \ Touched(from, n) : Stored(image, from, n, v)[p] = image[p]
BY ModIsByte DEF Stored, Image, Content, Touched

\* A page with a cell below the end of memory is below that end.
LEMMA PageBelow ==
  ASSUME NEW p \in Nat, NEW l \in Nat, NEW o \in Nat, p * PageSize + o < l * PageSize
  PROVE  p < l
<1>1. ASSUME p >= l PROVE p * PageSize >= l * PageSize
  BY <1>1, SizeAssumption
<1>2. p * PageSize \in Nat /\ l * PageSize \in Nat
  BY SizeAssumption
<1> QED BY <1>1, <1>2

\* A store inside memory touches no page above its end.
LEMMA StoredAbove ==
  ASSUME NEW from \in Int, NEW n \in Int, NEW l \in Nat,
         from + n <= l * PageSize,
         NEW p \in Touched(from, n)
  PROVE  p < l
<1>1. p \in Nat
  BY SizeAssumption DEF Touched, Page
<1>2. l * PageSize \in Nat
  BY SizeAssumption
<1>3. PICK o \in Offset : p * PageSize + o \in from .. from + n - 1
  BY DEF Touched
<1>4. o \in Nat /\ p * PageSize \in Nat
  BY <1>1, SizeAssumption DEF Offset
<1>5. p * PageSize + o < l * PageSize
  BY <1>2, <1>3, <1>4
<1> QED BY <1>1, <1>4, <1>5, PageBelow

-----------------------------------------------------------------------------
(* Sequences of snapshots *)

LEMMA WithoutProperties ==
  ASSUME NEW S, NEW q \in Seq(S), NEW k \in 0 .. Len(q)
  PROVE  /\ Without(q, k) \in Seq(S)
         /\ Len(Without(q, k)) = Len(q) - k
         /\ \A i \in 1 .. Len(q) - k : Without(q, k)[i] = q[k + i]
BY SuffixProperties DEF Without

-----------------------------------------------------------------------------
(* The images an operation installs *)

LEMMA ResultIsImage ==
  ASSUME NEW image \in Image, NEW dest \in Destination, NEW v \in Int, NEW n \in Nat,
         Writable(dest, n)
  PROVE  /\ Result(image, dest, v) \in Image
         /\ \A p \in Page \ ResultPages(dest) : Result(image, dest, v)[p] = image[p]
         /\ \A p \in ResultPages(dest) : p \in Page /\ p < n
<1>1. CASE dest = Elsewhere
  BY <1>1 DEF Result, ResultPages
<1>2. CASE dest # Elsewhere
  <2>1. dest \in Nat /\ n * PageSize \in Nat /\ dest < n * PageSize
    BY <1>2, SizeAssumption DEF Destination, Cell, Writable
  <2>2. dest + 1 <= n * PageSize
    BY <2>1
  <2>3. \A p \in Touched(dest, 1) : p \in Page /\ p < n
    BY <2>1, <2>2, StoredAbove DEF Touched
  <2> QED
    BY <1>2, <2>1, <2>3, StoredIsImage DEF Result, ResultPages
<1> QED BY <1>1, <1>2

\* restore_protected writes pages, and none above the end of memory.
LEMMA ProtectIsImage ==
  ASSUME TypeOK, NEW image \in Image, NEW n \in Nat
  PROVE  /\ Protect(image, n) \in Image
         /\ \A p \in Page : p >= n => Protect(image, n)[p] = image[p]
<1>1. Protect(image, n) \in Image
  BY DEF TypeOK, Image, Content, Protect
<1>2. ASSUME NEW p \in Page, p >= n PROVE Protect(image, n)[p] = image[p]
  <2>1. ~ (p < n)
    BY <1>2, SizeAssumption DEF Page
  <2> QED BY <2>1 DEF Protect, Image, Content
<1> QED BY <1>1, <1>2

\* The image of a snapshot is zero above the memory it was taken of.
LEMMA SnapImageIsImage ==
  ASSUME NEW s \in SnapshotType
  PROVE  /\ SnapImage(s) \in Image
         /\ \A n \in Nat : n >= OrigPages /\ DOMAIN s.pages \subseteq InRange(n)
              => \A p \in Page : p >= n => SnapImage(s)[p] = Zero
<1>1. PICK D \in SUBSET Page : s.pages \in [D -> Content]
  BY DEF SnapshotType
<1>2. SnapImage(s) \in Image
  BY <1>1, BaselineIsContent DEF SnapImage, Image
<1>3. ASSUME NEW n \in Nat, n >= OrigPages, DOMAIN s.pages \subseteq InRange(n),
             NEW p \in Page, p >= n
      PROVE  SnapImage(s)[p] = Zero
  <2>1. p \notin DOMAIN s.pages /\ p >= OrigPages
    BY <1>3, SizeAssumption DEF InRange, Page
  <2> QED BY <2>1, BaselineIsContent DEF SnapImage
<1> QED BY <1>2, <1>3

\* The page table snapshot_pages_with_limit builds has pages of memory only.
LEMMA SnapshotPagesType ==
  ASSUME TypeOK
  PROVE  /\ SnapshotPages \in UNION {[D -> Content] : D \in SUBSET Page}
         /\ DOMAIN SnapshotPages \subseteq InRange(len)
         /\ Cardinality(DOMAIN SnapshotPages) \in Nat
<1>1. PICK D \in SUBSET Page : BasePages \in [D -> Content]
  <2>1. CASE undo = <<>>
    <3>1. BasePages = [p \in {} |-> Zero]
      BY <2>1 DEF BasePages
    <3>2. BasePages \in [{} -> Content] /\ {} \in SUBSET Page
      BY <3>1
    <3> QED BY <3>2
  <2>2. CASE undo # <<>>
    <3>1. undo[Len(undo)] \in SnapshotType
      BY <2>2 DEF TypeOK
    <3> QED BY <2>2, <3>1 DEF BasePages, SnapshotType
  <2> QED BY <2>1, <2>2
<1> DEFINE E == (Kept \ Reverted) \cup Inserted
<1>2. E \subseteq InRange(len) /\ E \subseteq Page
  BY DEF Kept, Inserted, Changed, InRange
<1>3. \A p \in E : (IF p \in Changed THEN mem[p] ELSE BasePages[p]) \in Content
  BY <1>1 DEF TypeOK, Kept, Inserted, Changed, InRange
<1>4. SnapshotPages \in [E -> Content]
  BY <1>3 DEF SnapshotPages
<1>5. Cardinality(E) \in Nat
  <2>1. IsFiniteSet(Page)
    BY SizeAssumption, FS_Interval DEF Page
  <2> QED BY <1>2, <2>1, FS_Subset, FS_CardinalityType
<1> QED BY <1>2, <1>4, <1>5

-----------------------------------------------------------------------------
(* The type invariant and UndoRestorable, together: what a snapshot may hold  *)
(* is what makes the memory restoreundo installs well typed.                  *)

Inv == TypeOK /\ UndoRestorable

\* A machine just loaded satisfies the invariant.
LEMMA InvInit == Init => Inv
<1> SUFFICES ASSUME Init PROVE Inv
  OBVIOUS
<1>1. mem \in [Page -> Content] /\ \A p \in Page : p >= len => mem[p] = Zero
  BY BaselineIsContent DEF Init
<1>2. len \in OrigPages .. maximum /\ maximum \in Limits /\ budget \in Budgets /\ stackCost \in StackCosts
  BY SizeAssumption, PolicyAssumption DEF Init
<1>3. dirty \subseteq Page /\ undo \in Seq(SnapshotType) /\ protection \in Nat \X Nat
  BY DEF Init
<1>4. UndoRestorable
  BY DEF Init, UndoRestorable
<1> QED BY <1>1, <1>2, <1>3, <1>4 DEF Inv, TypeOK

\* Two facts every step uses: the bounds on len, and undo' after a step that
\* leaves undo alone.
LEMMA Sizes ==
  ASSUME TypeOK
  PROVE  /\ len \in Nat /\ maximum \in Nat /\ budget \in Nat /\ stackCost \in Nat \ {0}
         /\ OrigPages <= len /\ len <= maximum /\ maximum <= MaxPages
BY SizeAssumption, PolicyAssumption DEF TypeOK

\* The deque stays restorable when neither it nor the limit changes.
LEMMA UndoUnchanged ==
  ASSUME UndoRestorable, undo' = undo, maximum' = maximum
  PROVE  UndoRestorable'
BY DEF UndoRestorable

\* Writes, of the interpreter or of native code, keep the invariant.
LEMMA StoreInv ==
  ASSUME Inv, NEW from \in Cell, NEW n \in 1 .. MaxStore, NEW v \in Byte,
         Store(from, n, v) \/ NativeStore(from, n, v)
  PROVE  Inv'
<1>1. from \in Int /\ n \in Int /\ v \in Int /\ len \in Nat
  BY SizeAssumption, PolicyAssumption, Sizes DEF Cell, Byte, Inv
<1>2. mem' = Stored(mem, from, n, v) /\ mem' \in [Page -> Content]
  BY <1>1, StoredIsImage DEF Store, NativeStore, Inv, TypeOK, Image
<1>3. ASSUME NEW p \in Page, p >= len PROVE mem'[p] = Zero
  <2>1. p \notin Touched(from, n)
    BY <1>1, <1>3, StoredAbove, SizeAssumption DEF Store, NativeStore, Page
  <2> QED BY <1>1, <1>2, <1>3, <2>1, StoredIsImage DEF Inv, TypeOK, Image
<1>4. dirty' \subseteq Page
  BY DEF Store, NativeStore, Inv, TypeOK, Touched
<1>5. UndoRestorable'
  BY UndoUnchanged DEF Store, NativeStore, Inv
<1> QED
  BY <1>2, <1>3, <1>4, <1>5 DEF Store, NativeStore, Inv, TypeOK

\* setmemsize keeps the invariant: the pages cut off read as zero again.
LEMMA ResizeInv ==
  ASSUME Inv, NEW n \in OrigPages .. MaxPages, Resize(n)
  PROVE  Inv'
<1>1. mem' \in [Page -> Content] /\ \A p \in Page : p >= len' => mem'[p] = Zero
  BY ZeroIsContent, SizeAssumption DEF Resize, Inv, TypeOK, Page
<1>2. len' \in OrigPages .. maximum' /\ dirty' \subseteq Page
  BY DEF Resize, Inv, TypeOK, InRange
<1>3. UndoRestorable'
  BY UndoUnchanged DEF Resize, Inv
<1> QED BY <1>1, <1>2, <1>3 DEF Resize, Inv, TypeOK

\* A result stored by an opcode that leaves the snapshots alone.
LEMMA ResultInv ==
  ASSUME Inv, NEW dest \in Destinations, SaveUndoFails(dest) \/ RestoreUndoFails(dest)
  PROVE  Inv'
<1>1. dest \in Destination /\ len \in Nat /\ Writable(dest, len) /\ mem \in Image
  BY PolicyAssumption, Sizes
     DEF SaveUndoFails, RestoreUndoFails, Destination, Elsewhere, Inv, TypeOK, Image
<1>2. mem' = Result(mem, dest, 1) /\ dirty' = dirty \cup ResultPages(dest)
  BY DEF SaveUndoFails, RestoreUndoFails
<1>3. mem' \in Image /\ \A p \in Page \ ResultPages(dest) : mem'[p] = mem[p]
  BY <1>1, <1>2, ResultIsImage
<1>4. \A p \in ResultPages(dest) : p \in Page /\ p < len
  BY <1>1, ResultIsImage
<1>5. \A p \in Page : p >= len => mem'[p] = Zero
  BY <1>1, <1>3, <1>4, SizeAssumption DEF Inv, TypeOK, Page
<1>6. UndoRestorable'
  BY UndoUnchanged DEF SaveUndoFails, RestoreUndoFails, Inv
<1> QED
  BY <1>2, <1>3, <1>4, <1>5, <1>6 DEF SaveUndoFails, RestoreUndoFails, Inv, TypeOK, Image

\* What saveundo would push is a snapshot, and costs something.
LEMMA SnapshotIsTyped ==
  ASSUME Inv, NEW dest \in Destinations
  PROVE  /\ Snapshot(dest) \in SnapshotType
         /\ Snapshot(dest).cost \in Nat \ {0}
<1>1. dest \in Destination
  BY PolicyAssumption DEF Destination, Elsewhere
<1>2. stackCost + PageCost * Cardinality(DOMAIN SnapshotPages) \in Nat \ {0}
  BY Sizes, SnapshotPagesType, PolicyAssumption DEF Inv
<1>3. len \in OrigPages .. MaxPages
  BY Sizes, SizeAssumption DEF Inv
<1> QED BY <1>1, <1>2, <1>3, SnapshotPagesType DEF Snapshot, SnapshotType, Inv, TypeOK

\* saveundo keeps the invariant, however many snapshots trim_undo drops.
LEMMA SaveUndoInv ==
  ASSUME Inv, NEW dest \in Destinations, SaveUndo(dest)
  PROVE  Inv'
<1>1. dest \in Destination /\ len \in Nat /\ Writable(dest, len) /\ mem \in Image
  BY PolicyAssumption, Sizes DEF SaveUndo, Destination, Elsewhere, Inv, TypeOK, Image
<1>0. mem' = Result(mem, dest, 0)
  BY DEF SaveUndo
<1>2. mem' \in Image /\ \A p \in Page \ ResultPages(dest) : mem'[p] = mem[p]
  BY <1>0, <1>1, ResultIsImage
<1>3. \A p \in ResultPages(dest) : p \in Page /\ p < len
  BY <1>1, ResultIsImage
<1>4. \A p \in Page : p >= len => mem'[p] = Zero
  BY <1>1, <1>2, <1>3, SizeAssumption DEF Inv, TypeOK, Page
<1> DEFINE S == Snapshot(dest)
<1>5. PICK k \in 0 .. Len(undo) : undo' = Append(Without(undo, k), S)
  BY DEF SaveUndo
<1>6. S \in SnapshotType
  BY SnapshotIsTyped
<1>7. /\ S.len = len /\ S.pages = SnapshotPages /\ S.dest = dest
  BY DEF Snapshot
<1> HIDE DEF S
<1>8. /\ Without(undo, k) \in Seq(SnapshotType)
      /\ Len(Without(undo, k)) = Len(undo) - k
      /\ \A i \in 1 .. Len(undo) - k : Without(undo, k)[i] = undo[k + i]
  BY WithoutProperties DEF Inv, TypeOK
<1>9. undo' \in Seq(SnapshotType)
  BY <1>5, <1>6, <1>8
<1>10. UndoRestorable'
  <2> SUFFICES ASSUME NEW i \in DOMAIN undo'
               PROVE  /\ undo'[i].len \in OrigPages .. maximum'
                      /\ DOMAIN undo'[i].pages \subseteq InRange(undo'[i].len)
                      /\ Writable(undo'[i].dest, undo'[i].len)
    BY DEF UndoRestorable, InRange, Writable, Elsewhere
  <2>1. maximum' = maximum
    BY DEF SaveUndo
  <2>2. CASE i = Len(undo) - k + 1
    <3> DEFINE W == Without(undo, k)
    <3>0. W \in Seq(SnapshotType) /\ i = Len(W) + 1 /\ undo' = Append(W, S)
      BY <1>5, <1>8, <2>2
    <3> HIDE DEF W
    <3>1. undo'[i] = S
      BY <1>6, <3>0
    <3> QED BY <1>1, <1>7, <2>1, <3>1, SnapshotPagesType DEF Inv, TypeOK
  <2>3. CASE i # Len(undo) - k + 1
    <3>1. i \in 1 .. Len(undo) - k /\ k + i \in DOMAIN undo
      BY <1>5, <1>8, <2>3 DEF Inv, TypeOK
    <3>2. undo'[i] = undo[k + i]
      BY <1>5, <1>8, <3>1
    <3> QED BY <2>1, <3>1, <3>2 DEF Inv, UndoRestorable
  <2> QED BY <2>2, <2>3
<1> QED
  BY <1>2, <1>3, <1>4, <1>9, <1>10 DEF SaveUndo, Inv, TypeOK, Image

\* Popping the newest snapshot leaves the others as they were.
LEMMA FrontKeeps ==
  ASSUME Inv, undo # <<>>, undo' = SubSeq(undo, 1, Len(undo) - 1), maximum' = maximum
  PROVE  undo' \in Seq(SnapshotType) /\ UndoRestorable'
<1>1. /\ undo' \in Seq(SnapshotType)
      /\ Len(undo') = Len(undo) - 1
      /\ \A i \in 1 .. Len(undo) - 1 : undo'[i] = undo[i]
  BY FrontProperties DEF Inv, TypeOK
<1>2. \A i \in DOMAIN undo' : i \in DOMAIN undo /\ undo'[i] = undo[i]
  BY <1>1 DEF Inv, TypeOK
<1> QED BY <1>1, <1>2 DEF Inv, UndoRestorable

\* restoreundo keeps the invariant.
LEMMA RestoreUndoInv ==
  ASSUME Inv, RestoreUndo
  PROVE  Inv'
<1> DEFINE s == undo[Len(undo)]
<1>1. Len(undo) \in DOMAIN undo /\ s \in SnapshotType
  BY DEF RestoreUndo, Inv, TypeOK
<1>2. /\ s.len \in OrigPages .. maximum /\ s.len \in Nat /\ s.len >= OrigPages
      /\ DOMAIN s.pages \subseteq InRange(s.len)
      /\ Writable(s.dest, s.len) /\ s.dest \in Destination /\ s.stack \in StackCosts
  BY <1>1, SizeAssumption DEF Inv, UndoRestorable, SnapshotType
<1>3. /\ len' = s.len /\ stackCost' = s.stack
      /\ mem' = Result(Protect(SnapImage(s), s.len), s.dest, -1)
      /\ dirty' = dirty \cup InRange(s.len)
  BY DEF RestoreUndo
<1> HIDE DEF s
<1>4. /\ SnapImage(s) \in Image
      /\ \A p \in Page : p >= s.len => SnapImage(s)[p] = Zero
  BY <1>1, <1>2, SnapImageIsImage
<1> DEFINE P == Protect(SnapImage(s), s.len)
<1>5. P \in Image /\ \A p \in Page : p >= s.len => P[p] = Zero
  BY <1>2, <1>4, ProtectIsImage DEF Inv
<1> HIDE DEF P
<1>6. /\ Result(P, s.dest, -1) \in Image
      /\ \A p \in Page \ ResultPages(s.dest) : Result(P, s.dest, -1)[p] = P[p]
      /\ \A p \in ResultPages(s.dest) : p \in Page /\ p < s.len
  BY <1>2, <1>5, ResultIsImage
<1>7. mem' = Result(P, s.dest, -1)
  BY <1>3 DEF P
<1>8. \A p \in Page : p >= s.len => mem'[p] = Zero
  BY <1>2, <1>5, <1>6, <1>7, SizeAssumption DEF Page
<1>9. undo' \in Seq(SnapshotType) /\ UndoRestorable'
  BY FrontKeeps DEF RestoreUndo
<1>10. /\ maximum' = maximum /\ protection' = protection /\ budget' = budget
  BY DEF RestoreUndo
<1> QED
  BY <1>2, <1>3, <1>6, <1>7, <1>8, <1>9, <1>10 DEF Inv, TypeOK, Image, InRange

\* restart keeps the invariant.
LEMMA RestartInv ==
  ASSUME Inv, Restart
  PROVE  Inv'
<1> DEFINE B == [p \in Page |-> Baseline(p)]
<1>1. B \in Image /\ \A p \in Page : p >= OrigPages => B[p] = Zero
  BY BaselineIsContent DEF Image
<1> HIDE DEF B
<1>2. /\ Protect(B, OrigPages) \in Image
      /\ \A p \in Page : p >= OrigPages => Protect(B, OrigPages)[p] = Zero
  BY <1>1, ProtectIsImage, SizeAssumption DEF Inv
<1>3. mem' = Protect(B, OrigPages) /\ len' = OrigPages
  BY DEF Restart, B
<1>4. UndoRestorable'
  BY UndoUnchanged DEF Restart, Inv
<1>5. len' \in OrigPages .. maximum' /\ maximum' \in Limits
  BY Sizes, SizeAssumption DEF Restart, Inv, TypeOK
<1> QED
  BY <1>2, <1>3, <1>4, <1>5, PolicyAssumption DEF Restart, Inv, TypeOK, Image, InRange

\* restore of any well-formed saved game keeps the invariant.
LEMMA RestoreFileInv ==
  ASSUME Inv, NEW image \in [Page -> Content], NEW n \in OrigPages .. MaxPages,
         NEW dest \in Destinations, NEW c \in StackCosts, RestoreFile(image, n, dest, c)
  PROVE  Inv'
<1>1. n \in Nat /\ dest \in Destination /\ Writable(dest, n)
  BY SizeAssumption, PolicyAssumption DEF RestoreFile, Destination, Elsewhere
<1>2. image \in Image /\ \A p \in Page : p >= n => image[p] = Zero
  BY <1>1, SizeAssumption DEF RestoreFile, Image, InRange, Page
<1> DEFINE P == Protect(image, n)
<1>3. P \in Image /\ \A p \in Page : p >= n => P[p] = Zero
  BY <1>1, <1>2, ProtectIsImage DEF Inv
<1>4. mem' = Result(P, dest, -1) /\ len' = n
  BY DEF RestoreFile
<1> HIDE DEF P
<1>5. /\ Result(P, dest, -1) \in Image
      /\ \A p \in Page \ ResultPages(dest) : Result(P, dest, -1)[p] = P[p]
      /\ \A p \in ResultPages(dest) : p \in Page /\ p < n
  BY <1>1, <1>3, ResultIsImage
<1>6. \A p \in Page : p >= n => mem'[p] = Zero
  BY <1>1, <1>3, <1>4, <1>5, SizeAssumption DEF Page
<1>7. UndoRestorable'
  BY UndoUnchanged DEF RestoreFile, Inv
<1> QED
  BY <1>4, <1>5, <1>6, <1>7 DEF RestoreFile, Inv, TypeOK, Image, InRange

\* Resuming a desktop session keeps the invariant, for any pages it retained.
LEMMA ResumeInv ==
  ASSUME Inv, NEW b \in Budgets, NEW m \in Limits, ResumeSession(b, m)
  PROVE  Inv'
<1>1. PICK k \in 0 .. Len(undo) : undo' = Without(undo, k)
  BY DEF ResumeSession
<1>2. /\ undo' \in Seq(SnapshotType)
      /\ Len(undo') = Len(undo) - k
      /\ \A i \in 1 .. Len(undo) - k : undo'[i] = undo[k + i]
  BY <1>1, WithoutProperties DEF Inv, TypeOK
<1>3. \A i \in DOMAIN undo' : k + i \in DOMAIN undo /\ undo'[i] = undo[k + i]
  BY <1>2 DEF Inv, TypeOK
<1>4. \A i \in DOMAIN undo' : undo'[i].len <= m
  BY DEF ResumeSession
<1>5. maximum' = m /\ m \in Nat /\ OrigPages <= m
  BY SizeAssumption, PolicyAssumption DEF ResumeSession
<1>6. UndoRestorable'
  <2> SUFFICES ASSUME NEW i \in DOMAIN undo'
               PROVE  /\ undo'[i].len \in OrigPages .. m
                      /\ DOMAIN undo'[i].pages \subseteq InRange(undo'[i].len)
                      /\ Writable(undo'[i].dest, undo'[i].len)
    BY <1>5 DEF UndoRestorable, InRange, Writable, Elsewhere
  <2>1. /\ undo'[i].len \in OrigPages .. maximum
        /\ DOMAIN undo'[i].pages \subseteq InRange(undo'[i].len)
        /\ Writable(undo'[i].dest, undo'[i].len)
    BY <1>3 DEF Inv, UndoRestorable
  <2> QED BY <1>4, <1>5, <2>1, Sizes DEF Inv
<1>7. len' \in OrigPages .. maximum'
  BY <1>5, Sizes DEF ResumeSession, Inv, TypeOK
<1> QED
  BY <1>2, <1>5, <1>6, <1>7 DEF ResumeSession, Inv, TypeOK

\* Every step, of every specification of the module, preserves Inv.
LEMMA InvNext == Inv /\ [Next]_vars => Inv'
<1> SUFFICES ASSUME Inv, [Next]_vars PROVE Inv'
  OBVIOUS
<1>1. ASSUME NEW from \in Cell, NEW n \in 1 .. MaxStore, NEW v \in Byte,
             Store(from, n, v) \/ NativeStore(from, n, v)
      PROVE  Inv'
  BY <1>1, StoreInv
<1>2. ASSUME NEW n \in OrigPages .. MaxPages, Resize(n) PROVE Inv'
  BY <1>2, ResizeInv
<1>3. ASSUME NEW c \in StackCosts, UseStack(c) PROVE Inv'
  BY <1>3, UndoUnchanged DEF UseStack, Inv, TypeOK
<1>4. ASSUME NEW r \in Ranges, SetProtection(r) PROVE Inv'
  BY <1>4, UndoUnchanged, PolicyAssumption DEF SetProtection, Inv, TypeOK
<1>5. ASSUME NEW dest \in Destinations, SaveUndo(dest) PROVE Inv'
  BY <1>5, SaveUndoInv
<1>6. ASSUME NEW dest \in Destinations, SaveUndoFails(dest) \/ RestoreUndoFails(dest)
      PROVE  Inv'
  BY <1>6, ResultInv
<1>7. CASE RestoreUndo
  BY <1>7, RestoreUndoInv
<1>8. CASE Restart
  BY <1>8, RestartInv
<1>9. ASSUME NEW image \in [Page -> Content], NEW n \in OrigPages .. MaxPages,
             NEW dest \in Destinations, NEW c \in StackCosts, RestoreFile(image, n, dest, c)
      PROVE  Inv'
  BY <1>9, RestoreFileInv
<1>10. CASE DiscardUndo
  BY <1>10, FrontKeeps DEF DiscardUndo, Inv, TypeOK
<1>11. ASSUME NEW b \in Budgets, NEW m \in Limits, ResumeSession(b, m) PROVE Inv'
  BY <1>11, ResumeInv
<1>12. CASE UNCHANGED vars
  BY <1>12, UndoUnchanged DEF vars, Inv, TypeOK
<1> QED
  BY <1>1, <1>2, <1>3, <1>4, <1>5, <1>6, <1>7, <1>8, <1>9, <1>10, <1>11, <1>12
     DEF Next, ChainNext, Resume

\* Memory, dirty set and deque are well formed after any sequence of writes,
\* resizings, snapshots, restorations, restarts and changes of the limits.
THEOREM TypeCorrect == Spec => []TypeOK
<1>1. Inv => TypeOK
  BY DEF Inv
<1> QED BY <1>1, InvInit, InvNext, PTL DEF Spec

\* No sequence of steps leaves a snapshot that restore_pages would refuse:
\* restoreundo cannot stop the machine.
THEOREM Restorable == Spec => []UndoRestorable
<1>1. Inv => UndoRestorable
  BY DEF Inv
<1> QED BY <1>1, InvInit, InvNext, PTL DEF Spec

-----------------------------------------------------------------------------
(* Exactness.  UndoExact is not inductive: what the next snapshot leaves out  *)
(* is right only while Aligned holds, so the two go together.                 *)

LEMMA ExactSnapshot ==
  ASSUME Inv, Aligned, NEW p \in Page
  PROVE  (IF p \in DOMAIN SnapshotPages THEN SnapshotPages[p] ELSE Baseline(p)) = mem[p]
<1>1. DOMAIN SnapshotPages = (Kept \ Reverted) \cup Inserted
  BY DEF SnapshotPages
<1>2. len \in Nat /\ p \in Nat /\ OrigPages <= len
  BY Sizes, SizeAssumption DEF Inv, Page
<1>3. CASE p >= len
  <2>1. p \notin InRange(len)
    BY <1>2, <1>3 DEF InRange
  <2>2. p \notin DOMAIN SnapshotPages
    BY <1>1, <2>1 DEF Kept, Inserted, Changed
  <2>3. Baseline(p) = Zero
    BY <1>2, <1>3, BaselineIsContent, SizeAssumption
  <2> QED BY <1>3, <2>2, <2>3 DEF Inv, TypeOK
<1>4. CASE p < len /\ p \in dirty
  <2>1. p \in Changed
    BY <1>4 DEF Changed, InRange
  <2>2. p \in DOMAIN SnapshotPages <=> mem[p] # Baseline(p)
    BY <1>1, <2>1 DEF Reverted, Inserted
  <2>3. p \in DOMAIN SnapshotPages => SnapshotPages[p] = mem[p]
    BY <2>1 DEF SnapshotPages
  <2> QED BY <2>2, <2>3
<1>5. CASE p < len /\ p \notin dirty
  <2>1. p \in InRange(len) /\ p \notin Changed
    BY <1>5 DEF InRange, Changed
  <2>2. mem[p] = IF p \in DOMAIN BasePages THEN BasePages[p] ELSE Baseline(p)
    BY <1>5, <2>1 DEF Aligned, Base
  <2>3. p \in DOMAIN SnapshotPages <=> p \in DOMAIN BasePages
    BY <1>1, <2>1 DEF Kept, Reverted, Inserted
  <2>4. p \in DOMAIN SnapshotPages => SnapshotPages[p] = BasePages[p]
    BY <2>1 DEF SnapshotPages
  <2> QED BY <2>2, <2>3, <2>4
<1> QED BY <1>2, <1>3, <1>4, <1>5

\* A snapshot taken when Aligned holds stands for the memory it was taken from.
LEMMA SnapshotIsExact ==
  ASSUME Inv, Aligned, NEW dest
  PROVE  /\ SnapImage(Snapshot(dest)) = mem
         /\ Snapshot(dest).image = mem
<1>1. Snapshot(dest).image = mem /\ Snapshot(dest).pages = SnapshotPages
  BY DEF Snapshot
<1>2. mem = [p \in Page |-> mem[p]]
  BY DEF Inv, TypeOK
<1>3. SnapImage(Snapshot(dest)) = [p \in Page |-> mem[p]]
  BY <1>1, ExactSnapshot DEF SnapImage
<1> QED BY <1>1, <1>2, <1>3

\* Steps that leave the snapshots alone keep Aligned when each page is either
\* dirty afterwards or was in range, clean and is unchanged.
LEMMA AlignedFrame ==
  ASSUME Aligned, undo' = undo,
         \A p \in InRange(len') \ dirty' :
            p \in InRange(len) /\ p \notin dirty /\ mem'[p] = mem[p]
  PROVE  Aligned'
BY DEF Aligned, Base, BasePages

\* ... and so do steps after which every page in range is dirty.
LEMMA AlignedAllDirty ==
  ASSUME InRange(len') \subseteq dirty'
  PROVE  Aligned'
BY DEF Aligned

\* After saveundo the only dirty page is the one its result went to.
LEMMA SaveUndoLast ==
  ASSUME Inv, NEW dest \in Destinations, SaveUndo(dest)
  PROVE  /\ undo' # <<>>
         /\ undo'[Len(undo')] = Snapshot(dest)
         /\ \A i \in DOMAIN undo' :
               i = Len(undo') \/ \E j \in DOMAIN undo : undo'[i] = undo[j]
<1> DEFINE S == Snapshot(dest)
<1>1. PICK k \in 0 .. Len(undo) : undo' = Append(Without(undo, k), S)
  BY DEF SaveUndo
<1>2. S \in SnapshotType
  BY SnapshotIsTyped
<1> HIDE DEF S
<1> DEFINE W == Without(undo, k)
<1>3. /\ W \in Seq(SnapshotType)
      /\ Len(W) = Len(undo) - k
      /\ \A i \in 1 .. Len(undo) - k : W[i] = undo[k + i]
  BY WithoutProperties DEF Inv, TypeOK
<1> HIDE DEF W
<1>4. undo' = Append(W, S)
  BY <1>1 DEF W
<1>5. undo' # <<>> /\ Len(undo') = Len(W) + 1 /\ undo'[Len(undo')] = S
  BY <1>2, <1>3, <1>4
<1>6. ASSUME NEW i \in DOMAIN undo', i # Len(undo')
      PROVE  \E j \in DOMAIN undo : undo'[i] = undo[j]
  <2>1. i \in 1 .. Len(undo) - k /\ undo'[i] = W[i]
    BY <1>2, <1>3, <1>4, <1>5, <1>6
  <2>2. k + i \in DOMAIN undo /\ undo'[i] = undo[k + i]
    BY <1>3, <2>1 DEF Inv, TypeOK
  <2> QED BY <2>2
<1> QED BY <1>5, <1>6 DEF S

\* saveundo leaves nothing dirty and everything equal to the new snapshot.
LEMMA SaveUndoAligned ==
  ASSUME Inv, Aligned, NEW dest \in Destinations, SaveUndo(dest)
  PROVE  Aligned'
<1>0. /\ mem' = Result(mem, dest, 0) /\ dirty' = ResultPages(dest)
      /\ Writable(dest, len)
  BY DEF SaveUndo
<1>1. dest \in Destination /\ len \in Nat /\ mem \in Image
  BY PolicyAssumption, Sizes DEF Destination, Elsewhere, Inv, TypeOK, Image
<1>2. \A p \in Page \ ResultPages(dest) : mem'[p] = mem[p]
  BY <1>0, <1>1, ResultIsImage
<1>3. SnapImage(Snapshot(dest)) = mem
  BY SnapshotIsExact
<1>4. undo' # <<>> /\ undo'[Len(undo')] = Snapshot(dest)
  BY SaveUndoLast
<1>5. \A p \in Page : Base'[p] = mem[p]
  BY <1>3, <1>4 DEF Base, BasePages, SnapImage
<1> QED BY <1>0, <1>2, <1>5 DEF Aligned, InRange

\* The operations that replace memory mark all of it dirty.
LEMMA RestoresAreDirty ==
  ASSUME Inv,
         \/ RestoreUndo
         \/ Restart
         \/ \E image \in [Page -> Content], n \in OrigPages .. MaxPages,
               dest \in Destinations, c \in StackCosts : RestoreFile(image, n, dest, c)
  PROVE  Aligned'
<1>1. InRange(len') \subseteq dirty'
  BY DEF RestoreUndo, Restart, RestoreFile
<1> QED BY <1>1, AlignedAllDirty

\* A write marks every page it changes dirty, native code included.
LEMMA StoreAligned ==
  ASSUME Inv, Aligned, NEW from \in Cell, NEW n \in 1 .. MaxStore, NEW v \in Byte,
         Store(from, n, v) \/ NativeStore(from, n, v)
  PROVE  Aligned'
<1>1. from \in Int /\ n \in Int /\ v \in Int
  BY SizeAssumption, PolicyAssumption DEF Cell, Byte
<1>2. mem' = Stored(mem, from, n, v) /\ undo' = undo /\ len' = len
  BY DEF Store, NativeStore
<1>3. \A p \in Page \ Touched(from, n) : mem'[p] = mem[p]
  BY <1>1, <1>2, StoredIsImage DEF Inv, TypeOK, Image
<1>4. ASSUME NEW p \in InRange(len') \ dirty'
      PROVE  p \in InRange(len) /\ p \notin dirty /\ mem'[p] = mem[p]
  <2>1. p \in InRange(len) /\ p \in Page
    BY <1>2, <1>4 DEF InRange
  <2>2. CASE Store(from, n, v)
    BY <1>3, <2>1, <2>2 DEF Store
  <2>3. CASE NativeStore(from, n, v)
    BY <1>3, <2>1, <2>3 DEF NativeStore
  <2> QED BY <2>2, <2>3
<1> QED BY <1>2, <1>4, AlignedFrame

\* No step of the machine but discardundo parts dirty from the newest snapshot.
LEMMA AlignedNext == Inv /\ Aligned /\ [ChainNext]_vars => Aligned'
<1> SUFFICES ASSUME Inv, Aligned, [ChainNext]_vars PROVE Aligned'
  OBVIOUS
<1>1. ASSUME NEW from \in Cell, NEW n \in 1 .. MaxStore, NEW v \in Byte,
             Store(from, n, v) \/ NativeStore(from, n, v)
      PROVE  Aligned'
  BY <1>1, StoreAligned
<1>2. ASSUME NEW n \in OrigPages .. MaxPages, Resize(n) PROVE Aligned'
  <2>1. \A p \in InRange(len') \ dirty' :
           p \in InRange(len) /\ p \notin dirty /\ mem'[p] = mem[p]
    BY <1>2 DEF Resize, InRange
  <2> QED BY <1>2, <2>1, AlignedFrame DEF Resize
<1>3. ASSUME NEW c \in StackCosts, UseStack(c) PROVE Aligned'
  BY <1>3, AlignedFrame DEF UseStack
<1>4. ASSUME NEW r \in Ranges, SetProtection(r) PROVE Aligned'
  BY <1>4, AlignedFrame DEF SetProtection
<1>5. ASSUME NEW dest \in Destinations, SaveUndo(dest) PROVE Aligned'
  BY <1>5, SaveUndoAligned
<1>6. ASSUME NEW dest \in Destinations, SaveUndoFails(dest) \/ RestoreUndoFails(dest)
      PROVE  Aligned'
  <2>1. /\ mem' = Result(mem, dest, 1) /\ dirty' = dirty \cup ResultPages(dest)
        /\ len' = len /\ undo' = undo /\ Writable(dest, len)
    BY <1>6 DEF SaveUndoFails, RestoreUndoFails
  <2>2. dest \in Destination /\ len \in Nat /\ mem \in Image
    BY PolicyAssumption, Sizes DEF Destination, Elsewhere, Inv, TypeOK, Image
  <2>3. \A p \in Page \ ResultPages(dest) : mem'[p] = mem[p]
    BY <2>1, <2>2, ResultIsImage
  <2>4. \A p \in InRange(len') \ dirty' :
           p \in InRange(len) /\ p \notin dirty /\ mem'[p] = mem[p]
    BY <2>1, <2>3 DEF InRange
  <2> QED BY <2>1, <2>4, AlignedFrame
<1>7. CASE RestoreUndo
  BY <1>7, RestoresAreDirty
<1>8. CASE Restart
  BY <1>8, RestoresAreDirty
<1>9. ASSUME NEW image \in [Page -> Content], NEW n \in OrigPages .. MaxPages,
             NEW dest \in Destinations, NEW c \in StackCosts, RestoreFile(image, n, dest, c)
      PROVE  Aligned'
  BY <1>9, RestoresAreDirty
<1>10. CASE UNCHANGED vars
  BY <1>10, AlignedFrame DEF vars
<1> QED
  BY <1>1, <1>2, <1>3, <1>4, <1>5, <1>6, <1>7, <1>8, <1>9, <1>10 DEF ChainNext

\* mark_dirty_range and mark_all_pages_dirty keep the next snapshot exact over
\* every operation but discardundo and the resumption of a session.
THEOREM AlignmentKept == Spec => KeepsAligned
<1>1. Inv /\ [Next]_vars => [Aligned /\ ~ DiscardUndo /\ ~ Resume => Aligned']_vars
  BY AlignedNext DEF Next
<1> QED BY <1>1, InvInit, InvNext, PTL DEF Spec, KeepsAligned

\* The inductive invariant behind UndoExact.
ChainInv == Inv /\ Aligned /\ UndoExact

\* The invariant of the exact snapshots holds of a machine just loaded.
LEMMA ChainInit == Init => ChainInv
<1> SUFFICES ASSUME Init PROVE Aligned /\ UndoExact
  BY InvInit DEF ChainInv
<1>1. \A p \in Page : Base[p] = Baseline(p)
  BY DEF Init, Base, BasePages
<1>2. Aligned
  BY <1>1 DEF Init, Aligned, InRange
<1>3. UndoExact
  BY DEF Init, UndoExact
<1> QED BY <1>2, <1>3

\* Snapshots that were retained before stay exact.
LEMMA ExactKept ==
  ASSUME UndoExact, \A i \in DOMAIN undo' : \E j \in DOMAIN undo : undo'[i] = undo[j]
  PROVE  UndoExact'
BY DEF UndoExact, SnapImage

\* The invariant of the exact snapshots survives every step of ChainNext.
LEMMA ChainStep == ChainInv /\ [ChainNext]_vars => ChainInv'
<1> SUFFICES ASSUME ChainInv, [ChainNext]_vars PROVE ChainInv'
  OBVIOUS
<1>0. [Next]_vars
  BY DEF Next
<1>1. Inv' /\ Aligned'
  BY <1>0, InvNext, AlignedNext DEF ChainInv
<1>2. ASSUME undo' = undo PROVE UndoExact'
  BY <1>2 DEF ChainInv, UndoExact, SnapImage
<1>3. ASSUME NEW dest \in Destinations, SaveUndo(dest) PROVE UndoExact'
  <2>1. undo'[Len(undo')] = Snapshot(dest)
        /\ \A i \in DOMAIN undo' :
               i = Len(undo') \/ \E j \in DOMAIN undo : undo'[i] = undo[j]
    BY <1>3, SaveUndoLast DEF ChainInv
  <2>2. SnapImage(Snapshot(dest)) = Snapshot(dest).image
    BY SnapshotIsExact DEF ChainInv
  <2>3. ASSUME NEW i \in DOMAIN undo' PROVE SnapImage(undo'[i]) = undo'[i].image
    <3>1. CASE i = Len(undo')
      BY <2>1, <2>2, <3>1
    <3>2. CASE \E j \in DOMAIN undo : undo'[i] = undo[j]
      BY <3>2 DEF ChainInv, UndoExact
    <3> QED BY <2>1, <3>1, <3>2
  <2> QED BY <2>3 DEF UndoExact, SnapImage
<1>4. ASSUME RestoreUndo PROVE UndoExact'
  <2>1. undo # <<>> /\ undo' = SubSeq(undo, 1, Len(undo) - 1)
    BY <1>4 DEF RestoreUndo
  <2>2. /\ Len(undo') = Len(undo) - 1
        /\ undo' \in Seq(SnapshotType)
        /\ \A i \in 1 .. Len(undo) - 1 : undo'[i] = undo[i]
    BY <2>1, FrontProperties DEF ChainInv, Inv, TypeOK
  <2>3. \A i \in DOMAIN undo' : i \in DOMAIN undo /\ undo'[i] = undo[i]
    BY <2>2 DEF ChainInv, Inv, TypeOK
  <2> QED BY <2>3, ExactKept DEF ChainInv
<1>5. undo' = undo \/ RestoreUndo \/ \E dest \in Destinations : SaveUndo(dest)
  BY DEF ChainNext, vars, Store, NativeStore, Resize, UseStack, SetProtection,
         SaveUndoFails, RestoreUndoFails, Restart, RestoreFile
<1>6. UndoExact'
  <2>1. CASE undo' = undo
    BY <1>2, <2>1
  <2>2. CASE \E dest \in Destinations : SaveUndo(dest)
    BY <1>3, <2>2
  <2> QED BY <1>4, <1>5, <2>1, <2>2
<1> QED BY <1>1, <1>6 DEF ChainInv

\* Without discardundo and resumed sessions every incremental snapshot of
\* saveundo holds exactly the memory it was taken of.
THEOREM ExactSnapshots == ChainSpec => []UndoExact
<1>1. ChainInv => UndoExact
  BY DEF ChainInv
<1> QED BY <1>1, ChainInit, ChainStep, PTL DEF ChainSpec

-----------------------------------------------------------------------------
(* What the story observes *)

LEMMA ResultElsewhere ==
  ASSUME NEW image \in Image, NEW dest \in Destination, NEW v \in Int,
         NEW p \in Page, NEW o \in Offset, p * PageSize + o # dest
  PROVE  Result(image, dest, v)[p][o] = image[p][o]
<1>1. CASE dest = Elsewhere
  BY <1>1 DEF Result
<1>2. CASE dest # Elsewhere
  <2>1. dest \in Int /\ p * PageSize + o \in Int
    BY <1>2, SizeAssumption DEF Destination, Cell, Page, Offset
  <2>2. p * PageSize + o \notin dest .. dest + 1 - 1
    BY <2>1
  <2> QED BY <1>2, <2>2 DEF Result, Stored
<1> QED BY <1>1, <1>2

\* Hence restoreundo brings that memory back, but for the protected bytes and
\* the cell that receives its result.
THEOREM Returns == ChainSpec => UndoReturns
<1>1. ASSUME ChainInv, [ChainNext]_vars, RestoreUndo
      PROVE  /\ len' = undo[Len(undo)].len
             /\ \A p \in Page, o \in Offset :
                  \/ IsProtected(p * PageSize + o)
                  \/ undo[Len(undo)].dest = p * PageSize + o
                  \/ mem'[p][o] = undo[Len(undo)].image[p][o]
  <2> DEFINE s == undo[Len(undo)]
  <2>1. Len(undo) \in DOMAIN undo /\ s \in SnapshotType /\ SnapImage(s) = s.image
    BY <1>1 DEF RestoreUndo, ChainInv, Inv, TypeOK, UndoExact
  <2>2. /\ s.len \in Nat /\ s.dest \in Destination /\ SnapImage(s) \in Image
    BY <2>1, SizeAssumption, SnapImageIsImage DEF SnapshotType
  <2>3. mem' = Result(Protect(SnapImage(s), s.len), s.dest, -1) /\ len' = s.len
    BY <1>1 DEF RestoreUndo
  <2> HIDE DEF s
  <2>4. Protect(SnapImage(s), s.len) \in Image
    BY <1>1, <2>2, ProtectIsImage DEF ChainInv, Inv
  <2>5. ASSUME NEW p \in Page, NEW o \in Offset,
               ~ IsProtected(p * PageSize + o), s.dest # p * PageSize + o
        PROVE  mem'[p][o] = s.image[p][o]
    <3>1. mem'[p][o] = Protect(SnapImage(s), s.len)[p][o]
      BY <2>2, <2>3, <2>4, <2>5, ResultElsewhere
    <3>2. Protect(SnapImage(s), s.len)[p][o] = SnapImage(s)[p][o]
      BY <2>5 DEF Protect
    <3> QED BY <2>1, <3>1, <3>2
  <2>6. len' = s.len /\ \A p \in Page, o \in Offset :
                  \/ IsProtected(p * PageSize + o)
                  \/ s.dest = p * PageSize + o
                  \/ mem'[p][o] = s.image[p][o]
    BY <2>3, <2>5
  <2> QED BY <2>6 DEF s
<1>2. ChainInv /\ [ChainNext]_vars =>
        [ RestoreUndo =>
            /\ len' = undo[Len(undo)].len
            /\ \A p \in Page, o \in Offset :
                 \/ IsProtected(p * PageSize + o)
                 \/ undo[Len(undo)].dest = p * PageSize + o
                 \/ mem'[p][o] = undo[Len(undo)].image[p][o] ]_vars
  BY <1>1
<1> QED BY <1>2, ChainInit, ChainStep, PTL DEF ChainSpec, UndoReturns

\* What Protect does to a byte under protection below both ends of memory.
LEMMA ProtectedByte ==
  ASSUME NEW image \in Image, NEW n \in Nat, NEW p \in InRange(n), NEW o \in Offset,
         IsProtected(p * PageSize + o)
  PROVE  Protect(image, n)[p][o] = mem[p][o]
BY DEF Protect, InRange

\* restart and restoreundo leave the bytes under protect alone, whatever the
\* sizes of memory before and after.
THEOREM ProtectionKept == Spec => ProtectionHolds
<1>1. ASSUME Inv, NEW p \in InRange(len) \cap InRange(len'), NEW o \in Offset,
             Restart \/ RestoreUndo, IsProtected(p * PageSize + o),
             RestoreUndo => undo[Len(undo)].dest # p * PageSize + o
      PROVE  mem'[p][o] = mem[p][o]
  <2>1. CASE Restart
    <3> DEFINE B == [q \in Page |-> Baseline(q)]
    <3>1. mem' = Protect(B, OrigPages) /\ len' = OrigPages /\ OrigPages \in Nat
      BY <2>1, SizeAssumption DEF Restart
    <3>2. B \in Image
      BY BaselineIsContent DEF Image
    <3> HIDE DEF B
    <3> QED BY <1>1, <3>1, <3>2, ProtectedByte
  <2>2. CASE RestoreUndo
    <3> DEFINE s == undo[Len(undo)]
    <3>1. s \in SnapshotType
      BY <1>1, <2>2 DEF RestoreUndo, Inv, TypeOK
    <3>2. s.len \in Nat /\ s.dest \in Destination /\ SnapImage(s) \in Image
      BY <3>1, SizeAssumption, SnapImageIsImage DEF SnapshotType
    <3>3. /\ mem' = Result(Protect(SnapImage(s), s.len), s.dest, -1)
          /\ len' = s.len
          /\ s.dest # p * PageSize + o
      BY <1>1, <2>2 DEF RestoreUndo
    <3> HIDE DEF s
    <3>4. Protect(SnapImage(s), s.len) \in Image
      BY <1>1, <3>2, ProtectIsImage DEF Inv
    <3>5. p \in Page /\ p \in InRange(s.len)
      BY <1>1, <3>3 DEF InRange
    <3>6. mem'[p][o] = Protect(SnapImage(s), s.len)[p][o]
      BY <3>2, <3>3, <3>4, <3>5, ResultElsewhere
    <3> QED BY <1>1, <3>2, <3>5, <3>6, ProtectedByte
  <2> QED BY <1>1, <2>1, <2>2
<1>2. Inv /\ [Next]_vars =>
        [ \A p \in InRange(len) \cap InRange(len'), o \in Offset :
            /\ Restart \/ RestoreUndo
            /\ IsProtected(p * PageSize + o)
            /\ RestoreUndo => undo[Len(undo)].dest # p * PageSize + o
            => mem'[p][o] = mem[p][o] ]_vars
  BY <1>1
<1> QED BY <1>2, InvInit, InvNext, PTL DEF Spec, ProtectionHolds

-----------------------------------------------------------------------------
(* The deque keeps to its limits: UndoBounded.                                *)

Costs(queue) == [i \in DOMAIN queue |-> queue[i].cost]

\* The sum of undo_cost, as the sum the lemmas are about.
LEMMA UndoCostIsSum ==
  ASSUME NEW q \in Seq(SnapshotType)
  PROVE  UndoCost(q) = SumOf(Costs(q), DOMAIN q)
<1> DEFINE D == DOMAIN q
           w == Costs(q)
           IsCost(f) == f = [s \in SUBSET D |-> IF s = {} THEN 0 ELSE q[Pick(s)].cost + f[s \ {Pick(s)}]]
           iter == CHOOSE f : IsCost(f)
<1>1. IsFiniteSet(D) /\ D = 1 .. Len(q)
  BY FS_Interval
<1>2. w \in [D -> Int] /\ \A x \in D : w[x] = q[x].cost
  <2>1. ASSUME NEW x \in D PROVE q[x].cost \in Int
    <3>1. q[x] \in SnapshotType
      OBVIOUS
    <3> QED BY <3>1 DEF SnapshotType
  <2> QED BY <2>1 DEF Costs
<1> HIDE DEF D, w
<1>3. PICK h \in [SUBSET D -> Int] : IsSum(w, D, h)
  BY <1>1, <1>2, SumExists
<1>4. ASSUME NEW f PROVE IsCost(f) <=> IsSum(w, D, f)
  <2>1. \A s \in SUBSET D : s # {} => w[Pick(s)] = q[Pick(s)].cost
    BY <1>2 DEF Pick
  <2> QED BY <2>1 DEF IsSum
<1>5. IsSum(w, D, iter)
  BY <1>3, <1>4
<1>6. UndoCost(q) = iter[D]
  BY Zenon DEF UndoCost, MapThenSumSet, MapThenFoldSet, Pick, D
<1>7. SumOf(w, D) = iter[D]
  BY <1>1, <1>2, <1>5, SumSame
<1> QED BY <1>6, <1>7 DEF w, D

\* What is dropped from either end of the deque no longer counts, what is pushed does.
LEMMA UndoCostFacts ==
  ASSUME NEW q \in Seq(SnapshotType)
  PROVE  /\ UndoCost(q) \in Nat
         /\ \A s \in SnapshotType : UndoCost(Append(q, s)) = UndoCost(q) + s.cost
         /\ q # <<>> => UndoCost(SubSeq(q, 1, Len(q) - 1)) <= UndoCost(q)
<1>1. ASSUME NEW r \in Seq(SnapshotType)
      PROVE  /\ IsFiniteSet(DOMAIN r) /\ DOMAIN r = 1 .. Len(r)
             /\ \A i \in DOMAIN r : Costs(r)[i] \in Nat /\ Costs(r)[i] = r[i].cost
             /\ UndoCost(r) = SumOf(Costs(r), DOMAIN r)
  <2>1. \A i \in DOMAIN r : r[i] \in SnapshotType
    OBVIOUS
  <2>2. IsFiniteSet(DOMAIN r) /\ DOMAIN r = 1 .. Len(r)
    BY FS_Interval
  <2> QED BY <2>1, <2>2, UndoCostIsSum DEF Costs, SnapshotType
<1>2. UndoCost(q) \in Nat
  BY <1>1, SumMonotone
<1>3. ASSUME NEW s \in SnapshotType PROVE UndoCost(Append(q, s)) = UndoCost(q) + s.cost
  <2> DEFINE r == Append(q, s)
             n == Len(q) + 1
  <2>1. r \in Seq(SnapshotType) /\ Len(r) = n /\ r[n] = s /\ \A i \in 1 .. Len(q) : r[i] = q[i]
    OBVIOUS
  <2> HIDE DEF r
  <2>0. DOMAIN q = 1 .. Len(q) /\ DOMAIN r = 1 .. n /\ Len(q) \in Nat
    BY <1>1, <2>1
  <2>2. n \in DOMAIN r /\ DOMAIN r \ {n} = DOMAIN q
    BY <2>0
  <2> HIDE DEF n
  <2>3. UndoCost(r) = Costs(r)[n] + SumOf(Costs(r), DOMAIN q)
    <3>1. IsFiniteSet(DOMAIN r) /\ \A x \in DOMAIN r : Costs(r)[x] \in Int
      BY <1>1, <2>1
    <3> DEFINE D == DOMAIN r
               w == Costs(r)
    <3> HIDE DEF D, w
    <3>2. SumOf(w, D) = w[n] + SumOf(w, D \ {n})
      BY <2>2, <3>1, SumRemove DEF D, w
    <3> QED BY <1>1, <2>1, <2>2, <3>2 DEF D, w
  <2>4. \A i \in DOMAIN q : Costs(r)[i] = Costs(q)[i] /\ Costs(q)[i] \in Int
    <3>1. \A i \in DOMAIN q : i \in DOMAIN r /\ r[i] = q[i]
      BY <2>0, <2>1, <2>2
    <3>2. \A i \in DOMAIN q : Costs(q)[i] = q[i].cost /\ Costs(q)[i] \in Nat
      BY <1>1
    <3>3. \A i \in DOMAIN r : Costs(r)[i] = r[i].cost
      BY <1>1, <2>1
    <3> QED BY <3>1, <3>2, <3>3
  <2>5. SumOf(Costs(r), DOMAIN q) = SumOf(Costs(q), DOMAIN q)
    BY <1>1, <2>4, SumCongruent
  <2>6. Costs(r)[n] = s.cost /\ s.cost \in Nat
    BY <1>1, <2>1, <2>2 DEF SnapshotType
  <2> QED BY <1>1, <1>2, <2>3, <2>5, <2>6 DEF r
<1>4. ASSUME q # <<>> PROVE UndoCost(SubSeq(q, 1, Len(q) - 1)) <= UndoCost(q)
  <2> DEFINE r == SubSeq(q, 1, Len(q) - 1)
  <2>1. r \in Seq(SnapshotType) /\ Len(r) = Len(q) - 1 /\ \A i \in 1 .. Len(q) - 1 : r[i] = q[i]
    BY <1>4, FrontProperties
  <2> HIDE DEF r
  <2>2. DOMAIN r \in SUBSET DOMAIN q /\ \A i \in DOMAIN r : r[i] = q[i]
    BY <1>1, <2>1
  <2>3. \A i \in DOMAIN r : Costs(r)[i] = Costs(q)[i] /\ Costs(q)[i] \in Int
    BY <1>1, <2>1, <2>2
  <2>4. SumOf(Costs(r), DOMAIN r) = SumOf(Costs(q), DOMAIN r)
    BY <1>1, <2>1, <2>3, SumCongruent
  <2>5. SumOf(Costs(q), DOMAIN r) <= SumOf(Costs(q), DOMAIN q)
    BY <1>1, <2>2, SumMonotone
  <2>6. UndoCost(r) = SumOf(Costs(r), DOMAIN r)
    BY <1>1, <2>1
  <2> QED BY <1>1, <2>4, <2>5, <2>6 DEF r
<1> QED BY <1>2, <1>3, <1>4

\* A snapshot that can_save accepts fits in the budget by itself: the count that
\* snapshot_pages_with_limit makes while it walks the pages bounds the table it returns.
LEMMA SnapshotFits ==
  ASSUME Inv, NEW dest \in Destinations, CanSave
  PROVE  Snapshot(dest).cost <= budget
<1> DEFINE limit == (budget - stackCost) \div PageCost
           c == Cardinality(DOMAIN SnapshotPages)
<1>1. budget \in Nat /\ stackCost \in Nat /\ stackCost <= budget /\ PageCost \in Nat \ {0}
  BY Sizes, PolicyAssumption DEF CanSave, Inv
<1>2. limit \in Nat /\ limit * PageCost <= budget - stackCost
  BY <1>1
<1>3. c \in Nat
  BY SnapshotPagesType DEF Inv
<1>4. ~ OverLimit(limit)
  BY DEF CanSave
<1> HIDE DEF limit
<1> DEFINE D == (Kept \ Reverted) \cup Inserted
<1>5. DOMAIN SnapshotPages = D
  BY DEF SnapshotPages
<1>6. IsFiniteSet(Page) /\ Kept \subseteq Page /\ Inserted \subseteq Page /\ Page = 0 .. MaxPages - 1
  BY SizeAssumption, FS_Interval DEF Page, Kept, Inserted, Changed, InRange
<1>7. c <= limit
  <2>1. CASE Inserted = {}
    <3>1. D \subseteq Kept /\ IsFiniteSet(Kept)
      BY <1>6, <2>1, FS_Subset
    <3>2. Cardinality(D) <= Cardinality(Kept) /\ Cardinality(Kept) \in Nat /\ Cardinality(D) \in Nat
      BY <3>1, FS_Subset, FS_CardinalityType
    <3>3. Cardinality(Kept) <= limit
      BY <1>2, <1>4, <3>2 DEF OverLimit
    <3> QED BY <1>2, <1>5, <3>2, <3>3
  <2>2. CASE Inserted # {}
    <3>1. PICK p \in Inserted : \A q \in Inserted : q <= p
      <4>1. MaxPages \in Nat /\ Inserted \in SUBSET (0 .. MaxPages)
        BY <1>6, SizeAssumption
      <4> DEFINE n == MaxPages
                 I == Inserted
      <4> HIDE DEF n, I
      <4>2. \E m \in I : \A x \in I : x <= m
        BY <2>2, <4>1, LargestExists DEF n, I
      <4> QED BY <4>2 DEF I
    <3> DEFINE B == (Kept \ {q \in Reverted : q < p}) \cup {q \in Inserted : q < p}
    <3>2. p \in Nat /\ \A q \in Inserted : q \in Nat
      BY <1>6, SizeAssumption
    <3>3. D \subseteq B \cup {p} /\ B \subseteq Page
      <4>1. \A q \in Inserted : q < p \/ q = p
        BY <3>1, <3>2
      <4> QED BY <1>6, <4>1
    <3>4. ~ (Cardinality(B) >= limit)
      BY <1>4 DEF OverLimit
    <3> HIDE DEF B, D
    <3>5. IsFiniteSet(B) /\ Cardinality(B) \in Nat
      BY <1>6, <3>3, FS_Subset, FS_CardinalityType
    <3>6. IsFiniteSet(B \cup {p}) /\ Cardinality(B \cup {p}) <= Cardinality(B) + 1
          /\ Cardinality(B \cup {p}) \in Nat
      <4>1. CASE p \in B
        <5>1. B \cup {p} = B
          BY <4>1
        <5>2. Cardinality(B \cup {p}) = Cardinality(B) /\ IsFiniteSet(B \cup {p})
          BY <3>5, <5>1, Zenon
        <5> QED BY <3>5, <5>2
      <4>2. CASE p \notin B
        <5>1. IsFiniteSet(B \cup {p}) /\ Cardinality(B \cup {p}) = Cardinality(B) + 1
          BY <3>5, <4>2, FS_AddElement
        <5> QED BY <3>5, <5>1
      <4> QED BY <4>1, <4>2
    <3>7. Cardinality(D) <= Cardinality(B \cup {p}) /\ Cardinality(D) \in Nat
      BY <3>3, <3>6, FS_Subset, FS_CardinalityType
    <3> QED BY <1>2, <1>5, <3>4, <3>5, <3>6, <3>7
  <2> QED BY <2>1, <2>2
<1> HIDE DEF c
<1>8. PageCost * c <= limit * PageCost
  BY <1>1, <1>2, <1>3, <1>7
<1>9. Snapshot(dest).cost = stackCost + PageCost * c
  BY DEF Snapshot, c
<1>10. PageCost * c \in Nat /\ limit * PageCost \in Nat
  BY <1>1, <1>2, <1>3
<1> QED BY <1>1, <1>2, <1>8, <1>9, <1>10

\* trim_undo before a push makes room for it.
LEMMA SaveUndoBounded ==
  ASSUME Inv, UndoBounded, NEW dest \in Destinations, SaveUndo(dest)
  PROVE  UndoBounded'
<1> DEFINE S == Snapshot(dest)
<1>1. PICK k \in 0 .. Len(undo) :
        /\ Trims(undo, S.cost, budget, k)
        /\ undo' = Append(Without(undo, k), S)
  BY DEF SaveUndo
<1>2. S \in SnapshotType /\ S.cost \in Nat \ {0} /\ S.cost <= budget
  BY SnapshotIsTyped, SnapshotFits DEF SaveUndo
<1> HIDE DEF S
<1> DEFINE W == Without(undo, k)
<1>3. W \in Seq(SnapshotType) /\ ~ Trimmable(W, S.cost, budget) /\ undo' = Append(W, S)
  BY <1>1, WithoutProperties DEF Inv, TypeOK, Trims
<1> HIDE DEF W
<1>4. budget' = budget /\ budget \in Nat /\ MaxUndo \in Nat \ {0}
  BY Sizes, PolicyAssumption DEF SaveUndo, Inv
<1>5. UndoCost(undo') = UndoCost(W) + S.cost /\ UndoCost(W) \in Nat
  BY <1>2, <1>3, UndoCostFacts
<1>6. Len(undo') = Len(W) + 1 /\ Len(W) \in Nat
  BY <1>2, <1>3
<1>7. CASE W = <<>>
  <2>1. UndoCost(W) = 0
    <3>1. DOMAIN W = {}
      BY <1>7
    <3> QED BY <1>3, <3>1, UndoCostIsSum, SumEmpty
  <2> QED BY <1>2, <1>4, <1>5, <1>6, <1>7, <2>1 DEF UndoBounded
<1>8. CASE W # <<>>
  <2>1. ~ (Len(W) >= MaxUndo) /\ ~ (UndoCost(W) + S.cost > budget)
    BY <1>2, <1>3, <1>8 DEF Trimmable
  <2>2. Len(W) < MaxUndo /\ UndoCost(W) + S.cost <= budget
    BY <1>2, <1>4, <1>5, <1>6, <2>1
  <2>3. Len(undo') <= MaxUndo
    BY <1>4, <1>6, <2>2
  <2> QED BY <1>4, <1>5, <2>2, <2>3 DEF UndoBounded
<1> QED BY <1>7, <1>8

\* A session resumed under another budget is trimmed to it.
LEMMA ResumeBounded ==
  ASSUME Inv, UndoBounded, NEW b \in Budgets, NEW m \in Limits, ResumeSession(b, m)
  PROVE  UndoBounded'
<1>1. PICK k \in 0 .. Len(undo) : Trims(undo, 0, b, k) /\ undo' = Without(undo, k)
  BY DEF ResumeSession
<1>2. undo' \in Seq(SnapshotType) /\ Len(undo') = Len(undo) - k
  BY <1>1, WithoutProperties DEF Inv, TypeOK
<1>3. budget' = b /\ b \in Nat /\ MaxUndo \in Nat /\ Len(undo) \in Nat
  BY PolicyAssumption DEF ResumeSession, Inv, TypeOK
<1>4. Len(undo') <= MaxUndo
  BY <1>2, <1>3 DEF UndoBounded
<1>5. UndoCost(undo') <= b
  <2>1. UndoCost(undo') \in Nat
    BY <1>2, UndoCostFacts
  <2>2. CASE undo' = <<>>
    <3>1. DOMAIN undo' = {}
      BY <2>2
    <3> DEFINE u == undo'
    <3> HIDE DEF u
    <3>2. UndoCost(u) = SumOf(Costs(u), DOMAIN u)
      BY <1>2, UndoCostIsSum DEF u
    <3>3. SumOf(Costs(u), {}) = 0
      BY SumEmpty
    <3>4. UndoCost(u) = 0
      BY <3>1, <3>2, <3>3 DEF u
    <3> QED BY <1>3, <3>4 DEF u
  <2>3. CASE undo' # <<>>
    BY <1>1, <1>3, <2>1, <2>3 DEF Trims, Trimmable
  <2> QED BY <2>2, <2>3
<1> QED BY <1>3, <1>4, <1>5 DEF UndoBounded

\* Taking the newest snapshot off frees what it cost.
LEMMA FrontBounded ==
  ASSUME Inv, UndoBounded, undo # <<>>, undo' = SubSeq(undo, 1, Len(undo) - 1), budget' = budget
  PROVE  UndoBounded'
<1>1. undo' \in Seq(SnapshotType) /\ Len(undo') = Len(undo) - 1 /\ Len(undo) \in Nat
  BY FrontProperties DEF Inv, TypeOK
<1>2. UndoCost(undo') <= UndoCost(undo) /\ UndoCost(undo) \in Nat /\ UndoCost(undo') \in Nat
  BY <1>1, UndoCostFacts DEF Inv, TypeOK
<1>3. budget \in Nat /\ MaxUndo \in Nat
  BY Sizes, PolicyAssumption DEF Inv
<1> QED BY <1>1, <1>2, <1>3 DEF UndoBounded

LEMMA BoundedNext == Inv /\ UndoBounded /\ [Next]_vars => UndoBounded'
<1> SUFFICES ASSUME Inv, UndoBounded, [Next]_vars PROVE UndoBounded'
  OBVIOUS
<1>0. ASSUME undo' = undo, budget' = budget PROVE UndoBounded'
  BY <1>0 DEF UndoBounded
<1>1. ASSUME NEW from \in Cell, NEW n \in 1 .. MaxStore, NEW v \in Byte,
             Store(from, n, v) \/ NativeStore(from, n, v)
      PROVE  UndoBounded'
  BY <1>0, <1>1 DEF Store, NativeStore
<1>2. ASSUME NEW n \in OrigPages .. MaxPages, Resize(n) PROVE UndoBounded'
  BY <1>0, <1>2 DEF Resize
<1>3. ASSUME NEW c \in StackCosts, UseStack(c) PROVE UndoBounded'
  BY <1>0, <1>3 DEF UseStack
<1>4. ASSUME NEW r \in Ranges, SetProtection(r) PROVE UndoBounded'
  BY <1>0, <1>4 DEF SetProtection
<1>5. ASSUME NEW dest \in Destinations, SaveUndo(dest) PROVE UndoBounded'
  BY <1>5, SaveUndoBounded
<1>6. ASSUME NEW dest \in Destinations, SaveUndoFails(dest) \/ RestoreUndoFails(dest)
      PROVE  UndoBounded'
  BY <1>0, <1>6 DEF SaveUndoFails, RestoreUndoFails
<1>7. CASE RestoreUndo
  BY <1>7, FrontBounded DEF RestoreUndo
<1>8. CASE Restart
  BY <1>0, <1>8 DEF Restart
<1>9. ASSUME NEW image \in [Page -> Content], NEW n \in OrigPages .. MaxPages,
             NEW dest \in Destinations, NEW c \in StackCosts, RestoreFile(image, n, dest, c)
      PROVE  UndoBounded'
  BY <1>0, <1>9 DEF RestoreFile
<1>10. CASE DiscardUndo
  BY <1>10, FrontBounded DEF DiscardUndo
<1>11. ASSUME NEW b \in Budgets, NEW m \in Limits, ResumeSession(b, m) PROVE UndoBounded'
  BY <1>11, ResumeBounded
<1>12. CASE UNCHANGED vars
  BY <1>0, <1>12 DEF vars
<1> QED
  BY <1>1, <1>2, <1>3, <1>4, <1>5, <1>6, <1>7, <1>8, <1>9, <1>10, <1>11, <1>12
     DEF Next, ChainNext, Resume

\* However the story saves and the host changes its limits, the snapshots kept are no
\* more than MAX_UNDO_STATES and together cost no more than the undo budget.
THEOREM Bounded == Spec => []UndoBounded
<1>1. Init => UndoBounded
  <2> SUFFICES ASSUME Init PROVE UndoBounded
    OBVIOUS
  <2>1. undo = <<>> /\ <<>> \in Seq(SnapshotType) /\ DOMAIN undo = {} /\ Len(undo) = 0
    BY DEF Init
  <2>2. UndoCost(undo) = 0
    BY <2>1, UndoCostIsSum, SumEmpty
  <2> QED BY <2>1, <2>2, PolicyAssumption DEF Init, UndoBounded
<1> QED BY <1>1, InvInit, InvNext, BoundedNext, PTL DEF Spec
=============================================================================
