--------------------------- MODULE CodeCacheProofs ---------------------------
(***************************************************************************)
(* Proofs about CodeCache: for any addresses, sizes of code and limits, and*)
(* any number of restarts, the cache and its workers agree, and no code is *)
(* taken for another.                                                      *)
(*                                                                         *)
(* A cache, a worker and a file each have what is true of them alone       *)
(* (GoodCache, GoodWorker, GoodFile), and Linked ties the cache to its     *)
(* current worker: what is pending is in the worker's hand, once, or was   *)
(* lost with a worker.  The calls of the machine are functions of a cache  *)
(* and the workers, so each gets a lemma; poll is a fold, followed result  *)
(* by result.                                                              *)
(*                                                                         *)
(* Then about Decoder, whose traces the cache asks for: instructions that  *)
(* end before RAM are the same in memory and in the image, whatever has    *)
(* been stored.                                                            *)
(***************************************************************************)
EXTENDS CodeCache, Decoder, CollectionLemmas

-----------------------------------------------------------------------------
(* The inductive invariant *)

Coded == UNION {[S -> Addresses] : S \in SUBSET Addresses}
Results == {[address |-> a, found |-> a \notin Traceless, code |-> Code(a)] : a \in Addresses}

Caches ==
  [blocks : Coded, len : Int, bytes : Int, unavailable : SUBSET Addresses,
   hot_counts : [Addresses -> Nat], pending : SUBSET Addresses, current : {0} \cup Threads]

Writing == {"open", "write", "rename"}
Workers ==
  [phase : {"gone", "load", "idle", "compile", "send", "finish"} \cup Writing,
   after : {"idle", "send", "gone"}, job : Seq(Addresses) \cup Seq(Results),
   requests : Seq(Addresses), results : Seq(Results), aot : BOOLEAN,
   code : Coded, order : Seq(Addresses), dirty : Nat, leaving : BOOLEAN,
   open : {"none", "temporary", "file", "unlinked"}, shared : BOOLEAN]

IsCode(code) == /\ code \in Coded /\ IsFiniteSet(DOMAIN code)
                /\ \A a \in DOMAIN code : code[a] = Code(a)

GoodCache(j) ==
  /\ j \in Caches /\ IsCode(j.blocks)
  /\ j.pending \cap (DOMAIN j.blocks \cup j.unavailable) = {}
  /\ j.unavailable \subseteq Traceless
  /\ j.len = Cardinality(DOMAIN j.blocks) /\ j.len <= MaxBlocks
  /\ j.bytes = SumBytes(DOMAIN j.blocks) /\ j.bytes <= MaxTraceCacheBytes

\* Code that one file may hold.
Retainable(code) == /\ IsCode(code)
              /\ Cardinality(DOMAIN code) <= MaxAotBlocks
              /\ SumBytes(DOMAIN code) <= MaxAotBytes

GoodFile(f) == f \in {Absent, Torn} \/ \E code \in Coded : f = Whole(code) /\ Retainable(code)

\* The worker holds a request, or an answer, or neither.
Holds(w) ==
  IF w.phase = "compile" THEN w.job \in Seq(Addresses) /\ Len(w.job) = 1
  ELSE IF w.phase = "send" \/ (w.phase \in Writing /\ w.after = "send") THEN w.job \in Seq(Results) /\ Len(w.job) = 1
  ELSE w.job = <<>>

GoodWorker(w) ==
  /\ w \in Workers /\ Retainable(w.code) /\ Holds(w)
  /\ Range(w.order) = DOMAIN w.code /\ IsInjective(w.order)
  /\ w.dirty <= AotFlushBlocks /\ (w.phase \notin Writing => w.dirty < AotFlushBlocks)
  /\ ~ w.leaving => w.phase # "finish" /\ (w.phase \in Writing => w.after # "gone")

\* What the worker has in hand is pending, and what is pending it has in hand or is lost.
Linked(j, w, gone) ==
  /\ ~ w.leaving
  /\ Range(InHand(w)) \subseteq j.pending
  /\ j.pending \ Range(InHand(w)) \subseteq gone
  /\ IsInjective(InHand(w))
  /\ w.phase = "gone" => j.pending \subseteq gone

\* The machine and its workers, with the addresses that were lost.
States == [cache : Caches, workers : [Threads -> Workers]]

Good(s, gone) ==
  /\ s \in States /\ GoodCache(s.cache) /\ \A i \in Threads : GoodWorker(s.workers[i])
  /\ s.cache.current # 0 => Linked(s.cache, s.workers[s.cache.current], gone)
  /\ s.cache.current = 0 => s.cache.pending \subseteq gone

CacheInv == Good(Now, lost) /\ aot \in BOOLEAN /\ GoodFile(file) /\ GoodFile(temporary)

-----------------------------------------------------------------------------
(* The bytes of code                                                         *)

LEMMA BytesOfCode ==
  ASSUME NEW S, IsFiniteSet(S), S \subseteq Addresses
  PROVE  /\ SumBytes(S) \in Nat
         /\ \A T \in SUBSET S : SumBytes(T) \in Nat /\ SumBytes(T) <= SumBytes(S)
         /\ \A a \in Addresses \ S : SumBytes(S \cup {a}) = SumBytes(S) + BlockBytes[a]
         /\ SumBytes({}) = 0
<1>1. \A T : SumBytes(T) = SumOf(BlockBytes, T)
  BY DEF SumBytes, SumOf
<1>2. \A a \in Addresses : BlockBytes[a] \in Nat
  BY CodeCacheAssumption
<1>3. SumBytes(S) \in Nat /\ \A T \in SUBSET S : SumBytes(T) \in Nat /\ SumBytes(T) <= SumBytes(S)
  BY <1>1, <1>2, SumMonotone
<1>4. ASSUME NEW a \in Addresses \ S PROVE SumBytes(S \cup {a}) = SumBytes(S) + BlockBytes[a]
  <2> DEFINE T == S \cup {a}
  <2>1. IsFiniteSet(T) /\ (\A x \in T : BlockBytes[x] \in Int) /\ a \in T /\ T \ {a} = S
    BY <1>2, FS_AddElement
  <2> HIDE DEF T
  <2>2. SumOf(BlockBytes, T) = BlockBytes[a] + SumOf(BlockBytes, T \ {a})
    BY <2>1, SumRemove
  <2>3. SumBytes(T) = BlockBytes[a] + SumBytes(S)
    BY <1>1, <2>1, <2>2
  <2> QED BY <1>2, <1>3, <2>3 DEF T
<1>5. SumBytes({}) = 0
  BY <1>1, SumEmpty
<1> QED BY <1>3, <1>4, <1>5

\* One more address in a map.
LEMMA WithCode ==
  ASSUME NEW f \in Coded, NEW a \in Addresses
  PROVE  /\ With(f, a, Code(a)) \in Coded /\ DOMAIN With(f, a, Code(a)) = DOMAIN f \cup {a}
         /\ With(f, a, Code(a))[a] = Code(a)
         /\ \A x \in DOMAIN f \ {a} : With(f, a, Code(a))[x] = f[x]
<1>1. PICK S \in SUBSET Addresses : f \in [S -> Addresses]
  BY DEF Coded
<1>2. With(f, a, Code(a)) \in [S \cup {a} -> Addresses]
  BY <1>1 DEF With, Code
<1>3. S \cup {a} \in SUBSET Addresses
  OBVIOUS
<1> QED BY <1>1, <1>2, <1>3 DEF Coded, With

LEMMA LessCode ==
  ASSUME NEW f \in Coded, NEW S
  PROVE  /\ Restrict(f, DOMAIN f \cap S) \in Coded
         /\ DOMAIN Restrict(f, DOMAIN f \cap S) = DOMAIN f \cap S
         /\ \A x \in DOMAIN f \cap S : Restrict(f, DOMAIN f \cap S)[x] = f[x]
<1>1. PICK D \in SUBSET Addresses : f \in [D -> Addresses]
  BY DEF Coded
<1>2. Restrict(f, DOMAIN f \cap S) \in [D \cap S -> Addresses]
  BY <1>1 DEF Restrict
<1>3. D \cap S \in SUBSET Addresses
  OBVIOUS
<1> QED BY <1>1, <1>2, <1>3 DEF Coded, Restrict

LEMMA NoCode == /\ <<>> \in Coded /\ DOMAIN <<>> = {} /\ IsFiniteSet({})
                /\ Cardinality({}) = 0 /\ SumBytes({}) = 0 /\ IsCode(<<>>) /\ Retainable(<<>>)
<1>1. <<>> \in [{} -> Addresses] /\ {} \in SUBSET Addresses /\ DOMAIN <<>> = {}
  OBVIOUS
<1>2. <<>> \in Coded
  BY <1>1 DEF Coded
<1>3. IsFiniteSet({}) /\ Cardinality({}) = 0 /\ SumBytes({}) = 0
  BY FS_EmptySet, BytesOfCode
<1>4. 0 <= MaxAotBlocks
  BY CodeCacheAssumption
<1>5. 0 <= MaxAotBytes
  BY CodeCacheAssumption
<1> QED BY <1>1, <1>2, <1>3, <1>4, <1>5 DEF IsCode, Retainable

-----------------------------------------------------------------------------
(* The trace cache                                                           *)

(* insert with the parts it is made of: whatever is in the cache.            *)
LEMMA InsertedParts ==
  ASSUME NEW j \in Caches, NEW a \in Addresses
  PROVE  LET old == DOMAIN j.blocks \cap {a}
             len == j.len - Cardinality(old)
             bytes == j.bytes - SumBytes(old)
             full == len >= MaxBlocks \/ bytes + BlockBytes[a] > MaxTraceCacheBytes
             rest == Restrict(j.blocks, DOMAIN j.blocks \ old)
         IN  Inserted(j, a, Code(a)) =
               [j EXCEPT !.blocks = With(IF full THEN <<>> ELSE rest, a, Code(a)),
                         !.len = (IF full THEN 0 ELSE len) + 1,
                         !.bytes = (IF full THEN 0 ELSE bytes) + BlockBytes[a]]
BY DEF Inserted, Caches

LEMMA ReceivedTyped ==
  ASSUME NEW j \in Caches, NEW r \in Results
  PROVE  Received(j, r) \in Caches
<1>1. PICK a \in Addresses : r = [address |-> a, found |-> a \notin Traceless, code |-> Code(a)]
  BY DEF Results
<1> DEFINE got == [j EXCEPT !.pending = @ \ {a}, !.hot_counts[a] = 0]
<1>2. got \in Caches
  BY DEF Caches
<1>3. CASE a \notin Traceless
  <2> DEFINE old == DOMAIN got.blocks \cap {a}
             rest == Restrict(got.blocks, DOMAIN got.blocks \ old)
  <2>1. Cardinality(old) \in Int /\ SumBytes(old) \in Int /\ BlockBytes[a] \in Int
    <3>1. IsFiniteSet({a}) /\ old \subseteq {a}
      BY FS_Singleton
    <3>2. IsFiniteSet(old) /\ old \subseteq Addresses
      BY <3>1, FS_Subset
    <3> QED BY <3>2, BytesOfCode, FS_CardinalityType, CodeCacheAssumption
  <2>2. got.blocks \in Coded
    BY <1>2 DEF Caches
  <2>3. rest \in Coded
    <3>1. DOMAIN got.blocks \ old = DOMAIN got.blocks \cap (DOMAIN got.blocks \ old)
      OBVIOUS
    <3> QED BY <2>2, <3>1, LessCode
  <2>4. With(<<>>, a, Code(a)) \in Coded /\ With(rest, a, Code(a)) \in Coded
    BY <2>3, WithCode, NoCode
  <2>5. Received(j, r) = Inserted(got, a, Code(a))
    BY <1>1, <1>3 DEF Received
  <2> HIDE DEF got
  <2>6. \E blocks \in Coded, len \in Int, bytes \in Int :
          Inserted(got, a, Code(a)) = [got EXCEPT !.blocks = blocks, !.len = len, !.bytes = bytes]
    <3> DEFINE len == got.len - Cardinality(old)
               bytes == got.bytes - SumBytes(old)
               full == len >= MaxBlocks \/ bytes + BlockBytes[a] > MaxTraceCacheBytes
    <3>1. Inserted(got, a, Code(a)) =
            [got EXCEPT !.blocks = With(IF full THEN <<>> ELSE rest, a, Code(a)),
                        !.len = (IF full THEN 0 ELSE len) + 1,
                        !.bytes = (IF full THEN 0 ELSE bytes) + BlockBytes[a]]
      BY <1>2, InsertedParts, Zenon
    <3>2. len \in Int /\ bytes \in Int
      BY <1>2, <2>1 DEF Caches
    <3> DEFINE b == With(IF full THEN <<>> ELSE rest, a, Code(a))
               l == (IF full THEN 0 ELSE len) + 1
               n == (IF full THEN 0 ELSE bytes) + BlockBytes[a]
    <3>3. b \in Coded
      BY <2>4
    <3>4. l \in Int /\ n \in Int
      BY <2>1, <3>2
    <3> HIDE DEF b, l, n
    <3>5. Inserted(got, a, Code(a)) = [got EXCEPT !.blocks = b, !.len = l, !.bytes = n]
      BY <3>1 DEF b, l, n
    <3> QED BY <3>3, <3>4, <3>5
  <2>7. Inserted(got, a, Code(a)) \in Caches
    BY <1>2, <2>6 DEF Caches
  <2> QED BY <2>5, <2>7
<1>4. CASE a \in Traceless
  <2>1. Received(j, r) = [got EXCEPT !.unavailable = @ \cup {a}]
    BY <1>1, <1>4 DEF Received
  <2> HIDE DEF got
  <2> QED BY <1>2, <2>1 DEF Caches
<1> QED BY <1>3, <1>4

\* A result for an address that is pending is cached, or says that there is no trace.
LEMMA ReceivedKeeps ==
  ASSUME NEW j, GoodCache(j), NEW r \in Results, r.address \in j.pending
  PROVE  /\ GoodCache(Received(j, r))
         /\ Received(j, r).pending = j.pending \ {r.address}
         /\ Received(j, r).current = j.current
<1>1. PICK a \in Addresses : r = [address |-> a, found |-> a \notin Traceless, code |-> Code(a)]
  BY DEF Results
<1> DEFINE got == [j EXCEPT !.pending = @ \ {a}, !.hot_counts[a] = 0]
<1>2. /\ got \in Caches /\ got.blocks = j.blocks /\ got.len = j.len /\ got.bytes = j.bytes
      /\ got.pending = j.pending \ {a} /\ got.unavailable = j.unavailable /\ got.current = j.current
      /\ a \in j.pending /\ j \in Caches
  BY <1>1 DEF GoodCache, Caches
<1> HIDE DEF got
<1>3. CASE a \notin Traceless
  <2>1. Received(j, r) = Inserted(got, a, Code(a))
    BY <1>1, <1>3 DEF Received, got
  <2> DEFINE D == DOMAIN j.blocks
  <2>2. D \cap {a} = {} /\ D \ (D \cap {a}) = D /\ a \in Addresses \ D /\ D \subseteq Addresses
    BY <1>2 DEF GoodCache, IsCode, Coded
  <2>3. Restrict(j.blocks, D) = j.blocks
    BY DEF Restrict, GoodCache, IsCode, Coded
  <2> DEFINE full == j.len >= MaxBlocks \/ j.bytes + BlockBytes[a] > MaxTraceCacheBytes
             old == IF full THEN <<>> ELSE j.blocks
             len == IF full THEN 0 ELSE j.len
             bytes == IF full THEN 0 ELSE j.bytes
  <2>4. Inserted(got, a, Code(a)) =
          [got EXCEPT !.blocks = With(old, a, Code(a)), !.len = len + 1, !.bytes = bytes + BlockBytes[a]]
    <3>1. Cardinality({}) = 0 /\ SumBytes({}) = 0
      BY NoCode
    <3>2. j.len - 0 = j.len /\ j.bytes - 0 = j.bytes
      BY <1>2 DEF Caches
    <3> DEFINE gone == DOMAIN got.blocks \cap {a}
               l == got.len - Cardinality(gone)
               n == got.bytes - SumBytes(gone)
               f == l >= MaxBlocks \/ n + BlockBytes[a] > MaxTraceCacheBytes
               rest == Restrict(got.blocks, DOMAIN got.blocks \ gone)
    <3>3. Inserted(got, a, Code(a)) =
            [got EXCEPT !.blocks = With(IF f THEN <<>> ELSE rest, a, Code(a)),
                        !.len = (IF f THEN 0 ELSE l) + 1,
                        !.bytes = (IF f THEN 0 ELSE n) + BlockBytes[a]]
      BY <1>2, InsertedParts, Zenon
    <3>4. gone = {}
      BY <1>2, <2>2
    <3>5. l = j.len /\ n = j.bytes /\ rest = j.blocks
      <4>1. DOMAIN got.blocks \ {} = D
        BY <1>2
      <4> HIDE DEF gone
      <4> QED BY <1>2, <2>3, <3>1, <3>2, <3>4, <4>1
    <3>6. f <=> full
      <4> HIDE DEF l, n
      <4> QED BY <3>5
    <3> HIDE DEF gone, l, n, rest, f, full, D
    <3> QED BY <3>3, <3>5, <3>6
  <2>5. /\ len \in Nat /\ len + 1 <= MaxBlocks /\ len = Cardinality(DOMAIN old)
        /\ bytes \in Nat /\ bytes + BlockBytes[a] <= MaxTraceCacheBytes /\ bytes = SumBytes(DOMAIN old)
        /\ old \in Coded /\ IsFiniteSet(DOMAIN old) /\ DOMAIN old \subseteq D
        /\ \A x \in DOMAIN old : old[x] = Code(x)
    <3>1. MaxBlocks \in Nat \ {0} /\ BlockBytes[a] \in Nat /\ BlockBytes[a] <= MaxTraceCacheBytes
      BY CodeCacheAssumption
    <3>2. j.len \in Nat /\ j.bytes \in Nat
      BY <2>2, BytesOfCode, FS_CardinalityType DEF GoodCache, IsCode
    <3>3. CASE full
      BY <3>1, <3>3, NoCode
    <3>4. CASE ~ full
      <4>1. len = j.len /\ bytes = j.bytes /\ old = j.blocks
        BY <3>4
      <4>2. MaxTraceCacheBytes \in Nat
        BY CodeCacheAssumption
      <4> QED BY <3>1, <3>2, <3>4, <4>1, <4>2 DEF GoodCache, IsCode
    <3> QED BY <3>3, <3>4
  <2> HIDE DEF full, old, len, bytes, D
  <2> DEFINE new == With(old, a, Code(a))
  <2>6. /\ new \in Coded /\ DOMAIN new = DOMAIN old \cup {a} /\ \A x \in DOMAIN new : new[x] = Code(x)
    <3>1. /\ new \in Coded /\ DOMAIN new = DOMAIN old \cup {a} /\ new[a] = Code(a)
          /\ \A x \in DOMAIN old \ {a} : new[x] = old[x]
      BY <2>5, WithCode
    <3> QED BY <2>5, <3>1
  <2>7. a \in Addresses \ DOMAIN old /\ DOMAIN old \subseteq Addresses
    BY <2>2, <2>5
  <2>8. /\ IsFiniteSet(DOMAIN new) /\ Cardinality(DOMAIN new) = len + 1
        /\ SumBytes(DOMAIN new) = bytes + BlockBytes[a]
    BY <2>5, <2>6, <2>7, BytesOfCode, FS_AddElement
  <2> HIDE DEF new
  <2>9. /\ Inserted(got, a, Code(a)).blocks = new /\ Inserted(got, a, Code(a)).len = len + 1
        /\ Inserted(got, a, Code(a)).bytes = bytes + BlockBytes[a]
        /\ Inserted(got, a, Code(a)).pending = j.pending \ {a}
        /\ Inserted(got, a, Code(a)).unavailable = j.unavailable
        /\ Inserted(got, a, Code(a)).current = j.current
    BY <1>2, <2>4 DEF Caches, new
  <2>10. Received(j, r) \in Caches
    BY <1>2, ReceivedTyped
  <2>11. (j.pending \ {a}) \cap (DOMAIN new \cup j.unavailable) = {}
    BY <2>5, <2>6 DEF GoodCache, D
  <2> QED BY <1>1, <2>1, <2>5, <2>6, <2>8, <2>9, <2>10, <2>11 DEF GoodCache, IsCode
<1>4. CASE a \in Traceless
  <2>1. Received(j, r) = [got EXCEPT !.unavailable = @ \cup {a}]
    BY <1>1, <1>4 DEF Received, got
  <2>2. Received(j, r) \in Caches
    BY <1>2, ReceivedTyped
  <2>3. /\ Received(j, r).blocks = j.blocks /\ Received(j, r).len = j.len /\ Received(j, r).bytes = j.bytes
        /\ Received(j, r).pending = j.pending \ {a} /\ Received(j, r).unavailable = j.unavailable \cup {a}
        /\ Received(j, r).current = j.current
    BY <1>2, <2>1 DEF Caches
  <2> QED BY <1>1, <1>2, <1>4, <2>2, <2>3 DEF GoodCache
<1> QED BY <1>3, <1>4

-----------------------------------------------------------------------------
(* poll: one result after the other                                          *)

Names(q) == [i \in DOMAIN q |-> q[i].address]

\* What FoldLeft chooses says what Received does to the cache, result by result.
LEMMA ReceivedInOrder ==
  ASSUME NEW j \in Caches, NEW q \in Seq(Results)
  PROVE  \E f : /\ f[{}] = j
                /\ \A n \in 1 .. Len(q) : f[1 .. n] = Received(f[1 .. n - 1], q[n])
                /\ FoldLeft(Received, j, q) = f[1 .. Len(q)]
<1> DEFINE D == DOMAIN q
           g == [i \in D |-> [v \in Caches |-> Received(v, q[i])]]
           c == [s \in SUBSET D |-> Max(s)]
           IsIter(f) == f = [s \in SUBSET D |-> IF s = {} THEN j
                                                ELSE Received(f[s \ {Max(s)}], q[Max(s)])]
           iter == CHOOSE f : IsIter(f)
<1>1. Len(q) \in Nat /\ D = 1 .. Len(q) /\ \A i \in D : q[i] \in Results
  OBVIOUS
<1>2. IsFiniteSet(D)
  BY <1>1, FS_Interval
<1>3. \A s \in SUBSET D : s # {} => Max(s) \in s /\ \A x \in s : x <= Max(s)
  <2> SUFFICES ASSUME NEW s \in SUBSET D, s # {} PROVE Max(s) \in s /\ \A x \in s : x <= Max(s)
    OBVIOUS
  <2>1. s \in SUBSET (0 .. Len(q))
    BY <1>1
  <2>2. \E m \in s : \A x \in s : x <= m
    BY <1>1, <2>1, LargestExists
  <2>3. \E m \in s : \A x \in s : m >= x
    BY <1>1, <2>1, <2>2
  <2>4. Max(s) \in s /\ \A x \in s : Max(s) >= x
    BY <2>3 DEF Max
  <2> QED BY <1>1, <2>1, <2>4
<1>4. g \in [D -> [Caches -> Caches]]
  BY <1>1, ReceivedTyped
<1>5. FoldLeft(Received, j, q) = iter[D]
  BY Zenon DEF FoldLeft, MapThenFoldSet, D
<1> HIDE DEF D, g, c
<1>6. PICK f \in [SUBSET D -> Caches] : IsFold(f, D, j, g, c)
  <2> DEFINE V == Caches
  <2>1. \A s \in SUBSET D : s # {} => c[s] \in s
    BY <1>3 DEF c
  <2>2. g \in [D -> [V -> V]] /\ j \in V
    BY <1>4
  <2> HIDE DEF V
  <2>3. \E f \in [SUBSET D -> V] : IsFold(f, D, j, g, c)
    BY <1>2, <2>1, <2>2, FoldExists
  <2> QED BY <2>3 DEF V
<1>7. IsIter(f)
  <2>1. ASSUME NEW s \in SUBSET D
        PROVE  f[s] = IF s = {} THEN j ELSE Received(f[s \ {Max(s)}], q[Max(s)])
    <3>1. CASE s = {}
      BY <1>6, <3>1 DEF IsFold
    <3>2. CASE s # {}
      <4>1. c[s] = Max(s) /\ Max(s) \in D /\ s \ {Max(s)} \in SUBSET D
        BY <1>3, <3>2 DEF c
      <4>2. f[s] = g[Max(s)][f[s \ {Max(s)}]]
        BY <1>6, <3>2, <4>1 DEF IsFold
      <4>3. f[s \ {Max(s)}] \in Caches
        BY <1>6, <4>1
      <4> QED BY <3>2, <4>1, <4>2, <4>3 DEF g
    <3> QED BY <3>1, <3>2
  <2> QED BY <2>1
<1>8. IsIter(iter)
  BY <1>7
<1> HIDE DEF iter
<1>9. iter[{}] = j
  BY <1>8
<1>10. ASSUME NEW n \in 1 .. Len(q) PROVE iter[1 .. n] = Received(iter[1 .. n - 1], q[n])
  <2> DEFINE s == 1 .. n
  <2>1. s \in SUBSET D /\ s # {} /\ n \in s /\ s \subseteq Nat
    BY <1>1
  <2>2. Max(s) \in s /\ \A x \in s : x <= Max(s)
    BY <1>3, <2>1
  <2>3. Max(s) = n
    BY <1>1, <2>1, <2>2
  <2>4. s \ {n} = 1 .. n - 1
    BY <1>1
  <2> HIDE DEF s
  <2>5. iter[s] = Received(iter[s \ {n}], q[n])
    BY <1>8, <2>1, <2>3
  <2> QED BY <2>4, <2>5 DEF s
<1> QED BY <1>1, <1>5, <1>9, <1>10

LEMMA ReceivedAll ==
  ASSUME NEW j, GoodCache(j), NEW q \in Seq(Results),
         IsInjective(Names(q)), Range(Names(q)) \subseteq j.pending
  PROVE  /\ GoodCache(FoldLeft(Received, j, q))
         /\ FoldLeft(Received, j, q).pending = j.pending \ Range(Names(q))
         /\ FoldLeft(Received, j, q).current = j.current
<1>1. /\ Len(q) \in Nat /\ DOMAIN q = 1 .. Len(q) /\ j \in Caches
      /\ \A i \in 1 .. Len(q) : q[i] \in Results
  BY DEF GoodCache
<1>2. PICK f : /\ f[{}] = j
               /\ \A n \in 1 .. Len(q) : f[1 .. n] = Received(f[1 .. n - 1], q[n])
               /\ FoldLeft(Received, j, q) = f[1 .. Len(q)]
  BY <1>1, ReceivedInOrder
<1> DEFINE First(n) == {q[i].address : i \in 1 .. n}
           UpTo(n) == /\ GoodCache(f[1 .. n]) /\ f[1 .. n].pending = j.pending \ First(n)
                      /\ f[1 .. n].current = j.current
           G == {n \in Nat : n <= Len(q) => UpTo(n)}
<1>3. 0 \in G
  <2>1. 1 .. 0 = {}
    OBVIOUS
  <2>2. First(0) = {}
    BY <2>1
  <2> QED BY <1>2, <2>1, <2>2
<1>4. ASSUME NEW n \in G, n + 1 <= Len(q) PROVE UpTo(n + 1)
  <2>1. n \in Nat /\ n + 1 \in 1 .. Len(q) /\ n <= Len(q) /\ (n + 1) - 1 = n
    BY <1>1, <1>4
  <2>2. UpTo(n)
    BY <2>1
  <2> DEFINE r == q[n + 1]
  <2>3. r \in Results /\ f[1 .. n + 1] = Received(f[1 .. n], r)
    BY <1>1, <1>2, <2>1
  <2>4. r.address \in j.pending \ First(n)
    <3>1. r.address \in j.pending
      BY <1>1, <2>1 DEF Names, Range
    <3>2. \A i \in 1 .. n : q[i].address # r.address
      <4> SUFFICES ASSUME NEW i \in 1 .. n, q[i].address = q[n + 1].address PROVE FALSE
        OBVIOUS
      <4>1. i \in DOMAIN q /\ n + 1 \in DOMAIN q /\ i # n + 1
        BY <1>1, <2>1
      <4> QED BY <4>1 DEF Names, IsInjective
    <3> QED BY <3>1, <3>2
  <2> HIDE DEF r
  <2>5. /\ GoodCache(f[1 .. n + 1]) /\ f[1 .. n + 1].pending = f[1 .. n].pending \ {r.address}
        /\ f[1 .. n + 1].current = j.current
    BY <2>2, <2>3, <2>4, ReceivedKeeps
  <2>6. First(n + 1) = First(n) \cup {r.address}
    <3>1. 1 .. n + 1 = (1 .. n) \cup {n + 1}
      BY <2>1
    <3> QED BY <3>1 DEF r
  <2> QED BY <2>2, <2>5, <2>6
<1>5. \A n \in G : n + 1 \in G
  <2> SUFFICES ASSUME NEW n \in G PROVE n + 1 \in G
    OBVIOUS
  <2>1. n + 1 \in Nat
    OBVIOUS
  <2> HIDE DEF UpTo
  <2> QED BY <1>4, <2>1
<1>6. G = Nat
  <2> HIDE DEF G
  <2>1. G \in SUBSET Nat
    BY DEF G
  <2> QED BY <1>3, <1>5, <2>1, SetInduction
<1>7. UpTo(Len(q))
  <2>1. Len(q) \in G /\ Len(q) <= Len(q)
    BY <1>1, <1>6
  <2> HIDE DEF UpTo
  <2> QED BY <2>1
<1>8. First(Len(q)) = Range(Names(q))
  BY <1>1 DEF Names, Range
<1> QED BY <1>2, <1>7, <1>8

-----------------------------------------------------------------------------
(* What a worker has in hand                                                 *)

NamedJob(w) == [i \in DOMAIN w.job |-> IF w.phase = "compile" THEN w.job[i] ELSE w.job[i].address]

\* The requests, the job and the results hold different addresses.
AllDifferent(w) ==
  /\ IsInjective(w.requests) /\ IsInjective(Names(w.results))
  /\ Range(w.requests) \cap Range(NamedJob(w)) = {}
  /\ (Range(w.requests) \cup Range(NamedJob(w))) \cap Range(Names(w.results)) = {}

LEMMA NamesOfResults ==
  ASSUME NEW q \in Seq(Results)
  PROVE  Names(q) \in Seq(Addresses) /\ Len(Names(q)) = Len(q)
<1>1. /\ Len(q) \in Nat /\ DOMAIN q = 1 .. Len(q)
      /\ \A i \in 1 .. Len(q) : q[i] \in Results
  OBVIOUS
<1>2. \A r \in Results : r.address \in Addresses
  BY DEF Results
<1>3. Names(q) \in [1 .. Len(q) -> Addresses]
  BY <1>1, <1>2 DEF Names
<1> HIDE DEF Names
<1> QED BY <1>1, <1>3

LEMMA JobName ==
  ASSUME NEW w, GoodWorker(w)
  PROVE  /\ NamedJob(w) \in Seq(Addresses) /\ IsInjective(NamedJob(w))
         /\ w.job = <<>> => Range(NamedJob(w)) = {}
         /\ w.job # <<>> /\ w.phase = "compile" => Range(NamedJob(w)) = {w.job[1]} /\ w.job[1] \in Addresses
         /\ w.job # <<>> /\ w.phase # "compile" => Range(NamedJob(w)) = {w.job[1].address} /\ w.job[1] \in Results
<1>1. \/ w.job = <<>>
      \/ w.phase = "compile" /\ w.job \in Seq(Addresses) /\ Len(w.job) = 1
      \/ w.phase # "compile" /\ w.job \in Seq(Results) /\ Len(w.job) = 1
  BY DEF GoodWorker, Holds, Writing
<1>2. CASE w.job = <<>>
  <2>1. NamedJob(w) = <<>>
    BY <1>2 DEF NamedJob
  <2> QED BY <1>2, <2>1, SmallSequences
<1>3. ASSUME w.job # <<>>, NEW a \in Addresses, NamedJob(w) = [i \in {1} |-> a]
      PROVE  NamedJob(w) \in Seq(Addresses) /\ IsInjective(NamedJob(w)) /\ Range(NamedJob(w)) = {a}
  <2>1. NamedJob(w) = <<a>>
    BY <1>3
  <2>2. <<a>> \in Seq(Addresses)
    OBVIOUS
  <2> QED BY <2>1, <2>2, SmallSequences
<1>4. CASE w.phase = "compile" /\ w.job \in Seq(Addresses) /\ Len(w.job) = 1
  <2>1. DOMAIN w.job = {1} /\ w.job[1] \in Addresses /\ w.job # <<>>
    BY <1>4
  <2>2. NamedJob(w) = [i \in {1} |-> w.job[1]]
    BY <1>4, <2>1 DEF NamedJob
  <2> QED BY <1>3, <1>4, <2>1, <2>2
<1>5. CASE w.phase # "compile" /\ w.job \in Seq(Results) /\ Len(w.job) = 1
  <2>0. DOMAIN w.job = 1 .. 1 /\ \A i \in 1 .. 1 : w.job[i] \in Results
    BY <1>5
  <2>1. DOMAIN w.job = {1} /\ w.job[1] \in Results /\ w.job # <<>>
    BY <2>0
  <2>2. w.job[1].address \in Addresses
    BY <2>1 DEF Results
  <2>3. NamedJob(w) = [i \in {1} |-> w.job[1].address]
    BY <1>5, <2>1 DEF NamedJob
  <2> QED BY <1>3, <1>5, <2>1, <2>2, <2>3
<1> QED BY <1>1, <1>2, <1>4, <1>5

LEMMA HandParts ==
  ASSUME NEW w, GoodWorker(w)
  PROVE  /\ Range(InHand(w)) = Range(w.requests) \cup Range(NamedJob(w)) \cup Range(Names(w.results))
         /\ IsInjective(InHand(w)) <=> AllDifferent(w)
         /\ Range(InHand(w)) \subseteq Addresses
<1> DEFINE p == w.requests
           b == NamedJob(w)
           n == Names(w.results)
<1>1. p \in Seq(Addresses) /\ b \in Seq(Addresses) /\ n \in Seq(Addresses) /\ IsInjective(b)
  BY JobName, NamesOfResults DEF GoodWorker, Workers
<1>2. InHand(w) = (p \o b) \o n
  BY DEF InHand, NamedJob, Names
<1>3. AllDifferent(w) <=> /\ IsInjective(p) /\ IsInjective(n) /\ Range(p) \cap Range(b) = {}
                          /\ (Range(p) \cup Range(b)) \cap Range(n) = {}
  BY DEF AllDifferent
<1> HIDE DEF p, b, n
<1>4. /\ p \o b \in Seq(Addresses) /\ Range(p \o b) = Range(p) \cup Range(b)
      /\ IsInjective(p \o b) <=> IsInjective(p) /\ IsInjective(b) /\ Range(p) \cap Range(b) = {}
  BY <1>1, ConcatElements
<1> DEFINE r == p \o b
<1>5. r \in Seq(Addresses)
  BY <1>4
<1> HIDE DEF r
<1>6. /\ Range(r \o n) = Range(r) \cup Range(n)
      /\ IsInjective(r \o n) <=> IsInjective(r) /\ IsInjective(n) /\ Range(r) \cap Range(n) = {}
  BY <1>1, <1>5, ConcatElements
<1>7. Range(r) \subseteq Addresses /\ Range(n) \subseteq Addresses
  BY <1>1, <1>5 DEF Range
<1> QED BY <1>1, <1>2, <1>3, <1>4, <1>6, <1>7 DEF r, p, b, n

\* A worker that has just begun, or is gone, has nothing.
LEMMA NewHand ==
  ASSUME NEW w, GoodWorker(w), w.requests = <<>>, w.job = <<>>, w.results = <<>>
  PROVE  Range(InHand(w)) = {} /\ IsInjective(InHand(w))
<1>1. Names(<<>>) = <<>>
  BY DEF Names
<1>2. Range(NamedJob(w)) = {}
  BY JobName
<1> QED BY <1>1, <1>2, HandParts, SmallSequences DEF AllDifferent

-----------------------------------------------------------------------------
(* The calls of the machine                                                  *)

\* A good cache with one worker that fits it, and the other workers as they were.
Follows(s, i, r, d) ==
  /\ r \in States /\ GoodCache(r.cache) /\ GoodWorker(r.workers[i])
  /\ r.workers = [s.workers EXCEPT ![i] = r.workers[i]]
  /\ r.cache.current \in {0, i}
  /\ r.cache.current = i => Linked(r.cache, r.workers[i], d)
  /\ r.cache.current = 0 => r.cache.pending \subseteq d

LEMMA Assembled ==
  ASSUME NEW s, NEW gone, Good(s, gone), NEW i \in Threads, NEW r, NEW d, Follows(s, i, r, d)
  PROVE  Good(r, d)
<1> USE DEF Follows
<1>1. \A k \in Threads : GoodWorker(r.workers[k])
  <2>1. \A k \in Threads : GoodWorker(s.workers[k]) /\ s.workers \in [Threads -> Workers]
    BY DEF Good, States
  <2>2. \A k \in Threads : k = i \/ r.workers[k] = s.workers[k]
    BY <2>1
  <2> QED BY <2>1, <2>2
<1>2. i # 0
  BY DEF Threads
<1> QED BY <1>1, <1>2 DEF Good

\* The worker with other messages to it and from it.
Messages(w, p, q) == [w EXCEPT !.requests = p, !.results = q]

LEMMA OtherMessages ==
  ASSUME NEW w, GoodWorker(w), NEW p \in Seq(Addresses), NEW q \in Seq(Results),
         NEW v, v = Messages(w, p, q)
  PROVE  /\ GoodWorker(v) /\ NamedJob(v) = NamedJob(w) /\ v.requests = p /\ v.results = q
         /\ v.leaving = w.leaving /\ v.phase = w.phase
<1>1. w \in Workers
  BY DEF GoodWorker
<1>2. /\ v \in Workers /\ v.requests = p /\ v.results = q /\ v.phase = w.phase /\ v.after = w.after
      /\ v.job = w.job /\ v.code = w.code /\ v.order = w.order /\ v.dirty = w.dirty
      /\ v.leaving = w.leaving
  BY <1>1 DEF Workers, Messages
<1> QED BY <1>2 DEF GoodWorker, Holds, NamedJob

\* A state and its current worker.
LEMMA GoodParts ==
  ASSUME NEW s, NEW gone, Good(s, gone)
  PROVE  /\ s.cache.current \in {0} \cup Threads /\ GoodCache(s.cache) /\ s.cache \in Caches
         /\ s \in States
         /\ s.workers \in [Threads -> Workers] /\ \A i \in Threads : GoodWorker(s.workers[i])
         /\ s.cache.pending \subseteq Addresses
BY DEF Good, GoodCache, Caches, States

LEMMA PolledKeeps ==
  ASSUME NEW s, NEW gone, Good(s, gone)
  PROVE  Good(Polled(s), gone)
<1> DEFINE i == s.cache.current
           w == s.workers[i]
           j == FoldLeft(Received, s.cache, w.results)
           v == [w EXCEPT !.results = <<>>]
<1>1. CASE i = 0
  BY <1>1 DEF Polled
<1>2. CASE i # 0
  <2>1. i \in Threads /\ GoodWorker(w) /\ Linked(s.cache, w, gone) /\ GoodCache(s.cache) /\ w \in Workers
    BY <1>2, GoodParts DEF Good
  <2>2. AllDifferent(w)
    BY <2>1, HandParts DEF Linked
  <2>3. w.results \in Seq(Results) /\ w.requests \in Seq(Addresses) /\ <<>> \in Seq(Results)
    BY <2>1 DEF Workers
  <2>4. IsInjective(Names(w.results)) /\ Range(Names(w.results)) \subseteq s.cache.pending
    BY <2>1, <2>2, HandParts DEF AllDifferent, Linked
  <2>5. GoodCache(j) /\ j.pending = s.cache.pending \ Range(Names(w.results)) /\ j.current = i
    BY <2>1, <2>3, <2>4, ReceivedAll
  <2>6. /\ GoodWorker(v) /\ NamedJob(v) = NamedJob(w) /\ v.requests = w.requests /\ v.results = <<>>
        /\ v.leaving = w.leaving /\ v.phase = w.phase
    <3> DEFINE e == <<>>
               u == [w EXCEPT !.results = e]
    <3>1. e \in Seq(Results)
      OBVIOUS
    <3> HIDE DEF w, e
    <3>2. u = Messages(w, w.requests, e)
      BY <2>1 DEF Workers, Messages
    <3> HIDE DEF u
    <3>3. /\ GoodWorker(u) /\ NamedJob(u) = NamedJob(w) /\ u.requests = w.requests /\ u.results = e
          /\ u.leaving = w.leaving /\ u.phase = w.phase
      BY <2>1, <2>3, <3>1, <3>2, OtherMessages
    <3> QED BY <3>3 DEF u, e, w
  <2> DEFINE r == [s EXCEPT !.cache = j, !.workers[i].results = <<>>]
  <2>7. r \in States /\ r.cache = j /\ r.workers = [s.workers EXCEPT ![i] = v] /\ r.workers[i] = v
    <3>1. j \in Caches /\ v \in Workers /\ s \in States /\ s.workers \in [Threads -> Workers]
      BY <2>5, <2>6, GoodParts DEF GoodCache, GoodWorker
    <3> HIDE DEF j
    <3>2. r.cache = j /\ r.workers = [s.workers EXCEPT ![i] = v]
      BY <2>1, <3>1 DEF States
    <3>3. r = [s EXCEPT !.cache = j, !.workers = r.workers]
      BY <2>1, <3>1, <3>2 DEF States
    <3> HIDE DEF v, r
    <3>4. r.workers \in [Threads -> Workers] /\ r.workers[i] = v
      BY <2>1, <3>1, <3>2
    <3> QED BY <3>1, <3>2, <3>3, <3>4 DEF States
  <2>8. Names(<<>>) = <<>> /\ Range(<<>>) = {} /\ IsInjective(<<>>)
    BY SmallSequences DEF Names
  <2> HIDE DEF j, v, r, w
  <2>9. Linked(j, v, gone)
    <3> USE <2>1, <2>2, <2>5, <2>6
    <3>1. AllDifferent(v)
      BY <2>8 DEF AllDifferent
    <3>2. Range(InHand(v)) = Range(w.requests) \cup Range(NamedJob(w))
      BY <2>8, HandParts
    <3>3. Range(InHand(v)) \cap Range(Names(w.results)) = {}
      BY <3>2 DEF AllDifferent
    <3>4. Range(InHand(w)) = Range(InHand(v)) \cup Range(Names(w.results))
      BY <3>2, HandParts
    <3>5. IsInjective(InHand(v))
      BY <3>1, HandParts
    <3> QED BY <3>3, <3>4, <3>5 DEF Linked
  <2>10. CASE w.phase = "gone"
    <3> DEFINE k == [r EXCEPT !.cache.current = 0]
    <3>1. Polled(s) = k
      BY <1>2, <2>10 DEF Polled, w, j, r
    <3>2. k \in States /\ k.workers = r.workers /\ k.cache = [j EXCEPT !.current = 0]
      BY <2>7 DEF States, Caches
    <3>3. GoodCache(k.cache) /\ k.cache.current = 0 /\ k.cache.pending = j.pending
      BY <2>5, <3>2 DEF GoodCache, Caches
    <3> HIDE DEF k
    <3>4. k.cache.pending \subseteq gone
      BY <2>1, <2>5, <2>10, <3>3 DEF Linked
    <3>5. k.cache.current \in {0, i} /\ k.cache.current # i
      BY <1>2, <3>3
    <3>6. k.workers[i] = v /\ k.workers = [s.workers EXCEPT ![i] = k.workers[i]]
      BY <2>7, <3>2
    <3> HIDE DEF i
    <3>7. Follows(s, i, k, gone)
      BY <2>1, <2>6, <3>2, <3>3, <3>4, <3>5, <3>6 DEF Follows
    <3> QED BY <2>1, <3>1, <3>7, Assembled
  <2>11. CASE w.phase # "gone"
    <3>1. Polled(s) = r
      BY <1>2, <2>11 DEF Polled, w, j, r
    <3>2. r.cache.current \in {0, i} /\ r.cache.current # 0
      BY <1>2, <2>5, <2>7
    <3> HIDE DEF i
    <3>3. Follows(s, i, r, gone)
      BY <2>1, <2>5, <2>6, <2>7, <2>9, <3>2 DEF Follows
    <3> QED BY <2>1, <3>1, <3>3, Assembled
  <2> QED BY <2>10, <2>11
<1> QED BY <1>1, <1>2

LEMMA RequestedKeeps ==
  ASSUME NEW s, NEW gone, Good(s, gone), NEW a \in Addresses
  PROVE  Good(Requested(s, a), gone)
<1> DEFINE i == s.cache.current
           w == s.workers[i]
<1>1. CASE Requested(s, a) = s
  BY <1>1
<1>2. CASE i # 0 /\ w.phase = "gone" /\ Requested(s, a) = [s EXCEPT !.cache.current = 0]
  <2> DEFINE r == [s EXCEPT !.cache.current = 0]
  <2>1. i \in Threads /\ GoodWorker(w) /\ Linked(s.cache, w, gone) /\ w \in Workers
    BY <1>2, GoodParts DEF Good
  <2>2. r \in States /\ r.workers = s.workers /\ r.cache = [s.cache EXCEPT !.current = 0]
    BY GoodParts DEF States, Caches
  <2>3. GoodCache(r.cache) /\ r.cache.current = 0 /\ r.cache.pending = s.cache.pending
    BY <2>2, GoodParts DEF GoodCache, Caches
  <2> HIDE DEF r
  <2>4. r.cache.pending \subseteq gone
    BY <1>2, <2>1, <2>3 DEF Linked
  <2>5. \A k \in Threads : GoodWorker(r.workers[k])
    BY <2>2, GoodParts
  <2>6. Good(r, gone)
    BY <2>2, <2>3, <2>4, <2>5 DEF Good
  <2> QED BY <1>2, <2>6 DEF r
<1>3. CASE /\ i # 0 /\ a \notin s.cache.pending \cup DOMAIN s.cache.blocks \cup s.cache.unavailable
           /\ w.phase # "gone"
           /\ Requested(s, a) = [s EXCEPT !.cache.pending = @ \cup {a}, !.workers[i].requests = Append(@, a)]
  <2> DEFINE p == Append(w.requests, a)
             v == [w EXCEPT !.requests = p]
             j == [s.cache EXCEPT !.pending = @ \cup {a}]
             r == [s EXCEPT !.cache = j, !.workers[i].requests = p]
  <2>1. i \in Threads /\ GoodWorker(w) /\ Linked(s.cache, w, gone) /\ w \in Workers /\ GoodCache(s.cache)
    BY <1>3, GoodParts DEF Good
  <2>2. AllDifferent(w) /\ w.requests \in Seq(Addresses) /\ w.results \in Seq(Results)
    BY <2>1, HandParts DEF Linked, Workers
  <2>3. /\ p \in Seq(Addresses) /\ Range(p) = Range(w.requests) \cup {a}
        /\ IsInjective(p) <=> IsInjective(w.requests) /\ a \notin Range(w.requests)
    <3> DEFINE q == w.requests
    <3>1. q \in Seq(Addresses)
      BY <2>2
    <3> HIDE DEF q
    <3>2. /\ Append(q, a) \in Seq(Addresses) /\ Range(Append(q, a)) = Range(q) \cup {a}
          /\ IsInjective(Append(q, a)) <=> IsInjective(q) /\ a \notin Range(q)
      BY <3>1, AppendElements
    <3> QED BY <3>2 DEF q
  <2>4. Requested(s, a) = r
    <3>1. s \in States /\ i \in Threads /\ s.workers \in [Threads -> Workers] /\ w \in Workers
      BY <2>1, GoodParts
    <3> QED BY <1>3, <3>1 DEF States, Workers
  <2> HIDE DEF p
  <2>5. /\ GoodWorker(v) /\ NamedJob(v) = NamedJob(w) /\ v.requests = p /\ v.results = w.results
        /\ v.leaving = w.leaving /\ v.phase = w.phase
    <3>1. v = Messages(w, p, w.results)
      BY <2>1 DEF Workers, Messages
    <3> HIDE DEF v, w
    <3> QED BY <2>1, <2>2, <2>3, <3>1, OtherMessages
  <2>6. r \in States /\ r.cache = j /\ r.workers = [s.workers EXCEPT ![i] = v] /\ r.workers[i] = v
    <3>1. /\ v \in Workers /\ s \in States /\ s.workers \in [Threads -> Workers]
          /\ j \in Caches
      BY <2>5, GoodParts DEF GoodWorker, Caches
    <3> HIDE DEF j
    <3>2. r.cache = j /\ r.workers = [s.workers EXCEPT ![i] = v]
      BY <2>1, <3>1 DEF States
    <3>3. r = [s EXCEPT !.cache = j, !.workers = r.workers]
      BY <2>1, <3>1, <3>2 DEF States
    <3> HIDE DEF v, r
    <3>4. r.workers \in [Threads -> Workers] /\ r.workers[i] = v
      BY <2>1, <3>1, <3>2
    <3> QED BY <3>1, <3>2, <3>3, <3>4 DEF States
  <2>7. /\ r.cache.pending = s.cache.pending \cup {a} /\ r.cache.current = i
        /\ r.cache.blocks = s.cache.blocks /\ r.cache.len = s.cache.len /\ r.cache.bytes = s.cache.bytes
        /\ r.cache.unavailable = s.cache.unavailable /\ r.cache \in Caches
    BY <2>6, GoodParts DEF States, Caches
  <2> HIDE DEF v, r, w, j
  <2>8. GoodCache(r.cache)
    BY <1>3, <2>1, <2>7 DEF GoodCache
  <2>9. Linked(r.cache, v, gone)
    <3> USE <2>1, <2>2, <2>5
    <3>1. a \notin Range(InHand(w))
      BY <1>3 DEF Linked
    <3>2. AllDifferent(v)
      BY <2>3, <3>1, HandParts DEF AllDifferent
    <3>3. Range(InHand(v)) = Range(InHand(w)) \cup {a}
      BY <2>3, HandParts
    <3>4. IsInjective(InHand(v)) /\ v.phase # "gone"
      BY <1>3, <3>2, HandParts
    <3> QED BY <2>7, <3>3, <3>4 DEF Linked
  <2>10. Follows(s, i, r, gone)
    BY <1>3, <2>1, <2>5, <2>6, <2>7, <2>8, <2>9 DEF Follows
  <2> HIDE DEF i
  <2> QED BY <2>1, <2>4, <2>10, Assembled DEF r
<1> QED BY <1>1, <1>2, <1>3 DEF Requested, Blocks

LEMMA LookedKeeps ==
  ASSUME NEW s, NEW gone, Good(s, gone), NEW a \in Addresses
  PROVE  Good(Looked(s, a), gone)
<1> DEFINE seen == IF s.cache.pending = {} THEN s ELSE Polled(s)
           count == seen.cache.hot_counts[a] + 1
           new == IF count > HotBlockThreshold THEN seen.cache.hot_counts[a] ELSE count
           counted == [seen EXCEPT !.cache.hot_counts[a] = new]
<1>1. Good(seen, gone)
  BY PolledKeeps
<1>2. counted = [seen EXCEPT !.cache.hot_counts[a] = IF count > HotBlockThreshold THEN @ ELSE count]
  BY <1>1, GoodParts DEF States, Caches
<1>3. Looked(s, a) \in {seen, counted, Requested(counted, a)}
  BY <1>2 DEF Looked
<1> HIDE DEF seen
<1>4. seen \in States /\ seen.cache \in Caches /\ new \in Nat
  <2>1. seen \in States /\ seen.cache \in Caches /\ seen.cache.hot_counts \in [Addresses -> Nat]
    BY <1>1, GoodParts DEF Caches
  <2>2. seen.cache.hot_counts[a] \in Nat
    BY <2>1
  <2> QED BY <2>1, <2>2
<1> HIDE DEF count, new
<1>5. /\ counted \in States /\ counted.workers = seen.workers
      /\ counted.cache = [seen.cache EXCEPT !.hot_counts[a] = new]
  BY <1>4 DEF States, Caches
<1>6. Good(counted, gone)
  <2> HIDE DEF counted
  <2>1. /\ counted.cache \in Caches /\ counted.cache.blocks = seen.cache.blocks
        /\ counted.cache.pending = seen.cache.pending /\ counted.cache.unavailable = seen.cache.unavailable
        /\ counted.cache.len = seen.cache.len /\ counted.cache.bytes = seen.cache.bytes
        /\ counted.cache.current = seen.cache.current
    BY <1>4, <1>5 DEF Caches
  <2>2. GoodCache(counted.cache)
    BY <1>1, <2>1 DEF Good, GoodCache
  <2> QED BY <1>1, <1>5, <2>1, <2>2 DEF Good, Linked
<1>7. Good(Requested(counted, a), gone)
  <2> HIDE DEF counted
  <2> QED BY <1>6, RequestedKeeps
<1> QED BY <1>1, <1>3, <1>6, <1>7

\* A worker that begins, or is gone, has no code and nothing in hand.
Begun(b, p, q) == [NewWorker EXCEPT !.aot = b, !.phase = p, !.results = q]
Started(b, p) == [NewWorker EXCEPT !.aot = b, !.phase = p]
Begins(v, b, p, q) == v = Begun(b, p, q) \/ (q = <<>> /\ v = Started(b, p))

LEMMA Beginners ==
  ASSUME NEW b \in BOOLEAN, NEW p \in {"gone", "load", "idle"}, NEW q \in Seq(Results),
         NEW v, Begins(v, b, p, q)
  PROVE  /\ GoodWorker(v) /\ v.requests = <<>> /\ v.job = <<>> /\ v.results = q
         /\ ~ v.leaving /\ v.phase = p
<1> DEFINE e == <<>>
<1>1. /\ e \in Seq(Addresses) /\ e \in Seq(Results) /\ e \in Coded /\ DOMAIN e = {} /\ Retainable(e)
      /\ Range(e) = {} /\ IsInjective(e)
  BY NoCode, SmallSequences
<1>2. NewWorker = [phase |-> "idle", after |-> "idle", job |-> e, requests |-> e, results |-> e,
                   aot |-> FALSE, code |-> e, order |-> e, dirty |-> 0, leaving |-> FALSE,
                   open |-> "none", shared |-> FALSE]
  BY DEF NewWorker
<1>0. v = Begun(b, p, q) \/ (q = e /\ v = Started(b, p))
  BY DEF Begins
<1> HIDE DEF e
<1>3. NewWorker \in Workers
  BY <1>1, <1>2 DEF Workers
<1>4. /\ v \in Workers /\ v.phase = p /\ v.after = "idle" /\ v.job = e /\ v.requests = e
      /\ v.results = q /\ v.code = e /\ v.order = e /\ v.dirty = 0 /\ v.leaving = FALSE
  <2>1. CASE v = Begun(b, p, q)
    BY <1>1, <1>2, <1>3, <2>1 DEF Workers, Begun
  <2>2. CASE q = e /\ v = Started(b, p)
    BY <1>1, <1>2, <1>3, <2>2 DEF Workers, Started
  <2> QED BY <1>0, <2>1, <2>2
<1>5. 0 < AotFlushBlocks /\ 0 <= AotFlushBlocks
  BY CodeCacheAssumption
<1>6. GoodWorker(v)
  BY <1>1, <1>4, <1>5 DEF GoodWorker, Holds, Writing, e
<1> QED BY <1>4, <1>6 DEF e

\* The worker of a run before, or of a run to come.
LEMMA GoneIsGood ==
  /\ GoodWorker(Gone) /\ Gone.phase = "gone" /\ ~ Gone.leaving
  /\ \A q \in Seq(Results) : LET v == [Gone EXCEPT !.results = q] IN
       GoodWorker(v) /\ v.requests = <<>> /\ v.job = <<>> /\ v.results = q /\ ~ v.leaving /\ v.phase = "gone"
<1> DEFINE e == <<>>
<1>1. e \in Seq(Results)
  OBVIOUS
<1>2. NewWorker.aot = FALSE /\ NewWorker.results = e
  BY DEF NewWorker
<1>3. ASSUME NEW q \in Seq(Results)
      PROVE  [Gone EXCEPT !.results = q] = Begun(FALSE, "gone", q)
  BY <1>2 DEF Gone, NewWorker, Begun
<1>4. Begins(Gone, FALSE, "gone", e)
  BY <1>2 DEF Gone, NewWorker, Begun, Begins
<1> HIDE DEF e
<1>5. GoodWorker(Gone) /\ Gone.phase = "gone" /\ ~ Gone.leaving
  BY <1>1, <1>4, Beginners
<1>6. ASSUME NEW q \in Seq(Results)
      PROVE  LET v == [Gone EXCEPT !.results = q] IN
             GoodWorker(v) /\ v.requests = <<>> /\ v.job = <<>> /\ v.results = q /\ ~ v.leaving /\ v.phase = "gone"
  <2> DEFINE v == [Gone EXCEPT !.results = q]
  <2>1. v = Begun(FALSE, "gone", q)
    BY <1>3
  <2> HIDE DEF v
  <2> DEFINE b == FALSE
             p == "gone"
  <2>0. b \in BOOLEAN /\ p \in {"gone", "load", "idle"} /\ Begins(v, b, p, q)
    BY <2>1 DEF Begins
  <2> HIDE DEF b, p
  <2>2. GoodWorker(v) /\ v.requests = <<>> /\ v.job = <<>> /\ v.results = q /\ ~ v.leaving /\ v.phase = p
    BY <2>0, Beginners
  <2> USE DEF p
  <2> QED BY <2>2 DEF v
<1> QED BY <1>5, <1>6

LEMMA EmptyIsGood == GoodCache(Empty) /\ Empty.pending = {} /\ Empty.current = 0
<1> DEFINE e == <<>>
<1>1. e \in Coded /\ IsCode(e) /\ DOMAIN e = {} /\ Cardinality({}) = 0 /\ SumBytes({}) = 0
  BY NoCode
<1>2. 0 <= MaxBlocks /\ 0 <= MaxTraceCacheBytes
  BY CodeCacheAssumption
<1>3. Empty = [blocks |-> e, len |-> 0, bytes |-> 0, unavailable |-> {},
               hot_counts |-> [a \in Addresses |-> 0], pending |-> {}, current |-> 0]
  BY DEF Empty
<1> HIDE DEF e
<1>4. /\ Empty \in Caches /\ Empty.blocks = e /\ Empty.len = 0 /\ Empty.bytes = 0
      /\ Empty.unavailable = {} /\ Empty.pending = {} /\ Empty.current = 0
  BY <1>1, <1>3 DEF Caches
<1> QED BY <1>1, <1>2, <1>4 DEF GoodCache

LEMMA SpawnedKeeps ==
  ASSUME NEW s, NEW gone, Good(s, gone), CanSpawn(s), aot' \in BOOLEAN
  PROVE  Good(Spawned(s), gone)
<1>1. CASE s.cache.current # 0
  BY <1>1 DEF Spawned
<1>2. CASE s.cache.current = 0
  <2> DEFINE free == {k \in Threads : s.workers[k].phase = "gone"}
             i == Min(free)
             v == [NewWorker EXCEPT !.aot = aot', !.phase = IF aot' THEN "load" ELSE "idle"]
             r == [s EXCEPT !.cache.current = i, !.workers[i] = v]
  <2>1. i \in Threads
    <3>1. free \subseteq Nat /\ free # {} /\ free \subseteq Threads
      BY <1>2 DEF Threads, CanSpawn
    <3> HIDE DEF free
    <3> QED BY <3>1, LeastIsIn
  <2>2. Spawned(s) = r
    BY <1>2 DEF Spawned
  <2> HIDE DEF free, i
  <2>3. /\ GoodWorker(v) /\ v.requests = <<>> /\ v.job = <<>> /\ v.results = <<>>
        /\ ~ v.leaving /\ v.phase # "gone"
    <3> DEFINE e == <<>>
               p == IF aot' THEN "load" ELSE "idle"
    <3>1. e \in Seq(Results) /\ p \in {"gone", "load", "idle"} /\ p # "gone"
      OBVIOUS
    <3>2. v = Started(aot', p)
      BY DEF Started
    <3> DEFINE b == aot'
    <3>3. b \in BOOLEAN /\ Begins(v, b, p, e)
      BY <3>2 DEF Begins
    <3> HIDE DEF p, e, v, b
    <3>4. GoodWorker(v) /\ v.requests = <<>> /\ v.job = <<>> /\ v.results = e /\ ~ v.leaving /\ v.phase = p
      BY <3>1, <3>3, Beginners
    <3> QED BY <3>1, <3>4 DEF e
  <2> HIDE DEF v
  <2>4. v \in Workers /\ s \in States /\ s.cache \in Caches /\ s.workers \in [Threads -> Workers] /\ GoodCache(s.cache)
    BY <2>3, GoodParts DEF GoodWorker
  <2>5. /\ r \in States /\ r.workers = [s.workers EXCEPT ![i] = v] /\ r.workers[i] = v
        /\ r.cache = [s.cache EXCEPT !.current = i]
    BY <2>1, <2>4 DEF States, Caches
  <2> HIDE DEF r
  <2>6. GoodCache(r.cache) /\ r.cache.current = i /\ r.cache.pending = s.cache.pending
    BY <2>1, <2>4, <2>5 DEF GoodCache, Caches
  <2>7. s.cache.pending \subseteq gone
    BY <1>2 DEF Good
  <2>8. Range(InHand(v)) = {} /\ IsInjective(InHand(v))
    BY <2>3, NewHand
  <2>9. Linked(r.cache, v, gone)
    BY <2>3, <2>6, <2>7, <2>8 DEF Linked
  <2>10. i # 0
    BY <2>1 DEF Threads
  <2>11. Follows(s, i, r, gone)
    BY <2>3, <2>5, <2>6, <2>9, <2>10 DEF Follows
  <2> QED BY <2>1, <2>2, <2>11, Assembled
<1> QED BY <1>1, <1>2

LEMMA ClearedGood ==
  ASSUME NEW s, NEW gone, Good(s, gone)
  PROVE  Good(Cleared(s), {})
<1> DEFINE i == s.cache.current
           w == s.workers[i]
           v == [w EXCEPT !.leaving = TRUE, !.results = <<>>]
           ws == IF i = 0 THEN s.workers ELSE [s.workers EXCEPT ![i] = v]
           r == [cache |-> Empty, workers |-> ws]
<1>1. Cleared(s) = r
  BY DEF Cleared
<1>2. Empty \in Caches /\ GoodCache(Empty) /\ Empty.current = 0 /\ Empty.pending = {}
  BY EmptyIsGood DEF GoodCache
<1>3. s.workers \in [Threads -> Workers] /\ \A k \in Threads : GoodWorker(s.workers[k])
  BY GoodParts
<1>4. ws \in [Threads -> Workers] /\ \A k \in Threads : GoodWorker(ws[k])
  <2>1. CASE i = 0
    BY <1>3, <2>1
  <2>2. CASE i # 0
    <3>1. i \in Threads /\ GoodWorker(w) /\ w \in Workers
      BY <1>3, <2>2, GoodParts DEF GoodWorker
    <3> DEFINE e == <<>>
               u == [w EXCEPT !.leaving = TRUE, !.results = e]
    <3>2. e \in Seq(Results)
      OBVIOUS
    <3> HIDE DEF e, w
    <3>3. /\ u \in Workers /\ u.phase = w.phase /\ u.after = w.after /\ u.job = w.job
          /\ u.code = w.code /\ u.order = w.order /\ u.dirty = w.dirty /\ u.leaving = TRUE
      BY <3>1, <3>2 DEF Workers
    <3> HIDE DEF u
    <3>4. GoodWorker(u)
      BY <3>1, <3>3 DEF GoodWorker, Holds
    <3>5. v = u
      BY DEF u, e
    <3> HIDE DEF v, i
    <3> QED BY <1>3, <2>2, <3>1, <3>3, <3>4, <3>5
  <2> QED BY <2>1, <2>2
<1> HIDE DEF ws
<1>5. r \in States /\ r.cache = Empty /\ r.workers = ws
  BY <1>2, <1>4 DEF States
<1> HIDE DEF r
<1> QED BY <1>1, <1>2, <1>4, <1>5 DEF Good

-----------------------------------------------------------------------------
(* The steps of the machine                                                  *)

LEMMA Becomes ==
  ASSUME NEW s, NEW gone, Good(s, gone), Become(s)
  PROVE  Good(Now', gone)
<1>1. Now' = [cache |-> s.cache, workers |-> s.workers]
  BY DEF Now, Become
<1>2. s.cache \in Caches /\ s.workers \in [Threads -> Workers]
  BY GoodParts
<1> QED BY <1>1, <1>2 DEF Good, States

LEMMA ExecuteKeeps == ASSUME CacheInv, NEW a \in Addresses, Execute(a) PROVE CacheInv'
<1>1. Good(Looked(Now, a), lost)
  BY LookedKeeps DEF CacheInv
<1>2. Become(Looked(Now, a))
  BY DEF Execute
<1> DEFINE s == Looked(Now, a)
<1> HIDE DEF s
<1>3. Good(Now', lost)
  BY <1>1, <1>2, Becomes DEF s
<1> QED BY <1>3 DEF CacheInv, Execute, fileVars

LEMMA StartKeeps == ASSUME CacheInv, NEW a \in Addresses, Start(a) PROVE CacheInv'
<1> DEFINE n == Spawned(Now)
           s == Requested(n, a)
<1>1. CanSpawn(Now) /\ aot' \in BOOLEAN /\ Become(s)
  BY DEF CacheInv, Start
<1>2. Good(n, lost)
  BY <1>1, SpawnedKeeps DEF CacheInv
<1> HIDE DEF n
<1>3. Good(s, lost)
  BY <1>2, RequestedKeeps
<1> HIDE DEF s
<1>4. Good(Now', lost)
  BY <1>1, <1>3, Becomes
<1> QED BY <1>4 DEF CacheInv, Start, fileVars

LEMMA ClearKeeps == ASSUME CacheInv, NEW a \in Addresses, Clear(a) PROVE CacheInv'
<1> DEFINE c == Cleared(Now)
           n == Spawned(c)
           s == Requested(n, a)
<1>1. CanSpawn(c) /\ aot' \in BOOLEAN /\ Become(s) /\ lost' = {}
  BY DEF Clear
<1>2. Good(c, {})
  BY ClearedGood DEF CacheInv
<1> HIDE DEF c
<1>3. Good(n, {})
  BY <1>1, <1>2, SpawnedKeeps
<1> HIDE DEF n
<1>4. Good(s, {})
  BY <1>3, RequestedKeeps
<1> HIDE DEF s
<1>5. Good(Now', {})
  BY <1>1, <1>4, Becomes
<1> QED BY <1>1, <1>5 DEF CacheInv, Clear, fileVars

LEMMA CrashKeeps == ASSUME CacheInv, Crash PROVE CacheInv'
<1>1. cache' = Empty /\ workers' = [i \in Threads |-> Gone] /\ lost' = {}
  BY DEF Crash
<1>2. Good(Now', {})
  <2>1. GoodWorker(Gone) /\ Gone \in Workers /\ Empty \in Caches /\ GoodCache(Empty)
        /\ Empty.pending = {} /\ Empty.current = 0
    BY GoneIsGood, EmptyIsGood DEF GoodWorker, GoodCache
  <2>2. Now'.cache = Empty /\ Now'.workers = [i \in Threads |-> Gone] /\ Now' \in States
    BY <1>1, <2>1 DEF Now, States
  <2> QED BY <2>1, <2>2 DEF Good
<1>3. GoodFile(temporary')
  BY DEF Crash, GoodFile
<1> QED BY <1>1, <1>2, <1>3 DEF CacheInv, Crash

-----------------------------------------------------------------------------
(* The steps of the workers                                                  *)

\* Everything is good again when the workers are, and the current one fits the cache.
LEMMA WorkersGo ==
  ASSUME CacheInv, cache' = cache, workers' \in [Threads -> Workers],
         \A k \in Threads : GoodWorker(workers'[k]), lost \subseteq lost',
         cache.current # 0 => Linked(cache, workers'[cache.current], lost')
  PROVE  Good(Now', lost')
<1>1. Now.cache = cache /\ Now'.cache = cache /\ Now'.workers = workers'
  BY DEF Now
<1>2. cache \in Caches /\ GoodCache(cache) /\ (cache.current = 0 => cache.pending \subseteq lost)
  BY <1>1 DEF CacheInv, Good, GoodCache
<1>3. Now' \in States
  BY <1>2 DEF Now, States
<1> HIDE DEF Now
<1> QED BY <1>1, <1>2, <1>3 DEF Good

\* One of them went.
Went(i, v) ==
  /\ workers' = [workers EXCEPT ![i] = v] /\ cache' = cache /\ lost \subseteq lost' /\ GoodWorker(v)
  /\ i = cache.current => Linked(cache, v, lost')

LEMMA WorkerGoes == ASSUME CacheInv, NEW i \in Threads, NEW v, Went(i, v) PROVE Good(Now', lost')
<1>1. /\ workers \in [Threads -> Workers] /\ \A k \in Threads : GoodWorker(workers[k])
      /\ cache.current \in {0} \cup Threads
      /\ cache.current # 0 => Linked(cache, workers[cache.current], lost)
  BY DEF CacheInv, Good, Now, States, Caches
<1>2. v \in Workers
  BY DEF Went, GoodWorker
<1>3. workers' \in [Threads -> Workers] /\ workers'[i] = v /\ \A k \in Threads : k # i => workers'[k] = workers[k]
  BY <1>1, <1>2 DEF Went
<1>4. \A k \in Threads : GoodWorker(workers'[k])
  BY <1>1, <1>3 DEF Went
<1>5. ASSUME cache.current # 0 PROVE Linked(cache, workers'[cache.current], lost')
  <2>1. CASE cache.current = i
    BY <1>3, <2>1 DEF Went
  <2>2. CASE cache.current # i
    BY <1>1, <1>3, <1>5, <2>2 DEF Went, Linked
  <2> QED BY <2>1, <2>2
<1> QED BY <1>3, <1>4, <1>5, WorkersGo DEF Went

\* A worker and the link to its cache.
LEMMA WorkerParts ==
  ASSUME CacheInv, NEW i \in Threads
  PROVE  /\ GoodWorker(workers[i]) /\ workers[i] \in Workers
         /\ i = cache.current => Linked(cache, workers[i], lost)
         /\ workers \in [Threads -> Workers]
<1>1. i # 0
  BY DEF Threads
<1> QED BY <1>1 DEF CacheInv, Good, Now, States, GoodWorker

\* What is in hand may change hands.
LEMMA SameHand ==
  ASSUME NEW j, NEW gone, NEW w, GoodWorker(w), NEW v, GoodWorker(v),
         v.leaving = w.leaving, v.phase # "gone",
         Range(v.requests) \cup Range(NamedJob(v)) \cup Range(Names(v.results))
           = Range(w.requests) \cup Range(NamedJob(w)) \cup Range(Names(w.results)),
         AllDifferent(w) => AllDifferent(v), Linked(j, w, gone)
  PROVE  Linked(j, v, gone)
<1>1. Range(InHand(v)) = Range(InHand(w))
  BY HandParts
<1>2. IsInjective(InHand(v))
  BY HandParts DEF Linked
<1> QED BY <1>1, <1>2 DEF Linked

\* A worker that has the same code, the same messages and the same job.
Alike(v, w) ==
  /\ v \in Workers /\ v.job = w.job /\ v.requests = w.requests /\ v.results = w.results
  /\ v.code = w.code /\ v.order = w.order /\ v.leaving = w.leaving
  /\ v.phase = "compile" <=> w.phase = "compile"

LEMMA AlikeHands ==
  ASSUME NEW w, GoodWorker(w), NEW v, GoodWorker(v), Alike(v, w), v.phase # "gone"
  PROVE  \A j, gone : Linked(j, w, gone) => Linked(j, v, gone)
<1>1. NamedJob(v) = NamedJob(w)
  BY DEF NamedJob, Alike
<1>2. AllDifferent(w) => AllDifferent(v)
  BY <1>1 DEF AllDifferent, Alike
<1> SUFFICES ASSUME NEW j, NEW gone, Linked(j, w, gone) PROVE Linked(j, v, gone)
  OBVIOUS
<1> QED BY <1>1, <1>2, SameHand DEF Alike

LEMMA LoadKeeps == ASSUME CacheInv, NEW i \in Threads, Load(i) PROVE CacheInv'
<1> DEFINE w == workers[i]
           code == Loaded(file)
           order == Ascending(DOMAIN code)
           v == [w EXCEPT !.code = code, !.order = order, !.phase = "open", !.after = "idle"]
<1>1. /\ w.phase = "load" /\ workers' = [workers EXCEPT ![i] = v]
      /\ UNCHANGED <<cache, aot, temporary, file, clears, deaths, lost>>
  BY DEF Load, Goes, fileVars
<1>2. GoodWorker(w) /\ w \in Workers /\ (i = cache.current => Linked(cache, w, lost))
  BY WorkerParts
<1>3. Retainable(code)
  <2>1. CASE file \in {Absent, Torn}
    <3>1. code = <<>>
      BY <2>1 DEF Loaded, Absent, Torn
    <3> HIDE DEF code
    <3> QED BY <3>1, NoCode
  <2>2. CASE \E c \in Coded : file = Whole(c) /\ Retainable(c)
    BY <2>2 DEF Loaded, Whole
  <2> QED BY <2>1, <2>2 DEF CacheInv, GoodFile
<1> HIDE DEF code
<1>4. /\ order \in Seq(Addresses) /\ Range(order) = DOMAIN code /\ IsInjective(order)
  <2> DEFINE D == DOMAIN code
  <2>1. D \subseteq Addresses /\ IsFiniteSet(D)
    BY <1>3 DEF Retainable, IsCode, Coded
  <2>2. D \subseteq Nat
    BY <2>1, CodeCacheAssumption
  <2> HIDE DEF D
  <2>3. Ascending(D) \in Seq(D) /\ Range(Ascending(D)) = D /\ IsInjective(Ascending(D))
    BY <2>1, <2>2, AscendingElements
  <2>4. Ascending(D) \in Seq(Addresses)
    BY <2>1, <2>3
  <2> QED BY <2>3, <2>4 DEF D
<1> HIDE DEF w, order
<1>5. /\ v \in Workers /\ v.phase = "open" /\ v.after = "idle" /\ v.job = w.job /\ v.requests = w.requests
      /\ v.results = w.results /\ v.code = code /\ v.order = order /\ v.dirty = w.dirty
      /\ v.leaving = w.leaving
  BY <1>2, <1>3, <1>4 DEF Workers, Writing, Retainable, IsCode
<1> HIDE DEF v
<1>6. w.job = <<>> /\ w.dirty < AotFlushBlocks /\ w.dirty \in Nat
  BY <1>1, <1>2 DEF GoodWorker, Holds, Writing, w, Workers
<1>7. Holds(v) /\ v.dirty <= AotFlushBlocks
  BY <1>5, <1>6, CodeCacheAssumption DEF Holds, Writing
<1>8. GoodWorker(v)
  BY <1>3, <1>4, <1>5, <1>7 DEF GoodWorker, Writing
<1>9. NamedJob(v) = NamedJob(w)
  BY <1>1, <1>5 DEF NamedJob, w
<1>10. AllDifferent(w) => AllDifferent(v)
  BY <1>5, <1>9 DEF AllDifferent
<1>11. ASSUME i = cache.current PROVE Linked(cache, v, lost)
  BY <1>2, <1>5, <1>8, <1>9, <1>10, <1>11, SameHand
<1>12. Went(i, v)
  BY <1>1, <1>8, <1>11 DEF Went
<1>13. Good(Now', lost')
  BY <1>12, WorkerGoes
<1> QED BY <1>1, <1>13 DEF CacheInv

LEMMA ReceiveKeeps == ASSUME CacheInv, NEW i \in Threads, Receive(i) PROVE CacheInv'
<1> DEFINE w == workers[i]
<1>1. w.phase = "idle" /\ UNCHANGED <<cache, aot, temporary, file, clears, deaths, lost>>
  BY DEF Receive, fileVars
<1>2. GoodWorker(w) /\ w \in Workers /\ (i = cache.current => Linked(cache, w, lost))
  BY WorkerParts
<1>3. w.job = <<>> /\ w.dirty < AotFlushBlocks /\ w.dirty <= AotFlushBlocks
  BY <1>1, <1>2 DEF GoodWorker, Holds, Writing
<1>4. \E v : Went(i, v)
  <2>1. CASE w.requests # <<>>
    <3> DEFINE p == w.requests
               h == Head(p)
               t == Tail(p)
               one == <<h>>
               v == [w EXCEPT !.requests = t, !.job = one, !.phase = "compile"]
    <3>1. workers' = [workers EXCEPT ![i] = v]
      BY <2>1 DEF Receive, Goes
    <3>2. p \in Seq(Addresses)
      BY <1>2 DEF Workers
    <3> HIDE DEF p
    <3>3. /\ h \in Addresses /\ t \in Seq(Addresses) /\ Range(p) = {h} \cup Range(t)
          /\ IsInjective(p) <=> IsInjective(t) /\ h \notin Range(t)
      BY <2>1, <3>2, HeadAndTail DEF p
    <3>4. one \in Seq(Addresses) /\ one \in Seq(Addresses) \cup Seq(Results) /\ Len(one) = 1 /\ one[1] = h /\ one # <<>>
      <4>1. one \in Seq(Addresses) /\ Len(one) = 1 /\ one[1] = h
        BY <3>3
      <4> QED BY <4>1
    <3> HIDE DEF w, h, t, one
    <3>5. /\ v \in Workers /\ v.phase = "compile" /\ v.after = w.after /\ v.job = one /\ v.requests = t
          /\ v.results = w.results /\ v.code = w.code /\ v.order = w.order /\ v.dirty = w.dirty
          /\ v.leaving = w.leaving
      BY <1>2, <3>3, <3>4 DEF Workers
    <3> HIDE DEF v
    <3>6. GoodWorker(v)
      BY <1>2, <1>3, <3>4, <3>5 DEF GoodWorker, Holds, Writing
    <3>7. Range(NamedJob(v)) = {h} /\ Range(NamedJob(w)) = {}
      BY <1>2, <1>3, <3>4, <3>5, <3>6, JobName
    <3>8. AllDifferent(w) => AllDifferent(v)
      BY <3>3, <3>5, <3>7 DEF AllDifferent, p
    <3>9. ASSUME i = cache.current PROVE Linked(cache, v, lost)
      <4>1. Range(v.requests) \cup Range(NamedJob(v)) \cup Range(Names(v.results))
              = Range(w.requests) \cup Range(NamedJob(w)) \cup Range(Names(w.results))
        BY <3>3, <3>5, <3>7 DEF p
      <4> QED BY <1>2, <3>5, <3>6, <3>8, <3>9, <4>1, SameHand
    <3> QED BY <1>1, <3>1, <3>6, <3>9 DEF Went
  <2>2. CASE w.requests = <<>>
    <3> DEFINE v == [w EXCEPT !.phase = "finish"]
    <3>1. workers' = [workers EXCEPT ![i] = v] /\ w.leaving
      BY <2>2 DEF Receive, Goes
    <3> HIDE DEF w
    <3>2. /\ v \in Workers /\ v.phase = "finish" /\ v.after = w.after /\ v.job = w.job
          /\ v.code = w.code /\ v.order = w.order /\ v.dirty = w.dirty /\ v.leaving = w.leaving
      BY <1>2 DEF Workers
    <3> HIDE DEF v
    <3>3. GoodWorker(v)
      BY <1>2, <1>3, <3>1, <3>2 DEF GoodWorker, Holds, Writing
    <3>4. i # cache.current
      BY <1>2, <3>1 DEF Linked
    <3> QED BY <1>1, <3>1, <3>3, <3>4 DEF Went
  <2> QED BY <2>1, <2>2
<1>5. Good(Now', lost')
  BY <1>4, WorkerGoes
<1> QED BY <1>1, <1>5 DEF CacheInv

-----------------------------------------------------------------------------
(* What a worker keeps                                                       *)

\* The code that is retained when there is one more, and how many of the oldest go.
Newest(w, n) == {w.order[i] : i \in n + 1 .. Len(w.order)}
Fits(w, a, n) == Cardinality(Newest(w, n)) < MaxAotBlocks /\ SumBytes(Newest(w, n)) + BlockBytes[a] <= MaxAotBytes
Dropped(w, a) == Min({n \in 0 .. Len(w.order) : Fits(w, a, n)})

LEMMA DroppedFits ==
  ASSUME NEW w, w.order \in Seq(Addresses), NEW a \in Addresses
  PROVE  Dropped(w, a) \in 0 .. Len(w.order) /\ Fits(w, a, Dropped(w, a))
<1> DEFINE len == Len(w.order)
           D == {n \in 0 .. len : Fits(w, a, n)}
<1>1. len \in Nat /\ len \in 0 .. len
  OBVIOUS
<1>2. Fits(w, a, len)
  <2>1. Newest(w, len) = {}
    BY <1>1 DEF Newest
  <2>2. Cardinality({}) = 0 /\ SumBytes({}) = 0
    BY NoCode
  <2>3. 0 < MaxAotBlocks /\ 0 + BlockBytes[a] <= MaxAotBytes
    BY CodeCacheAssumption
  <2> QED BY <2>1, <2>2, <2>3 DEF Fits
<1>3. D \subseteq Nat /\ D # {}
  BY <1>1, <1>2
<1>4. Dropped(w, a) = Min(D)
  BY DEF Dropped
<1> HIDE DEF D
<1>5. Min(D) \in D
  BY <1>3, LeastIsIn
<1> QED BY <1>4, <1>5 DEF D

LEMMA RetainedParts ==
  ASSUME NEW w, NEW a
  PROVE  LET kept == SubSeq(w.order, Dropped(w, a) + 1, Len(w.order))
         IN  Retained(w, a) = [w EXCEPT !.code = With(Restrict(@, Range(kept)), a, Code(a)),
                                        !.order = Append(kept, a), !.dirty = @ + 1]
BY DEF Retained, Dropped, Fits, Newest, Range

\* The worker with other code.
Keeping(w, c, o, n) == [w EXCEPT !.code = c, !.order = o, !.dirty = n]

LEMMA RetainedKeeps ==
  ASSUME NEW w, GoodWorker(w), NEW a \in Addresses \ DOMAIN w.code
  PROVE  \E c, o : /\ Retained(w, a) = Keeping(w, c, o, w.dirty + 1)
                   /\ Retainable(c) /\ o \in Seq(Addresses) /\ Range(o) = DOMAIN c /\ IsInjective(o)
<1>1. /\ w \in Workers /\ Retainable(w.code) /\ Range(w.order) = DOMAIN w.code /\ IsInjective(w.order)
      /\ w.order \in Seq(Addresses) /\ w.code \in Coded /\ IsFiniteSet(DOMAIN w.code)
      /\ DOMAIN w.code \subseteq Addresses /\ \A x \in DOMAIN w.code : w.code[x] = Code(x)
  BY DEF GoodWorker, Workers, Retainable, IsCode, Coded
<1> DEFINE q == w.order
           k == Dropped(w, a)
           kept == SubSeq(q, k + 1, Len(q))
           S == Range(kept)
           rest == Restrict(w.code, S)
           c == With(rest, a, Code(a))
           o == Append(kept, a)
<1>2. k \in 0 .. Len(q) /\ Fits(w, a, k)
  BY <1>1, DroppedFits
<1>3. Retained(w, a) = Keeping(w, c, o, w.dirty + 1)
  BY RetainedParts DEF Keeping
<1> HIDE DEF k
<1>4. S \subseteq Range(q) /\ S = Newest(w, k) /\ IsInjective(kept) /\ kept \in Seq(Addresses)
  <2>1. q \in Seq(Addresses) /\ Len(q) \in Nat /\ k + 1 \in Nat /\ k + 1 >= 1
    BY <1>1, <1>2
  <2>2. kept \in Seq(Addresses)
    BY <2>1
  <2>3. S = {q[i] : i \in k + 1 .. Len(q)} /\ S \subseteq Range(q) /\ (IsInjective(q) => IsInjective(kept))
    <3> HIDE DEF q
    <3> QED BY <1>2, <2>1, SuffixElements
  <2> QED BY <1>1, <2>2, <2>3 DEF Newest
<1> HIDE DEF kept, S
<1>5. S \subseteq DOMAIN w.code /\ DOMAIN w.code \cap S = S /\ a \in Addresses \ S /\ IsFiniteSet(S) /\ S \subseteq Addresses
  BY <1>1, <1>4, FS_Subset
<1>6. rest \in Coded /\ DOMAIN rest = S /\ \A x \in S : rest[x] = Code(x)
  <2>1. rest = Restrict(w.code, DOMAIN w.code \cap S)
    BY <1>5
  <2> HIDE DEF rest
  <2> QED BY <1>1, <1>5, <2>1, LessCode
<1> HIDE DEF rest
<1>7. c \in Coded /\ DOMAIN c = S \cup {a} /\ \A x \in DOMAIN c : c[x] = Code(x)
  <2>1. /\ c \in Coded /\ DOMAIN c = DOMAIN rest \cup {a} /\ c[a] = Code(a)
        /\ \A x \in DOMAIN rest \ {a} : c[x] = rest[x]
    BY <1>6, WithCode
  <2> QED BY <1>6, <2>1
<1>8. /\ IsFiniteSet(S \cup {a}) /\ Cardinality(S \cup {a}) = Cardinality(S) + 1
      /\ SumBytes(S \cup {a}) = SumBytes(S) + BlockBytes[a] /\ Cardinality(S) \in Nat
  BY <1>5, BytesOfCode, FS_AddElement, FS_CardinalityType
<1>9. Cardinality(S) < MaxAotBlocks /\ SumBytes(S) + BlockBytes[a] <= MaxAotBytes /\ MaxAotBlocks \in Nat
  BY <1>2, <1>4, CodeCacheAssumption DEF Fits
<1> HIDE DEF c
<1>10. Retainable(c)
  BY <1>7, <1>8, <1>9 DEF Retainable, IsCode
<1>11. o \in Seq(Addresses) /\ Range(o) = S \cup {a} /\ IsInjective(o)
  BY <1>4, <1>5, AppendElements DEF S
<1> HIDE DEF o
<1> QED BY <1>3, <1>7, <1>10, <1>11

LEMMA AnswerOfWorker ==
  ASSUME NEW w, GoodWorker(w), NEW a \in Addresses
  PROVE  Answer(w, a) \in Results /\ Answer(w, a).address = a
<1>1. a \in DOMAIN w.code => w.code[a] = Code(a)
  BY DEF GoodWorker, Retainable, IsCode
<1>2. Answer(w, a) = [address |-> a, found |-> a \notin Traceless, code |-> Code(a)]
  BY <1>1 DEF Answer
<1> QED BY <1>2 DEF Results

\* The worker with an answer, and what it does with the code.
Answering(w, r) == [w EXCEPT !.job = <<r>>, !.phase = "send"]

LEMMA Answered ==
  ASSUME NEW w, GoodWorker(w), w.phase = "compile", NEW v, v = Answering(w, Answer(w, w.job[1]))
  PROVE  /\ GoodWorker(v) /\ w.job[1] \in Addresses /\ v.phase = "send" /\ v.job \in Seq(Results) /\ Len(v.job) = 1
         /\ Range(NamedJob(v)) = Range(NamedJob(w)) /\ v.requests = w.requests /\ v.results = w.results
         /\ v.leaving = w.leaving /\ v.code = w.code /\ v.order = w.order /\ v.dirty = w.dirty
         /\ v.dirty < AotFlushBlocks
<1> DEFINE a == w.job[1]
           r == Answer(w, a)
           one == <<r>>
<1>1. w \in Workers /\ w.job \in Seq(Addresses) /\ Len(w.job) = 1 /\ w.dirty < AotFlushBlocks
  BY DEF GoodWorker, Holds, Writing
<1>2. a \in Addresses /\ w.job # <<>>
  BY <1>1
<1> HIDE DEF a
<1>3. r \in Results /\ r.address = a
  BY <1>2, AnswerOfWorker
<1> HIDE DEF r
<1>4. one \in Seq(Results) /\ Len(one) = 1 /\ one[1] = r /\ one \in Seq(Addresses) \cup Seq(Results) /\ one # <<>>
  <2>1. one \in Seq(Results) /\ Len(one) = 1 /\ one[1] = r
    BY <1>3
  <2> QED BY <2>1
<1>5. v = [w EXCEPT !.job = one, !.phase = "send"]
  BY DEF Answering, a, r
<1> HIDE DEF one
<1>6. /\ v \in Workers /\ v.phase = "send" /\ v.after = w.after /\ v.job = one /\ v.requests = w.requests
      /\ v.results = w.results /\ v.code = w.code /\ v.order = w.order /\ v.dirty = w.dirty
      /\ v.leaving = w.leaving
  BY <1>1, <1>4, <1>5 DEF Workers
<1>7. GoodWorker(v)
  BY <1>1, <1>4, <1>6 DEF GoodWorker, Holds, Writing
<1>8. Range(NamedJob(v)) = {a} /\ Range(NamedJob(w)) = {a}
  BY <1>2, <1>3, <1>4, <1>6, <1>7, JobName DEF a
<1> QED BY <1>1, <1>2, <1>4, <1>6, <1>7, <1>8 DEF a

LEMMA CompileKeeps == ASSUME CacheInv, NEW i \in Threads, Compile(i) PROVE CacheInv'
<1> DEFINE w == workers[i]
           a == w.job[1]
           r == Answer(w, a)
           u == Answering(w, r)
<1>1. w.phase = "compile" /\ UNCHANGED <<cache, aot, temporary, file, clears, deaths, lost>>
  BY DEF Compile, fileVars
<1>2. GoodWorker(w) /\ w \in Workers /\ (i = cache.current => Linked(cache, w, lost))
  BY WorkerParts
<1> DEFINE k == Retained(u, a)
           m == [k EXCEPT !.phase = "open", !.after = "send"]
<1>3. workers' = [workers EXCEPT ![i] = IF a \in Traceless \cup DOMAIN w.code \/ ~ w.aot THEN u
                                        ELSE IF k.dirty < AotFlushBlocks THEN k ELSE m]
  BY DEF Compile, Goes, Answering
<1>4. /\ GoodWorker(u) /\ a \in Addresses /\ u.phase = "send" /\ u.job \in Seq(Results) /\ Len(u.job) = 1
      /\ Range(NamedJob(u)) = Range(NamedJob(w)) /\ u.requests = w.requests /\ u.results = w.results
      /\ u.leaving = w.leaving /\ u.code = w.code /\ u.dirty = w.dirty /\ u.dirty < AotFlushBlocks
  BY <1>1, <1>2, Answered
<1> HIDE DEF w, a, u
<1>5. ASSUME i = cache.current PROVE Linked(cache, u, lost)
  <2>1. AllDifferent(w) => AllDifferent(u)
    BY <1>2, <1>4, JobName DEF AllDifferent
  <2> QED BY <1>2, <1>4, <1>5, <2>1, SameHand
<1>6. CASE a \in Traceless \cup DOMAIN w.code \/ ~ w.aot
  <2>1. workers' = [workers EXCEPT ![i] = u]
    BY <1>3, <1>6
  <2>2. Went(i, u)
    BY <1>1, <1>4, <1>5, <2>1 DEF Went
  <2>3. Good(Now', lost')
    BY <2>2, WorkerGoes
  <2> QED BY <1>1, <2>3 DEF CacheInv
<1>7. CASE ~ (a \in Traceless \cup DOMAIN w.code \/ ~ w.aot)
  <2>1. a \in Addresses \ DOMAIN u.code
    BY <1>4, <1>7
  <2> DEFINE n == u.dirty + 1
  <2>2. PICK c, o : /\ k = Keeping(u, c, o, n)
                    /\ Retainable(c) /\ o \in Seq(Addresses) /\ Range(o) = DOMAIN c /\ IsInjective(o)
    BY <1>4, <2>1, RetainedKeeps
  <2>3. u \in Workers /\ u.dirty \in Nat /\ n \in Nat /\ n <= AotFlushBlocks /\ c \in Coded
    BY <1>4, <2>2, CodeCacheAssumption DEF GoodWorker, Workers, Retainable, IsCode
  <2> HIDE DEF k, n
  <2>4. /\ k \in Workers /\ k.phase = "send" /\ k.after = u.after /\ k.job = u.job /\ k.requests = u.requests
        /\ k.results = u.results /\ k.code = c /\ k.order = o /\ k.dirty = n /\ k.leaving = u.leaving
    BY <1>4, <2>2, <2>3 DEF Workers, Keeping
  <2>5. \E v : /\ workers' = [workers EXCEPT ![i] = v] /\ GoodWorker(v) /\ v.phase # "gone" /\ v.phase # "compile"
               /\ v.job = u.job /\ v.requests = u.requests /\ v.results = u.results /\ v.leaving = u.leaving
    <3>1. CASE k.dirty < AotFlushBlocks
      <4>1. workers' = [workers EXCEPT ![i] = k]
        BY <1>3, <1>7, <3>1
      <4>2. GoodWorker(k)
        BY <1>4, <2>2, <2>3, <2>4, <3>1 DEF GoodWorker, Holds, Writing
      <4> QED BY <2>4, <4>1, <4>2
    <3>2. CASE ~ (k.dirty < AotFlushBlocks)
      <4>1. workers' = [workers EXCEPT ![i] = m]
        BY <1>3, <1>7, <3>2
      <4>2. /\ m \in Workers /\ m.phase = "open" /\ m.after = "send" /\ m.job = u.job /\ m.requests = u.requests
            /\ m.results = u.results /\ m.code = c /\ m.order = o /\ m.dirty = n /\ m.leaving = u.leaving
        BY <2>4 DEF Workers, Writing
      <4> HIDE DEF m
      <4>3. GoodWorker(m)
        BY <1>4, <2>2, <2>3, <4>2 DEF GoodWorker, Holds, Writing
      <4> QED BY <4>1, <4>2, <4>3
    <3> QED BY <3>1, <3>2
  <2>6. PICK v : /\ workers' = [workers EXCEPT ![i] = v] /\ GoodWorker(v) /\ v.phase # "gone" /\ v.phase # "compile"
                 /\ v.job = u.job /\ v.requests = u.requests /\ v.results = u.results /\ v.leaving = u.leaving
    BY <2>5
  <2>7. NamedJob(v) = NamedJob(u)
    BY <1>4, <2>6 DEF NamedJob
  <2>8. ASSUME i = cache.current PROVE Linked(cache, v, lost)
    <3>1. AllDifferent(u) => AllDifferent(v)
      BY <2>6, <2>7 DEF AllDifferent
    <3> QED BY <1>4, <1>5, <2>6, <2>7, <2>8, <3>1, SameHand
  <2>9. Went(i, v)
    BY <1>1, <2>6, <2>8 DEF Went
  <2>10. Good(Now', lost')
    BY <2>9, WorkerGoes
  <2> QED BY <1>1, <2>10 DEF CacheInv
<1> QED BY <1>6, <1>7

LEMMA SendKeeps == ASSUME CacheInv, NEW i \in Threads, Send(i) PROVE CacheInv'
<1> DEFINE w == workers[i]
           e == <<>>
<1>1. w.phase = "send" /\ UNCHANGED <<cache, aot, temporary, file, clears, deaths, lost>>
  BY DEF Send, fileVars
<1>2. GoodWorker(w) /\ w \in Workers /\ (i = cache.current => Linked(cache, w, lost))
  BY WorkerParts
<1>3. /\ w.job \in Seq(Results) /\ Len(w.job) = 1 /\ w.dirty < AotFlushBlocks /\ w.dirty <= AotFlushBlocks
      /\ w.results \in Seq(Results)
  BY <1>1, <1>2 DEF GoodWorker, Holds, Writing, Workers
<1>4. e \in Seq(Addresses) \cup Seq(Results) /\ e = <<>>
  OBVIOUS
<1>5. \E v : Went(i, v)
  <2>1. CASE w.leaving
    <3> DEFINE v == [w EXCEPT !.job = e, !.phase = "finish"]
    <3>1. workers' = [workers EXCEPT ![i] = v]
      BY <2>1 DEF Send, Goes
    <3> HIDE DEF w, e
    <3>2. /\ v \in Workers /\ v.phase = "finish" /\ v.after = w.after /\ v.job = e
          /\ v.code = w.code /\ v.order = w.order /\ v.dirty = w.dirty /\ v.leaving = w.leaving
      BY <1>2, <1>4 DEF Workers
    <3> HIDE DEF v
    <3>3. GoodWorker(v)
      BY <1>2, <1>3, <1>4, <2>1, <3>2 DEF GoodWorker, Holds, Writing
    <3>4. i # cache.current
      BY <1>2, <2>1 DEF Linked
    <3> QED BY <1>1, <3>1, <3>3, <3>4 DEF Went
  <2>2. CASE ~ w.leaving
    <3> DEFINE q == w.results
               p == w.job
               new == q \o p
               v == [w EXCEPT !.results = new, !.job = e, !.phase = "idle"]
    <3>1. workers' = [workers EXCEPT ![i] = v]
      BY <2>2 DEF Send, Goes
    <3>2. DOMAIN p = {1} /\ p[1] \in Results /\ p # <<>>
      <4>1. DOMAIN p = 1 .. 1 /\ \A x \in 1 .. 1 : p[x] \in Results
        BY <1>3
      <4> QED BY <4>1
    <3>3. new \in Seq(Results) /\ Names(new) = Names(q) \o Names(p)
      <4> HIDE DEF p, q
      <4>1. p \in Seq(Results) /\ q \in Seq(Results)
        BY <1>3 DEF p, q
      <4>2. new \in Seq(Results) /\ Len(new) = Len(q) + Len(p)
        BY <4>1
      <4>3. /\ Names(q) \in Seq(Addresses) /\ Len(Names(q)) = Len(q)
            /\ Names(p) \in Seq(Addresses) /\ Len(Names(p)) = Len(p)
            /\ Names(new) \in Seq(Addresses) /\ Len(Names(new)) = Len(new)
        BY <4>1, <4>2, NamesOfResults
      <4>4. ASSUME NEW x \in 1 .. Len(new) PROVE Names(new)[x] = (Names(q) \o Names(p))[x]
        <5>1. x \in DOMAIN new /\ Names(new)[x] = new[x].address
          BY <4>2 DEF Names
        <5>2. CASE x <= Len(q)
          <6>1. x \in DOMAIN q /\ new[x] = q[x]
            BY <4>1, <4>2, <5>2
          <6>2. Names(q)[x] = q[x].address
            BY <6>1 DEF Names
          <6>3. (Names(q) \o Names(p))[x] = Names(q)[x]
            BY <4>1, <4>2, <4>3, <5>2
          <6> QED BY <5>1, <6>1, <6>2, <6>3
        <5>3. CASE x > Len(q)
          <6> DEFINE y == x - Len(q)
          <6>1. y \in DOMAIN p /\ new[x] = p[y]
            BY <4>1, <4>2, <5>3
          <6>2. Names(p)[y] = p[y].address
            BY <6>1 DEF Names
          <6>3. (Names(q) \o Names(p))[x] = Names(p)[y]
            BY <4>1, <4>2, <4>3, <5>3
          <6> QED BY <5>1, <6>1, <6>2, <6>3
        <5>4. x <= Len(q) \/ x > Len(q)
          BY <4>1, <4>2
        <5> QED BY <5>2, <5>3, <5>4
      <4> DEFINE b == Names(q) \o Names(p)
      <4>5. b \in Seq(Addresses) /\ Len(b) = Len(new)
        <5> DEFINE c == Names(q)
                   d == Names(p)
        <5>1. /\ c \in Seq(Addresses) /\ d \in Seq(Addresses) /\ b = c \o d
              /\ Len(c) + Len(d) = Len(new)
          BY <4>2, <4>3
        <5> HIDE DEF b, c, d, new
        <5> QED BY <5>1
      <4> HIDE DEF b, new
      <4>6. \A x \in 1 .. Len(new) : Names(new)[x] = b[x]
        BY <4>4 DEF b
      <4>7. Names(new) = b
        BY <4>3, <4>5, <4>6
      <4> QED BY <4>2, <4>7 DEF b
    <3>4. Names(p) = NamedJob(w)
      BY <1>1 DEF Names, NamedJob
    <3>5. Range(NamedJob(w)) = {p[1].address} /\ NamedJob(w) \in Seq(Addresses) /\ IsInjective(NamedJob(w))
      BY <1>1, <1>2, <3>2, JobName
    <3>6. Names(q) \in Seq(Addresses)
      BY <1>3, NamesOfResults
    <3> HIDE DEF new, e, w
    <3>7. /\ v \in Workers /\ v.phase = "idle" /\ v.after = w.after /\ v.job = e /\ v.requests = w.requests
          /\ v.results = new /\ v.code = w.code /\ v.order = w.order /\ v.dirty = w.dirty
          /\ v.leaving = w.leaving
      BY <1>2, <1>4, <3>3 DEF Workers
    <3> HIDE DEF v
    <3>8. GoodWorker(v)
      BY <1>2, <1>3, <1>4, <3>7 DEF GoodWorker, Holds, Writing
    <3>9. Range(NamedJob(v)) = {}
      BY <1>4, <3>7, <3>8, JobName
    <3> DEFINE x == Names(q)
               y == NamedJob(w)
    <3>10. /\ Range(Names(new)) = Range(x) \cup Range(y)
           /\ IsInjective(Names(new)) <=> IsInjective(x) /\ IsInjective(y) /\ Range(x) \cap Range(y) = {}
      <4>1. x \in Seq(Addresses) /\ y \in Seq(Addresses) /\ Names(new) = x \o y
        BY <3>3, <3>4, <3>5, <3>6
      <4> HIDE DEF x, y
      <4> QED BY <4>1, ConcatElements
    <3>11. ASSUME i = cache.current PROVE Linked(cache, v, lost)
      <4>1. AllDifferent(w) => AllDifferent(v)
        BY <3>5, <3>7, <3>9, <3>10 DEF AllDifferent, q
      <4>2. Range(v.requests) \cup Range(NamedJob(v)) \cup Range(Names(v.results))
              = Range(w.requests) \cup Range(NamedJob(w)) \cup Range(Names(w.results))
        BY <3>7, <3>9, <3>10
      <4> QED BY <1>2, <3>7, <3>8, <3>11, <4>1, <4>2, SameHand
    <3> QED BY <1>1, <3>1, <3>8, <3>11 DEF Went
  <2> QED BY <2>1, <2>2
<1>6. Good(Now', lost')
  BY <1>5, WorkerGoes
<1> QED BY <1>1, <1>6 DEF CacheInv

LEMMA FinishKeeps == ASSUME CacheInv, NEW i \in Threads, Finish(i) PROVE CacheInv'
<1> DEFINE w == workers[i]
<1>1. w.phase = "finish" /\ UNCHANGED <<cache, aot, temporary, file, clears, deaths, lost>>
  BY DEF Finish, fileVars
<1>2. GoodWorker(w) /\ w \in Workers /\ (i = cache.current => Linked(cache, w, lost))
  BY WorkerParts
<1>3. w.leaving /\ w.job = <<>> /\ w.dirty < AotFlushBlocks /\ w.dirty <= AotFlushBlocks
  BY <1>1, <1>2 DEF GoodWorker, Holds, Writing
<1>4. i # cache.current
  BY <1>2, <1>3 DEF Linked
<1>5. \E v : Went(i, v)
  <2>1. CASE w.dirty = 0
    <3>1. workers' = [workers EXCEPT ![i] = Gone]
      BY <2>1 DEF Finish, Goes
    <3> QED BY <1>1, <1>4, <3>1, GoneIsGood DEF Went
  <2>2. CASE w.dirty # 0
    <3> DEFINE v == [w EXCEPT !.phase = "open", !.after = "gone"]
    <3>1. workers' = [workers EXCEPT ![i] = v]
      BY <2>2 DEF Finish, Goes
    <3> HIDE DEF w
    <3>2. /\ v \in Workers /\ v.phase = "open" /\ v.after = "gone" /\ v.job = w.job
          /\ v.code = w.code /\ v.order = w.order /\ v.dirty = w.dirty /\ v.leaving = w.leaving
      BY <1>2 DEF Workers, Writing
    <3> HIDE DEF v
    <3>3. GoodWorker(v)
      BY <1>2, <1>3, <3>2 DEF GoodWorker, Holds, Writing
    <3> QED BY <1>1, <1>4, <3>1, <3>3 DEF Went
  <2> QED BY <2>1, <2>2
<1>6. Good(Now', lost')
  BY <1>5, WorkerGoes
<1> QED BY <1>1, <1>6 DEF CacheInv

LEMMA DieKeeps == ASSUME CacheInv, NEW i \in Threads, Die(i) PROVE CacheInv'
<1> DEFINE w == workers[i]
           q == w.results
           v == [Gone EXCEPT !.results = q]
<1>1. /\ w.phase = "compile" /\ workers' = [workers EXCEPT ![i] = v] /\ UNCHANGED <<cache, aot, temporary, file>>
      /\ lost' = IF i = cache.current THEN lost \cup Range(InHand(w)) ELSE lost
  BY DEF Die, fileVars, Goes
<1>2. GoodWorker(w) /\ (i = cache.current => Linked(cache, w, lost)) /\ q \in Seq(Results)
  BY WorkerParts DEF Workers
<1> HIDE DEF w, q
<1>3. /\ GoodWorker(v) /\ v.requests = <<>> /\ v.job = <<>> /\ v.results = q /\ ~ v.leaving /\ v.phase = "gone"
  BY <1>2, GoneIsGood
<1> HIDE DEF v
<1>4. ASSUME i = cache.current PROVE Linked(cache, v, lost')
  <2>1. Linked(cache, w, lost) /\ lost' = lost \cup Range(InHand(w))
    BY <1>1, <1>2, <1>4
  <2>2. Range(NamedJob(v)) = {} /\ Range(v.requests) = {} /\ IsInjective(v.requests)
    BY <1>3, JobName, SmallSequences
  <2>3. Range(InHand(v)) = Range(Names(q)) /\ Range(Names(q)) \subseteq Range(InHand(w))
    BY <1>2, <1>3, <2>2, HandParts DEF q
  <2>4. IsInjective(InHand(v))
    <3>1. AllDifferent(w)
      BY <1>2, <2>1, HandParts DEF Linked
    <3>2. AllDifferent(v)
      BY <1>3, <2>2, <3>1 DEF AllDifferent, q
    <3> QED BY <1>3, <3>2, HandParts
  <2>5. Range(InHand(v)) \subseteq cache.pending /\ cache.pending \subseteq lost'
    BY <2>1, <2>3 DEF Linked
  <2> QED BY <1>3, <2>4, <2>5 DEF Linked
<1>5. Went(i, v)
  BY <1>1, <1>3, <1>4 DEF Went
<1>6. Good(Now', lost')
  BY <1>5, WorkerGoes
<1> QED BY <1>1, <1>6 DEF CacheInv

-----------------------------------------------------------------------------
(* The file                                                                  *)

\* A worker that has another file open, or none.
Opened(w, o, b) == [w EXCEPT !.open = o, !.shared = b]

LEMMA OpenedKeeps ==
  ASSUME NEW w, GoodWorker(w), NEW o \in {"none", "temporary", "file", "unlinked"}, NEW b \in BOOLEAN,
         NEW v, v = Opened(w, o, b)
  PROVE  GoodWorker(v) /\ \A j, gone : Linked(j, w, gone) => Linked(j, v, gone)
<1>1. w \in Workers
  BY DEF GoodWorker
<1>2. /\ v \in Workers /\ v.phase = w.phase /\ v.after = w.after /\ v.job = w.job /\ v.requests = w.requests
      /\ v.results = w.results /\ v.code = w.code /\ v.order = w.order /\ v.dirty = w.dirty
      /\ v.leaving = w.leaving
  BY <1>1 DEF Opened, Workers
<1>3. GoodWorker(v)
  BY <1>2 DEF GoodWorker, Holds
<1>4. InHand(v) = InHand(w)
  BY <1>2 DEF InHand
<1> QED BY <1>2, <1>3, <1>4 DEF Linked

\* Both workers may change at once.
BothWent(i, v, u) ==
  /\ workers' = [workers EXCEPT ![i] = v, ![Other(i)] = u]
  /\ cache' = cache /\ lost' = lost /\ GoodWorker(v) /\ GoodWorker(u)
  /\ i = cache.current => Linked(cache, v, lost)
  /\ \A j, gone : Linked(j, workers[Other(i)], gone) => Linked(j, u, gone)

LEMMA BothGo == ASSUME CacheInv, NEW i \in Threads, NEW v, NEW u, BothWent(i, v, u) PROVE Good(Now', lost')
<1>1. /\ workers \in [Threads -> Workers] /\ cache.current \in {0} \cup Threads
      /\ cache.current # 0 => Linked(cache, workers[cache.current], lost)
  BY DEF CacheInv, Good, Now, States, Caches
<1>2. Other(i) \in Threads /\ Other(i) # i /\ \A k \in Threads : k = i \/ k = Other(i)
  BY DEF Other, Threads
<1>3. v \in Workers /\ u \in Workers
  BY DEF BothWent, GoodWorker
<1>4. workers' \in [Threads -> Workers] /\ workers'[i] = v /\ workers'[Other(i)] = u
  BY <1>1, <1>2, <1>3 DEF BothWent
<1>5. \A k \in Threads : GoodWorker(workers'[k])
  BY <1>2, <1>4 DEF BothWent
<1>6. ASSUME cache.current # 0 PROVE Linked(cache, workers'[cache.current], lost')
  <2>1. CASE cache.current = i
    BY <1>4, <2>1 DEF BothWent
  <2>2. CASE cache.current = Other(i)
    BY <1>1, <1>4, <1>6, <2>2 DEF BothWent
  <2> QED BY <1>1, <1>2, <1>6, <2>1, <2>2
<1> QED BY <1>4, <1>5, <1>6, WorkersGo DEF BothWent

LEMMA OtherParts ==
  ASSUME CacheInv, NEW i \in Threads
  PROVE  Other(i) \in Threads /\ GoodWorker(workers[Other(i)]) /\ workers[Other(i)] \in Workers
<1>1. Other(i) \in Threads
  BY DEF Other, Threads
<1> QED BY <1>1, WorkerParts

LEMMA OpenFileKeeps == ASSUME CacheInv, NEW i \in Threads, OpenFile(i) PROVE CacheInv'
<1> DEFINE w == workers[i]
           x == workers[Other(i)]
           both == x.open = "temporary"
           v == Opening(w, both)
           u == Joined(x, both)
<1>1. /\ w.phase = "open" /\ temporary' = Torn /\ UNCHANGED <<cache, aot, file, clears, deaths, lost>>
  BY DEF OpenFile
<1>2. /\ GoodWorker(w) /\ w \in Workers /\ (i = cache.current => Linked(cache, w, lost))
      /\ GoodWorker(x) /\ x \in Workers /\ Other(i) \in Threads /\ Other(i) # i
      /\ workers \in [Threads -> Workers]
  BY WorkerParts, OtherParts DEF Other, Threads
<1>3. workers' = [workers EXCEPT ![i] = v, ![Other(i)] = u]
  <2>1. workers' = [workers EXCEPT ![i] = Opening(@, both), ![Other(i)] = Joined(@, both)]
    BY DEF OpenFile
  <2> HIDE DEF both
  <2> QED BY <1>2, <2>1
<1>4. both \in BOOLEAN
  OBVIOUS
<1> HIDE DEF w, x, both
<1>5. GoodWorker(u) /\ \A j, gone : Linked(j, x, gone) => Linked(j, u, gone)
  <2> DEFINE b == x.shared \/ both
  <2>1. b \in BOOLEAN /\ x.open \in {"none", "temporary", "file", "unlinked"}
    BY <1>2, <1>4 DEF Workers
  <2>2. u = Opened(x, x.open, b)
    BY <1>2, <1>4 DEF Joined, Opened, Workers
  <2> HIDE DEF u, b
  <2> QED BY <1>2, <2>1, <2>2, OpenedKeeps
<1>6. /\ v \in Workers /\ v.phase = "write" /\ v.after = w.after /\ v.job = w.job /\ v.requests = w.requests
      /\ v.results = w.results /\ v.code = w.code /\ v.order = w.order /\ v.dirty = w.dirty
      /\ v.leaving = w.leaving
  BY <1>2, <1>4 DEF Workers, Writing, Opening
<1> HIDE DEF u, v
<1>7. w.phase = "open"
  BY <1>1 DEF w
<1>8. GoodWorker(v)
  BY <1>2, <1>6, <1>7 DEF GoodWorker, Holds, Writing
<1>9. \A j, gone : Linked(j, w, gone) => Linked(j, v, gone)
  BY <1>2, <1>6, <1>7, <1>8, AlikeHands DEF Alike
<1>10. BothWent(i, v, u)
  BY <1>1, <1>2, <1>3, <1>5, <1>8, <1>9 DEF BothWent, x
<1>11. Good(Now', lost')
  BY <1>10, BothGo
<1> QED BY <1>1, <1>11 DEF CacheInv, GoodFile

LEMMA WriteFileKeeps == ASSUME CacheInv, NEW i \in Threads, WriteFile(i) PROVE CacheInv'
<1> DEFINE w == workers[i]
           v == [w EXCEPT !.phase = "rename", !.open = "none", !.shared = FALSE]
<1>1. /\ w.phase = "write" /\ UNCHANGED <<cache, aot, clears, deaths, lost>>
      /\ workers' = [workers EXCEPT ![i] = v]
  BY DEF WriteFile, Goes
<1>2. GoodWorker(w) /\ w \in Workers /\ (i = cache.current => Linked(cache, w, lost))
  BY WorkerParts
<1>3. GoodFile(Whole(w.code)) /\ GoodFile(Torn)
  BY <1>2 DEF GoodFile, GoodWorker, Retainable, IsCode
<1>4. PICK text : /\ GoodFile(text)
                  /\ temporary' = IF w.open = "temporary" THEN text ELSE temporary
                  /\ file' = IF w.open = "file" THEN text ELSE file
  BY <1>3 DEF WriteFile
<1>5. GoodFile(file') /\ GoodFile(temporary')
  BY <1>4 DEF CacheInv
<1>6. w.phase = "write"
  BY <1>1
<1> HIDE DEF w
<1>7. /\ v \in Workers /\ v.phase = "rename" /\ v.after = w.after /\ v.job = w.job /\ v.requests = w.requests
      /\ v.results = w.results /\ v.code = w.code /\ v.order = w.order /\ v.dirty = w.dirty
      /\ v.leaving = w.leaving
  BY <1>2 DEF Workers, Writing
<1> HIDE DEF v
<1>8. GoodWorker(v)
  BY <1>2, <1>6, <1>7 DEF GoodWorker, Holds, Writing
<1>9. \A j, gone : Linked(j, w, gone) => Linked(j, v, gone)
  BY <1>2, <1>6, <1>7, <1>8, AlikeHands DEF Alike
<1>10. Went(i, v)
  BY <1>1, <1>2, <1>8, <1>9 DEF Went
<1>11. Good(Now', lost')
  BY <1>10, WorkerGoes
<1> QED BY <1>1, <1>5, <1>11 DEF CacheInv

LEMMA RenameFileKeeps == ASSUME CacheInv, NEW i \in Threads, RenameFile(i) PROVE CacheInv'
<1> DEFINE w == workers[i]
           x == workers[Other(i)]
           d == [w EXCEPT !.phase = w.after, !.dirty = 0]
           v == IF w.after = "gone" THEN Gone ELSE d
           o == CASE x.open = "temporary" -> "file" [] x.open = "file" -> "unlinked" [] OTHER -> x.open
           u == [x EXCEPT !.open = o]
<1>1. w.phase = "rename" /\ UNCHANGED <<cache, aot, clears, deaths, lost>>
  BY DEF RenameFile
<1>2. /\ GoodWorker(w) /\ w \in Workers /\ (i = cache.current => Linked(cache, w, lost))
      /\ GoodWorker(x) /\ x \in Workers /\ Other(i) \in Threads /\ Other(i) # i
      /\ workers \in [Threads -> Workers]
  BY WorkerParts, OtherParts DEF Other, Threads
<1>3. GoodWorker(v) /\ (i = cache.current => Linked(cache, v, lost))
  <2>1. w.phase = "rename"
    BY <1>1
  <2>2. CASE w.after = "gone"
    <3>1. i # cache.current
      BY <1>2, <2>1, <2>2 DEF GoodWorker, Linked, Writing
    <3> QED BY <2>2, <3>1, GoneIsGood
  <2>3. CASE w.after # "gone"
    <3> HIDE DEF w
    <3>0. w.after \in {"idle", "send"}
      BY <1>2, <2>3 DEF Workers
    <3>1. /\ d \in Workers /\ d.phase = w.after /\ d.after = w.after /\ d.job = w.job /\ d.requests = w.requests
          /\ d.results = w.results /\ d.code = w.code /\ d.order = w.order /\ d.dirty = 0
          /\ d.leaving = w.leaving
      BY <1>2, <3>0 DEF Workers
    <3> HIDE DEF d
    <3>2. 0 < AotFlushBlocks /\ 0 <= AotFlushBlocks
      BY CodeCacheAssumption
    <3>3. GoodWorker(d)
      BY <1>2, <2>1, <3>0, <3>1, <3>2 DEF GoodWorker, Holds, Writing
    <3>4. \A j, gone : Linked(j, w, gone) => Linked(j, d, gone)
      BY <1>2, <2>1, <3>0, <3>1, <3>3, AlikeHands DEF Alike
    <3>5. v = d
      BY <2>3
    <3> QED BY <1>2, <3>3, <3>4, <3>5
  <2> QED BY <2>2, <2>3
<1>4. CASE temporary = Absent
  <2>1. workers' = [workers EXCEPT ![i] = v] /\ UNCHANGED <<temporary, file>>
    BY <1>4 DEF RenameFile, Goes, fileVars
  <2> HIDE DEF v
  <2>2. Went(i, v)
    BY <1>1, <1>3, <2>1 DEF Went
  <2>3. Good(Now', lost')
    BY <2>2, WorkerGoes
  <2> QED BY <1>1, <2>1, <2>3 DEF CacheInv
<1>5. CASE temporary # Absent
  <2>1. file' = temporary /\ temporary' = Absent
    BY <1>5 DEF RenameFile
  <2>2. workers' = [workers EXCEPT ![i] = v, ![Other(i)] = u]
    <3>1. workers' = [workers EXCEPT ![i] = v, ![Other(i)] = Renamed(@)]
      BY <1>5 DEF RenameFile
    <3>2. Renamed(x) = u
      BY DEF Renamed
    <3> HIDE DEF v, u
    <3> QED BY <1>2, <3>1, <3>2
  <2>3. o \in {"none", "temporary", "file", "unlinked"} /\ x.shared \in BOOLEAN
    BY <1>2 DEF Workers
  <2> HIDE DEF v, o, x
  <2>4. GoodWorker(u) /\ \A j, gone : Linked(j, x, gone) => Linked(j, u, gone)
    <3>1. u = Opened(x, o, x.shared)
      BY <1>2, <2>3 DEF Opened, Workers
    <3> HIDE DEF u
    <3> QED BY <1>2, <2>3, <3>1, OpenedKeeps
  <2> HIDE DEF u
  <2>5. BothWent(i, v, u)
    BY <1>1, <1>3, <2>2, <2>4 DEF BothWent, x
  <2>6. Good(Now', lost')
    BY <2>5, BothGo
  <2> QED BY <1>1, <2>1, <2>6 DEF CacheInv, GoodFile
<1> QED BY <1>4, <1>5

-----------------------------------------------------------------------------
(* The theorem                                                               *)

LEMMA CacheInitGood == CacheInit => CacheInv
<1> SUFFICES ASSUME CacheInit PROVE CacheInv
  OBVIOUS
<1>1. cache = Empty /\ workers = [k \in Threads |-> Gone] /\ lost = {} /\ aot \in BOOLEAN
      /\ temporary = Absent /\ file = Absent
  BY DEF CacheInit
<1>2. GoodWorker(Gone) /\ Gone \in Workers /\ Empty \in Caches /\ GoodCache(Empty)
      /\ Empty.pending = {} /\ Empty.current = 0
  BY GoneIsGood, EmptyIsGood DEF GoodWorker, GoodCache
<1>3. Now.cache = Empty /\ Now.workers = [k \in Threads |-> Gone] /\ Now \in States
  BY <1>1, <1>2 DEF Now, States
<1>4. Good(Now, lost)
  BY <1>1, <1>2, <1>3 DEF Good
<1> QED BY <1>1, <1>4 DEF CacheInv, GoodFile

LEMMA CacheStep == CacheInv /\ [CacheNext]_cacheVars => CacheInv'
<1> SUFFICES ASSUME CacheInv, [CacheNext]_cacheVars PROVE CacheInv'
  OBVIOUS
<1>1. CASE \E a \in Addresses : Execute(a) \/ Start(a) \/ Clear(a)
  BY <1>1, ExecuteKeeps, StartKeeps, ClearKeeps
<1>2. CASE Crash
  BY <1>2, CrashKeeps
<1>3. CASE \E i \in Threads : Work(i) \/ Die(i)
  BY <1>3, LoadKeeps, ReceiveKeeps, CompileKeeps, SendKeeps, FinishKeeps, OpenFileKeeps, WriteFileKeeps,
     RenameFileKeeps, DieKeeps DEF Work
<1>4. CASE UNCHANGED cacheVars
  BY <1>4 DEF cacheVars, CacheInv, Now
<1> QED BY <1>1, <1>2, <1>3, <1>4 DEF CacheNext

LEMMA InvIsSound == CacheInv => CacheIsSound
<1> SUFFICES ASSUME CacheInv PROVE CacheIsSound
  OBVIOUS
<1>1. GoodCache(cache) /\ cache.current \in {0} \cup Threads
  BY DEF CacheInv, Good, Now, GoodCache, Caches
<1>2. ASSUME cache.current # 0 PROVE Linked(cache, workers[cache.current], lost)
  BY <1>1, <1>2, WorkerParts
<1>3. Requests
  BY <1>1, <1>2 DEF Requests, GoodCache, Linked
<1>4. ASSUME NEW i \in Threads
      PROVE  /\ \A a \in DOMAIN workers[i].code : workers[i].code[a] = Code(a)
             /\ Range(workers[i].order) = DOMAIN workers[i].code /\ IsInjective(workers[i].order)
             /\ Len(workers[i].order) <= MaxAotBlocks /\ SumBytes(DOMAIN workers[i].code) <= MaxAotBytes
             /\ workers[i].dirty <= AotFlushBlocks
  <2>1. GoodWorker(workers[i]) /\ workers[i].order \in Seq(Addresses)
    BY WorkerParts DEF Workers
  <2>2. Cardinality(Range(workers[i].order)) = Len(workers[i].order)
    <3> DEFINE q == workers[i].order
    <3>1. q \in Seq(Addresses) /\ IsInjective(q)
      BY <2>1 DEF GoodWorker
    <3> HIDE DEF q
    <3>2. Cardinality(Range(q)) = Len(q)
      BY <3>1, DifferentElements
    <3> QED BY <3>2 DEF q
  <2> QED BY <2>1, <2>2 DEF GoodWorker, Retainable, IsCode
<1>5. CodeSound
  BY <1>1, <1>4 DEF CodeSound, GoodCache, IsCode
<1> QED BY <1>3, <1>5 DEF CacheIsSound

(* Whatever the machine asks for, however its workers are dropped, die and   *)
(* write the same file, and whenever the program ends and begins anew: what  *)
(* is pending is in the worker's hand, once, or was lost with a worker; what *)
(* the cache counts it holds, within its limits; and code is the code of its *)
(* trace, in the cache, in a worker and hence in what comes from a file.     *)
THEOREM CodeIsSound == CacheSpec => []CacheIsSound
<1>1. CacheSpec => []CacheInv
  BY CacheInitGood, CacheStep, PTL DEF CacheSpec
<1> QED BY <1>1, InvIsSound, PTL


-----------------------------------------------------------------------------
(* Decoder: images that agree on the bytes before a limit decode the same    *)
(* instructions there.                                                       *)

Bytes == [1 .. Length -> 0 .. 255]
AgreeBelow(p, q, limit) == \A k \in 1 .. limit : p[k] = q[k]

LEMMA BytesProperties ==
  ASSUME NEW p \in Bytes
  PROVE  Length \in Nat /\ p \in Seq(0 .. 255) /\ Len(p) = Length /\ DOMAIN p = 1 .. Length
BY DecoderAssumption DEF Bytes

\* Bytes that end before the limit are the same, read together, too.
LEMMA RawAgrees ==
  ASSUME NEW p \in Bytes, NEW q \in Bytes, NEW limit \in 0 .. Length, AgreeBelow(p, q, limit),
         NEW at \in Nat, NEW n \in Nat, at + n <= limit
  PROVE  Raw(p, at, n) = Raw(q, at, n)
<1>1. Length \in Nat /\ limit \in Nat /\ limit <= Length
  BY BytesProperties
<1>2. /\ p \in Seq(0 .. 255) /\ q \in Seq(0 .. 255) /\ Len(p) = Length /\ Len(q) = Length
  BY BytesProperties
<1>3. \A i \in at + 1 .. at + n : p[i] \in 0 .. 255 /\ q[i] \in 0 .. 255 /\ p[i] = q[i]
  BY <1>1 DEF AgreeBelow, Bytes
<1>4. at + 1 \in Int /\ at + n \in Int /\ (at + n) - (at + 1) + 1 = n
  OBVIOUS
<1>5. /\ SubSeq(p, at + 1, at + n) \in Seq(0 .. 255)
      /\ Len(SubSeq(p, at + 1, at + n)) = IF at + 1 <= at + n THEN n ELSE 0
      /\ \A i \in 1 .. n : SubSeq(p, at + 1, at + n)[i] = p[at + 1 + i - 1]
  BY <1>3, <1>4, SubSeqProperties
<1>6. /\ SubSeq(q, at + 1, at + n) \in Seq(0 .. 255)
      /\ Len(SubSeq(q, at + 1, at + n)) = IF at + 1 <= at + n THEN n ELSE 0
      /\ \A i \in 1 .. n : SubSeq(q, at + 1, at + n)[i] = q[at + 1 + i - 1]
  BY <1>3, <1>4, SubSeqProperties
<1>7. \A i \in 1 .. n : at + 1 + i - 1 \in at + 1 .. at + n
  OBVIOUS
<1> DEFINE r == Raw(p, at, n)
           s == Raw(q, at, n)
<1>8. r \in Seq(0 .. 255) /\ s \in Seq(0 .. 255) /\ Len(r) = n /\ Len(s) = n
  BY <1>5, <1>6 DEF Raw
<1>9. \A i \in 1 .. n : r[i] = s[i]
  BY <1>3, <1>5, <1>6, <1>7 DEF Raw
<1> HIDE DEF r, s
<1>10. r = s
  BY <1>8, <1>9
<1> QED BY <1>10 DEF r, s

LEMMA DataSizeIsNat ==
  ASSUME NEW mode \in 0 .. 15, mode \notin InvalidModes
  PROVE  DataSize(mode) \in 0 .. 4
BY DEF DataSize, InvalidModes

\* Operands are read one after the other.
IsRead(f, bytes, at, modes) ==
  f = [k \in 0 .. Len(modes) |->
         IF k = 0 THEN {[next |-> at, list |-> <<>>]} ELSE Operated(bytes, f[k - 1], modes[k])]

LEMMA ReadExists ==
  ASSUME NEW bytes, NEW at, NEW modes \in Seq(0 .. 15)
  PROVE  \E f : IsRead(f, bytes, at, modes)
<1> DEFINE D == 0 .. Len(modes)
           Step(f, k) == IF k = 0 THEN {[next |-> at, list |-> <<>>]} ELSE Operated(bytes, f[k - 1], modes[k])
           G == {n \in Nat : \E f : DOMAIN f = D /\ \A k \in D : k <= n => f[k] = Step(f, k)}
<1>1. 0 \in G
  <2> DEFINE f == [k \in D |-> {[next |-> at, list |-> <<>>]}]
  <2>1. DOMAIN f = D /\ \A k \in D : k <= 0 => f[k] = Step(f, k)
    OBVIOUS
  <2> QED BY <2>1
<1>2. ASSUME NEW n \in G PROVE n + 1 \in G
  <2>1. PICK f : DOMAIN f = D /\ \A k \in D : k <= n => f[k] = Step(f, k)
    OBVIOUS
  <2> DEFINE h == [k \in D |-> Step(f, k)]
  <2>2. ASSUME NEW k \in D, k <= n + 1 PROVE h[k] = Step(h, k)
    <3>1. CASE k = 0
      BY <3>1
    <3>2. CASE k # 0
      <4>1. k - 1 \in D /\ k - 1 <= n
        BY <2>2, <3>2
      <4>2. h[k - 1] = f[k - 1]
        BY <2>1, <4>1
      <4>3. h[k] = Step(f, k)
        OBVIOUS
      <4> QED BY <3>2, <4>2, <4>3
    <3> QED BY <3>1, <3>2
  <2>3. DOMAIN h = D
    OBVIOUS
  <2> HIDE DEF h
  <2>4. n + 1 \in Nat
    OBVIOUS
  <2> QED BY <2>2, <2>3, <2>4
<1>3. G = Nat
  <2> HIDE DEF G
  <2>1. G \in SUBSET Nat
    BY DEF G
  <2> QED BY <1>1, <1>2, <2>1, SetInduction
<1>4. PICK f : DOMAIN f = D /\ \A k \in D : k <= Len(modes) => f[k] = Step(f, k)
  <2>1. Len(modes) \in Nat
    OBVIOUS
  <2> HIDE DEF G
  <2>2. Len(modes) \in G
    BY <1>3, <2>1
  <2> QED BY <2>2 DEF G
<1> DEFINE h == [k \in D |-> Step(f, k)]
<1>5. \A k \in D : h[k] = f[k]
  BY <1>4
<1>6. \A k \in D : Step(h, k) = Step(f, k)
  <2> SUFFICES ASSUME NEW k \in D PROVE Step(h, k) = Step(f, k)
    OBVIOUS
  <2>1. CASE k = 0
    BY <2>1
  <2>2. CASE k # 0
    <3>1. k - 1 \in D
      BY <2>2
    <3>2. h[k - 1] = f[k - 1]
      BY <1>5, <3>1
    <3> HIDE DEF h
    <3> QED BY <2>2, <3>2
  <2> QED BY <2>1, <2>2
<1>7. h = [k \in D |-> Step(h, k)]
  BY <1>6
<1> HIDE DEF h
<1> QED BY <1>7 DEF IsRead

LEMMA OperandsAreRead ==
  ASSUME NEW bytes, NEW at, NEW modes \in Seq(0 .. 15)
  PROVE  \E f : /\ f[0] = {[next |-> at, list |-> <<>>]}
                /\ \A k \in 1 .. Len(modes) : f[k] = Operated(bytes, f[k - 1], modes[k])
                /\ Operands(bytes, at, modes) = f[Len(modes)]
<1> DEFINE read == CHOOSE f : IsRead(f, bytes, at, modes)
<1>1. Operands(bytes, at, modes) = read[Len(modes)]
  BY Zenon DEF Operands, IsRead
<1>2. IsRead(read, bytes, at, modes)
  BY ReadExists
<1> HIDE DEF read
<1>3. Len(modes) \in Nat
  OBVIOUS
<1> DEFINE S == {[next |-> at, list |-> <<>>]}
<1>4. read = [k \in 0 .. Len(modes) |-> IF k = 0 THEN S ELSE Operated(bytes, read[k - 1], modes[k])]
  BY <1>2 DEF IsRead
<1> HIDE DEF S
<1>5. 0 \in 0 .. Len(modes) /\ \A k \in 1 .. Len(modes) : k \in 0 .. Len(modes) /\ k # 0
  BY <1>3
<1>6. read[0] = S
  BY <1>4, <1>5, Zenon
<1>7. \A k \in 1 .. Len(modes) : read[k] = Operated(bytes, read[k - 1], modes[k])
  BY <1>4, <1>5, Zenon
<1> QED BY <1>1, <1>6, <1>7 DEF S

\* What has been read lies behind where reading began, and is read again where
\* the bytes agree.
LEMMA OperandsAgree ==
  ASSUME NEW p \in Bytes, NEW q \in Bytes, NEW limit \in 0 .. Length, AgreeBelow(p, q, limit),
         NEW at \in Nat, NEW modes \in Seq(0 .. 15),
         NEW o \in Operands(p, at, modes)
  PROVE  /\ o.next \in Nat /\ at <= o.next
         /\ o.next <= limit => o \in Operands(q, at, modes)
<1>1. PICK f : /\ f[0] = {[next |-> at, list |-> <<>>]}
               /\ \A k \in 1 .. Len(modes) : f[k] = Operated(p, f[k - 1], modes[k])
               /\ Operands(p, at, modes) = f[Len(modes)]
  BY OperandsAreRead
<1>2. PICK h : /\ h[0] = {[next |-> at, list |-> <<>>]}
               /\ \A k \in 1 .. Len(modes) : h[k] = Operated(q, h[k - 1], modes[k])
               /\ Operands(q, at, modes) = h[Len(modes)]
  BY OperandsAreRead
<1>3. Length \in Nat /\ Len(p) = Length /\ Len(q) = Length /\ limit \in Nat /\ limit <= Length
  BY BytesProperties
<1> DEFINE Ok(k) == \A x \in f[k] : x.next \in Nat /\ at <= x.next /\ (x.next <= limit => x \in h[k])
           G == {k \in Nat : k <= Len(modes) => Ok(k)}
<1>4. 0 \in G
  BY <1>1, <1>2
<1>5. ASSUME NEW k \in G PROVE k + 1 \in G
  <2>1. SUFFICES ASSUME k + 1 <= Len(modes) PROVE Ok(k + 1)
    OBVIOUS
  <2> DEFINE n == k + 1
             mode == modes[n]
  <2>2. n \in 1 .. Len(modes) /\ n - 1 = k /\ k <= Len(modes)
    BY <2>1
  <2>9. Ok(k)
    BY <2>2
  <2>10. mode \in 0 .. 15
    BY <2>2
  <2> HIDE DEF n, mode, Ok
  <2>3. f[n] = Operated(p, f[k], mode) /\ h[n] = Operated(q, h[k], mode)
    BY <1>1, <1>2, <2>2 DEF mode
  <2> SUFFICES ASSUME NEW y \in f[n]
               PROVE  y.next \in Nat /\ at <= y.next /\ (y.next <= limit => y \in h[n])
    BY DEF Ok, n
  <2>4. PICK x \in f[k] : /\ mode \notin InvalidModes /\ x.next + DataSize(mode) <= Len(p)
                          /\ y = [next |-> x.next + DataSize(mode),
                                  list |-> Append(x.list, Operand(mode, Raw(p, x.next, DataSize(mode))))]
    BY <2>3 DEF Operated
  <2>5. x.next \in Nat /\ at <= x.next /\ (x.next <= limit => x \in h[k])
    BY <2>9 DEF Ok
  <2>6. DataSize(mode) \in Nat
    <3>1. DataSize(mode) \in 0 .. 4
      BY <2>4, <2>10, DataSizeIsNat
    <3> QED BY <3>1
  <2>7. y.next = x.next + DataSize(mode)
    BY <2>4
  <2>8. ASSUME y.next <= limit PROVE y \in h[n]
    <3>1. x.next <= limit /\ x.next + DataSize(mode) <= limit
      BY <1>3, <2>5, <2>6, <2>7, <2>8
    <3>2. Raw(p, x.next, DataSize(mode)) = Raw(q, x.next, DataSize(mode))
      BY <2>5, <2>6, <3>1, RawAgrees
    <3>3. x \in h[k] /\ x.next + DataSize(mode) <= Len(q)
      BY <1>3, <2>4, <2>5, <3>1
    <3> QED BY <2>3, <2>4, <3>2, <3>3 DEF Operated
  <2> QED BY <2>5, <2>6, <2>7, <2>8
<1>6. Len(modes) \in G
  <2> HIDE DEF G
  <2>1. G \in SUBSET Nat
    BY DEF G
  <2>2. G = Nat
    BY <1>4, <1>5, <2>1, SetInduction
  <2> QED BY <2>2
<1> QED BY <1>1, <1>2, <1>6

\* The modes of operands, as they are read, are modes.
LEMMA ModesAreModes ==
  ASSUME NEW p \in Bytes, NEW at \in Nat, NEW count \in Nat, at + ModeBytes(count) <= Length
  PROVE  Modes(Raw(p, at, ModeBytes(count)), count) \in Seq(0 .. 15)
<1> DEFINE n == ModeBytes(count)
           raw == Raw(p, at, n)
<1>1. n \in Nat /\ Length \in Nat
  BY BytesProperties DEF ModeBytes
<1>2. \A k \in 1 .. count : (k + 1) \div 2 \in 1 .. n /\ (k % 2 # 1 => k \div 2 \in 1 .. n)
  BY DEF ModeBytes
<1> HIDE DEF n
<1>3. \A i \in at + 1 .. at + n : p[i] \in 0 .. 255
  BY <1>1 DEF Bytes, n
<1>4. at + 1 \in Int /\ at + n \in Int /\ (at + n) - (at + 1) + 1 = n
  BY <1>1
<1>5. \A i \in 1 .. n : SubSeq(p, at + 1, at + n)[i] = p[at + 1 + i - 1]
  BY <1>3, <1>4, SubSeqProperties
<1>6. \A i \in 1 .. n : at + 1 + i - 1 \in at + 1 .. at + n
  BY <1>1
<1>7. \A i \in 1 .. n : raw[i] \in 0 .. 255
  BY <1>3, <1>5, <1>6 DEF Raw
<1> HIDE DEF raw
<1>8. \A b \in 0 .. 255 : b % 16 \in 0 .. 15 /\ b \div 16 \in 0 .. 15
  OBVIOUS
<1>9. \A k \in 1 .. count : (IF k % 2 = 1 THEN raw[(k + 1) \div 2] % 16 ELSE raw[k \div 2] \div 16) \in 0 .. 15
  BY <1>2, <1>7, <1>8
<1>10. Modes(raw, count) \in [1 .. count -> 0 .. 15]
  BY <1>9 DEF Modes
<1> QED BY <1>10 DEF raw, n

\* An instruction that ends before the limit is the same where the bytes agree.
LEMMA InstructionAgrees ==
  ASSUME NEW p \in Bytes, NEW q \in Bytes, NEW limit \in 0 .. Length, AgreeBelow(p, q, limit),
         NEW at \in Int, NEW i \in Instruction(p, at), i.next <= limit
  PROVE  i \in Instruction(q, at)
<1>1. Length \in Nat /\ Len(p) = Length /\ Len(q) = Length /\ limit \in Nat /\ limit <= Length
  BY BytesProperties
<1>2. at \in Nat /\ at < Length /\ i \in After(p, at, at + OpcodeSize(p[at + 1]))
  BY <1>1 DEF Instruction
<1> DEFINE size == OpcodeSize(p[at + 1])
           past == at + size
           opcode == Opcode(Raw(p, at, past - at))
           count == OperandCount(opcode)
           modes == Modes(Raw(p, past, ModeBytes(count)), count)
<1>3. size \in Nat /\ size >= 1
  BY DEF OpcodeSize
<1>4. count \in -1 .. 8
  BY DEF OperandCount
<1>5. past <= Length /\ i \in Described(p, at, past, opcode, count)
  <2> HIDE DEF past
  <2>1. i \in After(p, at, past)
    BY <1>2 DEF past
  <2>2. past <= Length
    BY <1>1, <1>2, <1>3, <2>1 DEF After, past
  <2>3. PICK c \in {opcode} : i \in Described(p, at, past, c, OperandCount(c))
    BY <2>1, Zenon DEF After
  <2> QED BY <2>2, <2>3
<1> HIDE DEF size, opcode, count, modes
<1>6. past \in Nat /\ past - at = size /\ past - at \in Nat
  BY <1>2, <1>3
<1> HIDE DEF past
<1>7. /\ count \in Nat /\ past + ModeBytes(count) <= Length
      /\ \E o \in Operands(p, past + ModeBytes(count), modes) :
           i = [address |-> at, next |-> o.next, opcode |-> opcode, operands |-> o.list]
  <2> DEFINE none == count < 0 \/ past + ModeBytes(count) > Len(p)
  <2>1. /\ ~ none
        /\ \E o \in Operands(p, past + ModeBytes(count), modes) :
             i = [address |-> at, next |-> o.next, opcode |-> opcode, operands |-> o.list]
    BY <1>5, Zenon DEF Described, modes
  <2>2. count \in Nat
    BY <1>4, <2>1
  <2>3. ModeBytes(count) \in Nat
    BY <2>2 DEF ModeBytes
  <2>4. past + ModeBytes(count) <= Length
    BY <1>1, <1>6, <2>1, <2>3
  <2> QED BY <2>1, <2>2, <2>4
<1>8. PICK o \in Operands(p, past + ModeBytes(count), modes) :
        i = [address |-> at, next |-> o.next, opcode |-> opcode, operands |-> o.list]
  BY <1>7
<1>9. ModeBytes(count) \in Nat /\ past + ModeBytes(count) \in Nat
  BY <1>6, <1>7 DEF ModeBytes
<1>10. modes \in Seq(0 .. 15)
  BY <1>1, <1>6, <1>7, <1>9, ModesAreModes DEF modes
<1>11. /\ o.next \in Nat /\ past + ModeBytes(count) <= o.next
       /\ o.next <= limit => o \in Operands(q, past + ModeBytes(count), modes)
  BY <1>8, <1>9, <1>10, OperandsAgree
<1>12. i.next = o.next
  BY <1>8
<1>13. /\ past <= limit /\ past + ModeBytes(count) <= limit /\ at + 1 <= limit
       /\ at + (past - at) <= limit
  BY <1>1, <1>2, <1>3, <1>6, <1>9, <1>11, <1>12 DEF past
<1>14. p[at + 1] = q[at + 1]
  BY <1>2, <1>13 DEF AgreeBelow
<1>15. Raw(p, at, past - at) = Raw(q, at, past - at)
  BY <1>2, <1>6, <1>13, RawAgrees
<1>16. Raw(p, past, ModeBytes(count)) = Raw(q, past, ModeBytes(count))
  BY <1>6, <1>9, <1>13, RawAgrees
<1>17. o \in Operands(q, past + ModeBytes(count), modes)
  BY <1>11, <1>12
<1>18. i \in Described(q, at, past, opcode, count)
  <2>1. modes = Modes(Raw(q, past, ModeBytes(count)), count)
    BY <1>16 DEF modes
  <2>2. ~ (count < 0 \/ past + ModeBytes(count) > Len(q))
    BY <1>1, <1>6, <1>7, <1>9
  <2> QED BY <1>8, <1>17, <2>1, <2>2 DEF Described
<1>19. i \in After(q, at, past)
  <2>1. opcode = Opcode(Raw(q, at, past - at))
    BY <1>15 DEF opcode
  <2>2. ~ (past > Len(q))
    BY <1>1, <1>6, <1>13
  <2> QED BY <1>18, <2>1, <2>2 DEF After, count
<1>20. past = at + OpcodeSize(q[at + 1])
  BY <1>14 DEF past, size
<1> QED BY <1>1, <1>2, <1>19, <1>20 DEF Instruction

LEMMA InstructionPlace ==
  ASSUME NEW p \in Bytes, NEW at, NEW i \in Instruction(p, at)
  PROVE  at \in Int /\ i.address = at
<1>1. Length \in Nat /\ Len(p) = Length
  BY BytesProperties
<1>2. at \in 0 .. Len(p) - 1 /\ i \in After(p, at, at + OpcodeSize(p[at + 1]))
  BY DEF Instruction
<1> DEFINE past == at + OpcodeSize(p[at + 1])
<1> HIDE DEF past
<1>3. PICK opcode : i \in Described(p, at, past, opcode, OperandCount(opcode))
  <2>1. i \in After(p, at, past)
    BY <1>2 DEF past
  <2> QED BY <2>1, Zenon DEF After
<1>4. i.address = at
  BY <1>3 DEF Described
<1> QED BY <1>1, <1>2, <1>4

-----------------------------------------------------------------------------
(* What the interpreter kept.                                                *)

DecoderInv ==
  /\ image \in Bytes /\ program \in Bytes /\ AgreeBelow(image, program, RamStart)
  /\ \A d \in decoded : IsThere(d) /\ d.next <= RamStart

LEMMA RamStartIsLimit == RamStart \in 0 .. Length /\ Length \in Nat
BY DecoderAssumption

LEMMA DecoderInitGood == DecoderInit => DecoderInv
<1> SUFFICES ASSUME DecoderInit PROVE DecoderInv
  OBVIOUS
<1>1. image \in Bytes
  BY DecoderAssumption DEF DecoderInit, Bytes
<1> QED BY <1>1 DEF DecoderInit, DecoderInv, AgreeBelow

LEMMA DecodeAtKeeps == DecoderInv /\ DecodeAt => DecoderInv'
<1> SUFFICES ASSUME DecoderInv, DecodeAt PROVE DecoderInv'
  OBVIOUS
<1>1. PICK at \in 0 .. Length :
        decoded' = {d \in decoded : ~ \E new \in Reading(at) : Kept(new) /\ Index(d.address) = Index(at)}
                   \cup {new \in Reading(at) : Kept(new)}
  BY DEF DecodeAt
<1>2. UNCHANGED <<image, program>>
  BY DEF DecodeAt
<1>3. ASSUME NEW new \in Reading(at), Kept(new) PROVE IsThere(new) /\ new.next <= RamStart
  <2>1. CASE new \in decoded
    BY <2>1 DEF DecoderInv
  <2>2. CASE new \notin decoded
    <3>1. new \in Instruction(program, at)
      BY <2>2 DEF Reading
    <3>2. new.address = at
      BY <3>1, InstructionPlace DEF DecoderInv
    <3> QED BY <1>3, <3>1, <3>2 DEF IsThere, Kept
  <2> QED BY <2>1, <2>2
<1>4. \A d \in decoded' : IsThere(d) /\ d.next <= RamStart
  BY <1>1, <1>3 DEF DecoderInv
<1>5. \A d \in decoded' : IsThere(d)' /\ (d.next <= RamStart)'
  <2> SUFFICES ASSUME NEW d \in decoded' PROVE d \in Instruction(program', d.address) /\ d.next <= RamStart
    BY DEF IsThere
  <2>1. d \in Instruction(program, d.address) /\ d.next <= RamStart
    BY <1>4 DEF IsThere
  <2>2. program' = program
    BY <1>2
  <2> QED BY <2>1, <2>2
<1> QED BY <1>2, <1>5 DEF DecoderInv, AgreeBelow

LEMMA StoreByteKeeps == DecoderInv /\ StoreByte => DecoderInv'
<1> SUFFICES ASSUME DecoderInv, StoreByte PROVE DecoderInv'
  OBVIOUS
<1>1. PICK at \in RamStart .. Length - 1, b \in CodeBytes : program' = [program EXCEPT ![at + 1] = b]
  BY DEF StoreByte
<1>2. image' = image /\ decoded' = decoded
  BY DEF StoreByte
<1>3. b \in 0 .. 255 /\ at + 1 \in 1 .. Length /\ ~ (at + 1 <= RamStart)
  BY RamStartIsLimit, DecoderAssumption
<1>4. program \in [1 .. Length -> 0 .. 255]
  BY DEF DecoderInv, Bytes
<1>5. program' \in Bytes
  BY <1>1, <1>3, <1>4 DEF Bytes
<1>6. AgreeBelow(program, program', RamStart)
  <2> SUFFICES ASSUME NEW k \in 1 .. RamStart PROVE program[k] = program'[k]
    BY DEF AgreeBelow
  <2>1. k # at + 1 /\ k \in 1 .. Length
    BY <1>3, RamStartIsLimit
  <2> QED BY <1>1, <1>4, <2>1
<1>7. AgreeBelow(image, program', RamStart)
  BY <1>6 DEF DecoderInv, AgreeBelow
<1>8. ASSUME NEW d \in decoded PROVE d \in Instruction(program', d.address) /\ d.next <= RamStart
  <2>1. d \in Instruction(program, d.address) /\ d.next <= RamStart /\ program \in Bytes
    BY DEF DecoderInv, IsThere
  <2>2. d.address \in Int
    BY <2>1, InstructionPlace
  <2> QED BY <1>5, <1>6, <2>1, <2>2, RamStartIsLimit, InstructionAgrees
<1>9. (\A d \in decoded : IsThere(d) /\ d.next <= RamStart)'
  BY <1>2, <1>8 DEF IsThere
<1> QED BY <1>2, <1>5, <1>7, <1>9 DEF DecoderInv, AgreeBelow

-----------------------------------------------------------------------------
(* What the compiler follows.                                                *)

\* A trace so far: its instructions are those of the image, end before RAM, are
\* different and follow one another; it can only go on at what follows the last.
TraceOk(t) ==
  /\ t = [list |-> t.list, seen |-> t.seen, cursor |-> t.cursor]
  /\ IsSeq(t.list)
  /\ \A k \in 1 .. Len(t.list) :
       /\ t.list[k].instruction \in Instruction(image, t.list[k].instruction.address)
       /\ t.list[k].instruction.next <= RamStart
       /\ t.list[k].instruction.address \in t.seen
  /\ \A j, k \in 1 .. Len(t.list) :
       t.list[j].instruction.address = t.list[k].instruction.address => j = k
  /\ \A k \in 1 .. Len(t.list) - 1 : FollowsOn(t.list[k].instruction, t.list[k + 1].instruction.address)
  /\ Len(t.list) > 0 => \A c \in t.cursor : FollowsOn(t.list[Len(t.list)].instruction, c)

LEMMA TakenOk ==
  ASSUME image \in Bytes, NEW t, TraceOk(t), NEW at \in t.cursor \ t.seen,
         NEW i \in Instruction(image, at), Compilable(i)
  PROVE  TraceOk(Taken(t, i, Continuation(i, t.seen \cup {i.address})))
<1> DEFINE onward == Continuation(i, t.seen \cup {i.address})
           u == Taken(t, i, onward)
           e == [instruction |-> i, continuation |-> onward]
           n == Len(t.list)
<1>1. i.address = at /\ i.next <= RamStart
  BY InstructionPlace DEF Compilable
<1>2. /\ u = [list |-> u.list, seen |-> u.seen, cursor |-> u.cursor]
      /\ u.list = Append(t.list, e) /\ u.seen = t.seen \cup {at}
      /\ u.cursor = IF onward # {} THEN onward
                    ELSE IF BlockTerminator(i.opcode) \/ i.next <= i.address THEN {} ELSE {i.next}
  BY <1>1 DEF Taken
<1>3. \A c \in onward : FollowsOn(i, c)
  <2> SUFFICES ASSUME NEW c \in onward PROVE FollowsOn(i, c)
    OBVIOUS
  <2>1. BranchOpcode(i.opcode) /\ \E target \in StaticTarget(i) : c \in Successor(i, target, t.seen \cup {i.address})
    BY Zenon DEF Continuation
  <2>2. PICK target \in StaticTarget(i) : c \in Successor(i, target, t.seen \cup {i.address})
    BY <2>1
  <2>3. c = target \/ c = i.next
    BY <2>2, Zenon DEF Successor
  <2> QED BY <2>1, <2>3 DEF FollowsOn
<1>4. e.instruction = i
  OBVIOUS
<1> HIDE DEF onward, u, e
<1>5. \A c \in u.cursor : FollowsOn(i, c)
  BY <1>2, <1>3 DEF FollowsOn
<1>6. /\ IsSeq(u.list) /\ n \in Nat /\ Len(u.list) = n + 1
      /\ \A k \in 1 .. n : u.list[k] = t.list[k]
      /\ u.list[n + 1] = e
  BY <1>2, AppendIsSeq DEF TraceOk
<1>7. \A k \in 1 .. n : /\ t.list[k].instruction \in Instruction(image, t.list[k].instruction.address)
                        /\ t.list[k].instruction.next <= RamStart
                        /\ t.list[k].instruction.address \in t.seen
  BY DEF TraceOk
<1> HIDE DEF n
<1>8. ASSUME NEW k \in 1 .. n + 1
      PROVE  /\ u.list[k].instruction \in Instruction(image, u.list[k].instruction.address)
             /\ u.list[k].instruction.next <= RamStart
             /\ u.list[k].instruction.address \in u.seen
  <2>1. CASE k = n + 1
    BY <1>1, <1>2, <1>4, <1>6, <2>1
  <2>2. CASE k # n + 1
    <3>1. k \in 1 .. n
      BY <1>6, <2>2
    <3> QED BY <1>2, <1>6, <1>7, <3>1
  <2> QED BY <2>1, <2>2
<1>9. ASSUME NEW j \in 1 .. n + 1, NEW k \in 1 .. n + 1,
             u.list[j].instruction.address = u.list[k].instruction.address
      PROVE  j = k
  <2>1. \A m \in 1 .. n : u.list[m].instruction.address # at
    BY <1>6, <1>7
  <2>2. u.list[n + 1].instruction.address = at
    BY <1>1, <1>4, <1>6
  <2>3. \A m \in 1 .. n + 1 : m = n + 1 \/ m \in 1 .. n
    BY <1>6
  <2>4. CASE j \in 1 .. n /\ k \in 1 .. n
    <3>1. t.list[j].instruction.address = t.list[k].instruction.address
      BY <1>6, <1>9, <2>4
    <3> QED BY <2>4, <3>1 DEF TraceOk, n
  <2> QED BY <1>9, <2>1, <2>2, <2>3, <2>4
<1>10. ASSUME NEW k \in 1 .. n
       PROVE  FollowsOn(u.list[k].instruction, u.list[k + 1].instruction.address)
  <2>1. u.list[k] = t.list[k]
    BY <1>6
  <2>2. CASE k = n
    <3>1. u.list[k + 1].instruction.address = at
      BY <1>1, <1>4, <1>6, <2>2
    <3>2. FollowsOn(t.list[k].instruction, at)
      BY <1>6, <2>2 DEF TraceOk, n
    <3> QED BY <2>1, <3>1, <3>2
  <2>3. CASE k # n
    <3>1. k \in 1 .. n - 1 /\ k + 1 \in 1 .. n
      BY <1>6, <2>3
    <3>2. u.list[k + 1] = t.list[k + 1]
      BY <1>6, <3>1
    <3>3. FollowsOn(t.list[k].instruction, t.list[k + 1].instruction.address)
      BY <3>1 DEF TraceOk, n
    <3> QED BY <2>1, <3>2, <3>3
  <2> QED BY <2>2, <2>3
<1>11. Len(u.list) > 0 => \A c \in u.cursor : FollowsOn(u.list[Len(u.list)].instruction, c)
  BY <1>4, <1>5, <1>6
<1>12. (n + 1) - 1 = n
  BY <1>6
<1>13. TraceOk(u)
  BY <1>2, <1>6, <1>8, <1>9, <1>10, <1>11, <1>12 DEF TraceOk
<1> QED BY <1>13 DEF u, onward

LEMMA ExtendedOk ==
  ASSUME image \in Bytes, NEW t, TraceOk(t)
  PROVE  TraceOk(Extended(t))
<1> DEFINE found == {i \in UNION {Instruction(image, at) : at \in t.cursor \ t.seen} :
                       Lower(i.address, RamStart) /\ Compilable(i)}
<1>1. CASE Extended(t) = [t EXCEPT !.cursor = {}]
  <2> DEFINE u == [t EXCEPT !.cursor = {}]
  <2>1. t = [list |-> t.list, seen |-> t.seen, cursor |-> t.cursor]
    BY DEF TraceOk
  <2>2. /\ u = [list |-> u.list, seen |-> u.seen, cursor |-> u.cursor]
        /\ u.list = t.list /\ u.seen = t.seen /\ u.cursor = {}
    BY <2>1
  <2> HIDE DEF u
  <2>3. TraceOk(u)
    BY <2>2 DEF TraceOk
  <2> QED BY <1>1, <2>3 DEF u
<1>2. CASE Extended(t) # [t EXCEPT !.cursor = {}]
  <2>1. /\ found # {}
        /\ Extended(t) = CHOOSE u \in {Taken(t, i, Continuation(i, t.seen \cup {i.address})) : i \in found} : TRUE
    BY <1>2, Zenon DEF Extended
  <2>2. Extended(t) \in {Taken(t, i, Continuation(i, t.seen \cup {i.address})) : i \in found}
    <3> DEFINE all == {Taken(t, i, Continuation(i, t.seen \cup {i.address})) : i \in found}
    <3>1. \E u \in all : TRUE
      BY <2>1
    <3> HIDE DEF all, found
    <3>2. (CHOOSE u \in all : TRUE) \in all
      BY <3>1
    <3> QED BY <2>1, <3>2 DEF all
  <2>3. PICK i \in found : Extended(t) = Taken(t, i, Continuation(i, t.seen \cup {i.address}))
    BY <2>2
  <2>4. Compilable(i) /\ \E at \in t.cursor \ t.seen : i \in Instruction(image, at)
    BY Zenon
  <2>5. PICK at \in t.cursor \ t.seen : i \in Instruction(image, at)
    BY <2>4
  <2>6. TraceOk(Taken(t, i, Continuation(i, t.seen \cup {i.address})))
    BY <2>4, <2>5, TakenOk
  <2> QED BY <2>3, <2>6
<1> QED BY <1>1, <1>2

Departure(at) == [list |-> <<>>, seen |-> {}, cursor |-> {at}]

IsAlong(f, at) ==
  f = [k \in 0 .. MaxTraceInstructions |-> IF k = 0 THEN Departure(at) ELSE Extended(f[k - 1])]

LEMMA AlongExists ==
  ASSUME NEW at
  PROVE  \E f : IsAlong(f, at)
<1> DEFINE D == 0 .. MaxTraceInstructions
           Step(f, k) == IF k = 0 THEN Departure(at) ELSE Extended(f[k - 1])
           G == {n \in Nat : \E f : DOMAIN f = D /\ \A k \in D : k <= n => f[k] = Step(f, k)}
<1>0. MaxTraceInstructions \in Nat
  BY DecoderAssumption
<1>1. 0 \in G
  <2> DEFINE f == [k \in D |-> Departure(at)]
  <2>1. DOMAIN f = D /\ \A k \in D : k <= 0 => f[k] = Step(f, k)
    OBVIOUS
  <2> QED BY <2>1
<1>2. ASSUME NEW n \in G PROVE n + 1 \in G
  <2>1. PICK f : DOMAIN f = D /\ \A k \in D : k <= n => f[k] = Step(f, k)
    OBVIOUS
  <2> DEFINE h == [k \in D |-> Step(f, k)]
  <2>2. ASSUME NEW k \in D, k <= n + 1 PROVE h[k] = Step(h, k)
    <3>1. CASE k = 0
      BY <3>1
    <3>2. CASE k # 0
      <4>1. k - 1 \in D /\ k - 1 <= n
        BY <1>0, <2>2, <3>2
      <4>2. h[k - 1] = f[k - 1]
        BY <2>1, <4>1
      <4>3. h[k] = Step(f, k)
        OBVIOUS
      <4> QED BY <3>2, <4>2, <4>3
    <3> QED BY <3>1, <3>2
  <2>3. DOMAIN h = D
    OBVIOUS
  <2> HIDE DEF h
  <2>4. n + 1 \in Nat
    OBVIOUS
  <2> QED BY <2>2, <2>3, <2>4
<1>3. G = Nat
  <2> HIDE DEF G
  <2>1. G \in SUBSET Nat
    BY DEF G
  <2> QED BY <1>1, <1>2, <2>1, SetInduction
<1>4. PICK f : DOMAIN f = D /\ \A k \in D : k <= MaxTraceInstructions => f[k] = Step(f, k)
  <2> HIDE DEF G
  <2>1. MaxTraceInstructions \in G
    BY <1>0, <1>3
  <2> QED BY <2>1 DEF G
<1> DEFINE h == [k \in D |-> Step(f, k)]
<1>5. \A k \in D : h[k] = f[k]
  BY <1>0, <1>4
<1>6. \A k \in D : Step(h, k) = Step(f, k)
  <2> SUFFICES ASSUME NEW k \in D PROVE Step(h, k) = Step(f, k)
    OBVIOUS
  <2>1. CASE k = 0
    BY <2>1
  <2>2. CASE k # 0
    <3>1. k - 1 \in D
      BY <1>0, <2>2
    <3>2. h[k - 1] = f[k - 1]
      BY <1>5, <3>1
    <3> HIDE DEF h
    <3> QED BY <2>2, <3>2
  <2> QED BY <2>1, <2>2
<1>7. h = [k \in D |-> Step(h, k)]
  BY <1>6
<1> HIDE DEF h
<1> QED BY <1>7 DEF IsAlong

LEMMA TracesOk ==
  ASSUME image \in Bytes, NEW at
  PROVE  \E t : TraceOk(t) /\ CompileTrace(at) = t.list
<1> DEFINE along == CHOOSE f : IsAlong(f, at)
           N == MaxTraceInstructions
<1>1. CompileTrace(at) = along[N].list
  BY Zenon DEF CompileTrace, IsAlong, Departure
<1>2. IsAlong(along, at)
  BY AlongExists
<1> HIDE DEF along
<1>3. N \in Nat
  BY DecoderAssumption
<1> HIDE DEF N
<1>4. along = [k \in 0 .. N |-> IF k = 0 THEN Departure(at) ELSE Extended(along[k - 1])]
  BY <1>2 DEF IsAlong, N
<1> DEFINE G == {k \in Nat : k <= N => TraceOk(along[k])}
<1>5. 0 \in G
  <2>1. 0 \in 0 .. N
    BY <1>3
  <2>2. along[0] = Departure(at)
    BY <1>4, <2>1, Zenon
  <2> DEFINE t == Departure(at)
             none == <<>>
  <2>3. IsSeq(none) /\ Len(none) = 0
    <3>1. none \in Seq({})
      OBVIOUS
    <3> QED BY <3>1 DEF IsSeq
  <2> HIDE DEF none
  <2>4. t.list = none /\ t = [list |-> t.list, seen |-> t.seen, cursor |-> t.cursor]
    BY DEF Departure, none
  <2> HIDE DEF t
  <2>5. TraceOk(t)
    BY <2>3, <2>4 DEF TraceOk
  <2> QED BY <2>2, <2>5 DEF t
<1>6. ASSUME NEW k \in G PROVE k + 1 \in G
  <2>1. SUFFICES ASSUME k + 1 <= N PROVE TraceOk(along[k + 1])
    OBVIOUS
  <2>2. k \in Nat /\ k <= N /\ k + 1 \in 0 .. N /\ k + 1 # 0 /\ (k + 1) - 1 = k
    BY <1>3, <2>1
  <2>3. along[k + 1] = Extended(along[(k + 1) - 1])
    BY <1>4, <2>2, Zenon
  <2>4. along[k + 1] = Extended(along[k])
    BY <2>2, <2>3
  <2>5. TraceOk(along[k])
    BY <2>2
  <2> HIDE DEF G
  <2> QED BY <2>4, <2>5, ExtendedOk
<1>7. TraceOk(along[N])
  <2> HIDE DEF G
  <2>1. G \in SUBSET Nat
    BY DEF G
  <2>2. G = Nat
    BY <1>5, <1>6, <2>1, SetInduction
  <2>3. N \in G /\ N <= N
    BY <1>3, <2>2
  <2> QED BY <2>3 DEF G
<1> QED BY <1>1, <1>7

LEMMA KeptIsThere == DecoderInv => DecodesWhatIsThere
<1> SUFFICES ASSUME DecoderInv PROVE DecodesWhatIsThere
  OBVIOUS
<1>1. ASSUME NEW at \in 0 .. Length, NEW trace, trace = CompileTrace(at)
      PROVE  /\ \A k \in DOMAIN trace : IsThere(trace[k].instruction)
             /\ \A j, k \in DOMAIN trace : trace[j].instruction.address = trace[k].instruction.address => j = k
             /\ \A k \in 1 .. Len(trace) - 1 : FollowsOn(trace[k].instruction, trace[k + 1].instruction.address)
  <2>1. PICK t : TraceOk(t) /\ trace = t.list
    BY <1>1, TracesOk DEF DecoderInv
  <2>2. DOMAIN trace = 1 .. Len(trace)
    <3>1. PICK S : trace \in Seq(S)
      BY <2>1 DEF TraceOk, IsSeq
    <3> QED BY <3>1
  <2>3. ASSUME NEW k \in DOMAIN trace PROVE IsThere(trace[k].instruction)
    <3> DEFINE i == trace[k].instruction
    <3>1. i \in Instruction(image, i.address) /\ i.next <= RamStart
      BY <2>1, <2>2 DEF TraceOk
    <3> HIDE DEF i
    <3>2. i.address \in Int
      BY <3>1, InstructionPlace DEF DecoderInv
    <3>3. i \in Instruction(program, i.address)
      BY <3>1, <3>2, RamStartIsLimit, InstructionAgrees DEF DecoderInv
    <3> QED BY <3>3 DEF IsThere, i
  <2>4. \A j, k \in DOMAIN trace : trace[j].instruction.address = trace[k].instruction.address => j = k
    BY <2>1, <2>2 DEF TraceOk
  <2>5. \A k \in 1 .. Len(trace) - 1 : FollowsOn(trace[k].instruction, trace[k + 1].instruction.address)
    BY <2>1 DEF TraceOk
  <2> QED BY <2>3, <2>4, <2>5
<1>2. \A d \in decoded : IsThere(d)
  BY DEF DecoderInv
<1> QED BY <1>1, <1>2 DEF DecodesWhatIsThere

(* Whatever a story stores into its RAM, for every image and every size of   *)
(* the cache: what decode_at kept is what memory holds, and a trace is made  *)
(* of the instructions that are there, in an order they can be carried out.  *)
THEOREM DecodedIsThere == DecoderSpec => []DecodesWhatIsThere
<1>1. DecoderInv /\ [DecoderNext]_decoderVars => DecoderInv'
  <2> SUFFICES ASSUME DecoderInv, [DecoderNext]_decoderVars PROVE DecoderInv'
    OBVIOUS
  <2>1. CASE DecodeAt
    BY <2>1, DecodeAtKeeps
  <2>2. CASE StoreByte
    BY <2>2, StoreByteKeeps
  <2>3. CASE UNCHANGED decoderVars
    BY <2>3 DEF decoderVars, DecoderInv, AgreeBelow, IsThere
  <2> QED BY <2>1, <2>2, <2>3 DEF DecoderNext
<1> QED BY <1>1, DecoderInitGood, KeptIsThere, PTL DEF DecoderSpec

=============================================================================
