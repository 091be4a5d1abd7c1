--------------------------- MODULE CollectionLemmas ---------------------------
(***************************************************************************)
(* What the proofs of this project need of sequences, sets and sums.       *)
(*                                                                         *)
(* The induction theorems of the library take the property as an operator, *)
(* which the provers cannot instantiate.  Here the property is a set, of   *)
(* numbers or of subsets of a finite set, and that the set is everything   *)
(* follows from the least element of its complement.                       *)
(***************************************************************************)
EXTENDS Queues, FiniteSets, Folds, FiniteSetsExt, SequencesExt,
        SequenceTheorems, FunctionTheorems, FiniteSetTheorems, WellFoundedInduction, TLAPS

-----------------------------------------------------------------------------
(* The two ends of a sequence: what is left when some of the oldest elements *)
(* or the newest one are dropped, as trim_undo and pop_back do with Vm.undo. *)

\* Dropping the k oldest elements leaves the others in their order.
LEMMA SuffixProperties ==
  ASSUME NEW S, NEW q \in Seq(S), NEW k \in 0 .. Len(q)
  PROVE  /\ SubSeq(q, k + 1, Len(q)) \in Seq(S)
         /\ Len(SubSeq(q, k + 1, Len(q))) = Len(q) - k
         /\ \A i \in 1 .. Len(q) - k : SubSeq(q, k + 1, Len(q))[i] = q[k + i]
<1>1. \A i \in k + 1 .. Len(q) : q[i] \in S
  OBVIOUS
<1>2. /\ SubSeq(q, k + 1, Len(q)) \in Seq(S)
      /\ Len(SubSeq(q, k + 1, Len(q))) = IF k + 1 <= Len(q) THEN Len(q) - (k + 1) + 1 ELSE 0
      /\ \A i \in 1 .. Len(q) - (k + 1) + 1 : SubSeq(q, k + 1, Len(q))[i] = q[k + 1 + i - 1]
  BY <1>1, SubSeqProperties
<1> DEFINE r == SubSeq(q, k + 1, Len(q))
<1> HIDE DEF r
<1>3. /\ r \in Seq(S)
      /\ Len(r) = IF k + 1 <= Len(q) THEN Len(q) - (k + 1) + 1 ELSE 0
      /\ \A i \in 1 .. Len(q) - (k + 1) + 1 : r[i] = q[k + 1 + i - 1]
  BY <1>2 DEF r
<1> DEFINE l == Len(q)
<1>4. l \in Nat /\ k \in Nat /\ k <= l
  OBVIOUS
<1> HIDE DEF l
<1>5. /\ r \in Seq(S)
      /\ Len(r) = IF k + 1 <= l THEN l - (k + 1) + 1 ELSE 0
      /\ \A i \in 1 .. l - (k + 1) + 1 : r[i] = q[k + 1 + i - 1]
  BY <1>3 DEF l
<1>6. Len(r) = l - k
  BY <1>4, <1>5
<1>7. \A i \in 1 .. l - k : r[i] = q[k + i]
  <2> SUFFICES ASSUME NEW i \in 1 .. l - k PROVE r[i] = q[k + i]
    OBVIOUS
  <2>1. i \in 1 .. l - (k + 1) + 1 /\ k + 1 + i - 1 = k + i
    BY <1>4
  <2> QED BY <2>1, <1>5
<1>8. r \in Seq(S) /\ Len(r) = Len(q) - k /\ \A i \in 1 .. Len(q) - k : r[i] = q[k + i]
  BY <1>5, <1>6, <1>7 DEF l
<1> QED BY <1>8 DEF r

\* Dropping the newest element leaves the others in their places.
LEMMA FrontProperties ==
  ASSUME NEW S, NEW q \in Seq(S), q # <<>>
  PROVE  /\ SubSeq(q, 1, Len(q) - 1) \in Seq(S)
         /\ Len(SubSeq(q, 1, Len(q) - 1)) = Len(q) - 1
         /\ \A i \in 1 .. Len(q) - 1 : SubSeq(q, 1, Len(q) - 1)[i] = q[i]
<1>1. \A i \in 1 .. Len(q) - 1 : q[i] \in S
  OBVIOUS
<1>2. Len(q) \in Nat \ {0}
  OBVIOUS
<1> DEFINE n == Len(q) - 1
<1>3. n \in Nat /\ \A i \in 1 .. n : q[i] \in S
  BY <1>1, <1>2
<1> HIDE DEF n
<1>4. /\ SubSeq(q, 1, n) \in Seq(S)
      /\ Len(SubSeq(q, 1, n)) = IF 1 <= n THEN n - 1 + 1 ELSE 0
      /\ \A i \in 1 .. n - 1 + 1 : SubSeq(q, 1, n)[i] = q[1 + i - 1]
  BY <1>3, SubSeqProperties
<1>5. /\ SubSeq(q, 1, n) \in Seq(S)
      /\ Len(SubSeq(q, 1, n)) = n
      /\ \A i \in 1 .. n : SubSeq(q, 1, n)[i] = q[i]
  BY <1>3, <1>4
<1> QED BY <1>5 DEF n

-----------------------------------------------------------------------------
(* Induction *)

\* A set of numbers that has 0 and the successor of each of its elements has all.
LEMMA SetInduction ==
  ASSUME NEW S \in SUBSET Nat, 0 \in S, \A n \in S : n + 1 \in S
  PROVE  S = Nat
<1> SUFFICES ASSUME S # Nat PROVE FALSE
  OBVIOUS
<1> DEFINE R == OpToRel(<, Nat)
           T == Nat \ S
<1>1. IsWellFoundedOn(R, Nat)
  BY NatLessThanWellFounded
<1>2. T \subseteq Nat /\ T # {}
  OBVIOUS
<1>3. \A m, n \in Nat : m < n => <<m, n>> \in R
  BY DEF OpToRel
<1> HIDE DEF R
<1>4. PICK n \in T : \A m \in T : <<m, n>> \notin R
  BY <1>1, <1>2, WFMin
<1>5. n # 0 /\ n - 1 \in Nat
  OBVIOUS
<1>6. n - 1 \in T
  BY <1>5
<1>7. n - 1 < n /\ n \in Nat
  OBVIOUS
<1>8. <<n - 1, n>> \in R
  BY <1>3, <1>5, <1>7
<1> QED BY <1>4, <1>6, <1>8

\* A set of numbers has a least one.
LEMMA LeastIsIn ==
  ASSUME NEW D, D \subseteq Nat, D # {}
  PROVE  Min(D) \in D /\ \A x \in D : Min(D) <= x
<1> DEFINE R == OpToRel(<, Nat)
<1>1. \A m, n \in Nat : m < n => <<m, n>> \in R
  BY DEF OpToRel
<1>2. PICK n \in D : \A m \in D : <<m, n>> \notin R
  <2>1. IsWellFoundedOn(R, Nat)
    BY NatLessThanWellFounded, Zenon
  <2> HIDE DEF R
  <2> QED BY <2>1, WFMin
<1> HIDE DEF R
<1>3. \A m \in D : n <= m
  <2> SUFFICES ASSUME NEW m \in D PROVE n <= m
    OBVIOUS
  <2>1. m \in Nat /\ n \in Nat /\ ~ (m < n)
    BY <1>1, <1>2
  <2> QED BY <2>1
<1>4. \E x \in D : \A y \in D : x <= y
  BY <1>3
<1> QED BY <1>4 DEF Min

\* A set of numbers below a bound has a largest one.
LEMMA LargestExists ==
  ASSUME NEW n \in Nat, NEW S \in SUBSET (0 .. n), S # {}
  PROVE  \E m \in S : \A x \in S : x <= m
<1> DEFINE R == OpToRel(<, Nat)
           T == {n - x : x \in S}
<1>1. IsWellFoundedOn(R, Nat)
  BY NatLessThanWellFounded
<1>3. \A i, j \in Nat : i < j => <<i, j>> \in R
  BY DEF OpToRel
<1> HIDE DEF R
<1>2. T \subseteq Nat /\ T # {}
  <2>1. \A x \in S : x \in Nat /\ n - x \in Nat
    OBVIOUS
  <2> QED BY <2>1
<1>4. PICK t \in T : \A r \in T : <<r, t>> \notin R
  <2> HIDE DEF T
  <2> QED BY <1>1, <1>2, WFMin
<1>5. PICK m \in S : t = n - m
  OBVIOUS
<1>6. ASSUME NEW x \in S, ~ (x <= m) PROVE FALSE
  <2>1. n - x \in T /\ n - x \in Nat /\ t \in Nat /\ n - x < t
    BY <1>5, <1>6
  <2>2. <<n - x, t>> \in R
    BY <1>3, <2>1
  <2> QED BY <1>4, <2>1, <2>2
<1> QED BY <1>6

\* A set of subsets of D that has a set whenever it has all those with one element
\* less has them all.
LEMMA SubsetInduction ==
  ASSUME NEW D, IsFiniteSet(D), NEW G \in SUBSET (SUBSET D),
         \A s \in SUBSET D : (\A x \in s : s \ {x} \in G) => s \in G
  PROVE  G = SUBSET D
<1> SUFFICES ASSUME G # SUBSET D PROVE FALSE
  OBVIOUS
<1> DEFINE T == (SUBSET D) \ G
<1>1. IsWellFoundedOn(StrictSubsetOrdering(D), SUBSET D)
  <2>1. FiniteSubsetsOf(D) = SUBSET D
    BY FS_FiniteSubsetsOfFinite
  <2>2. IsWellFoundedOn(StrictSubsetOrdering(D), FiniteSubsetsOf(D))
    BY FS_StrictSubsetOrderingWellFounded
  <2> QED BY <2>1, <2>2
<1>2. T \subseteq SUBSET D /\ T # {}
  OBVIOUS
<1> HIDE DEF T
<1>3. PICK s \in T : \A r \in T : <<r, s>> \notin StrictSubsetOrdering(D)
  BY <1>1, <1>2, WFMin
<1>4. ASSUME NEW x \in s PROVE s \ {x} \in G
  <2>1. <<s \ {x}, s>> \in StrictSubsetOrdering(D)
    BY DEF StrictSubsetOrdering, T
  <2> QED BY <1>3, <2>1 DEF T
<1> QED BY <1>4 DEF T

-----------------------------------------------------------------------------
(* Queues from which elements are taken out *)

\* h gives the places in q of the elements of r, which are in the order of q.
IsPart(r, q, h) ==
  /\ h \in [1 .. Len(r) -> 1 .. Len(q)]
  /\ \A i, j \in 1 .. Len(r) : i < j => h[i] < h[j]
  /\ \A i \in 1 .. Len(r) : r[i] = q[h[i]]

\* r is what is left of q when the places outside `kept` are taken out.
IsRest(r, q, kept) ==
  \E h : /\ IsPart(r, q, h)
         /\ \A j \in 1 .. Len(q) : j \in kept <=> \E i \in 1 .. Len(r) : h[i] = j

\* The function that Retain is defined by.
IsUpto(f, q, kept) ==
  f = [n \in 0 .. Len(q) |-> IF n = 0 THEN <<>>
                             ELSE IF n \in kept THEN Append(f[n - 1], q[n]) ELSE f[n - 1]]

\* There is such a function.
LEMMA UptoExists ==
  ASSUME NEW S, NEW q \in Seq(S), NEW kept
  PROVE  \E f : IsUpto(f, q, kept) /\ f \in [0 .. Len(q) -> Seq(S)]
<1> DEFINE D == 0 .. Len(q)
           Step(f, n) == IF n = 0 THEN <<>>
                         ELSE IF n \in kept THEN Append(f[n - 1], q[n]) ELSE f[n - 1]
           G == {n \in Nat : \E f \in [D -> Seq(S)] : \A m \in D : m <= n => f[m] = Step(f, m)}
<1>1. Len(q) \in Nat /\ \A n \in D : n # 0 => n - 1 \in D /\ q[n] \in S
  OBVIOUS
<1>2. 0 \in G
  <2> DEFINE f == [n \in D |-> <<>>]
  <2>1. f \in [D -> Seq(S)] /\ \A m \in D : m <= 0 => f[m] = Step(f, m)
    OBVIOUS
  <2> HIDE DEF f
  <2> QED BY <2>1
<1>3. ASSUME NEW n \in G PROVE n + 1 \in G
  <2>1. PICK f \in [D -> Seq(S)] : \A m \in D : m <= n => f[m] = Step(f, m)
    OBVIOUS
  <2> DEFINE g == [m \in D |-> Step(f, m)]
  <2>2. g \in [D -> Seq(S)]
    <3> SUFFICES ASSUME NEW m \in D PROVE Step(f, m) \in Seq(S)
      OBVIOUS
    <3>1. CASE m = 0
      BY <3>1
    <3>2. CASE m # 0
      <4>1. f[m - 1] \in Seq(S) /\ q[m] \in S
        BY <1>1, <3>2
      <4> QED BY <3>2, <4>1
    <3> QED BY <3>1, <3>2
  <2>3. ASSUME NEW m \in D, m <= n + 1 PROVE g[m] = Step(g, m)
    <3>1. CASE m = 0
      BY <3>1
    <3>2. CASE m # 0
      <4>1. m - 1 \in D /\ m - 1 <= n /\ n \in Nat
        BY <1>1, <2>3, <3>2
      <4>2. g[m - 1] = f[m - 1]
        BY <2>1, <4>1
      <4> QED BY <3>2, <4>2
    <3> QED BY <3>1, <3>2
  <2> HIDE DEF g
  <2>4. n + 1 \in Nat
    OBVIOUS
  <2> QED BY <2>2, <2>3, <2>4
<1>4. G = Nat
  <2> HIDE DEF G
  <2>1. G \in SUBSET Nat
    BY DEF G
  <2> QED BY <1>2, <1>3, <2>1, SetInduction
<1>5. PICK f \in [D -> Seq(S)] : \A m \in D : m <= Len(q) => f[m] = Step(f, m)
  <2>1. Len(q) \in G
    BY <1>1, <1>4
  <2> QED BY <2>1
<1>6. \A m \in D : f[m] = Step(f, m)
  BY <1>1, <1>5
<1> QED BY <1>6 DEF IsUpto

\* retain keeps the elements of q at the places in `kept`, no others, in their order.
LEMMA RetainProperties ==
  ASSUME NEW S, NEW q \in Seq(S), NEW kept
  PROVE  Retain(q, kept) \in Seq(S) /\ IsRest(Retain(q, kept), q, kept)
<1> DEFINE upto == CHOOSE f : IsUpto(f, q, kept)
<1>1. Retain(q, kept) = upto[Len(q)]
  BY Zenon DEF Retain, IsUpto
<1>2. IsUpto(upto, q, kept)
  BY UptoExists
<1> HIDE DEF upto
<1> DEFINE Sel(r, h, n) ==
             /\ h \in [1 .. Len(r) -> 1 .. n]
             /\ \A i, j \in 1 .. Len(r) : i < j => h[i] < h[j]
             /\ \A i \in 1 .. Len(r) : r[i] = q[h[i]]
             /\ \A j \in 1 .. n : j \in kept <=> \E i \in 1 .. Len(r) : h[i] = j
           G == {n \in Nat : n <= Len(q) => upto[n] \in Seq(S) /\ \E h : Sel(upto[n], h, n)}
<1>3. 0 \in G
  <2>1. upto[0] = <<>>
    BY <1>2 DEF IsUpto
  <2>2. Sel(<<>>, <<>>, 0)
    OBVIOUS
  <2>3. upto[0] \in Seq(S)
    BY <2>1
  <2> HIDE DEF Sel
  <2> QED BY <2>1, <2>2, <2>3
<1>4. ASSUME NEW n \in G, n + 1 <= Len(q)
      PROVE  upto[n + 1] \in Seq(S) /\ \E h : Sel(upto[n + 1], h, n + 1)
  <2> DEFINE r == upto[n]
             t == upto[n + 1]
  <2>0. n \in Nat
    OBVIOUS
  <2>1. n + 1 \in 1 .. Len(q) /\ q[n + 1] \in S /\ n + 1 - 1 = n /\ n + 1 # 0 /\ n + 1 \in 0 .. Len(q)
    <3> HIDE DEF G
    <3> QED BY <2>0, <1>4
  <2>2. r \in Seq(S) /\ \E h : Sel(r, h, n)
    <3> HIDE DEF Sel
    <3>1. n <= Len(q)
      BY <1>4, <2>0
    <3> QED BY <3>1
  <2>3. PICK h : Sel(r, h, n)
    BY <2>2
  <2> HIDE DEF G
  <2>4. t = IF n + 1 \in kept THEN Append(r, q[n + 1]) ELSE r
    <3> DEFINE m == n + 1
    <3>1. m \in 0 .. Len(q) /\ m # 0 /\ m - 1 = n
      BY <2>1, <2>0
    <3>2. upto[m] = IF m \in kept THEN Append(upto[m - 1], q[m]) ELSE upto[m - 1]
      BY <1>2, <3>1 DEF IsUpto
    <3>3. upto[m] = IF m \in kept THEN Append(upto[n], q[m]) ELSE upto[n]
      BY <3>1, <3>2
    <3> QED BY <3>3 DEF m
  <2> HIDE DEF r, t
  <2>5. CASE n + 1 \notin kept
    <3>1. t = r
      BY <2>4, <2>5
    <3>2. h \in [1 .. Len(r) -> 1 .. n + 1] /\ \A i \in 1 .. Len(r) : h[i] # n + 1
      BY <2>0, <2>3
    <3>3. \A j \in 1 .. n + 1 : j \in 1 .. n \/ j = n + 1
      BY <2>0
    <3>4. Sel(r, h, n + 1)
      BY <2>3, <2>5, <3>2, <3>3
    <3> HIDE DEF Sel
    <3> QED BY <2>2, <3>1, <3>4 DEF t
  <2>6. CASE n + 1 \in kept
    <3> DEFINE k == [i \in 1 .. Len(r) + 1 |-> IF i <= Len(r) THEN h[i] ELSE n + 1]
    <3>1. /\ t \in Seq(S) /\ Len(t) = Len(r) + 1 /\ Len(r) \in Nat
          /\ t[Len(r) + 1] = q[n + 1]
          /\ \A i \in 1 .. Len(r) : t[i] = r[i]
      BY <2>1, <2>2, <2>4, <2>6
    <3>2. /\ k \in [1 .. Len(t) -> 1 .. n + 1] /\ k[Len(r) + 1] = n + 1
          /\ \A i \in 1 .. Len(r) : k[i] = h[i] /\ h[i] \in 1 .. n
      <4>1. \A i \in 1 .. Len(r) : h[i] \in 1 .. n /\ h[i] \in 1 .. n + 1 /\ i <= Len(r)
        BY <2>0, <2>3, <3>1
      <4>2. n + 1 \in 1 .. n + 1 /\ ~ (Len(r) + 1 <= Len(r)) /\ Len(r) + 1 \in 1 .. Len(r) + 1
        BY <2>0, <3>1
      <4>3. \A i \in 1 .. Len(r) + 1 : i \in 1 .. Len(r) \/ i = Len(r) + 1
        BY <3>1
      <4> QED BY <3>1, <4>1, <4>2, <4>3
    <3> HIDE DEF k
    <3>3. \A i \in 1 .. Len(t) : i \in 1 .. Len(r) \/ i = Len(r) + 1
      BY <3>1
    <3>4. \A i, j \in 1 .. Len(t) : i < j => k[i] < k[j]
      <4> SUFFICES ASSUME NEW i \in 1 .. Len(t), NEW j \in 1 .. Len(t), i < j PROVE k[i] < k[j]
        OBVIOUS
      <4>1. i \in 1 .. Len(r)
        BY <3>1, <3>3
      <4>2. CASE j \in 1 .. Len(r)
        BY <2>3, <3>2, <4>1, <4>2
      <4>3. CASE j = Len(r) + 1
        BY <2>0, <3>2, <4>1, <4>3
      <4> QED BY <3>3, <4>2, <4>3
    <3>5. \A i \in 1 .. Len(t) : t[i] = q[k[i]]
      BY <2>1, <2>3, <3>1, <3>2, <3>3
    <3>6. \A j \in 1 .. n + 1 : j \in kept <=> \E i \in 1 .. Len(t) : k[i] = j
      <4> SUFFICES ASSUME NEW j \in 1 .. n + 1 PROVE j \in kept <=> \E i \in 1 .. Len(t) : k[i] = j
        OBVIOUS
      <4>1. CASE j = n + 1
        BY <2>6, <3>1, <3>2, <4>1
      <4>2. CASE j # n + 1
        <5>1. j \in 1 .. n
          BY <2>0, <4>2
        <5>2. j \in kept <=> \E i \in 1 .. Len(r) : h[i] = j
          BY <2>3, <5>1
        <5> QED BY <3>1, <3>2, <3>3, <4>2, <5>2
      <4> QED BY <4>1, <4>2
    <3>7. Sel(t, k, n + 1)
      BY <3>2, <3>4, <3>5, <3>6
    <3> QED BY <3>1, <3>7 DEF t
  <2> QED BY <2>5, <2>6
<1>5. G = Nat
  <2>1. \A n \in G : n + 1 \in G
    <3> SUFFICES ASSUME NEW n \in G PROVE n + 1 \in G
      OBVIOUS
    <3>1. n + 1 \in Nat
      OBVIOUS
    <3>2. n + 1 <= Len(q) => upto[n + 1] \in Seq(S) /\ \E h : Sel(upto[n + 1], h, n + 1)
      BY <1>4
    <3> HIDE DEF Sel
    <3> QED BY <3>1, <3>2
  <2> HIDE DEF G
  <2>2. G \in SUBSET Nat
    BY DEF G
  <2> QED BY <1>3, <2>1, <2>2, SetInduction
<1>6. Len(q) \in Nat
  OBVIOUS
<1>7. upto[Len(q)] \in Seq(S) /\ \E h : Sel(upto[Len(q)], h, Len(q))
  <2>1. Len(q) \in G
    BY <1>5, <1>6
  <2> QED BY <1>6, <2>1
<1> QED BY <1>1, <1>7 DEF IsRest, IsPart

\* Taking the first element leaves the others in their order.
LEMMA TailIsRest ==
  ASSUME NEW S, NEW q \in Seq(S), q # <<>>
  PROVE  Tail(q) \in Seq(S) /\ Len(Tail(q)) = Len(q) - 1 /\ IsRest(Tail(q), q, 2 .. Len(q))
<1>1. /\ Tail(q) \in Seq(S) /\ Len(Tail(q)) = Len(q) - 1 /\ Len(q) \in Nat \ {0}
      /\ \A i \in 1 .. Len(q) - 1 : Tail(q)[i] = q[i + 1]
  OBVIOUS
<1> DEFINE h == [i \in 1 .. Len(q) - 1 |-> i + 1]
<1>2. IsPart(Tail(q), q, h)
  BY <1>1 DEF IsPart
<1>3. \A j \in 1 .. Len(q) : j \in 2 .. Len(q) <=> \E i \in 1 .. Len(Tail(q)) : h[i] = j
  <2> SUFFICES ASSUME NEW j \in 1 .. Len(q)
               PROVE  j \in 2 .. Len(q) <=> \E i \in 1 .. Len(q) - 1 : i + 1 = j
    BY <1>1
  <2>1. j \in 2 .. Len(q) => j - 1 \in 1 .. Len(q) - 1 /\ j - 1 + 1 = j
    BY <1>1
  <2> QED BY <1>1, <2>1
<1> QED BY <1>1, <1>2, <1>3 DEF IsRest

\* VecDeque::remove takes one element out and leaves the others in their order.
LEMMA RemoveAtIsRest ==
  ASSUME NEW S, NEW q \in Seq(S), NEW k \in 1 .. Len(q)
  PROVE  /\ RemoveAt(q, k) \in Seq(S) /\ Len(RemoveAt(q, k)) = Len(q) - 1
         /\ IsRest(RemoveAt(q, k), q, (1 .. Len(q)) \ {k})
<1> DEFINE l == Len(q)
           a == SubSeq(q, 1, k - 1)
           b == SubSeq(q, k + 1, Len(q))
           r == a \o b
           h == [i \in 1 .. l - 1 |-> IF i < k THEN i ELSE i + 1]
<1>1. l \in Nat /\ k \in 1 .. l /\ \A i \in 1 .. l : q[i] \in S
  OBVIOUS
<1>2. /\ a \in Seq(S) /\ Len(a) = k - 1
      /\ \A i \in 1 .. k - 1 : a[i] = q[i]
  <2>1. k - 1 \in Nat /\ \A i \in 1 .. k - 1 : q[i] \in S
    BY <1>1
  <2> DEFINE n == k - 1
  <2>2. n \in Nat /\ \A i \in 1 .. n : q[i] \in S
    BY <2>1
  <2> HIDE DEF n
  <2>3. /\ SubSeq(q, 1, n) \in Seq(S)
        /\ Len(SubSeq(q, 1, n)) = IF 1 <= n THEN n - 1 + 1 ELSE 0
        /\ \A i \in 1 .. n - 1 + 1 : SubSeq(q, 1, n)[i] = q[1 + i - 1]
    BY <2>2, SubSeqProperties
  <2>4. /\ SubSeq(q, 1, n) \in Seq(S) /\ Len(SubSeq(q, 1, n)) = n
        /\ \A i \in 1 .. n : SubSeq(q, 1, n)[i] = q[i]
    BY <2>2, <2>3
  <2> QED BY <2>4 DEF n
<1>3. /\ b \in Seq(S) /\ Len(b) = l - k
      /\ \A i \in 1 .. l - k : b[i] = q[k + i]
  <2>1. k \in 0 .. Len(q)
    BY <1>1
  <2> HIDE DEF b
  <2> QED BY <2>1, SuffixProperties DEF b
<1> HIDE DEF a, b
<1>4. /\ r \in Seq(S) /\ Len(r) = Len(a) + Len(b)
      /\ \A i \in 1 .. Len(a) + Len(b) : r[i] = IF i <= Len(a) THEN a[i] ELSE b[i - Len(a)]
  BY <1>2, <1>3, ConcatProperties
<1>5. Len(r) = l - 1
  BY <1>1, <1>2, <1>3, <1>4
<1> HIDE DEF l, r
<1>6. \A i \in 1 .. l - 1 : r[i] = q[h[i]]
  <2> SUFFICES ASSUME NEW i \in 1 .. l - 1 PROVE r[i] = q[IF i < k THEN i ELSE i + 1]
    OBVIOUS
  <2>1. CASE i < k
    <3>1. i \in 1 .. k - 1 /\ i \in 1 .. Len(a) + Len(b) /\ i <= Len(a)
      BY <1>1, <1>2, <1>3, <2>1
    <3> QED BY <1>2, <1>4, <2>1, <3>1
  <2>2. CASE ~ (i < k)
    <3>1. i \in 1 .. Len(a) + Len(b) /\ ~ (i <= Len(a)) /\ i - Len(a) = i - (k - 1)
      BY <1>1, <1>2, <1>3, <2>2
    <3>2. i - (k - 1) \in 1 .. l - k /\ k + (i - (k - 1)) = i + 1
      BY <1>1, <2>2
    <3>3. r[i] = b[i - (k - 1)]
      BY <1>4, <3>1
    <3>4. b[i - (k - 1)] = q[k + (i - (k - 1))]
      BY <1>3, <3>2
    <3> QED BY <2>2, <3>2, <3>3, <3>4
  <2> QED BY <2>1, <2>2
<1>7. IsPart(r, q, h)
  <2>1. h \in [1 .. l - 1 -> 1 .. l]
    BY <1>1
  <2>2. \A i, j \in 1 .. l - 1 : i < j => h[i] < h[j]
    BY <1>1
  <2>3. Len(r) = l - 1 /\ Len(q) = l
    BY <1>5 DEF l
  <2> HIDE DEF h
  <2> QED BY <1>6, <2>1, <2>2, <2>3 DEF IsPart
<1>8. \A j \in 1 .. l : j \in (1 .. l) \ {k} <=> \E i \in 1 .. l - 1 : h[i] = j
  <2> SUFFICES ASSUME NEW j \in 1 .. l PROVE j # k <=> \E i \in 1 .. l - 1 : h[i] = j
    OBVIOUS
  <2>1. CASE j < k
    <3>1. j \in 1 .. l - 1 /\ h[j] = j
      BY <1>1, <2>1
    <3> QED BY <1>1, <2>1, <3>1
  <2>2. CASE k < j
    <3>1. j - 1 \in 1 .. l - 1 /\ ~ (j - 1 < k) /\ j - 1 + 1 = j
      BY <1>1, <2>2
    <3>2. h[j - 1] = j
      BY <3>1
    <3>3. j # k
      BY <1>1, <2>2
    <3> HIDE DEF h
    <3> QED BY <3>1, <3>2, <3>3
  <2>3. CASE j = k
    BY <1>1, <2>3
  <2> QED BY <1>1, <2>1, <2>2, <2>3
<1>9. IsRest(r, q, (1 .. l) \ {k})
  <2> HIDE DEF h
  <2>1. Len(r) = l - 1 /\ Len(q) = l
    BY <1>5 DEF l
  <2> QED BY <1>7, <1>8, <2>1 DEF IsRest
<1>10. RemoveAt(q, k) = r
  BY DEF RemoveAt, r, a, b
<1> QED BY <1>4, <1>5, <1>9, <1>10 DEF l

\* The places of a queue where an element of P is.
Places(q, P) == {i \in DOMAIN q : q[i] \in P}

LEMMA PlacesFinite ==
  ASSUME NEW S, NEW q \in Seq(S), NEW P
  PROVE  /\ Places(q, P) \subseteq 1 .. Len(q)
         /\ IsFiniteSet(Places(q, P)) /\ Cardinality(Places(q, P)) \in Nat
         /\ Cardinality(Places(q, P)) <= Len(q)
         /\ S \subseteq P => Cardinality(Places(q, P)) = Len(q)
<1>1. DOMAIN q = 1 .. Len(q) /\ Len(q) \in Nat
  OBVIOUS
<1>2. IsFiniteSet(1 .. Len(q)) /\ Cardinality(1 .. Len(q)) = Len(q)
  <2>1. 1 \in Int /\ Len(q) \in Int /\ Len(q) - 1 + 1 = Len(q) /\ (1 > Len(q) => Len(q) = 0)
    BY <1>1
  <2> QED BY <1>1, <2>1, FS_Interval
<1>3. Places(q, P) \subseteq 1 .. Len(q)
  BY <1>1 DEF Places
<1>4. S \subseteq P => Places(q, P) = 1 .. Len(q)
  BY <1>1 DEF Places
<1> QED BY <1>2, <1>3, <1>4, FS_Subset, FS_CardinalityType

\* There is nothing more of P in a part of a queue than in the queue.
LEMMA PlacesPart ==
  ASSUME NEW S, NEW q \in Seq(S), NEW r \in Seq(S), NEW h, IsPart(r, q, h), NEW P
  PROVE  Cardinality(Places(r, P)) <= Cardinality(Places(q, P))
<1> DEFINE A == Places(r, P)
           B == Places(q, P)
           g == [i \in A |-> h[i]]
<1>1. IsFiniteSet(A) /\ IsFiniteSet(B)
  BY PlacesFinite
<1>2. A \subseteq 1 .. Len(r)
  BY DEF Places
<1>3. \A i \in A : h[i] \in B
  BY <1>2 DEF Places, IsPart
<1>4. \A i, j \in A : i # j => h[i] # h[j]
  <2> SUFFICES ASSUME NEW i \in A, NEW j \in A, i # j PROVE h[i] # h[j]
    OBVIOUS
  <2>1. i \in 1 .. Len(r) /\ j \in 1 .. Len(r)
    BY <1>2
  <2>2. h[i] \in 1 .. Len(q) /\ h[j] \in 1 .. Len(q)
    BY <2>1 DEF IsPart
  <2>3. i < j \/ j < i
    BY <2>1
  <2>4. (i < j => h[i] < h[j]) /\ (j < i => h[j] < h[i])
    BY <2>1 DEF IsPart
  <2> HIDE DEF A, B
  <2> QED BY <2>2, <2>3, <2>4
<1>5. g \in [A -> B] /\ \A i, j \in A : i # j => g[i] # g[j]
  BY <1>3, <1>4
<1> HIDE DEF A, B, g
<1>6. g \in Injection(A, B)
  BY <1>5 DEF Injection, IsInjective
<1>7. Cardinality(A) <= Cardinality(B)
  BY <1>1, <1>6, FS_Injection
<1> QED BY <1>7 DEF A, B

\* One more element.
LEMMA PlacesAppend ==
  ASSUME NEW S, NEW q \in Seq(S), NEW e \in S, NEW P
  PROVE  Cardinality(Places(Append(q, e), P)) = Cardinality(Places(q, P)) + IF e \in P THEN 1 ELSE 0
<1> DEFINE l == Len(q)
           r == Append(q, e)
<1>1. /\ l \in Nat /\ DOMAIN q = 1 .. l /\ DOMAIN r = 1 .. l + 1
      /\ r[l + 1] = e /\ \A i \in 1 .. l : r[i] = q[i]
  OBVIOUS
<1> HIDE DEF l, r
<1>2. l + 1 \notin Places(q, P)
  BY <1>1 DEF Places
<1>3. Places(r, P) = IF e \in P THEN Places(q, P) \cup {l + 1} ELSE Places(q, P)
  <2>1. \A i \in 1 .. l + 1 : i \in 1 .. l \/ i = l + 1
    BY <1>1
  <2>2. \A i \in 1 .. l : i \in 1 .. l + 1 /\ i # l + 1
    BY <1>1
  <2> QED BY <1>1, <2>1, <2>2 DEF Places
<1>4. IsFiniteSet(Places(q, P)) /\ Cardinality(Places(q, P)) \in Nat
  BY PlacesFinite
<1> DEFINE A == Places(q, P)
<1>5. e \in P => Cardinality(Places(r, P)) = Cardinality(A) + 1
  <2> HIDE DEF A
  <2>1. Cardinality(A \cup {l + 1}) = Cardinality(A) + 1
    BY <1>2, <1>4, FS_AddElement DEF A
  <2> QED BY <1>3, <2>1 DEF A
<1> QED BY <1>3, <1>4, <1>5 DEF r

\* What is of P or of R.
LEMMA PlacesUnion ==
  ASSUME NEW S, NEW q \in Seq(S), NEW P, NEW R
  PROVE  Cardinality(Places(q, P \cup R)) <= Cardinality(Places(q, P)) + Cardinality(Places(q, R))
<1>1. Places(q, P \cup R) = Places(q, P) \cup Places(q, R)
  BY DEF Places
<1>2. IsFiniteSet(Places(q, P)) /\ IsFiniteSet(Places(q, R)) /\ IsFiniteSet(Places(q, P) \cap Places(q, R))
  <2>1. Places(q, P) \cap Places(q, R) = Places(q, P \cap R)
    BY DEF Places
  <2> QED BY <2>1, PlacesFinite
<1> DEFINE A == Places(q, P)
           B == Places(q, R)
<1> HIDE DEF A, B
<1>3. IsFiniteSet(A) /\ IsFiniteSet(B) /\ IsFiniteSet(A \cap B)
  BY <1>2 DEF A, B
<1>4. Cardinality(A \cup B) = Cardinality(A) + Cardinality(B) - Cardinality(A \cap B)
  BY <1>3, FS_Union
<1>5. Cardinality(A) \in Nat /\ Cardinality(B) \in Nat /\ Cardinality(A \cap B) \in Nat
  BY <1>3, FS_CardinalityType
<1>6. Cardinality(A \cup B) <= Cardinality(A) + Cardinality(B)
  BY <1>4, <1>5
<1> QED BY <1>1, <1>6 DEF A, B

-----------------------------------------------------------------------------
(* Folds and sums *)

\* Less by one element.
LEMMA SmallerSubset ==
  ASSUME NEW D, IsFiniteSet(D), NEW s \in SUBSET D, NEW x \in s
  PROVE  /\ Cardinality(s) \in Nat \ {0}
         /\ Cardinality(s \ {x}) = Cardinality(s) - 1
         /\ s \ {x} \in SUBSET D
<1>1. IsFiniteSet(s)
  BY FS_Subset
<1> QED BY <1>1, FS_RemoveElement, FS_CardinalityType, FS_EmptySet

\* f is the fold of g over the subsets of D, from b, in the order that c chooses.
IsFold(f, D, b, g, c) ==
  \A s \in SUBSET D : f[s] = IF s = {} THEN b ELSE g[c[s]][f[s \ {c[s]}]]

\* There is such a function: what MapThenFoldSet chooses is one.
LEMMA FoldExists ==
  ASSUME NEW D, IsFiniteSet(D), NEW V, NEW b \in V, NEW g \in [D -> [V -> V]],
         NEW c, \A s \in SUBSET D : s # {} => c[s] \in s
  PROVE  \E f \in [SUBSET D -> V] :
           IsFold(f, D, b, g, c)
<1> DEFINE Up(h, n) == \A s \in SUBSET D : Cardinality(s) <= n =>
                         h[s] = IF s = {} THEN b ELSE g[c[s]][h[s \ {c[s]}]]
           G == {n \in Nat : \E h \in [SUBSET D -> V] : Up(h, n)}
<1>1. 0 \in G
  <2> DEFINE h == [s \in SUBSET D |-> b]
  <2>1. \A s \in SUBSET D : Cardinality(s) <= 0 => s = {}
    BY FS_Subset, FS_CardinalityType, FS_EmptySet
  <2>2. h \in [SUBSET D -> V] /\ \A s \in SUBSET D : h[s] = b
    OBVIOUS
  <2> HIDE DEF h
  <2>3. Up(h, 0)
    BY <2>1, <2>2
  <2> QED BY <2>2, <2>3
<1>2. ASSUME NEW n \in G PROVE n + 1 \in G
  <2>1. PICK h \in [SUBSET D -> V] : Up(h, n)
    OBVIOUS
  <2> DEFINE k == [s \in SUBSET D |-> IF s = {} THEN b ELSE g[c[s]][h[s \ {c[s]}]]]
  <2>2. \A s \in SUBSET D : s # {} => c[s] \in s /\ c[s] \in D /\ s \ {c[s]} \in SUBSET D
    OBVIOUS
  <2>3. k \in [SUBSET D -> V]
    BY <2>2
  <2>4. ASSUME NEW s \in SUBSET D, Cardinality(s) <= n + 1
        PROVE  k[s] = IF s = {} THEN b ELSE g[c[s]][k[s \ {c[s]}]]
    <3>1. CASE s = {}
      BY <3>1
    <3>2. CASE s # {}
      <4> DEFINE r == s \ {c[s]}
      <4>1. r \in SUBSET D /\ Cardinality(r) <= n
        BY <2>2, <2>4, <3>2, SmallerSubset
      <4>2. k[r] = h[r]
        BY <2>1, <4>1
      <4> QED BY <3>2, <4>2
    <3> QED BY <3>1, <3>2
  <2> HIDE DEF k
  <2>5. Up(k, n + 1)
    BY <2>4
  <2>6. n + 1 \in Nat
    OBVIOUS
  <2> QED BY <2>3, <2>5, <2>6
<1>3. G = Nat
  <2> HIDE DEF G
  <2>1. G \in SUBSET Nat
    BY DEF G
  <2> QED BY <1>1, <1>2, <2>1, SetInduction
<1>4. Cardinality(D) \in Nat /\ \A s \in SUBSET D : Cardinality(s) <= Cardinality(D)
  BY FS_CardinalityType, FS_Subset
<1>5. PICK f \in [SUBSET D -> V] : Up(f, Cardinality(D))
  <2>1. Cardinality(D) \in G
    BY <1>3, <1>4
  <2> QED BY <2>1
<1>6. \A s \in SUBSET D : f[s] = IF s = {} THEN b ELSE g[c[s]][f[s \ {c[s]}]]
  BY <1>4, <1>5
<1> QED BY <1>6 DEF IsFold

\* The sum of what a function has for the elements of a set.
SumOf(w, S) == MapThenSumSet(LAMBDA x : w[x], S)
Pick(s) == CHOOSE x \in s : TRUE

IsSum(w, S, f) ==
  f = [s \in SUBSET S |-> IF s = {} THEN 0 ELSE w[Pick(s)] + f[s \ {Pick(s)}]]

\* The sums of all subsets are given by a function.
LEMMA SumExists ==
  ASSUME NEW D, IsFiniteSet(D), NEW w \in [D -> Int]
  PROVE  \E f \in [SUBSET D -> Int] : IsSum(w, D, f)
<1> DEFINE V == Int
           g == [x \in D |-> [v \in V |-> w[x] + v]]
           c == [s \in SUBSET D |-> Pick(s)]
<1>1. \A s \in SUBSET D : s # {} => c[s] \in s
  BY DEF Pick
<1>2. g \in [D -> [V -> V]] /\ 0 \in V
  OBVIOUS
<1> HIDE DEF g, c, V
<1>3. PICK f \in [SUBSET D -> V] : IsFold(f, D, 0, g, c)
  BY <1>1, <1>2, FoldExists
<1>4. ASSUME NEW s \in SUBSET D
      PROVE  f[s] = IF s = {} THEN 0 ELSE w[Pick(s)] + f[s \ {Pick(s)}]
  <2>1. CASE s = {}
    BY <1>3, <2>1 DEF IsFold
  <2>2. CASE s # {}
    <3>1. c[s] = Pick(s) /\ c[s] \in D /\ s \ {c[s]} \in SUBSET D
      BY <1>1, <2>2 DEF c
    <3>2. f[s] = g[c[s]][f[s \ {c[s]}]]
      BY <1>3, <2>2 DEF IsFold
    <3> QED BY <2>2, <3>1, <3>2 DEF g, V
  <2> QED BY <2>1, <2>2
<1> QED BY <1>4 DEF IsSum, V

\* A sum is what its terms are, whatever else the function that gives them says.
LEMMA SumUnique ==
  ASSUME NEW D, IsFiniteSet(D), NEW v, NEW w \in [D -> Int], NEW E, D \subseteq E,
         \A x \in D : v[x] = w[x],
         NEW f, IsSum(v, E, f), NEW h, IsSum(w, D, h)
  PROVE  \A s \in SUBSET D : f[s] = h[s] /\ f[s] \in Int
<1> DEFINE G == {s \in SUBSET D : f[s] = h[s] /\ f[s] \in Int}
<1>1. ASSUME NEW s \in SUBSET D, \A x \in s : s \ {x} \in G PROVE s \in G
  <2>1. CASE s = {}
    BY <2>1 DEF IsSum
  <2>2. CASE s # {}
    <3>1. Pick(s) \in s
      BY <2>2 DEF Pick
    <3>2. f[s] = v[Pick(s)] + f[s \ {Pick(s)}] /\ h[s] = w[Pick(s)] + h[s \ {Pick(s)}]
      BY <2>2 DEF IsSum
    <3>3. s \ {Pick(s)} \in G /\ w[Pick(s)] \in Int
      BY <1>1, <3>1
    <3>4. v[Pick(s)] = w[Pick(s)]
      BY <3>1
    <3> QED BY <3>2, <3>3, <3>4
  <2> QED BY <2>1, <2>2
<1>2. G = SUBSET D
  <2> HIDE DEF G
  <2>1. G \in SUBSET (SUBSET D)
    BY DEF G
  <2> QED BY <1>1, <2>1, SubsetInduction
<1> QED BY <1>2

\* SumOf is what IsSum says.
LEMMA SumDefined ==
  ASSUME NEW D, IsFiniteSet(D), NEW w, \A x \in D : w[x] \in Int
  PROVE  \E f : IsSum(w, D, f) /\ SumOf(w, D) = f[D]
<1> DEFINE u == [x \in D |-> w[x]]
           iter == CHOOSE f : IsSum(w, D, f)
<1>1. u \in [D -> Int]
  OBVIOUS
<1>2. PICK h \in [SUBSET D -> Int] : IsSum(u, D, h)
  BY <1>1, SumExists
<1>3. IsSum(w, D, h)
  <2>1. ASSUME NEW s \in SUBSET D
        PROVE  h[s] = IF s = {} THEN 0 ELSE w[Pick(s)] + h[s \ {Pick(s)}]
    <3>1. CASE s = {}
      BY <1>2, <3>1 DEF IsSum
    <3>2. CASE s # {}
      <4>1. Pick(s) \in D
        BY <3>2 DEF Pick
      <4> QED BY <1>2, <3>2, <4>1 DEF IsSum
    <3> QED BY <3>1, <3>2
  <2> QED BY <1>2, <2>1 DEF IsSum
<1>4. IsSum(w, D, iter)
  BY <1>3
<1>5. SumOf(w, D) = iter[D]
  BY Zenon DEF SumOf, MapThenSumSet, MapThenFoldSet, IsSum, Pick
<1> QED BY <1>4, <1>5

\* The sum over nothing is zero; taking a term away takes its value away.
LEMMA SumEmpty == ASSUME NEW w PROVE SumOf(w, {}) = 0
<1>1. IsFiniteSet({})
  BY FS_EmptySet
<1>2. PICK f : IsSum(w, {}, f) /\ SumOf(w, {}) = f[{}]
  BY <1>1, SumDefined
<1>3. f[{}] = 0
  BY <1>2 DEF IsSum
<1> QED BY <1>2, <1>3

\* Functions that agree on a set have the same sum over it.
LEMMA SumSame ==
  ASSUME NEW D, IsFiniteSet(D), NEW w, \A x \in D : w[x] \in Int,
         NEW f, IsSum(w, D, f), NEW S \in SUBSET D, NEW v, \A x \in S : v[x] = w[x]
  PROVE  SumOf(v, S) = f[S] /\ f[S] \in Int
<1> DEFINE u == [x \in S |-> w[x]]
<1>1. IsFiniteSet(S) /\ u \in [S -> Int] /\ \A x \in S : v[x] = u[x] /\ w[x] = u[x]
  BY FS_Subset
<1> HIDE DEF u
<1>2. PICK h : IsSum(u, S, h)
  BY <1>1, SumExists
<1>3. PICK g : IsSum(v, S, g) /\ SumOf(v, S) = g[S]
  <2>1. \A x \in S : v[x] \in Int
    BY <1>1
  <2> QED BY <1>1, <2>1, SumDefined
<1>4. g[S] = h[S] /\ g[S] \in Int
  BY <1>1, <1>2, <1>3, SumUnique
<1>5. f[S] = h[S]
  BY <1>1, <1>2, SumUnique
<1> QED BY <1>3, <1>4, <1>5

LEMMA SumCongruent ==
  ASSUME NEW S, IsFiniteSet(S), NEW v, NEW w, \A x \in S : v[x] = w[x] /\ w[x] \in Int
  PROVE  SumOf(v, S) = SumOf(w, S) /\ SumOf(w, S) \in Int
<1>1. PICK f : IsSum(w, S, f) /\ SumOf(w, S) = f[S]
  BY SumDefined
<1>2. S \in SUBSET S
  OBVIOUS
<1>3. SumOf(v, S) = f[S] /\ f[S] \in Int
  BY <1>1, <1>2, SumSame
<1> QED BY <1>1, <1>3

LEMMA SumRemove ==
  ASSUME NEW D, IsFiniteSet(D), NEW w, \A x \in D : w[x] \in Int, NEW y \in D
  PROVE  SumOf(w, D) = w[y] + SumOf(w, D \ {y})
<1>1. PICK f : IsSum(w, D, f) /\ SumOf(w, D) = f[D]
  BY SumDefined
<1> DEFINE Total(s) == f[s]
           G == {s \in SUBSET D : \A x \in s : Total(s) = w[x] + Total(s \ {x})}
<1>2. \A s \in SUBSET D : Total(s) \in Int /\ SumOf(w, s) = Total(s)
  <2> SUFFICES ASSUME NEW s \in SUBSET D PROVE Total(s) \in Int /\ SumOf(w, s) = Total(s)
    OBVIOUS
  <2> QED BY <1>1, SumSame
<1>3. \A s \in SUBSET D : s # {} => Pick(s) \in s /\ Total(s) = w[Pick(s)] + Total(s \ {Pick(s)})
  <2>1. \A s \in SUBSET D : s # {} => Pick(s) \in s
    BY DEF Pick
  <2> QED BY <1>1, <2>1 DEF IsSum
<1> HIDE DEF Total
<1>4. ASSUME NEW s \in SUBSET D, \A x \in s : s \ {x} \in G PROVE s \in G
  <2> SUFFICES ASSUME NEW x \in s PROVE Total(s) = w[x] + Total(s \ {x})
    OBVIOUS
  <2> DEFINE z == Pick(s)
             r == s \ {x, z}
  <2>1. z \in s /\ Total(s) = w[z] + Total(s \ {z})
    BY <1>3
  <2> HIDE DEF z
  <2>2. CASE x = z
    BY <2>1, <2>2
  <2>3. CASE x # z
    <3>1. s \ {z} \in G /\ x \in s \ {z} /\ (s \ {z}) \ {x} = r
      BY <1>4, <2>1, <2>3
    <3>2. s \ {x} \in G /\ z \in s \ {x} /\ (s \ {x}) \ {z} = r
      BY <1>4, <2>1, <2>3
    <3>3. r \in SUBSET D /\ w[x] \in Int /\ w[z] \in Int
      BY <2>1
    <3> HIDE DEF r
    <3>4. Total(s \ {z}) = w[x] + Total(r)
      BY <3>1
    <3>5. Total(s \ {x}) = w[z] + Total(r)
      BY <3>2
    <3>6. Total(r) \in Int
      BY <1>2, <3>3
    <3> QED BY <2>1, <3>3, <3>4, <3>5, <3>6
  <2> QED BY <2>2, <2>3
<1>5. G = SUBSET D
  <2> HIDE DEF G
  <2>1. G \in SUBSET (SUBSET D)
    BY DEF G
  <2> QED BY <1>4, <2>1, SubsetInduction
<1>6. Total(D) = w[y] + Total(D \ {y})
  <2>1. D \in G
    BY <1>5
  <2> QED BY <2>1
<1>7. D \ {y} \in SUBSET D /\ D \in SUBSET D
  OBVIOUS
<1> QED BY <1>2, <1>6, <1>7

\* A sum of numbers that are not negative is not negative, and less of it is not more.
LEMMA SumMonotone ==
  ASSUME NEW D, IsFiniteSet(D), NEW w, \A x \in D : w[x] \in Nat, NEW S \in SUBSET D
  PROVE  /\ SumOf(w, S) \in Nat /\ SumOf(w, D) \in Nat
         /\ SumOf(w, S) <= SumOf(w, D)
<1>1. \A s \in SUBSET D : IsFiniteSet(s) /\ \A x \in s : w[x] \in Int
  BY FS_Subset
<1>2. \A s \in SUBSET D : SumOf(w, s) \in Int
  <2> SUFFICES ASSUME NEW s \in SUBSET D PROVE SumOf(w, s) \in Int
    OBVIOUS
  <2> QED BY <1>1, SumCongruent
<1>3. \A s \in SUBSET D, x \in D : x \in s => SumOf(w, s) = w[x] + SumOf(w, s \ {x})
  <2> SUFFICES ASSUME NEW s \in SUBSET D, NEW x \in s PROVE SumOf(w, s) = w[x] + SumOf(w, s \ {x})
    OBVIOUS
  <2> QED BY <1>1, SumRemove
<1> DEFINE G == {s \in SUBSET D : SumOf(w, s) \in Nat /\ (S \subseteq s => SumOf(w, S) <= SumOf(w, s))}
<1>4. ASSUME NEW s \in SUBSET D, \A x \in s : s \ {x} \in G PROVE s \in G
  <2>1. SumOf(w, s) \in Nat
    <3>1. CASE s = {}
      BY <3>1, SumEmpty
    <3>2. CASE s # {}
      <4>1. PICK x \in s : TRUE
        BY <3>2
      <4>2. SumOf(w, s \ {x}) \in Nat /\ w[x] \in Nat /\ SumOf(w, s) = w[x] + SumOf(w, s \ {x})
        BY <1>3, <1>4
      <4> QED BY <4>2
    <3> QED BY <3>1, <3>2
  <2>2. ASSUME S \subseteq s PROVE SumOf(w, S) <= SumOf(w, s)
    <3>1. CASE s = S
      BY <1>2, <3>1
    <3>2. CASE s # S
      <4>1. PICK x \in s : x \notin S
        BY <2>2, <3>2
      <4>2. SumOf(w, S) <= SumOf(w, s \ {x})
        BY <1>4, <2>2, <4>1
      <4>3. SumOf(w, s) = w[x] + SumOf(w, s \ {x}) /\ w[x] \in Nat
        BY <1>3
      <4>4. SumOf(w, S) \in Int /\ SumOf(w, s \ {x}) \in Int
        BY <1>2
      <4> QED BY <4>2, <4>3, <4>4
    <3> QED BY <3>1, <3>2
  <2> QED BY <2>1, <2>2
<1>5. G = SUBSET D
  <2> HIDE DEF G
  <2>1. G \in SUBSET (SUBSET D)
    BY DEF G
  <2> QED BY <1>4, <2>1, SubsetInduction
<1>6. S \in G /\ D \in G
  BY <1>5
<1> QED BY <1>6

-----------------------------------------------------------------------------
(* Sequences whose elements are all different                                *)

\* Such a sequence has as many elements as places.
LEMMA DifferentElements ==
  ASSUME NEW S, NEW q \in Seq(S), IsInjective(q)
  PROVE  IsFiniteSet(Range(q)) /\ Cardinality(Range(q)) = Len(q) /\ Range(q) \subseteq S
<1> DEFINE D == 1 .. Len(q)
<1>1. DOMAIN q = D /\ \A i \in D : q[i] \in S
  OBVIOUS
<1>2. IsFiniteSet(D) /\ Cardinality(D) = Len(q)
  <2>1. Len(q) \in Nat
    OBVIOUS
  <2> QED BY <2>1, FS_Interval
<1>3. q \in [D -> Range(q)]
  BY <1>1 DEF Range
<1>4. q \in Injection(D, Range(q))
  BY <1>1, <1>3 DEF Injection, IsInjective
<1>5. q \in Surjection(D, Range(q))
  BY <1>1, <1>3 DEF Surjection, Range
<1> QED BY <1>1, <1>2, <1>4, <1>5, FS_Surjection DEF Range

\* The elements of two sequences, one after the other.
LEMMA ConcatElements ==
  ASSUME NEW S, NEW p \in Seq(S), NEW q \in Seq(S)
  PROVE  /\ p \o q \in Seq(S)
         /\ Range(p \o q) = Range(p) \cup Range(q)
         /\ IsInjective(p \o q) <=> /\ IsInjective(p) /\ IsInjective(q)
                                    /\ Range(p) \cap Range(q) = {}
<1> DEFINE r == p \o q
           m == Len(p)
           n == Len(q)
<1>1. /\ r \in Seq(S) /\ m \in Nat /\ n \in Nat
      /\ DOMAIN p = 1 .. m /\ DOMAIN q = 1 .. n /\ DOMAIN r = 1 .. m + n
  OBVIOUS
<1>2. \A i \in 1 .. m : r[i] = p[i]
  OBVIOUS
<1>3. \A i \in 1 .. n : r[m + i] = q[i]
  OBVIOUS
<1> HIDE DEF r, m, n
<1>4. \A i \in 1 .. m : i \in DOMAIN r
  BY <1>1
<1>5. \A i \in 1 .. n : m + i \in DOMAIN r
  BY <1>1
<1>6. \A k \in DOMAIN r : k \in 1 .. m \/ \E i \in 1 .. n : k = m + i
  <2> SUFFICES ASSUME NEW k \in DOMAIN r, k \notin 1 .. m PROVE \E i \in 1 .. n : k = m + i
    OBVIOUS
  <2>1. k - m \in 1 .. n /\ k = m + (k - m)
    BY <1>1
  <2> QED BY <2>1
<1>7. Range(r) = Range(p) \cup Range(q)
  <2>1. ASSUME NEW x \in Range(r) PROVE x \in Range(p) \cup Range(q)
    <3>1. PICK k \in DOMAIN r : x = r[k]
      BY DEF Range
    <3>2. (k \in 1 .. m /\ r[k] = p[k]) \/ \E i \in 1 .. n : r[k] = q[i]
      BY <1>2, <1>3, <1>6
    <3> QED BY <1>1, <3>1, <3>2 DEF Range
  <2>2. ASSUME NEW x \in Range(p) PROVE x \in Range(r)
    BY <1>1, <1>2, <1>4, <2>2 DEF Range
  <2>3. ASSUME NEW x \in Range(q) PROVE x \in Range(r)
    BY <1>1, <1>3, <1>5, <2>3 DEF Range
  <2> QED BY <2>1, <2>2, <2>3
<1>8. ASSUME IsInjective(r)
      PROVE  IsInjective(p) /\ IsInjective(q) /\ Range(p) \cap Range(q) = {}
  <2>1. ASSUME NEW i \in DOMAIN p, NEW k \in DOMAIN p, p[i] = p[k] PROVE i = k
    BY <1>1, <1>2, <1>4, <1>8, <2>1 DEF IsInjective
  <2>2. ASSUME NEW i \in DOMAIN q, NEW k \in DOMAIN q, q[i] = q[k] PROVE i = k
    <3>1. r[m + i] = r[m + k]
      BY <1>1, <1>3, <2>2
    <3>2. m + i = m + k
      BY <1>1, <1>5, <1>8, <3>1 DEF IsInjective
    <3> QED BY <1>1, <3>2
  <2>3. ASSUME NEW i \in DOMAIN p, NEW k \in DOMAIN q, p[i] = q[k] PROVE FALSE
    <3>1. r[i] = r[m + k]
      BY <1>1, <1>2, <1>3, <2>3
    <3>2. i = m + k
      BY <1>1, <1>4, <1>5, <1>8, <3>1 DEF IsInjective
    <3> QED BY <1>1, <3>2
  <2> QED BY <2>1, <2>2, <2>3 DEF IsInjective, Range
<1>9. ASSUME IsInjective(p), IsInjective(q), Range(p) \cap Range(q) = {},
             NEW i \in DOMAIN r, NEW k \in DOMAIN r, r[i] = r[k]
      PROVE  i = k
  <2>1. CASE i \in 1 .. m /\ k \in 1 .. m
    BY <1>1, <1>2, <1>9, <2>1 DEF IsInjective
  <2>2. CASE i \notin 1 .. m /\ k \notin 1 .. m
    <3>1. PICK a \in 1 .. n : i = m + a
      BY <1>6, <2>2
    <3>2. PICK b \in 1 .. n : k = m + b
      BY <1>6, <2>2
    <3>3. q[a] = q[b]
      BY <1>3, <1>9, <3>1, <3>2
    <3> QED BY <1>1, <1>9, <3>1, <3>2, <3>3 DEF IsInjective
  <2>3. ASSUME NEW a \in 1 .. m, NEW b \in 1 .. n, p[a] = q[b] PROVE FALSE
    BY <1>1, <1>9, <2>3 DEF Range
  <2>4. CASE i \in 1 .. m /\ k \notin 1 .. m
    BY <1>2, <1>3, <1>6, <1>9, <2>3, <2>4
  <2>5. CASE i \notin 1 .. m /\ k \in 1 .. m
    BY <1>2, <1>3, <1>6, <1>9, <2>3, <2>5
  <2> QED BY <2>1, <2>2, <2>4, <2>5
<1>10. IsInjective(r) <=> IsInjective(p) /\ IsInjective(q) /\ Range(p) \cap Range(q) = {}
  BY <1>8, <1>9 DEF IsInjective
<1> QED BY <1>1, <1>7, <1>10 DEF r

\* One element, or none.
LEMMA SmallSequences ==
  /\ Range(<<>>) = {} /\ IsInjective(<<>>)
  /\ \A x : Range(<<x>>) = {x} /\ IsInjective(<<x>>)
BY DEF Range, IsInjective

\* The first element and the others.
LEMMA HeadAndTail ==
  ASSUME NEW S, NEW q \in Seq(S), q # <<>>
  PROVE  /\ Head(q) \in S /\ Tail(q) \in Seq(S)
         /\ Range(q) = {Head(q)} \cup Range(Tail(q))
         /\ IsInjective(q) <=> IsInjective(Tail(q)) /\ Head(q) \notin Range(Tail(q))
<1> DEFINE h == Head(q)
           t == Tail(q)
           p == <<h>>
<1>1. h \in S /\ t \in Seq(S) /\ p \in Seq(S) /\ q = p \o t
  OBVIOUS
<1>2. Range(p) = {h} /\ IsInjective(p)
  BY SmallSequences
<1> HIDE DEF h, t, p
<1>3. /\ Range(p \o t) = Range(p) \cup Range(t)
      /\ IsInjective(p \o t) <=> IsInjective(p) /\ IsInjective(t) /\ Range(p) \cap Range(t) = {}
  BY <1>1, ConcatElements
<1>4. /\ Range(q) = {h} \cup Range(t)
      /\ IsInjective(q) <=> IsInjective(t) /\ h \notin Range(t)
  BY <1>1, <1>2, <1>3
<1> QED BY <1>1, <1>4 DEF h, t

\* What is appended.
LEMMA AppendElements ==
  ASSUME NEW S, NEW q \in Seq(S), NEW x \in S
  PROVE  /\ Append(q, x) \in Seq(S)
         /\ Range(Append(q, x)) = Range(q) \cup {x}
         /\ IsInjective(Append(q, x)) <=> IsInjective(q) /\ x \notin Range(q)
<1> DEFINE p == <<x>>
           r == Append(q, x)
<1>1. p \in Seq(S) /\ r \in Seq(S) /\ r = q \o p
  OBVIOUS
<1>2. Range(p) = {x} /\ IsInjective(p)
  BY SmallSequences
<1> HIDE DEF p, r
<1>3. /\ Range(q \o p) = Range(q) \cup Range(p)
      /\ IsInjective(q \o p) <=> IsInjective(q) /\ IsInjective(p) /\ Range(q) \cap Range(p) = {}
  BY <1>1, ConcatElements
<1>4. /\ Range(r) = Range(q) \cup {x}
      /\ IsInjective(r) <=> IsInjective(q) /\ x \notin Range(q)
  BY <1>1, <1>2, <1>3
<1> QED BY <1>1, <1>4 DEF r

\* The elements that are left when the oldest go.
LEMMA SuffixElements ==
  ASSUME NEW S, NEW q \in Seq(S), NEW k \in 0 .. Len(q)
  PROVE  /\ Range(SubSeq(q, k + 1, Len(q))) \subseteq Range(q)
         /\ Range(SubSeq(q, k + 1, Len(q))) = {q[i] : i \in k + 1 .. Len(q)}
         /\ IsInjective(q) => IsInjective(SubSeq(q, k + 1, Len(q)))
<1> DEFINE r == SubSeq(q, k + 1, Len(q))
           n == Len(q)
<1>1. r \in Seq(S) /\ Len(r) = n - k /\ (\A i \in 1 .. n - k : r[i] = q[k + i]) /\ n \in Nat
  BY SuffixProperties
<1>2. DOMAIN q = 1 .. n /\ k \in 0 .. n
  OBVIOUS
<1> HIDE DEF r, n
<1>3. DOMAIN r = 1 .. n - k
  BY <1>1
<1>4. \A i \in 1 .. n - k : k + i \in k + 1 .. n /\ k + i \in 1 .. n
  BY <1>1, <1>2
<1>5. \A i \in k + 1 .. n : i - k \in 1 .. n - k /\ k + (i - k) = i
  BY <1>1, <1>2
<1>6. Range(r) = {q[i] : i \in k + 1 .. n}
  <2>1. ASSUME NEW x \in Range(r) PROVE x \in {q[i] : i \in k + 1 .. n}
    BY <1>1, <1>3, <1>4, <2>1 DEF Range
  <2>2. ASSUME NEW i \in k + 1 .. n PROVE q[i] \in Range(r)
    <3>1. i - k \in DOMAIN r /\ r[i - k] = q[i]
      BY <1>1, <1>3, <1>5
    <3> QED BY <3>1 DEF Range
  <2> QED BY <2>1, <2>2
<1>7. Range(r) \subseteq Range(q)
  BY <1>1, <1>2, <1>3, <1>4 DEF Range
<1>8. ASSUME IsInjective(q), NEW i \in DOMAIN r, NEW j \in DOMAIN r, r[i] = r[j] PROVE i = j
  <2>1. q[k + i] = q[k + j] /\ k + i \in DOMAIN q /\ k + j \in DOMAIN q
    BY <1>1, <1>2, <1>3, <1>4, <1>8
  <2>2. k + i = k + j
    BY <1>8, <2>1 DEF IsInjective
  <2> QED BY <1>2, <1>3, <2>2
<1>9. IsInjective(q) => IsInjective(r)
  BY <1>8 DEF IsInjective
<1> QED BY <1>6, <1>7, <1>9 DEF r, n

\* A finite set of numbers can be put in order.
LEMMA AscendingExists ==
  ASSUME NEW D, IsFiniteSet(D), D \subseteq Nat
  PROVE  \E q \in [1 .. Cardinality(D) -> D] : IsAscending(q)
<1> DEFINE G == {s \in SUBSET D : \E q \in [1 .. Cardinality(s) -> s] : IsAscending(q)}
<1>1. ASSUME NEW s \in SUBSET D, \A x \in s : s \ {x} \in G PROVE s \in G
  <2>1. CASE s = {}
    <3>1. Cardinality(s) = 0
      BY <2>1, FS_EmptySet
    <3>2. <<>> \in [1 .. Cardinality(s) -> s] /\ IsAscending(<<>>)
      BY <3>1 DEF IsAscending
    <3> QED BY <3>2
  <2>2. CASE s # {}
    <3> DEFINE m == Min(s)
               r == s \ {m}
               n == Cardinality(r)
    <3>1. m \in s /\ m \in Nat /\ \A x \in s : m <= x
      BY <2>2, LeastIsIn
    <3>2. r \in G /\ r \subseteq Nat
      BY <1>1, <3>1
    <3>3. Cardinality(s) \in Nat \ {0} /\ n = Cardinality(s) - 1
      BY <3>1, SmallerSubset
    <3> HIDE DEF m, n
    <3>4. PICK q \in [1 .. n -> r] : IsAscending(q)
      BY <3>2 DEF n
    <3> HIDE DEF r
    <3> DEFINE t == [i \in 1 .. Cardinality(s) |-> IF i = 1 THEN m ELSE q[i - 1]]
    <3>5. \A i \in 1 .. Cardinality(s) : i # 1 => i - 1 \in 1 .. n
      BY <3>3
    <3>6. \A x \in r : x \in s /\ x \in Nat /\ m < x
      <4>1. \A x \in r : x \in s /\ x # m
        BY DEF r
      <4> QED BY <3>1, <3>2, <4>1
    <3>7. t \in [1 .. Cardinality(s) -> s]
      BY <3>1, <3>4, <3>5, <3>6
    <3>8. ASSUME NEW i \in 1 .. Cardinality(s), NEW j \in 1 .. Cardinality(s), i < j PROVE t[i] < t[j]
      <4>1. j # 1 /\ j - 1 \in 1 .. n /\ t[j] = q[j - 1]
        BY <3>5, <3>8
      <4>2. CASE i = 1
        BY <3>4, <3>6, <4>1, <4>2
      <4>3. CASE i # 1
        <5>1. i - 1 \in 1 .. n /\ t[i] = q[i - 1] /\ i - 1 < j - 1
          BY <3>5, <3>8, <4>3
        <5> QED BY <3>4, <4>1, <5>1 DEF IsAscending
      <4> QED BY <4>2, <4>3
    <3>9. DOMAIN t = 1 .. Cardinality(s)
      OBVIOUS
    <3> HIDE DEF t
    <3>10. IsAscending(t)
      BY <3>8, <3>9 DEF IsAscending
    <3> QED BY <3>7, <3>10
  <2> QED BY <2>1, <2>2
<1>2. G = SUBSET D
  <2> HIDE DEF G
  <2>1. G \in SUBSET (SUBSET D)
    BY DEF G
  <2> QED BY <1>1, <2>1, SubsetInduction
<1>3. D \in G
  BY <1>2
<1> QED BY <1>3

\* Ascending has all the numbers of the set, each once.
LEMMA AscendingElements ==
  ASSUME NEW D, IsFiniteSet(D), D \subseteq Nat
  PROVE  /\ Ascending(D) \in Seq(D) /\ Range(Ascending(D)) = D /\ IsInjective(Ascending(D))
         /\ Len(Ascending(D)) = Cardinality(D)
<1> DEFINE q == Ascending(D)
           n == Cardinality(D)
<1>1. q \in [1 .. n -> D] /\ IsAscending(q)
  BY AscendingExists, Zenon DEF Ascending
<1>2. n \in Nat
  BY FS_CardinalityType
<1> HIDE DEF q, n
<1>3. ASSUME NEW i \in 1 .. n, NEW j \in 1 .. n, q[i] = q[j] PROVE i = j
  <2>1. ~ (i < j) /\ ~ (j < i)
    <3>1. q[i] \in Nat /\ DOMAIN q = 1 .. n
      BY <1>1
    <3>2. ~ (q[i] < q[i])
      BY <3>1
    <3> QED BY <1>1, <1>3, <3>1, <3>2 DEF IsAscending
  <2> QED BY <1>2, <2>1
<1>4. q \in Injection(1 .. n, D)
  BY <1>1, <1>3 DEF Injection, IsInjective
<1>5. IsFiniteSet(1 .. n) /\ Cardinality(1 .. n) = n
  BY <1>2, FS_Interval
<1>6. q \in Surjection(1 .. n, D)
  BY <1>4, <1>5, FS_Injection DEF n
<1>7. Range(q) = D
  BY <1>1, <1>6 DEF Surjection, Range
<1>8. IsInjective(q)
  BY <1>1, <1>3 DEF IsInjective
<1>9. q \in Seq(D) /\ Len(q) = n
  BY <1>1, <1>2
<1> QED BY <1>7, <1>8, <1>9 DEF q, n


-----------------------------------------------------------------------------
(* Functions defined by recursion over 0 .. n: the step is a function, too.  *)

\* f goes from b through the steps of g.
IsSteps(f, N, b, g) == \A n \in 0 .. N : f[n] = IF n = 0 THEN b ELSE g[n][f[n - 1]]

\* What is defined step by step exists.
LEMMA StepsExist ==
  ASSUME NEW N \in Nat, NEW V, NEW b \in V, NEW g \in [1 .. N -> [V -> V]]
  PROVE  \E f \in [0 .. N -> V] : IsSteps(f, N, b, g)
<1> DEFINE D == 0 .. N
           Step(f, n) == IF n = 0 THEN b ELSE g[n][f[n - 1]]
           G == {n \in Nat : \E f \in [D -> V] : \A m \in D : m <= n => f[m] = Step(f, m)}
<1>1. \A n \in D : n # 0 => n - 1 \in D /\ n \in 1 .. N
  OBVIOUS
<1>2. 0 \in G
  <2> DEFINE f == [n \in D |-> b]
  <2>1. f \in [D -> V] /\ \A m \in D : m <= 0 => f[m] = Step(f, m)
    OBVIOUS
  <2> HIDE DEF f
  <2> QED BY <2>1
<1>3. ASSUME NEW n \in G PROVE n + 1 \in G
  <2>1. PICK f \in [D -> V] : \A m \in D : m <= n => f[m] = Step(f, m)
    OBVIOUS
  <2> DEFINE h == [m \in D |-> Step(f, m)]
  <2>2. h \in [D -> V]
    <3> SUFFICES ASSUME NEW m \in D PROVE Step(f, m) \in V
      OBVIOUS
    <3>1. CASE m = 0
      BY <3>1
    <3>2. CASE m # 0
      <4>1. f[m - 1] \in V /\ g[m] \in [V -> V]
        BY <1>1, <3>2
      <4> QED BY <3>2, <4>1
    <3> QED BY <3>1, <3>2
  <2>3. ASSUME NEW m \in D, m <= n + 1 PROVE h[m] = Step(h, m)
    <3>1. CASE m = 0
      BY <3>1
    <3>2. CASE m # 0
      <4>1. m - 1 \in D /\ m - 1 <= n /\ n \in Nat
        BY <1>1, <2>3, <3>2
      <4>2. h[m - 1] = f[m - 1]
        BY <2>1, <4>1
      <4> QED BY <3>2, <4>2
    <3> QED BY <3>1, <3>2
  <2> HIDE DEF h
  <2>4. n + 1 \in Nat
    OBVIOUS
  <2> QED BY <2>2, <2>3, <2>4
<1>4. G = Nat
  <2> HIDE DEF G
  <2>1. G \in SUBSET Nat
    BY DEF G
  <2> QED BY <1>2, <1>3, <2>1, SetInduction
<1>5. PICK f \in [D -> V] : \A m \in D : m <= N => f[m] = Step(f, m)
  <2>1. N \in G
    BY <1>4
  <2> QED BY <2>1
<1> QED BY <1>5 DEF IsSteps

\* No step leaves V.
StaysIn(f, N, V) == f[0] \in V /\ \A n \in 1 .. N : f[n - 1] \in V => f[n] \in V

LEMMA StepsStay ==
  ASSUME NEW N \in Nat, NEW V, NEW f, StaysIn(f, N, V)
  PROVE  \A n \in 0 .. N : f[n] \in V
<1> DEFINE G == {n \in Nat : n <= N => f[n] \in V}
<1>1. 0 \in G
  BY DEF StaysIn
<1>2. ASSUME NEW n \in G PROVE n + 1 \in G
  <2> SUFFICES ASSUME n + 1 <= N PROVE f[n + 1] \in V
    OBVIOUS
  <2>1. n + 1 \in 1 .. N /\ n + 1 - 1 = n /\ f[n] \in V
    OBVIOUS
  <2> QED BY <2>1 DEF StaysIn
<1>3. G = Nat
  <2> HIDE DEF G
  <2>1. G \in SUBSET Nat
    BY DEF G
  <2> QED BY <1>1, <1>2, <2>1, SetInduction
<1> QED BY <1>3

-----------------------------------------------------------------------------
\* A sequence, of whatever it is.
IsSeq(q) == \E S : q \in Seq(S)

LEMMA AppendIsSeq ==
  ASSUME NEW q, IsSeq(q), NEW e
  PROVE  /\ IsSeq(Append(q, e)) /\ Len(q) \in Nat /\ Len(Append(q, e)) = Len(q) + 1
         /\ \A k \in 1 .. Len(q) : Append(q, e)[k] = q[k]
         /\ Append(q, e)[Len(q) + 1] = e
<1>1. PICK S : q \in Seq(S)
  BY DEF IsSeq
<1> DEFINE T == S \cup {e}
<1>2. q \in Seq(T)
  BY <1>1
<1>3. e \in T
  OBVIOUS
<1> HIDE DEF T
<1>4. /\ Append(q, e) \in Seq(T) /\ Len(q) \in Nat /\ Len(Append(q, e)) = Len(q) + 1
      /\ \A k \in 1 .. Len(q) : Append(q, e)[k] = q[k]
      /\ Append(q, e)[Len(q) + 1] = e
  BY <1>2, <1>3
<1> QED BY <1>4 DEF IsSeq
=============================================================================
