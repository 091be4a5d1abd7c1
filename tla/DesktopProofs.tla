----------------------------- MODULE DesktopProofs ----------------------------
(***************************************************************************)
(* Proofs about parts of the desktop application, for every value of their *)
(* constants.                                                              *)
(*                                                                         *)
(* Translator: what the translator retains and what is under way between   *)
(* the threads agree, and a turn never gets a translation that is not its  *)
(* own (TurnHistory).  Request numbers rise along the line of requests from*)
(* the channel over the worker to the queue, so that a number stands for   *)
(* one request; the numbers the user interface waits for are in that line  *)
(* with their keys and the current generation; and turns and numbers       *)
(* correspond.                                                             *)
(*                                                                         *)
(* Canvas: the operations a canvas keeps show what was drawn.  An operation*)
(* leaves the points outside its clip alone and, if it is opaque, hides all*)
(* that is under it within; so what is dropped, cropped or put together is *)
(* not missed (CanvasIsFaithful).                                          *)
(*                                                                         *)
(* Desktop: a request that waits is what the canvas lacks, in its place.  A*)
(* picture that is decoded has a number that nothing else on its way has,  *)
(* and all that is kept is of the story that runs; so an answer is that of *)
(* the picture that is waited for, and handling a request adds what the    *)
(* request means (FramesStayTrue).  At most one story is asked for and not *)
(* installed, the newest (NewestIsInstalled).                              *)
(***************************************************************************)
EXTENDS Translator, Canvas, Desktop, CollectionLemmas

Entry == [key : Keys, text : Keys]
Result == [id : Nat, text : Keys \cup {NoText}]

\* What the keys cost while they wait, and in the cache.
KeyCosts == [k \in Keys |-> PendingBytes(k)]
EntryCosts == [k \in Keys |-> EntryBytes(k)]

-----------------------------------------------------------------------------
(* The inductive invariant *)

Rising(s) == \A i, j \in DOMAIN s : i < j => s[i].id < s[j].id
Before(s, t) == \A i \in DOMAIN s, j \in DOMAIN t : s[i].id < t[j].id

UnderWay == ToSet(channel) \cup ToSet(job) \cup ToSet(queue)

\* The requests under way, each under a number of its own.
Lined ==
  /\ channel \in Seq(Request) /\ Len(channel) <= ChannelCap
  /\ job \in Seq(Request)
  /\ worker \in {"idle", "taken", "calling", "answered", "sending", "stopped"}
  /\ Len(job) = IF worker \in {"idle", "stopped"} THEN 0 ELSE 1
  /\ queue \in Seq(Request) /\ Len(queue) <= QueueCap
  /\ Rising(channel) /\ Rising(queue)
  /\ Before(channel, job) /\ Before(channel, queue) /\ Before(job, queue)
  /\ next_id \in 1 .. MaxIds + 1
  /\ \A r \in UnderWay : r.id < next_id /\ r.text \in {r.key, NoText}

\* The generations, and what the user interface waits for.
Awaits(id) == \E r \in UnderWay : r.id = id /\ r.key = pending[id] /\ IsCurrent(r)

Awaited ==
  /\ closed \in BOOLEAN
  /\ ui \in {"free", "polling", "closing", "gone"}
  /\ generation \in 0 .. MaxGeneration + 1
  /\ ui \in {"free", "polling"} => generation <= MaxGeneration
  /\ ui = "gone" => DOMAIN pending = {}
  /\ ui # "closing" => \A id \in DOMAIN pending : Awaits(id)

\* The turns that wait for one translation, by their numbers.
Subscribed(k) == ToSet(in_flight[k])

\* Each number once; the first is the one the request has.
Waits(k) ==
  /\ in_flight[k] \in Seq(Nat) /\ in_flight[k] # <<>>
  /\ \A i, j \in DOMAIN in_flight[k] : in_flight[k][i] = in_flight[k][j] => i = j
  /\ \A id \in Subscribed(k) : id < next_id
  /\ in_flight[k][1] \in DOMAIN pending /\ pending[in_flight[k][1]] = k

Flight ==
  /\ IsFiniteSet(DOMAIN in_flight) /\ DOMAIN in_flight \subseteq Keys
  /\ \A k \in DOMAIN in_flight : Waits(k)
  /\ \A k, l \in DOMAIN in_flight : k # l => Subscribed(k) \cap Subscribed(l) = {}
  /\ \A id \in DOMAIN pending : pending[id] \in DOMAIN in_flight /\ in_flight[pending[id]][1] = id
  /\ IsFiniteSet(Subscribers)
  /\ pending_turns = Cardinality(Subscribers) /\ pending_turns <= MaxPendingTurns
  /\ pending_bytes = SumOf(KeyCosts, DOMAIN in_flight) /\ pending_bytes <= MaxPendingBytes

\* The turns and the numbers they wait under.
Told ==
  /\ turns \in Seq(Turn) /\ Len(turns) <= MaxTurns
  /\ ready \in Seq(Result) /\ (ui # "polling" => ready = <<>>)
  /\ DOMAIN pending_translations = Subscribers \cup ReadyIds
  /\ Subscribers \cap ReadyIds = {}
  /\ \A id \in DOMAIN pending_translations :
       /\ id \in Nat /\ id < next_id
       /\ pending_translations[id] \in DOMAIN turns
       /\ turns[pending_translations[id]].status = "pending"
  /\ \A a, b \in DOMAIN pending_translations :
       pending_translations[a] = pending_translations[b] => a = b
  /\ \A i \in DOMAIN turns : turns[i].status = "pending" =>
       \E id \in DOMAIN pending_translations : pending_translations[id] = i
  /\ \A k \in DOMAIN in_flight : \A id \in Subscribed(k) : turns[pending_translations[id]].key = k
  /\ \A r \in ToSet(ready) : r.text \in {turns[pending_translations[r.id]].key, NoText}

\* A cache of distinct keys, each with its own translation.
Distinct(c) ==
  /\ c \in Seq(Entry)
  /\ \A i \in DOMAIN c : c[i].text = c[i].key
  /\ \A i, j \in DOMAIN c : c[i].key = c[j].key => i = j
Cached(c) == Distinct(c) /\ Len(c) <= MaxCacheEntries /\ CacheBytes(c) <= MaxCacheBytes

IInv == Lined /\ Awaited /\ Flight /\ Told /\ Cached(cache)

-----------------------------------------------------------------------------
(* Sums: the counters of the translator and of its cache, as SumOf *)

LEMMA CostTypes ==
  /\ KeyCosts \in [Keys -> Nat] /\ EntryCosts \in [Keys -> Nat]
  /\ \A k \in Keys : /\ KeyCosts[k] = PendingBytes(k) /\ PendingBytes(k) \in Nat
                     /\ EntryCosts[k] = EntryBytes(k) /\ EntryBytes(k) \in Nat
<1>1. ASSUME NEW k \in Keys PROVE PendingBytes(k) \in Nat /\ EntryBytes(k) \in Nat
  <2>1. Bytes[k] \in Nat /\ TextBytes \in Nat
    BY TranslatorAssumption
  <2> QED BY <2>1 DEF PendingBytes, EntryBytes
<1> QED BY <1>1 DEF KeyCosts, EntryCosts

LEMMA CacheBytesIsSum ==
  ASSUME NEW c, KeysOf(c) \subseteq Keys, IsFiniteSet(KeysOf(c))
  PROVE  CacheBytes(c) = SumOf(EntryCosts, KeysOf(c))
<1> DEFINE D == KeysOf(c)
           IsCost(f) == f = [s \in SUBSET D |-> IF s = {} THEN 0 ELSE EntryBytes(Pick(s)) + f[s \ {Pick(s)}]]
           iter == CHOOSE f : IsCost(f)
<1>1. CacheBytes(c) = iter[D]
  BY Zenon DEF CacheBytes, MapThenSumSet, MapThenFoldSet, Pick
<1> HIDE DEF D
<1>2. IsFiniteSet(D) /\ \A x \in D : x \in Keys /\ EntryCosts[x] \in Int
  BY CostTypes DEF D
<1>3. PICK h : IsSum(EntryCosts, D, h)
  BY <1>2, SumDefined
<1>4. ASSUME NEW f PROVE IsCost(f) <=> IsSum(EntryCosts, D, f)
  <2>1. \A s \in SUBSET D : s # {} => EntryCosts[Pick(s)] = EntryBytes(Pick(s))
    BY <1>2, CostTypes DEF Pick
  <2> QED BY <2>1 DEF IsSum
<1>5. IsSum(EntryCosts, D, iter)
  BY <1>3, <1>4
<1>6. SumOf(EntryCosts, D) = iter[D]
  BY <1>2, <1>5, SumSame
<1> QED BY <1>1, <1>6 DEF D

-----------------------------------------------------------------------------
(* The cache *)

LEMMA KeysOfFinite ==
  ASSUME NEW c \in Seq(Entry)
  PROVE  /\ KeysOf(c) \subseteq Keys /\ IsFiniteSet(KeysOf(c))
         /\ CacheBytes(c) = SumOf(EntryCosts, KeysOf(c)) /\ CacheBytes(c) \in Nat
<1>1. \A i \in DOMAIN c : c[i] \in Entry
  OBVIOUS
<1>2. KeysOf(c) \subseteq Keys
  BY <1>1 DEF KeysOf, Entry
<1>3. IsFiniteSet(KeysOf(c))
  <2> DEFINE f == [i \in 1 .. Len(c) |-> c[i].key]
  <2>1. IsFiniteSet(1 .. Len(c)) /\ DOMAIN c = 1 .. Len(c)
    BY FS_Interval
  <2>2. f \in Surjection(1 .. Len(c), KeysOf(c))
    BY <2>1 DEF Surjection, KeysOf
  <2> HIDE DEF f
  <2> QED BY <2>1, <2>2, FS_Surjection
<1>4. CacheBytes(c) = SumOf(EntryCosts, KeysOf(c))
  BY <1>2, <1>3, CacheBytesIsSum
<1>5. \A x \in KeysOf(c) : EntryCosts[x] \in Nat
  BY <1>2, CostTypes
<1>6. SumOf(EntryCosts, KeysOf(c)) \in Nat
  BY <1>3, <1>5, SumMonotone
<1> QED BY <1>2, <1>3, <1>4, <1>6

\* There are as many entries as keys.
LEMMA DistinctLength ==
  ASSUME NEW c, Distinct(c)
  PROVE  Len(c) = Cardinality(KeysOf(c))
<1> DEFINE f == [i \in 1 .. Len(c) |-> c[i].key]
<1>1. IsFiniteSet(1 .. Len(c)) /\ DOMAIN c = 1 .. Len(c) /\ Cardinality(1 .. Len(c)) = Len(c)
  <2>1. c \in Seq(Entry)
    BY DEF Distinct
  <2>2. DOMAIN c = 1 .. Len(c) /\ Len(c) \in Nat
    BY <2>1
  <2>3. IsFiniteSet(1 .. Len(c)) /\ Cardinality(1 .. Len(c)) = IF 1 > Len(c) THEN 0 ELSE Len(c) - 1 + 1
    BY <2>2, FS_Interval
  <2> QED BY <2>2, <2>3
<1>2. f \in Surjection(1 .. Len(c), KeysOf(c))
  BY <1>1 DEF Surjection, KeysOf
<1>3. f \in Injection(1 .. Len(c), KeysOf(c))
  <2>1. \A i, j \in 1 .. Len(c) : f[i] = f[j] => i = j
    BY <1>1 DEF Distinct
  <2>2. f \in [1 .. Len(c) -> KeysOf(c)]
    BY <1>2 DEF Surjection
  <2> HIDE DEF f
  <2> QED BY <2>1, <2>2 DEF Injection, IsInjective
<1> HIDE DEF f
<1> QED BY <1>1, <1>2, <1>3, FS_Surjection

LEMMA AppendDistinct ==
  ASSUME NEW c, Distinct(c), NEW k \in Keys, k \notin KeysOf(c)
  PROVE  LET d == Append(c, [key |-> k, text |-> k]) IN
         /\ Distinct(d) /\ KeysOf(d) = KeysOf(c) \cup {k} /\ Len(d) = Len(c) + 1
         /\ CacheBytes(d) = CacheBytes(c) + EntryBytes(k)
<1> DEFINE e == [key |-> k, text |-> k]
           d == Append(c, e)
<1>1. /\ c \in Seq(Entry) /\ e \in Entry /\ e.key = k /\ e.text = k
      /\ DOMAIN c = 1 .. Len(c) /\ Len(c) \in Nat
  BY DEF Distinct, Entry
<1> HIDE DEF e
<1>2. /\ d \in Seq(Entry) /\ Len(d) = Len(c) + 1 /\ DOMAIN d = 1 .. Len(c) + 1
      /\ \A i \in 1 .. Len(c) : d[i] = c[i] /\ d[Len(c) + 1] = e
      /\ d[Len(c) + 1] = e
  BY <1>1
<1> HIDE DEF d
<1>3. \A i \in DOMAIN d : i \in DOMAIN c \/ i = Len(c) + 1
  BY <1>1, <1>2
<1>4. DOMAIN c \subseteq DOMAIN d /\ Len(c) + 1 \in DOMAIN d
  BY <1>1, <1>2
<1>5. \A i \in DOMAIN c : c[i].key # k
  BY DEF KeysOf
<1>6. Distinct(d)
  BY <1>1, <1>2, <1>3, <1>5 DEF Distinct
<1>7. KeysOf(d) = KeysOf(c) \cup {k}
  BY <1>1, <1>2, <1>3, <1>4 DEF KeysOf
<1>8. CacheBytes(d) = CacheBytes(c) + EntryBytes(k)
  <2>1. /\ CacheBytes(d) = SumOf(EntryCosts, KeysOf(d)) /\ CacheBytes(c) = SumOf(EntryCosts, KeysOf(c))
        /\ IsFiniteSet(KeysOf(d)) /\ KeysOf(d) \subseteq Keys /\ CacheBytes(c) \in Nat
    BY <1>1, <1>2, KeysOfFinite
  <2>2. k \in KeysOf(d) /\ KeysOf(d) \ {k} = KeysOf(c)
    BY <1>7
  <2>3. \A x \in KeysOf(d) : EntryCosts[x] \in Int
    BY <2>1, CostTypes
  <2>4. SumOf(EntryCosts, KeysOf(d)) = EntryCosts[k] + SumOf(EntryCosts, KeysOf(d) \ {k})
    BY <2>1, <2>2, <2>3, SumRemove
  <2>5. EntryCosts[k] = EntryBytes(k) /\ EntryBytes(k) \in Nat
    BY CostTypes
  <2>6. CacheBytes(d) = EntryCosts[k] + CacheBytes(c)
    BY <2>1, <2>2, <2>4
  <2> QED BY <2>1, <2>5, <2>6
<1> QED BY <1>2, <1>6, <1>7, <1>8 DEF d, e

\* What is left of a cache is a cache.
LEMMA PartDistinct ==
  ASSUME NEW c, Distinct(c), NEW d \in Seq(Entry), NEW h, IsPart(d, c, h)
  PROVE  Distinct(d) /\ KeysOf(d) \subseteq KeysOf(c)
<1>1. DOMAIN d = 1 .. Len(d) /\ DOMAIN c = 1 .. Len(c) /\ Len(d) \in Nat /\ Len(c) \in Nat
  BY DEF Distinct
<1>2. /\ \A i \in DOMAIN d : h[i] \in DOMAIN c /\ d[i] = c[h[i]]
      /\ \A i, j \in DOMAIN d : i < j => h[i] < h[j]
  BY <1>1 DEF IsPart
<1>3. \A i, j \in DOMAIN d : h[i] = h[j] => i = j
  <2> SUFFICES ASSUME NEW i \in DOMAIN d, NEW j \in DOMAIN d, h[i] = h[j] PROVE i = j
    OBVIOUS
  <2>1. h[i] \in Nat /\ h[j] \in Nat /\ i \in Nat /\ j \in Nat
    BY <1>1, <1>2
  <2> QED BY <1>2, <2>1
<1>4. Distinct(d)
  BY <1>2, <1>3 DEF Distinct
<1> QED BY <1>2, <1>4 DEF KeysOf

LEMMA OthersFacts ==
  ASSUME Distinct(cache), NEW k
  PROVE  Distinct(Others(k)) /\ KeysOf(Others(k)) = KeysOf(cache) \ {k}
<1> DEFINE kept == {i \in DOMAIN cache : cache[i].key # k}
           d == Others(k)
<1>1. cache \in Seq(Entry) /\ DOMAIN cache = 1 .. Len(cache)
  BY DEF Distinct
<1>2. d \in Seq(Entry) /\ IsRest(d, cache, kept)
  BY <1>1, RetainProperties DEF Others
<1> HIDE DEF d
<1>3. PICK h : /\ IsPart(d, cache, h)
               /\ \A j \in 1 .. Len(cache) : j \in kept <=> \E i \in 1 .. Len(d) : h[i] = j
  BY <1>2 DEF IsRest
<1>4. Distinct(d) /\ KeysOf(d) \subseteq KeysOf(cache)
  BY <1>2, <1>3, PartDistinct
<1>5. DOMAIN d = 1 .. Len(d) /\ \A i \in DOMAIN d : h[i] \in DOMAIN cache /\ d[i] = cache[h[i]]
  BY <1>1, <1>2, <1>3 DEF IsPart
<1>6. \A i \in DOMAIN d : d[i].key # k
  BY <1>1, <1>3, <1>5
<1>7. \A j \in DOMAIN cache : cache[j].key # k => \E i \in DOMAIN d : d[i].key = cache[j].key
  <2> SUFFICES ASSUME NEW j \in DOMAIN cache, cache[j].key # k
               PROVE  \E i \in DOMAIN d : d[i].key = cache[j].key
    OBVIOUS
  <2>1. PICK i \in DOMAIN d : h[i] = j
    BY <1>1, <1>3, <1>5
  <2> QED BY <1>5, <2>1
<1>8. KeysOf(d) = KeysOf(cache) \ {k}
  BY <1>4, <1>6, <1>7 DEF KeysOf
<1> QED BY <1>4, <1>8 DEF d

LEMMA CachedTextFacts ==
  ASSUME Distinct(cache), NEW k \in CachedKeys
  PROVE  CachedText(k) = k
<1> DEFINE E == {cache[i] : i \in DOMAIN cache}
<1>1. \E e \in E : e.key = k
  BY DEF CachedKeys, KeysOf
<1>2. \A e \in E : e.text = e.key
  BY DEF Distinct
<1> HIDE DEF E
<1>3. (CHOOSE e \in E : e.key = k).text = k
  BY <1>1, <1>2
<1> QED BY <1>3 DEF CachedText, E

LEMMA TouchedCached ==
  ASSUME Cached(cache), NEW k \in CachedKeys
  PROVE  Cached(Touched(k))
<1> DEFINE c == Others(k)
           d == Append(c, [key |-> k, text |-> k])
<1>1. cache \in Seq(Entry) /\ Distinct(cache) /\ k \in KeysOf(cache)
  BY DEF Cached, Distinct, CachedKeys
<1>2. k \in Keys /\ KeysOf(cache) \subseteq Keys /\ IsFiniteSet(KeysOf(cache))
  BY <1>1, KeysOfFinite
<1>3. Distinct(c) /\ KeysOf(c) = KeysOf(cache) \ {k}
  BY <1>1, OthersFacts
<1>4. Touched(k) = d
  BY <1>1, CachedTextFacts DEF Touched
<1> HIDE DEF c
<1>5. Distinct(d) /\ KeysOf(d) = KeysOf(c) \cup {k}
  BY <1>2, <1>3, AppendDistinct
<1> HIDE DEF d
<1>6. KeysOf(d) = KeysOf(cache)
  BY <1>1, <1>3, <1>5
<1>7. Len(d) = Len(cache)
  BY <1>1, <1>5, <1>6, DistinctLength
<1>8. CacheBytes(d) = CacheBytes(cache)
  BY <1>1, <1>5, <1>6, KeysOfFinite DEF Distinct
<1> QED BY <1>4, <1>5, <1>7, <1>8 DEF Cached

LEMMA InsertedCached ==
  ASSUME Cached(cache), NEW k \in Keys
  PROVE  Cached(Inserted(k, k))
<1> DEFINE rest == Others(k)
           after(n) == SubSeq(rest, n + 1, Len(rest))
           fits(n) == Len(after(n)) < MaxCacheEntries /\ CacheBytes(after(n)) + EntryBytes(k) <= MaxCacheBytes
           D == {n \in 0 .. Len(rest) : fits(n) \/ n = Len(rest)}
           dropped == Min(D)
           kept == after(dropped)
<1>1. Distinct(rest) /\ k \notin KeysOf(rest)
  BY OthersFacts DEF Cached
<1>2. CASE EntryBytes(k) > MaxCacheBytes
  BY <1>2 DEF Inserted
<1>3. CASE ~ (EntryBytes(k) > MaxCacheBytes)
  <2>1. Inserted(k, k) = Append(kept, [key |-> k, text |-> k])
    BY <1>3 DEF Inserted
  <2> HIDE DEF rest
  <2>2. rest \in Seq(Entry) /\ Len(rest) \in Nat
    BY <1>1 DEF Distinct
  <2>3. D # {} /\ D \subseteq Nat
    BY <2>2
  <2> HIDE DEF D, fits
  <2>4. dropped \in D
    BY <2>3, LeastIsIn
  <2>5. dropped \in 0 .. Len(rest) /\ (fits(dropped) \/ dropped = Len(rest))
    BY <2>4 DEF D
  <2> HIDE DEF dropped
  <2>6. /\ kept \in Seq(Entry) /\ Len(kept) = Len(rest) - dropped
        /\ \A i \in 1 .. Len(rest) - dropped : kept[i] = rest[dropped + i]
    BY <2>2, <2>5, SuffixProperties
  <2> DEFINE h == [i \in 1 .. Len(kept) |-> dropped + i]
  <2>7. IsPart(kept, rest, h)
    BY <2>2, <2>5, <2>6 DEF IsPart
  <2> HIDE DEF h
  <2>8. Distinct(kept) /\ k \notin KeysOf(kept)
    BY <1>1, <2>6, <2>7, PartDistinct
  <2>9. fits(dropped)
    <3>1. CASE dropped = Len(rest)
      <4>1. Len(kept) = 0 /\ DOMAIN kept = {}
        BY <2>2, <2>6, <3>1
      <4>2. KeysOf(kept) = {}
        BY <4>1 DEF KeysOf
      <4>3. CacheBytes(kept) = 0
        BY <2>6, <4>2, KeysOfFinite, SumEmpty
      <4>4. EntryBytes(k) \in Nat
        BY CostTypes
      <4>5. MaxCacheBytes \in Nat /\ MaxCacheEntries \in Nat \ {0}
        BY TranslatorAssumption
      <4>6. 0 < MaxCacheEntries /\ 0 + EntryBytes(k) <= MaxCacheBytes
        BY <1>3, <4>4, <4>5
      <4> QED BY <4>1, <4>3, <4>6 DEF fits
    <3> QED BY <2>5, <3>1
  <2>10. /\ Distinct(Append(kept, [key |-> k, text |-> k]))
         /\ Len(Append(kept, [key |-> k, text |-> k])) = Len(kept) + 1
         /\ CacheBytes(Append(kept, [key |-> k, text |-> k])) = CacheBytes(kept) + EntryBytes(k)
    <3> HIDE DEF kept
    <3> QED BY <2>8, AppendDistinct
  <2>11. Len(kept) + 1 <= MaxCacheEntries
    BY <2>2, <2>5, <2>6, <2>9, TranslatorAssumption DEF fits
  <2> QED BY <2>1, <2>9, <2>10, <2>11 DEF Cached, fits
<1> QED BY <1>2, <1>3

-----------------------------------------------------------------------------
(* The line of requests *)

LEMMA TailLine ==
  ASSUME NEW S, NEW s \in Seq(S), s # <<>>
  PROVE  /\ Tail(s) \in Seq(S) /\ Len(Tail(s)) = Len(s) - 1 /\ Len(s) > 0 /\ Len(s) \in Nat
         /\ Head(s) = s[1] /\ 1 \in DOMAIN s /\ Head(s) \in S
         /\ \A i \in DOMAIN Tail(s) : i \in Nat /\ i > 0 /\ i + 1 \in DOMAIN s /\ Tail(s)[i] = s[i + 1]
         /\ \A j \in DOMAIN s : j = 1 \/ (j - 1 \in DOMAIN Tail(s) /\ s[j] = Tail(s)[j - 1])
         /\ ToSet(s) = {Head(s)} \cup ToSet(Tail(s))
<1>1. /\ Tail(s) \in Seq(S) /\ Len(Tail(s)) = Len(s) - 1 /\ Len(s) > 0 /\ Len(s) \in Nat
      /\ Head(s) = s[1] /\ DOMAIN s = 1 .. Len(s) /\ DOMAIN Tail(s) = 1 .. Len(s) - 1
      /\ \A i \in 1 .. Len(s) - 1 : Tail(s)[i] = s[i + 1]
  OBVIOUS
<1>2. 1 \in DOMAIN s /\ Head(s) \in S
  BY <1>1
<1>3. \A i \in DOMAIN Tail(s) : i \in Nat /\ i > 0 /\ i + 1 \in DOMAIN s /\ Tail(s)[i] = s[i + 1]
  BY <1>1
<1>4. \A j \in DOMAIN s : j = 1 \/ (j - 1 \in DOMAIN Tail(s) /\ s[j] = Tail(s)[j - 1])
  <2> SUFFICES ASSUME NEW j \in DOMAIN s, j # 1
               PROVE  j - 1 \in DOMAIN Tail(s) /\ s[j] = Tail(s)[j - 1]
    OBVIOUS
  <2>1. j - 1 \in 1 .. Len(s) - 1 /\ (j - 1) + 1 = j
    BY <1>1
  <2> QED BY <1>1, <2>1
<1>5. ToSet(s) = {Head(s)} \cup ToSet(Tail(s))
  <2> DEFINE t == Tail(s)
             e == Head(s)
  <2>1. s[1] = e
    BY <1>1
  <2> HIDE DEF t, e
  <2>2. \A i \in DOMAIN t : i + 1 \in DOMAIN s /\ t[i] = s[i + 1]
    BY <1>3 DEF t
  <2>3. \A j \in DOMAIN s : j = 1 \/ (j - 1 \in DOMAIN t /\ s[j] = t[j - 1])
    BY <1>4 DEF t
  <2>4. ToSet(s) \subseteq {e} \cup ToSet(t)
    BY <2>1, <2>3 DEF ToSet
  <2>5. {e} \cup ToSet(t) \subseteq ToSet(s)
    BY <1>2, <2>1, <2>2 DEF ToSet
  <2> QED BY <2>4, <2>5 DEF t, e
<1> QED BY <1>1, <1>2, <1>3, <1>4, <1>5

LEMMA AppendLine ==
  ASSUME NEW S, NEW s \in Seq(S), NEW e \in S
  PROVE  /\ Append(s, e) \in Seq(S) /\ Len(Append(s, e)) = Len(s) + 1 /\ Len(s) \in Nat
         /\ \A i \in DOMAIN s : i \in DOMAIN Append(s, e) /\ Append(s, e)[i] = s[i]
         /\ \A i \in DOMAIN Append(s, e) : i \in DOMAIN s \/ i = Len(s) + 1
         /\ Append(s, e)[Len(s) + 1] = e /\ Len(s) + 1 \in DOMAIN Append(s, e)
         /\ ToSet(Append(s, e)) = ToSet(s) \cup {e}
<1>1. /\ Append(s, e) \in Seq(S) /\ Len(Append(s, e)) = Len(s) + 1 /\ Len(s) \in Nat
      /\ DOMAIN s = 1 .. Len(s) /\ DOMAIN Append(s, e) = 1 .. Len(s) + 1
      /\ \A i \in 1 .. Len(s) : Append(s, e)[i] = s[i]
      /\ Append(s, e)[Len(s) + 1] = e
  OBVIOUS
<1>2. /\ \A i \in DOMAIN s : i \in DOMAIN Append(s, e) /\ Append(s, e)[i] = s[i]
      /\ \A i \in DOMAIN Append(s, e) : i \in DOMAIN s \/ i = Len(s) + 1
      /\ Len(s) + 1 \in DOMAIN Append(s, e)
  BY <1>1
<1>3. ToSet(Append(s, e)) = ToSet(s) \cup {e}
  BY <1>1, <1>2 DEF ToSet
<1> QED BY <1>1, <1>2, <1>3

LEMMA ConcatLine ==
  ASSUME NEW S, NEW s \in Seq(S), NEW t \in Seq(S)
  PROVE  /\ s \o t \in Seq(S) /\ ToSet(s \o t) = ToSet(s) \cup ToSet(t)
         /\ \A i \in DOMAIN (s \o t) : \/ i \in DOMAIN s /\ (s \o t)[i] = s[i]
                                       \/ i - Len(s) \in DOMAIN t /\ (s \o t)[i] = t[i - Len(s)] /\ i > Len(s)
<1> DEFINE c == s \o t
<1>1. /\ c \in Seq(S) /\ Len(s) \in Nat /\ Len(t) \in Nat
      /\ DOMAIN s = 1 .. Len(s) /\ DOMAIN t = 1 .. Len(t) /\ DOMAIN c = 1 .. Len(s) + Len(t)
      /\ \A i \in 1 .. Len(s) : c[i] = s[i]
      /\ \A i \in 1 .. Len(t) : c[Len(s) + i] = t[i]
  OBVIOUS
<1> HIDE DEF c
<1>2. \A i \in DOMAIN c : \/ i \in DOMAIN s /\ c[i] = s[i]
                          \/ i - Len(s) \in DOMAIN t /\ c[i] = t[i - Len(s)] /\ i > Len(s)
  <2> SUFFICES ASSUME NEW i \in DOMAIN c, i \notin DOMAIN s
               PROVE  i - Len(s) \in DOMAIN t /\ c[i] = t[i - Len(s)] /\ i > Len(s)
    BY <1>1
  <2>1. i - Len(s) \in 1 .. Len(t) /\ Len(s) + (i - Len(s)) = i /\ i > Len(s)
    BY <1>1
  <2> QED BY <1>1, <2>1
<1>3. ToSet(c) \subseteq ToSet(s) \cup ToSet(t)
  BY <1>2 DEF ToSet
<1>4. \A i \in DOMAIN t : Len(s) + i \in DOMAIN c /\ c[Len(s) + i] = t[i]
  BY <1>1
<1>5. \A i \in DOMAIN s : i \in DOMAIN c /\ c[i] = s[i]
  BY <1>1
<1>6. ToSet(s) \cup ToSet(t) \subseteq ToSet(c)
  BY <1>4, <1>5 DEF ToSet
<1>7. ToSet(c) = ToSet(s) \cup ToSet(t)
  BY <1>3, <1>6
<1> QED BY <1>1, <1>2, <1>7 DEF c

LEMMA RisingTail ==
  ASSUME NEW s \in Seq(Request), s # <<>>, Rising(s)
  PROVE  /\ Rising(Tail(s)) /\ Before(<<Head(s)>>, Tail(s))
         /\ \A t : Before(s, t) => Before(Tail(s), t) /\ Before(<<Head(s)>>, t)
         /\ \A t : Before(t, s) => Before(t, Tail(s)) /\ Before(t, <<Head(s)>>)
<1>1. /\ Head(s) = s[1] /\ 1 \in DOMAIN s
      /\ \A i \in DOMAIN Tail(s) : i \in Nat /\ i > 0 /\ i + 1 \in DOMAIN s /\ Tail(s)[i] = s[i + 1]
  BY TailLine
<1>2. DOMAIN <<Head(s)>> = {1} /\ <<Head(s)>>[1] = Head(s)
  OBVIOUS
<1>3. Rising(Tail(s))
  BY <1>1 DEF Rising
<1>4. Before(<<Head(s)>>, Tail(s))
  BY <1>1, <1>2 DEF Rising, Before
<1>5. ASSUME NEW t, Before(s, t) PROVE Before(Tail(s), t) /\ Before(<<Head(s)>>, t)
  BY <1>1, <1>2, <1>5 DEF Before
<1>6. ASSUME NEW t, Before(t, s) PROVE Before(t, Tail(s)) /\ Before(t, <<Head(s)>>)
  BY <1>1, <1>2, <1>6 DEF Before
<1> QED BY <1>3, <1>4, <1>5, <1>6

\* A request with a number above all of a line takes its place at the end.
LEMMA RisingAppend ==
  ASSUME NEW s \in Seq(Request), NEW e \in Request, Rising(s), Before(s, <<e>>)
  PROVE  /\ Rising(Append(s, e))
         /\ \A t : Before(t, s) /\ Before(t, <<e>>) => Before(t, Append(s, e))
         /\ \A t : Before(s, t) /\ Before(<<e>>, t) => Before(Append(s, e), t)
<1> DEFINE a == Append(s, e)
<1>1. /\ \A i \in DOMAIN s : i \in DOMAIN a /\ a[i] = s[i]
      /\ \A i \in DOMAIN a : i \in DOMAIN s \/ i = Len(s) + 1
      /\ a[Len(s) + 1] = e /\ Len(s) + 1 \in DOMAIN a
      /\ DOMAIN s = 1 .. Len(s) /\ Len(s) \in Nat
  BY AppendLine
<1>2. DOMAIN <<e>> = {1} /\ <<e>>[1] = e
  OBVIOUS
<1> HIDE DEF a
<1>3. Rising(a)
  <2> SUFFICES ASSUME NEW i \in DOMAIN a, NEW j \in DOMAIN a, i < j PROVE a[i].id < a[j].id
    BY DEF Rising
  <2>1. i \in DOMAIN s
    BY <1>1
  <2>2. CASE j \in DOMAIN s
    BY <1>1, <2>1, <2>2 DEF Rising
  <2>3. CASE j = Len(s) + 1
    BY <1>1, <1>2, <2>1, <2>3 DEF Before
  <2> QED BY <1>1, <2>2, <2>3
<1>4. ASSUME NEW t, Before(t, s), Before(t, <<e>>) PROVE Before(t, a)
  BY <1>1, <1>2, <1>4 DEF Before
<1>5. ASSUME NEW t, Before(s, t), Before(<<e>>, t) PROVE Before(a, t)
  BY <1>1, <1>2, <1>5 DEF Before
<1> QED BY <1>3, <1>4, <1>5 DEF a

\* An empty part of the line is before and after everything.
LEMMA EmptyLine ==
  /\ <<>> \in Seq(Request) /\ Len(<<>>) = 0 /\ Rising(<<>>) /\ ToSet(<<>>) = {}
  /\ \A t : Before(<<>>, t) /\ Before(t, <<>>)
<1>1. DOMAIN <<>> = {}
  OBVIOUS
<1>2. <<>> \in Seq(Request) /\ Len(<<>>) = 0
  OBVIOUS
<1> QED BY <1>1, <1>2 DEF Rising, Before, ToSet

\* A part of the line with one request.
LEMMA SingleLine ==
  ASSUME NEW e \in Request
  PROVE  <<e>> \in Seq(Request) /\ Len(<<e>>) = 1 /\ Rising(<<e>>) /\ ToSet(<<e>>) = {e}
<1>1. DOMAIN <<e>> = {1} /\ <<e>>[1] = e
  OBVIOUS
<1>2. <<e>> \in Seq(Request) /\ Len(<<e>>) = 1
  OBVIOUS
<1> QED BY <1>1, <1>2 DEF Rising, ToSet

LEMMA BusyJob ==
  ASSUME Lined, worker \notin {"idle", "stopped"}
  PROVE  job[1] \in Request /\ job = <<job[1]>> /\ ToSet(job) = {job[1]}
<1>1. job \in Seq(Request) /\ Len(job) = 1
  BY DEF Lined
<1>2. job[1] \in Request /\ job = <<job[1]>>
  BY <1>1
<1> QED BY <1>2, SingleLine

LEMMA IdleJob ==
  ASSUME Lined, worker \in {"idle", "stopped"}
  PROVE  job = <<>>
<1>1. job \in Seq(Request) /\ Len(job) = 0
  BY DEF Lined
<1> QED BY <1>1

-----------------------------------------------------------------------------
(* Lined: the line of requests stays in order *)

\* Nothing joins the line, and the numbers only grow.
LEMMA LinedStays ==
  ASSUME Lined, UNCHANGED <<channel, job, worker, queue>>,
         next_id' \in 1 .. MaxIds + 1, next_id' >= next_id
  PROVE  Lined'
<1>1. UnderWay' = UnderWay
  BY DEF UnderWay, ToSet
<1>2. \A r \in UnderWay : r.id \in Int
  <2>1. channel \in Seq(Request) /\ job \in Seq(Request) /\ queue \in Seq(Request)
    BY DEF Lined
  <2>2. UnderWay \subseteq Request
    BY <2>1 DEF UnderWay, ToSet
  <2> QED BY <2>2 DEF Request
<1>3. \A r \in UnderWay : r.id < next_id'
  BY <1>2 DEF Lined
<1> QED BY <1>1, <1>3 DEF Lined, Rising, Before

LEMMA UnderWayTypes ==
  ASSUME Lined
  PROVE  UnderWay \subseteq Request
<1>1. channel \in Seq(Request) /\ job \in Seq(Request) /\ queue \in Seq(Request)
  BY DEF Lined
<1> QED BY <1>1 DEF UnderWay, ToSet

LEMMA LinedQueued ==
  ASSUME Lined, NEW k \in Keys, generation \in Nat, Queued(k)
  PROVE  Lined' /\ UnderWay' = UnderWay \cup {[id |-> next_id, generation |-> generation, key |-> k, text |-> NoText]}
<1> DEFINE e == [id |-> next_id, generation |-> generation, key |-> k, text |-> NoText]
<1>1. /\ queue' = Append(queue, e) /\ Len(queue) < QueueCap
      /\ UNCHANGED <<channel, job, worker>> /\ next_id' = next_id + 1 /\ next_id <= MaxIds
  BY DEF Queued, Numbered, Waiting, Record, Admissible, workerVars
<1>2. /\ next_id \in Nat /\ next_id >= 1 /\ MaxIds \in Nat /\ QueueCap \in Nat
      /\ queue \in Seq(Request) /\ Len(queue) \in Nat
  BY TranslatorAssumption DEF Lined
<1>3. e \in Request /\ e.id = next_id /\ e.text = NoText
  BY <1>2 DEF Request
<1> HIDE DEF e
<1>4. /\ queue' \in Seq(Request) /\ Len(queue') = Len(queue) + 1
      /\ ToSet(queue') = ToSet(queue) \cup {e}
  BY <1>1, <1>2, <1>3, AppendLine
<1>5. \A r \in UnderWay : r.id < next_id /\ r.id \in Nat
  BY UnderWayTypes DEF Lined, Request
<1>6. Before(channel, <<e>>) /\ Before(job, <<e>>) /\ Before(queue, <<e>>)
  <2>1. DOMAIN <<e>> = {1} /\ <<e>>[1] = e
    OBVIOUS
  <2> QED BY <1>3, <1>5, <2>1 DEF Before, UnderWay, ToSet
<1>7. Rising(queue') /\ Before(channel', queue') /\ Before(job', queue')
  BY <1>1, <1>2, <1>3, <1>6, RisingAppend DEF Lined, Before
<1>8. UnderWay' = UnderWay \cup {e}
  BY <1>1, <1>4 DEF UnderWay, ToSet
<1>9. \A r \in UnderWay' : r.id < next_id' /\ r.text \in {r.key, NoText}
  BY <1>1, <1>2, <1>3, <1>5, <1>8 DEF Lined
<1>10. next_id' \in 1 .. MaxIds + 1 /\ Len(queue') <= QueueCap
  BY <1>1, <1>2, <1>4
<1>11. Lined'
  BY <1>1, <1>4, <1>7, <1>9, <1>10 DEF Lined, Rising, Before
<1> QED BY <1>8, <1>11 DEF e

LEMMA LinedPoll ==
  ASSUME Lined, PollOne
  PROVE  Lined' /\ UnderWay = UnderWay' \cup {Head(channel)}
<1>1. /\ channel # <<>> /\ channel' = Tail(channel)
      /\ UNCHANGED <<queue, worker, job, next_id>>
  BY DEF PollOne, queueVars, workerVars, requestVars
<1>2. channel \in Seq(Request)
  BY DEF Lined
<1>3. /\ channel' \in Seq(Request) /\ Len(channel') = Len(channel) - 1 /\ Len(channel) \in Nat
      /\ ToSet(channel) = {Head(channel)} \cup ToSet(channel')
  BY <1>1, <1>2, TailLine
<1>4. /\ Rising(channel') /\ Before(channel', job) /\ Before(channel', queue)
  BY <1>1, <1>2, RisingTail DEF Lined
<1>5. UnderWay = UnderWay' \cup {Head(channel)}
  BY <1>1, <1>3 DEF UnderWay, ToSet
<1>6. Len(channel') <= ChannelCap
  BY <1>3, TranslatorAssumption DEF Lined
<1>7. \A r \in UnderWay' : r.id < next_id' /\ r.text \in {r.key, NoText}
  BY <1>1, <1>5 DEF Lined
<1>8. Lined'
  BY <1>1, <1>3, <1>4, <1>6, <1>7 DEF Lined, Rising, Before
<1> QED BY <1>5, <1>8

\* The channel, the queue or both are emptied.
LEMMA LinedEmptied ==
  ASSUME Lined, UNCHANGED <<worker, job, next_id>>,
         channel' \in {<<>>, channel}, queue' \in {<<>>, queue}
  PROVE  Lined' /\ UnderWay' \subseteq UnderWay
<1>1. /\ <<>> \in Seq(Request) /\ Len(<<>>) = 0 /\ Rising(<<>>) /\ ToSet(<<>>) = {}
      /\ \A t : Before(<<>>, t) /\ Before(t, <<>>)
  BY EmptyLine
<1> /\ ChannelCap \in Nat /\ QueueCap \in Nat /\ channel \in Seq(Request) /\ queue \in Seq(Request)
    /\ Len(channel) <= ChannelCap /\ Len(queue) <= QueueCap /\ Rising(channel) /\ Rising(queue)
  BY TranslatorAssumption DEF Lined
<1>2. /\ channel' \in Seq(Request) /\ Len(channel') <= ChannelCap /\ Rising(channel')
      /\ ToSet(channel') \subseteq ToSet(channel)
  <2>1. CASE channel' = <<>>
    BY <1>1, <2>1
  <2>2. CASE channel' = channel
    BY <2>2
  <2> QED BY <2>1, <2>2
<1>3. /\ queue' \in Seq(Request) /\ Len(queue') <= QueueCap /\ Rising(queue')
      /\ ToSet(queue') \subseteq ToSet(queue)
  <2>1. CASE queue' = <<>>
    BY <1>1, <2>1
  <2>2. CASE queue' = queue
    BY <2>2
  <2> QED BY <2>1, <2>2
<1>4. Before(channel', job) /\ Before(job, queue') /\ Before(channel', queue')
  BY <1>1 DEF Lined
<1>5. UnderWay' \subseteq UnderWay
  BY <1>2, <1>3 DEF UnderWay, ToSet
<1>6. Lined'
  BY <1>2, <1>3, <1>4, <1>5 DEF Lined, Rising, Before
<1> QED BY <1>5, <1>6

LEMMA LinedReceive ==
  ASSUME Lined, Receive
  PROVE  Lined' /\ UnderWay' = UnderWay
<1>1. /\ worker = "idle" /\ worker' = "taken" /\ queue # <<>>
      /\ job' = <<Head(queue)>> /\ queue' = Tail(queue)
      /\ UNCHANGED <<channel, next_id>>
  BY DEF Receive, Goes, requestVars
<1>2. queue \in Seq(Request)
  BY DEF Lined
<1>3. /\ queue' \in Seq(Request) /\ Len(queue') = Len(queue) - 1 /\ Len(queue) \in Nat
      /\ Head(queue) \in Request /\ ToSet(queue) = {Head(queue)} \cup ToSet(queue')
  BY <1>1, <1>2, TailLine
<1>4. /\ Rising(queue') /\ Before(job', queue') /\ Before(channel, queue') /\ Before(channel, job')
  BY <1>1, <1>2, RisingTail DEF Lined
<1>5. job' \in Seq(Request) /\ Len(job') = 1 /\ ToSet(job') = {Head(queue)}
  BY <1>1, <1>3, SingleLine
<1>6. job = <<>> /\ ToSet(job) = {}
  BY <1>1, IdleJob, EmptyLine
<1>7. UnderWay' = UnderWay
  BY <1>1, <1>3, <1>5, <1>6 DEF UnderWay, ToSet
<1>8. Len(queue') <= QueueCap
  BY <1>3, TranslatorAssumption DEF Lined
<1>9. Lined'
  BY <1>1, <1>3, <1>4, <1>5, <1>7, <1>8 DEF Lined, Rising, Before
<1> QED BY <1>7, <1>9

LEMMA LinedAnswer ==
  ASSUME Lined, Answer
  PROVE  Lined' /\ \E text \in {job[1].key, NoText} :
           UnderWay' = ToSet(channel) \cup {[job[1] EXCEPT !.text = text]} \cup ToSet(queue)
<1>1. /\ worker = "calling" /\ worker' = "answered"
      /\ UNCHANGED <<queue, channel, next_id>>
  BY DEF Answer, Goes, requestVars
<1>2. PICK text \in {job[1].key, NoText} : job' = <<[job[1] EXCEPT !.text = text]>>
  BY DEF Answer
<1>3. job[1] \in Request /\ job = <<job[1]>> /\ ToSet(job) = {job[1]}
  BY <1>1, BusyJob
<1> DEFINE e == [job[1] EXCEPT !.text = text]
<1>4. e \in Request /\ e.id = job[1].id /\ e.key = job[1].key /\ e.text \in {e.key, NoText}
  BY <1>2, <1>3 DEF Request
<1> HIDE DEF e
<1>5. job' = <<e>>
  BY <1>2 DEF e
<1>6. job' \in Seq(Request) /\ Len(job') = 1 /\ ToSet(job') = {e}
  BY <1>4, <1>5, SingleLine
<1>7. Before(channel, job') /\ Before(job', queue)
  <2>1. Before(channel, job) /\ Before(job, queue)
    BY DEF Lined
  <2>2. DOMAIN job = {1} /\ DOMAIN job' = {1} /\ job'[1] = e
    BY <1>3, <1>5
  <2> QED BY <1>4, <2>1, <2>2 DEF Before
<1>8. UnderWay' = ToSet(channel) \cup {e} \cup ToSet(queue)
  BY <1>1, <1>6 DEF UnderWay, ToSet
<1>9. \A r \in UnderWay' : r.id < next_id /\ r.text \in {r.key, NoText}
  BY <1>3, <1>4, <1>8 DEF Lined, UnderWay
<1>10. Lined'
  BY <1>1, <1>6, <1>7, <1>9 DEF Lined, Rising, Before
<1> QED BY <1>2, <1>8, <1>10 DEF e

LEMMA LinedSend ==
  ASSUME Lined, Send
  PROVE  Lined' /\ UnderWay' = UnderWay
<1>1. /\ worker = "sending" /\ worker' = "idle" /\ Len(channel) < ChannelCap
      /\ channel' = Append(channel, job[1]) /\ job' = <<>>
      /\ UNCHANGED <<queue, next_id>>
  BY DEF Send, Goes, requestVars
<1>2. job[1] \in Request /\ job = <<job[1]>> /\ ToSet(job) = {job[1]}
  BY <1>1, BusyJob
<1>3. channel \in Seq(Request) /\ ChannelCap \in Nat
  BY TranslatorAssumption DEF Lined
<1>4. /\ channel' \in Seq(Request) /\ Len(channel') = Len(channel) + 1 /\ Len(channel) \in Nat
      /\ ToSet(channel') = ToSet(channel) \cup {job[1]}
  BY <1>1, <1>2, <1>3, AppendLine
<1>5. Rising(channel') /\ Before(channel', queue)
  BY <1>1, <1>2, <1>3, RisingAppend DEF Lined
<1>6. /\ job' \in Seq(Request) /\ Len(job') = 0 /\ ToSet(job') = {}
      /\ Before(channel', job') /\ Before(job', queue)
  BY <1>1, EmptyLine
<1>7. UnderWay' = UnderWay
  BY <1>1, <1>2, <1>4, <1>6 DEF UnderWay, ToSet
<1>8. Len(channel') <= ChannelCap
  BY <1>1, <1>3, <1>4
<1>9. Lined'
  BY <1>1, <1>4, <1>5, <1>6, <1>7, <1>8 DEF Lined, Rising, Before
<1> QED BY <1>7, <1>9

\* The worker goes on with its request, or throws it away.
LEMMA LinedGoes ==
  ASSUME Lined, Call \/ Compare
  PROVE  /\ Lined'
         /\ \/ UnderWay' = UnderWay
            \/ UnderWay = UnderWay' \cup {job[1]} /\ ~ IsCurrent(job[1])
<1>1. /\ worker \in {"taken", "answered"} /\ UNCHANGED <<queue, channel, next_id>>
      /\ \/ worker' \in {"calling", "sending"} /\ job' = job
         \/ worker' = "idle" /\ job' = <<>> /\ ~ IsCurrent(job[1])
  BY DEF Call, Compare, Goes, requestVars
<1>2. CASE worker' \in {"calling", "sending"} /\ job' = job
  <2>1. UnderWay' = UnderWay
    BY <1>1, <1>2 DEF UnderWay, ToSet
  <2> QED BY <1>1, <1>2, <2>1 DEF Lined, Rising, Before
<1>3. CASE worker' = "idle" /\ job' = <<>> /\ ~ IsCurrent(job[1])
  <2>1. ToSet(job) = {job[1]}
    BY <1>1, BusyJob
  <2>2. /\ job' \in Seq(Request) /\ Len(job') = 0 /\ ToSet(job') = {}
        /\ Before(channel', job') /\ Before(job', queue')
    BY <1>3, EmptyLine
  <2>3. UnderWay = UnderWay' \cup {job[1]}
    BY <1>1, <2>1, <2>2 DEF UnderWay, ToSet
  <2>4. Lined'
    BY <1>1, <1>3, <2>2, <2>3 DEF Lined, Rising, Before
  <2> QED BY <1>3, <2>3, <2>4
<1> QED BY <1>1, <1>2, <1>3

LEMMA LinedStops ==
  ASSUME Lined, StopReceiving \/ SendFails
  PROVE  Lined' /\ UnderWay' \subseteq UnderWay
<1>1. /\ worker \in {"idle", "sending"} /\ worker' = "stopped"
      /\ UNCHANGED <<queue, channel, next_id>> /\ job' \in {job, <<>>}
      /\ worker = "sending" => job' = <<>>
  BY DEF StopReceiving, SendFails, Goes, requestVars
<1>2. job' = <<>>
  BY <1>1, IdleJob
<1>3. /\ job' \in Seq(Request) /\ Len(job') = 0 /\ ToSet(job') = {}
      /\ Before(channel', job') /\ Before(job', queue')
  BY <1>2, EmptyLine
<1>4. UnderWay' \subseteq UnderWay
  BY <1>1, <1>3 DEF UnderWay, ToSet
<1> QED BY <1>1, <1>3, <1>4 DEF Lined, Rising, Before

\* The first request of the channel has the least number of all.
LEMMA HeadIsLeast ==
  ASSUME Lined, PollOne
  PROVE  /\ Head(channel) \in UnderWay /\ Head(channel) \in Request
         /\ \A r \in UnderWay' : Head(channel).id < r.id
         /\ \A r \in UnderWay : r.id = Head(channel).id => r = Head(channel)
<1> DEFINE h == Head(channel)
<1>1. /\ channel # <<>> /\ channel' = Tail(channel)
      /\ UNCHANGED <<queue, worker, job, next_id>>
  BY DEF PollOne, queueVars, workerVars, requestVars
<1>2. channel \in Seq(Request)
  BY DEF Lined
<1>3. h \in Request /\ ToSet(channel) = {h} \cup ToSet(channel')
  BY <1>1, <1>2, TailLine
<1>4. Before(<<h>>, channel') /\ Before(<<h>>, job) /\ Before(<<h>>, queue)
  BY <1>1, <1>2, RisingTail DEF Lined
<1>5. DOMAIN <<h>> = {1} /\ <<h>>[1] = h
  OBVIOUS
<1> HIDE DEF h
<1>6. \A r \in UnderWay' : h.id < r.id
  BY <1>1, <1>4, <1>5 DEF Before, UnderWay, ToSet
<1>7. UnderWay = UnderWay' \cup {h}
  BY LinedPoll DEF h
<1>8. h.id \in Nat
  BY <1>3 DEF Request
<1>9. \A r \in UnderWay : r.id = h.id => r = h
  BY <1>6, <1>7, <1>8
<1> QED BY <1>3, <1>6, <1>7, <1>9 DEF h

-----------------------------------------------------------------------------
(* Awaited: what the user interface waits for is under way *)

LEMMA AwaitsStays ==
  ASSUME NEW id, Awaits(id), UnderWay \subseteq UnderWay', generation' = generation,
         pending'[id] = pending[id]
  PROVE  Awaits(id)'
BY DEF Awaits, IsCurrent

\* Steps that leave the numbers waited for, and lose no request of the current generation.
LEMMA AwaitedStays ==
  ASSUME Lined, Awaited, UNCHANGED <<generation, pending>>,
         closed' \in BOOLEAN, ui' \in {"free", "polling", "closing", "gone"},
         ui' = ui \/ (ui \in {"free", "polling"} /\ ui' \in {"free", "polling"}),
         \A r \in UnderWay : IsCurrent(r) /\ ui # "gone" =>
           \E q \in UnderWay' : q.id = r.id /\ q.key = r.key /\ q.generation = r.generation
  PROVE  Awaited'
<1>1. ui' \in {"free", "polling"} => generation' <= MaxGeneration
  BY DEF Awaited
<1>2. ui' = "gone" => DOMAIN pending' = {}
  BY DEF Awaited
<1>3. ASSUME ui' # "closing", NEW id \in DOMAIN pending' PROVE Awaits(id)'
  <2>1. ui # "closing" /\ ui # "gone" /\ id \in DOMAIN pending
    BY <1>3 DEF Awaited
  <2>2. PICK r \in UnderWay : r.id = id /\ r.key = pending[id] /\ IsCurrent(r)
    BY <2>1 DEF Awaited, Awaits
  <2>3. PICK q \in UnderWay' : q.id = r.id /\ q.key = r.key /\ q.generation = r.generation
    BY <2>1, <2>2
  <2> QED BY <2>2, <2>3 DEF Awaits, IsCurrent
<1> QED BY <1>1, <1>2, <1>3 DEF Awaited

LEMMA AwaitedQueued ==
  ASSUME Lined, Awaited, NEW k \in Keys, Queued(k)
  PROVE  Awaited'
<1> DEFINE e == [id |-> next_id, generation |-> generation, key |-> k, text |-> NoText]
<1>1. /\ ui = "free" /\ pending' = Put(pending, next_id, k)
      /\ UNCHANGED <<closed, generation, ui>>
  BY DEF Queued, Waiting, Record
<1>2. generation \in Nat
  BY TranslatorAssumption DEF Awaited
<1>3. UnderWay' = UnderWay \cup {e}
  BY <1>2, LinedQueued
<1>4. e.id = next_id /\ e.key = k /\ e.generation = generation
  OBVIOUS
<1> HIDE DEF e
<1>5. /\ \A id \in DOMAIN pending' : id = next_id \/ (id \in DOMAIN pending /\ pending'[id] = pending[id])
      /\ pending'[next_id] = k
  BY <1>1 DEF Put
<1>6. ASSUME NEW id \in DOMAIN pending' PROVE Awaits(id)'
  <2>1. CASE id = next_id
    BY <1>1, <1>3, <1>4, <1>5, <2>1 DEF Awaits, IsCurrent
  <2>2. CASE id # next_id
    <3>1. Awaits(id) /\ pending'[id] = pending[id]
      BY <1>1, <1>5, <1>6, <2>2 DEF Awaited
    <3> QED BY <1>1, <1>3, <3>1, AwaitsStays
  <2> QED BY <2>1, <2>2
<1> QED BY <1>1, <1>6 DEF Awaited

LEMMA AwaitedPoll ==
  ASSUME Lined, Awaited, PollOne
  PROVE  Awaited'
<1> DEFINE h == Head(channel)
<1>1. /\ ui = "polling" /\ UNCHANGED <<closed, generation, ui>>
      /\ pending' = IF h.id \in DOMAIN pending THEN Without(pending, h.id) ELSE pending
  BY DEF PollOne, queueVars, requestVars
<1>2. h \in UnderWay /\ h \in Request /\ \A r \in UnderWay : r.id = h.id => r = h
  BY HeadIsLeast
<1>3. UnderWay = UnderWay' \cup {h}
  BY LinedPoll
<1> HIDE DEF h
<1>4. \A id \in DOMAIN pending' : id \in DOMAIN pending /\ id # h.id /\ pending'[id] = pending[id]
  BY <1>1 DEF Without
<1>5. ASSUME NEW id \in DOMAIN pending' PROVE Awaits(id)'
  <2>1. PICK r \in UnderWay : r.id = id /\ r.key = pending[id] /\ IsCurrent(r)
    BY <1>1, <1>4 DEF Awaited, Awaits
  <2>2. r \in UnderWay'
    BY <1>3, <1>4, <2>1
  <2> QED BY <1>1, <1>4, <2>1, <2>2 DEF Awaits, IsCurrent
<1> QED BY <1>1, <1>5 DEF Awaited

LEMMA AwaitedForgotten ==
  ASSUME Lined, Awaited, Reset \/ Close \/ DropFields
  PROVE  Awaited'
<1> generation \in 0 .. MaxGeneration + 1 /\ MaxGeneration \in Nat
  BY TranslatorAssumption DEF Awaited
<1>1. CASE Reset
  <2>1. /\ ui = "free" /\ ui' = "free" /\ generation < MaxGeneration /\ generation' = generation + 1
        /\ closed' = closed /\ DOMAIN pending' = {}
    BY <1>1 DEF Reset, Abandon, Forget, Empty
  <2> QED BY <2>1 DEF Awaited
<1>2. CASE Close
  <2>1. ui = "free" /\ ui' = "closing" /\ generation' = generation + 1 /\ closed' = TRUE
    BY <1>2 DEF Close
  <2> QED BY <2>1 DEF Awaited
<1>3. CASE DropFields
  <2>1. ui' = "gone" /\ generation' = generation /\ closed' = closed /\ DOMAIN pending' = {}
    BY <1>3 DEF DropFields, Forget, Empty, queueVars
  <2> QED BY <2>1 DEF Awaited
<1> QED BY <1>1, <1>2, <1>3

LEMMA AwaitedWorker ==
  ASSUME Lined, Awaited, Worker
  PROVE  Lined' /\ Awaited'
<1>1. UNCHANGED <<closed, generation, pending, ui>>
  BY DEF Worker, Receive, StopReceiving, Call, Answer, Compare, Send, SendFails, Goes, requestVars
<1>2. closed' \in BOOLEAN /\ ui' \in {"free", "polling", "closing", "gone"}
  BY <1>1 DEF Awaited
<1> DEFINE Kept == \A r \in UnderWay : IsCurrent(r) /\ ui # "gone" =>
                     \E q \in UnderWay' : q.id = r.id /\ q.key = r.key /\ q.generation = r.generation
<1>3. CASE Receive \/ Send
  <2>1. Lined' /\ UnderWay' = UnderWay
    BY <1>3, LinedReceive, LinedSend
  <2>2. Kept
    BY <2>1
  <2> HIDE DEF Kept
  <2> QED BY <1>1, <1>2, <2>1, <2>2, AwaitedStays DEF Kept
<1>4. CASE Answer
  <2>1. /\ worker = "calling"
        /\ Lined' /\ \E text \in {job[1].key, NoText} :
             UnderWay' = ToSet(channel) \cup {[job[1] EXCEPT !.text = text]} \cup ToSet(queue)
    BY <1>4, LinedAnswer DEF Answer
  <2>2. PICK text \in {job[1].key, NoText} :
             UnderWay' = ToSet(channel) \cup {[job[1] EXCEPT !.text = text]} \cup ToSet(queue)
    BY <2>1
  <2>3. job[1] \in Request /\ ToSet(job) = {job[1]}
    BY <2>1, BusyJob
  <2> DEFINE e == [job[1] EXCEPT !.text = text]
  <2>4. e.id = job[1].id /\ e.key = job[1].key /\ e.generation = job[1].generation
    BY <2>3 DEF Request
  <2> HIDE DEF e
  <2>5. \A r \in UnderWay : r \in UnderWay' \/ r = job[1]
    BY <2>2, <2>3 DEF UnderWay
  <2>6. e \in UnderWay'
    BY <2>2 DEF e
  <2>7. Kept
    BY <2>4, <2>5, <2>6
  <2> HIDE DEF Kept
  <2> QED BY <1>1, <1>2, <2>1, <2>7, AwaitedStays DEF Kept
<1>5. CASE Call \/ Compare
  <2>1. /\ Lined'
        /\ \/ UnderWay' = UnderWay
           \/ UnderWay = UnderWay' \cup {job[1]} /\ ~ IsCurrent(job[1])
    BY <1>5, LinedGoes
  <2>2. Kept
    BY <2>1
  <2> HIDE DEF Kept
  <2> QED BY <1>1, <1>2, <2>1, <2>2, AwaitedStays DEF Kept
<1>6. CASE StopReceiving
  <2>1. UNCHANGED <<channel, job, queue>>
    BY <1>6 DEF StopReceiving
  <2>2. Lined' /\ UnderWay' = UnderWay
    BY <1>6, <2>1, LinedStops DEF UnderWay, ToSet
  <2>3. Kept
    BY <2>2
  <2> HIDE DEF Kept
  <2> QED BY <1>1, <1>2, <2>2, <2>3, AwaitedStays DEF Kept
<1>7. CASE SendFails
  <2>1. Lined' /\ ui = "gone"
    BY <1>7, LinedStops DEF SendFails
  <2>2. Kept
    BY <2>1
  <2> HIDE DEF Kept
  <2> QED BY <1>1, <1>2, <2>1, <2>2, AwaitedStays DEF Kept
<1> QED BY <1>3, <1>4, <1>5, <1>6, <1>7 DEF Worker

-----------------------------------------------------------------------------
(* Flight: the requests, the turns that share them and the counters *)

LEMMA FlightNumbers ==
  ASSUME Lined, Flight
  PROVE  /\ Subscribers \subseteq Nat /\ \A id \in Subscribers : id < next_id
         /\ next_id \in Nat /\ next_id \notin Subscribers
         /\ pending_turns \in Nat
         /\ \A k \in DOMAIN in_flight : Subscribed(k) \subseteq Subscribers /\ Subscribed(k) # {}
<1>1. next_id \in Nat
  BY TranslatorAssumption DEF Lined
<1>2. ASSUME NEW k \in DOMAIN in_flight
      PROVE  /\ Subscribed(k) \subseteq Nat /\ \A id \in Subscribed(k) : id < next_id
             /\ Subscribed(k) # {} /\ Subscribed(k) \subseteq Subscribers
  <2>1. in_flight[k] \in Seq(Nat) /\ in_flight[k] # <<>> /\ \A id \in Subscribed(k) : id < next_id
    BY DEF Flight, Waits
  <2>2. 1 \in DOMAIN in_flight[k]
    BY <2>1
  <2>3. in_flight[k][1] \in Subscribed(k)
    BY <2>2 DEF Subscribed, ToSet
  <2>4. Subscribed(k) \subseteq Nat
    BY <2>1 DEF Subscribed, ToSet
  <2>5. Subscribed(k) \subseteq Subscribers
    BY DEF Subscribed, Subscribers
  <2> QED BY <2>1, <2>3, <2>4, <2>5
<1>3. \A id \in Subscribers : \E k \in DOMAIN in_flight : id \in Subscribed(k)
  BY DEF Subscribers, Subscribed
<1>4. \A id \in Subscribers : id \in Nat /\ id < next_id
  BY <1>2, <1>3
<1>5. pending_turns \in Nat
  BY FS_CardinalityType DEF Flight
<1> QED BY <1>1, <1>2, <1>4, <1>5

\* Steps that only take a number.
LEMMA FlightStays ==
  ASSUME Lined, Flight, UNCHANGED <<in_flight, pending, pending_turns, pending_bytes>>,
         next_id' \in Nat, next_id' >= next_id
  PROVE  Flight'
<1>1. \A k \in DOMAIN in_flight : Subscribed(k) \subseteq Nat
  BY FlightNumbers
<1>2. next_id \in Nat
  BY FlightNumbers
<1>3. ASSUME NEW k \in DOMAIN in_flight PROVE Waits(k)'
  BY <1>1, <1>2 DEF Flight, Waits, Subscribed
<1> QED BY <1>3 DEF Flight, Subscribed, Subscribers

\* One more number, next_id, waits for the translation of k.
LEMMA FlightGrows ==
  ASSUME Lined, Flight, NEW k \in Keys, next_id' = next_id + 1,
         pending_turns < MaxPendingTurns, pending_turns' = pending_turns + 1,
         DOMAIN in_flight' = DOMAIN in_flight \cup {k},
         Subscribed(k)' = {next_id} \cup (IF k \in DOMAIN in_flight THEN Subscribed(k) ELSE {}),
         \A l \in DOMAIN in_flight : l # k => in_flight'[l] = in_flight[l]
  PROVE  /\ IsFiniteSet(Subscribers') /\ Subscribers' = Subscribers \cup {next_id}
         /\ pending_turns' = Cardinality(Subscribers') /\ pending_turns' <= MaxPendingTurns
         /\ \A l, m \in DOMAIN in_flight' : l # m => Subscribed(l)' \cap Subscribed(m)' = {}
         /\ IsFiniteSet(DOMAIN in_flight') /\ DOMAIN in_flight' \subseteq Keys
<1>1. \A l \in DOMAIN in_flight : l # k => Subscribed(l)' = Subscribed(l)
  BY DEF Subscribed
<1>2. Subscribers' = Subscribers \cup {next_id}
  <2>1. Subscribers' = UNION {Subscribed(l)' : l \in DOMAIN in_flight'}
    BY DEF Subscribers, Subscribed
  <2>2. Subscribers = UNION {Subscribed(l) : l \in DOMAIN in_flight}
    BY DEF Subscribers, Subscribed
  <2>3. Subscribers' \subseteq Subscribers \cup {next_id}
    BY <1>1, <2>1, <2>2
  <2>4. Subscribers \cup {next_id} \subseteq Subscribers'
    BY <1>1, <2>1, <2>2
  <2> QED BY <2>3, <2>4
<1>3. /\ next_id \notin Subscribers /\ pending_turns \in Nat
      /\ \A l \in DOMAIN in_flight : Subscribed(l) \subseteq Subscribers
  BY FlightNumbers
<1>4. IsFiniteSet(Subscribers') /\ Cardinality(Subscribers') = Cardinality(Subscribers) + 1
  BY <1>2, <1>3, FS_AddElement DEF Flight
<1>5. pending_turns' = Cardinality(Subscribers') /\ pending_turns' <= MaxPendingTurns
  BY <1>3, <1>4, TranslatorAssumption DEF Flight
<1>6. ASSUME NEW l \in DOMAIN in_flight', NEW m \in DOMAIN in_flight', l # m
      PROVE  Subscribed(l)' \cap Subscribed(m)' = {}
  <2>1. \A a, b \in DOMAIN in_flight : a # b => Subscribed(a) \cap Subscribed(b) = {}
    BY DEF Flight
  <2>2. \A a \in DOMAIN in_flight : next_id \notin Subscribed(a)
    BY <1>3
  <2>3. CASE l # k /\ m # k
    BY <1>1, <1>6, <2>1, <2>3
  <2>4. CASE l = k
    BY <1>1, <1>6, <2>1, <2>2, <2>4
  <2>5. CASE m = k
    BY <1>1, <1>6, <2>1, <2>2, <2>5
  <2> QED BY <2>3, <2>4, <2>5
<1>7. IsFiniteSet(DOMAIN in_flight') /\ DOMAIN in_flight' \subseteq Keys
  BY FS_AddElement DEF Flight
<1> QED BY <1>2, <1>4, <1>5, <1>6, <1>7

LEMMA FlightMerged ==
  ASSUME Lined, Flight, NEW k \in Keys, Merged(k)
  PROVE  Flight' /\ Subscribers' = Subscribers \cup {next_id}
<1>1. /\ k \in DOMAIN in_flight /\ in_flight' = Put(in_flight, k, Append(in_flight[k], next_id))
      /\ next_id' = next_id + 1 /\ pending_turns < MaxPendingTurns /\ pending_turns' = pending_turns + 1
      /\ UNCHANGED <<pending, pending_bytes>>
  BY DEF Merged, Numbered, Waiting
<1> DEFINE s == in_flight[k]
           t == in_flight'[k]
<1>2. DOMAIN in_flight' = DOMAIN in_flight /\ t = Append(s, next_id)
  BY <1>1 DEF Put
<1>3. \A l \in DOMAIN in_flight : l # k => in_flight'[l] = in_flight[l]
  BY <1>1 DEF Put
<1>4. /\ next_id \in Nat /\ next_id \notin Subscribers
      /\ \A l \in DOMAIN in_flight : Subscribed(l) \subseteq Subscribers /\ Subscribed(l) \subseteq Nat
  BY FlightNumbers
<1>5. Waits(k)
  BY <1>1 DEF Flight
<1>6. s \in Seq(Nat) /\ s # <<>>
  BY <1>5 DEF Waits
<1>7. /\ t \in Seq(Nat) /\ Len(s) \in Nat
      /\ \A i \in DOMAIN s : i \in DOMAIN t /\ t[i] = s[i]
      /\ \A i \in DOMAIN t : i \in DOMAIN s \/ i = Len(s) + 1
      /\ t[Len(s) + 1] = next_id /\ Len(s) + 1 \in DOMAIN t
      /\ ToSet(t) = ToSet(s) \cup {next_id}
  BY <1>2, <1>4, <1>6, AppendLine
<1>8. 1 \in DOMAIN s
  BY <1>6
<1> HIDE DEF s, t
<1>9. Subscribed(k)' = {next_id} \cup Subscribed(k)
  BY <1>7 DEF s, t, Subscribed
<1>10. /\ IsFiniteSet(Subscribers') /\ Subscribers' = Subscribers \cup {next_id}
       /\ pending_turns' = Cardinality(Subscribers') /\ pending_turns' <= MaxPendingTurns
       /\ \A l, m \in DOMAIN in_flight' : l # m => Subscribed(l)' \cap Subscribed(m)' = {}
       /\ IsFiniteSet(DOMAIN in_flight') /\ DOMAIN in_flight' \subseteq Keys
  BY <1>1, <1>2, <1>3, <1>9, FlightGrows
<1>11. Waits(k)'
  <2>1. t \in Seq(Nat) /\ t # <<>>
    BY <1>7
  <2>2. \A i, j \in DOMAIN t : t[i] = t[j] => i = j
    <3>1. \A i, j \in DOMAIN s : s[i] = s[j] => i = j
      BY <1>5 DEF Waits, s
    <3>2. \A i \in DOMAIN s : s[i] # next_id
      BY <1>1, <1>4 DEF s, Subscribed, ToSet
    <3> QED BY <1>7, <3>1, <3>2
  <2>3. \A id \in Subscribed(k)' : id < next_id'
    BY <1>1, <1>4, <1>5, <1>9 DEF Waits
  <2>4. t[1] = s[1] /\ s[1] \in DOMAIN pending /\ pending[s[1]] = k
    BY <1>5, <1>7, <1>8 DEF Waits, s
  <2> QED BY <1>1, <2>1, <2>2, <2>3, <2>4 DEF Waits, t
<1>12. ASSUME NEW l \in DOMAIN in_flight, l # k PROVE Waits(l)'
  <2>1. Waits(l) /\ in_flight'[l] = in_flight[l]
    BY <1>3, <1>12 DEF Flight
  <2>2. \A id \in Subscribed(l) : id < next_id'
    BY <1>1, <1>4, <2>1 DEF Waits
  <2> QED BY <1>1, <2>1, <2>2 DEF Waits, Subscribed
<1>13. ASSUME NEW id \in DOMAIN pending'
       PROVE  pending'[id] \in DOMAIN in_flight' /\ in_flight'[pending'[id]][1] = id
  <2>1. pending[id] \in DOMAIN in_flight /\ in_flight[pending[id]][1] = id
    BY <1>1, <1>13 DEF Flight
  <2>2. t[1] = s[1]
    BY <1>7, <1>8
  <2> QED BY <1>1, <1>2, <1>3, <2>1, <2>2 DEF s, t
<1>14. pending_bytes' = SumOf(KeyCosts, DOMAIN in_flight') /\ pending_bytes' <= MaxPendingBytes
  BY <1>1, <1>2 DEF Flight
<1>15. \A l \in DOMAIN in_flight' : Waits(l)'
  BY <1>2, <1>11, <1>12
<1> QED BY <1>10, <1>13, <1>14, <1>15 DEF Flight

LEMMA FlightQueued ==
  ASSUME Lined, Flight, NEW k \in Keys, Queued(k)
  PROVE  Flight' /\ Subscribers' = Subscribers \cup {next_id}
<1>1. /\ k \notin DOMAIN in_flight /\ in_flight' = Put(in_flight, k, <<next_id>>)
      /\ next_id' = next_id + 1 /\ pending_turns < MaxPendingTurns /\ pending_turns' = pending_turns + 1
      /\ pending' = Put(pending, next_id, k)
      /\ pending_bytes' = pending_bytes + PendingBytes(k)
      /\ pending_bytes + PendingBytes(k) <= MaxPendingBytes
  BY DEF Queued, Numbered, Waiting, Admissible
<1>2. /\ DOMAIN in_flight' = DOMAIN in_flight \cup {k} /\ in_flight'[k] = <<next_id>>
      /\ \A l \in DOMAIN in_flight : l # k /\ in_flight'[l] = in_flight[l]
  BY <1>1 DEF Put
<1>3. /\ DOMAIN pending' = DOMAIN pending \cup {next_id} /\ pending'[next_id] = k
      /\ \A id \in DOMAIN pending : id # next_id => pending'[id] = pending[id]
  BY <1>1 DEF Put
<1>4. /\ next_id \in Nat /\ next_id \notin Subscribers
      /\ \A l \in DOMAIN in_flight : Subscribed(l) \subseteq Subscribers /\ Subscribed(l) \subseteq Nat
  BY FlightNumbers
<1>5. /\ <<next_id>> \in Seq(Nat) /\ <<next_id>> # <<>> /\ DOMAIN <<next_id>> = {1}
      /\ <<next_id>>[1] = next_id
  BY <1>4
<1>6. Subscribed(k)' = {next_id}
  BY <1>2, <1>5 DEF Subscribed, ToSet
<1>7. /\ IsFiniteSet(Subscribers') /\ Subscribers' = Subscribers \cup {next_id}
      /\ pending_turns' = Cardinality(Subscribers') /\ pending_turns' <= MaxPendingTurns
      /\ \A l, m \in DOMAIN in_flight' : l # m => Subscribed(l)' \cap Subscribed(m)' = {}
      /\ IsFiniteSet(DOMAIN in_flight') /\ DOMAIN in_flight' \subseteq Keys
  BY <1>1, <1>2, <1>6, FlightGrows
<1>8. Waits(k)'
  <2>1. \A id \in Subscribed(k)' : id < next_id'
    BY <1>1, <1>4, <1>6
  <2>2. /\ in_flight'[k] \in Seq(Nat) /\ in_flight'[k] # <<>> /\ DOMAIN in_flight'[k] = {1}
        /\ in_flight'[k][1] = next_id
    BY <1>2, <1>5
  <2> QED BY <1>3, <2>1, <2>2 DEF Waits
<1>9. ASSUME NEW l \in DOMAIN in_flight PROVE Waits(l)' /\ in_flight'[l][1] # next_id
  <2>1. Waits(l) /\ in_flight'[l] = in_flight[l]
    BY <1>2 DEF Flight
  <2>2. \A id \in Subscribed(l) : id < next_id'
    BY <1>1, <1>4, <2>1 DEF Waits
  <2>3. in_flight[l][1] # next_id
    <3>1. in_flight[l][1] \in Subscribed(l)
      BY <2>1 DEF Waits, Subscribed, ToSet
    <3> QED BY <1>4, <3>1
  <2> QED BY <1>3, <2>1, <2>2, <2>3 DEF Waits, Subscribed
<1>10. ASSUME NEW id \in DOMAIN pending'
       PROVE  pending'[id] \in DOMAIN in_flight' /\ in_flight'[pending'[id]][1] = id
  <2>1. CASE id = next_id
    BY <1>2, <1>3, <1>5, <2>1
  <2>2. CASE id # next_id
    <3>1. id \in DOMAIN pending /\ pending'[id] = pending[id]
      BY <1>3, <1>10, <2>2
    <3>2. pending[id] \in DOMAIN in_flight /\ in_flight[pending[id]][1] = id
      BY <3>1 DEF Flight
    <3> QED BY <1>2, <3>1, <3>2
  <2> QED BY <2>1, <2>2
<1>11. pending_bytes' = SumOf(KeyCosts, DOMAIN in_flight') /\ pending_bytes' <= MaxPendingBytes
  <2>1. \A l \in DOMAIN in_flight' : KeyCosts[l] \in Int
    BY <1>7, CostTypes
  <2>2. k \in DOMAIN in_flight' /\ DOMAIN in_flight' \ {k} = DOMAIN in_flight
    BY <1>1, <1>2
  <2>3. SumOf(KeyCosts, DOMAIN in_flight') = KeyCosts[k] + SumOf(KeyCosts, DOMAIN in_flight' \ {k})
    BY <1>7, <2>1, <2>2, SumRemove
  <2>4. KeyCosts[k] = PendingBytes(k) /\ PendingBytes(k) \in Nat
    BY CostTypes
  <2>5. pending_bytes = SumOf(KeyCosts, DOMAIN in_flight)
    BY DEF Flight
  <2>6. pending_bytes \in Nat
    <3>1. \A l \in DOMAIN in_flight : KeyCosts[l] \in Nat
      BY CostTypes DEF Flight
    <3> QED BY <2>5, <3>1, SumMonotone DEF Flight
  <2> QED BY <1>1, <2>2, <2>3, <2>4, <2>5, <2>6
<1>12. \A l \in DOMAIN in_flight' : Waits(l)'
  BY <1>2, <1>8, <1>9
<1> QED BY <1>7, <1>10, <1>11, <1>12 DEF Flight

\* As many turns wait for k as its request has numbers.
LEMMA SubscribedCount ==
  ASSUME Flight, NEW k \in DOMAIN in_flight
  PROVE  IsFiniteSet(Subscribed(k)) /\ Cardinality(Subscribed(k)) = Len(in_flight[k])
<1> DEFINE s == in_flight[k]
<1>1. s \in Seq(Nat) /\ \A i, j \in DOMAIN s : s[i] = s[j] => i = j
  BY DEF Flight, Waits
<1> HIDE DEF s
<1>2. DOMAIN s = 1 .. Len(s) /\ Len(s) \in Nat /\ s \in [1 .. Len(s) -> ToSet(s)]
  BY <1>1 DEF ToSet
<1>3. IsFiniteSet(1 .. Len(s)) /\ Cardinality(1 .. Len(s)) = IF 1 > Len(s) THEN 0 ELSE Len(s) - 1 + 1
  BY <1>2, FS_Interval
<1>4. s \in Surjection(1 .. Len(s), ToSet(s))
  BY <1>2 DEF Surjection, ToSet
<1>5. s \in Injection(1 .. Len(s), ToSet(s))
  BY <1>1, <1>2 DEF Injection, IsInjective
<1>6. IsFiniteSet(ToSet(s)) /\ Cardinality(ToSet(s)) = Cardinality(1 .. Len(s))
  BY <1>3, <1>4, <1>5, FS_Surjection
<1> QED BY <1>2, <1>3, <1>6 DEF s, Subscribed

\* A result settles all the turns that wait for its key.
LEMMA FlightSettled ==
  ASSUME Lined, Flight, PollOne, Head(channel).id \in DOMAIN pending
  PROVE  LET k == pending[Head(channel).id] IN
         /\ k \in DOMAIN in_flight /\ k \in Keys /\ in_flight' = Without(in_flight, k)
         /\ ready' = ready \o [i \in DOMAIN in_flight[k] |-> [id |-> in_flight[k][i], text |-> Head(channel).text]]
         /\ cache' = IF Head(channel).text = NoText THEN cache ELSE Inserted(k, Head(channel).text)
         /\ Flight' /\ Subscribers' = Subscribers \ Subscribed(k)
<1> DEFINE h == Head(channel).id
           k == pending[h]
<1>1. k \in DOMAIN in_flight /\ in_flight[k][1] = h /\ k \in Keys
  BY DEF Flight
<1>2. /\ pending' = Without(pending, h) /\ in_flight' = Without(in_flight, k)
      /\ pending_turns' = pending_turns - Len(in_flight[k])
      /\ pending_bytes' = pending_bytes - PendingBytes(k)
      /\ next_id' = next_id
      /\ ready' = ready \o [i \in DOMAIN in_flight[k] |-> [id |-> in_flight[k][i], text |-> Head(channel).text]]
      /\ cache' = IF Head(channel).text = NoText THEN cache ELSE Inserted(k, Head(channel).text)
  BY <1>1 DEF PollOne
<1> HIDE DEF h
<1>3. /\ DOMAIN in_flight' = DOMAIN in_flight \ {k}
      /\ \A l \in DOMAIN in_flight' : in_flight'[l] = in_flight[l]
  BY <1>2 DEF Without
<1>4. /\ DOMAIN pending' = DOMAIN pending \ {h}
      /\ \A id \in DOMAIN pending' : pending'[id] = pending[id]
  BY <1>2 DEF Without
<1> HIDE DEF k
<1>5. \A l \in DOMAIN in_flight' : Subscribed(l)' = Subscribed(l)
  BY <1>3 DEF Subscribed
<1>6. Subscribers' = Subscribers \ Subscribed(k)
  <2>1. Subscribers' = UNION {Subscribed(l)' : l \in DOMAIN in_flight'}
    BY DEF Subscribers, Subscribed
  <2>2. Subscribers = UNION {Subscribed(l) : l \in DOMAIN in_flight}
    BY DEF Subscribers, Subscribed
  <2>3. \A l \in DOMAIN in_flight : l # k => Subscribed(l) \cap Subscribed(k) = {}
    BY <1>1 DEF Flight
  <2>4. ASSUME NEW id \in Subscribers' PROVE id \in Subscribers \ Subscribed(k)
    BY <1>3, <1>5, <2>1, <2>2, <2>3
  <2>5. ASSUME NEW id \in Subscribers \ Subscribed(k) PROVE id \in Subscribers'
    <3>1. PICK l \in DOMAIN in_flight : id \in Subscribed(l)
      BY <2>2
    <3>2. l \in DOMAIN in_flight'
      BY <1>3, <2>5, <3>1
    <3> QED BY <1>5, <2>1, <3>1, <3>2
  <2> QED BY <2>4, <2>5
<1>7. IsFiniteSet(Subscribed(k)) /\ Cardinality(Subscribed(k)) = Len(in_flight[k])
  BY <1>1, SubscribedCount
<1>8. IsFiniteSet(Subscribers') /\ Cardinality(Subscribers') = Cardinality(Subscribers) - Len(in_flight[k])
  <2>1. Subscribers \cap Subscribed(k) = Subscribed(k)
    BY <1>1 DEF Subscribers, Subscribed
  <2>2. IsFiniteSet(Subscribers)
    BY DEF Flight
  <2>3. /\ IsFiniteSet(Subscribers \ Subscribed(k))
        /\ Cardinality(Subscribers \ Subscribed(k))
             = Cardinality(Subscribers) - Cardinality(Subscribers \cap Subscribed(k))
    BY <2>2, FS_Difference
  <2> QED BY <1>6, <1>7, <2>1, <2>3
<1>9. pending_turns' = Cardinality(Subscribers') /\ pending_turns' <= MaxPendingTurns
  <2>1. pending_turns = Cardinality(Subscribers) /\ pending_turns <= MaxPendingTurns /\ MaxPendingTurns \in Nat
    BY TranslatorAssumption DEF Flight
  <2>2. Cardinality(Subscribers) \in Nat /\ Cardinality(Subscribed(k)) \in Nat
    BY <1>7, FS_CardinalityType DEF Flight
  <2> QED BY <1>2, <1>7, <1>8, <2>1, <2>2
<1>10. ASSUME NEW l \in DOMAIN in_flight' PROVE Waits(l)'
  <2>1. Waits(l) /\ l # k
    BY <1>3 DEF Flight
  <2>2. in_flight[l][1] # h
    BY <1>1, <2>1 DEF Waits, k
  <2> QED BY <1>2, <1>3, <1>4, <2>1, <2>2 DEF Waits, Subscribed
<1>11. \A l, m \in DOMAIN in_flight' : l # m => Subscribed(l)' \cap Subscribed(m)' = {}
  BY <1>3, <1>5 DEF Flight
<1>12. ASSUME NEW id \in DOMAIN pending'
       PROVE  pending'[id] \in DOMAIN in_flight' /\ in_flight'[pending'[id]][1] = id
  <2>1. id # h /\ pending'[id] = pending[id] /\ pending[id] \in DOMAIN in_flight /\ in_flight[pending[id]][1] = id
    BY <1>4 DEF Flight
  <2>2. pending[id] # k
    BY <1>1, <2>1
  <2> QED BY <1>3, <2>1, <2>2
<1>13. pending_bytes' = SumOf(KeyCosts, DOMAIN in_flight') /\ pending_bytes' <= MaxPendingBytes
  <2>1. \A l \in DOMAIN in_flight : KeyCosts[l] \in Nat
    BY CostTypes DEF Flight
  <2>2. SumOf(KeyCosts, DOMAIN in_flight) = KeyCosts[k] + SumOf(KeyCosts, DOMAIN in_flight')
    BY <1>1, <1>3, <2>1, SumRemove DEF Flight
  <2>3. KeyCosts[k] = PendingBytes(k) /\ PendingBytes(k) \in Nat
    BY <1>1, CostTypes
  <2>4. DOMAIN in_flight' \in SUBSET DOMAIN in_flight
    BY <1>3
  <2>5. SumOf(KeyCosts, DOMAIN in_flight') \in Nat /\ MaxPendingBytes \in Nat
    BY <2>1, <2>4, SumMonotone, TranslatorAssumption DEF Flight
  <2>6. pending_bytes = SumOf(KeyCosts, DOMAIN in_flight) /\ pending_bytes <= MaxPendingBytes
    BY DEF Flight
  <2> QED BY <1>2, <2>2, <2>3, <2>5, <2>6
<1>14. IsFiniteSet(DOMAIN in_flight') /\ DOMAIN in_flight' \subseteq Keys
  BY <1>3, FS_RemoveElement DEF Flight
<1>15. Flight'
  BY <1>8, <1>9, <1>10, <1>11, <1>12, <1>13, <1>14 DEF Flight
<1> QED BY <1>1, <1>2, <1>6, <1>15 DEF h, k

LEMMA FlightForgotten ==
  ASSUME in_flight' = Empty, pending' = Empty, pending_turns' = 0, pending_bytes' = 0
  PROVE  Flight' /\ Subscribers' = {}
<1>1. DOMAIN in_flight' = {} /\ DOMAIN pending' = {}
  BY DEF Empty
<1>2. Subscribers' = {}
  BY <1>1 DEF Subscribers
<1>3. IsFiniteSet({}) /\ Cardinality({}) = 0
  BY FS_EmptySet
<1>4. SumOf(KeyCosts, {}) = 0
  BY SumEmpty
<1> QED BY <1>1, <1>2, <1>3, <1>4, TranslatorAssumption DEF Flight

-----------------------------------------------------------------------------
(* Told: the turns, and the numbers they wait under *)

\* A turn is recorded.
LEMMA TurnRecorded ==
  ASSUME Told, Len(turns) < MaxTurns, NEW e \in Turn, turns' = Append(turns, e)
  PROVE  /\ turns' \in Seq(Turn) /\ Len(turns') <= MaxTurns
         /\ \A i \in DOMAIN turns : i \in DOMAIN turns' /\ turns'[i] = turns[i] /\ i # Len(turns) + 1
         /\ \A i \in DOMAIN turns' : i \in DOMAIN turns \/ i = Len(turns) + 1
         /\ turns'[Len(turns) + 1] = e /\ Len(turns) + 1 \in DOMAIN turns'
<1>1. turns \in Seq(Turn) /\ MaxTurns \in Nat
  BY TranslatorAssumption DEF Told
<1>2. DOMAIN turns = 1 .. Len(turns) /\ Len(turns) \in Nat
  BY <1>1
<1>3. /\ turns' \in Seq(Turn) /\ Len(turns') = Len(turns) + 1
      /\ \A i \in DOMAIN turns : i \in DOMAIN turns' /\ turns'[i] = turns[i]
      /\ \A i \in DOMAIN turns' : i \in DOMAIN turns \/ i = Len(turns) + 1
      /\ turns'[Len(turns) + 1] = e /\ Len(turns) + 1 \in DOMAIN turns'
  BY <1>1, AppendLine
<1>4. Len(turns') <= MaxTurns
  BY <1>1, <1>2, <1>3
<1>5. \A i \in DOMAIN turns : i # Len(turns) + 1
  BY <1>2
<1> QED BY <1>3, <1>4, <1>5

\* Steps that only change what the user interface does.
LEMMA ShownStays ==
  ASSUME Told, UNCHANGED <<ready, turns, pending_translations, in_flight, next_id>>,
         ui' # "polling" => ready = <<>>
  PROVE  Told'
<1>1. Subscribers' = Subscribers /\ ReadyIds' = ReadyIds /\ ToSet(ready') = ToSet(ready)
  BY DEF Subscribers, ReadyIds
<1>2. \A k \in DOMAIN in_flight : Subscribed(k)' = Subscribed(k)
  BY DEF Subscribed
<1>3. \A k \in DOMAIN in_flight' : \A id \in Subscribed(k)' : turns'[pending_translations'[id]].key = k
  BY <1>2 DEF Told
<1>4. \A r \in ToSet(ready') : r.text \in {turns'[pending_translations'[r.id]].key, NoText}
  BY <1>1 DEF Told
<1>5. ui' # "polling" => ready' = <<>>
  OBVIOUS
<1> QED BY <1>1, <1>3, <1>4, <1>5 DEF Told

\* A turn that does not wait.
LEMMA ShownAtOnce ==
  ASSUME Lined, Flight, Told, Len(turns) < MaxTurns, NEW e \in Turn, e.status # "pending",
         turns' = Append(turns, e), UNCHANGED <<ui, ready, pending_translations, in_flight>>,
         next_id' \in Nat, next_id' >= next_id
  PROVE  Told'
<1>1. /\ turns' \in Seq(Turn) /\ Len(turns') <= MaxTurns
      /\ \A i \in DOMAIN turns : i \in DOMAIN turns' /\ turns'[i] = turns[i]
      /\ \A i \in DOMAIN turns' : i \in DOMAIN turns \/ i = Len(turns) + 1
      /\ turns'[Len(turns) + 1] = e
  BY TurnRecorded
<1>2. Subscribers' = Subscribers /\ ReadyIds' = ReadyIds
  BY DEF Subscribers, ReadyIds
<1>3. ASSUME NEW id \in DOMAIN pending_translations
      PROVE  /\ id \in Nat /\ id < next_id'
             /\ pending_translations[id] \in DOMAIN turns /\ pending_translations[id] \in DOMAIN turns'
             /\ turns'[pending_translations[id]] = turns[pending_translations[id]]
             /\ turns'[pending_translations[id]].status = "pending"
  <2>1. /\ id \in Nat /\ id < next_id /\ pending_translations[id] \in DOMAIN turns
        /\ turns[pending_translations[id]].status = "pending"
    BY DEF Told
  <2>2. next_id \in Nat
    BY FlightNumbers
  <2> QED BY <1>1, <2>1, <2>2
<1>4. ASSUME NEW i \in DOMAIN turns', turns'[i].status = "pending"
      PROVE  \E id \in DOMAIN pending_translations : pending_translations[id] = i
  BY <1>1, <1>4 DEF Told
<1>5. ASSUME NEW k \in DOMAIN in_flight, NEW id \in Subscribed(k)
      PROVE  turns'[pending_translations[id]].key = k
  <2>1. id \in DOMAIN pending_translations /\ turns[pending_translations[id]].key = k
    BY <1>5 DEF Told, Subscribers, Subscribed
  <2> QED BY <1>3, <2>1
<1>6. ASSUME NEW r \in ToSet(ready) PROVE r.text \in {turns'[pending_translations[r.id]].key, NoText}
  <2>1. r.id \in DOMAIN pending_translations /\ r.text \in {turns[pending_translations[r.id]].key, NoText}
    BY <1>6 DEF Told, ReadyIds
  <2> QED BY <1>3, <2>1
<1> QED BY <1>1, <1>2, <1>3, <1>4, <1>5, <1>6 DEF Told, Subscribed

\* A turn that waits, under the next number.
LEMMA ShownWaiting ==
  ASSUME Lined, Flight, Told, NEW k \in Keys, Waiting(k), next_id' = next_id + 1,
         Subscribers' = Subscribers \cup {next_id},
         DOMAIN in_flight' = DOMAIN in_flight \cup {k},
         Subscribed(k)' = {next_id} \cup (IF k \in DOMAIN in_flight THEN Subscribed(k) ELSE {}),
         \A l \in DOMAIN in_flight : l # k => in_flight'[l] = in_flight[l]
  PROVE  Told'
<1> DEFINE e == [key |-> k, status |-> "pending", text |-> NoText]
           n == Len(turns) + 1
<1>1. /\ Len(turns) < MaxTurns /\ turns' = Append(turns, e)
      /\ UNCHANGED <<ui, ready>> /\ pending_translations' = Put(pending_translations, next_id, n)
  BY DEF Waiting, Record
<1>2. e \in Turn /\ e.key = k /\ e.status = "pending"
  BY DEF Turn
<1> HIDE DEF e, n
<1>3. /\ turns' \in Seq(Turn) /\ Len(turns') <= MaxTurns
      /\ \A i \in DOMAIN turns : i \in DOMAIN turns' /\ turns'[i] = turns[i] /\ i # n
      /\ \A i \in DOMAIN turns' : i \in DOMAIN turns \/ i = n
      /\ turns'[n] = e /\ n \in DOMAIN turns'
  BY <1>1, <1>2, TurnRecorded DEF n
<1>4. /\ next_id \in Nat /\ next_id \notin Subscribers
      /\ \A l \in DOMAIN in_flight : Subscribed(l) \subseteq Subscribers
  BY FlightNumbers
<1>5. \A id \in DOMAIN pending_translations : id # next_id
  BY <1>4 DEF Told
<1>6. /\ DOMAIN pending_translations' = DOMAIN pending_translations \cup {next_id}
      /\ pending_translations'[next_id] = n
      /\ \A id \in DOMAIN pending_translations : pending_translations'[id] = pending_translations[id]
  BY <1>1, <1>5 DEF Put
<1>7. ReadyIds' = ReadyIds /\ next_id \notin ReadyIds
  BY <1>1, <1>5 DEF ReadyIds, Told
<1>8. DOMAIN pending_translations' = Subscribers' \cup ReadyIds' /\ Subscribers' \cap ReadyIds' = {}
  BY <1>6, <1>7 DEF Told
<1>9. ASSUME NEW id \in DOMAIN pending_translations
      PROVE  /\ id \in Nat /\ id < next_id'
             /\ pending_translations'[id] \in DOMAIN turns /\ pending_translations'[id] \in DOMAIN turns'
             /\ turns'[pending_translations'[id]] = turns[pending_translations[id]]
             /\ turns'[pending_translations'[id]].status = "pending"
  <2>1. /\ id \in Nat /\ id < next_id /\ pending_translations[id] \in DOMAIN turns
        /\ turns[pending_translations[id]].status = "pending"
    BY DEF Told
  <2> QED BY <1>3, <1>4, <1>6, <2>1
<1>10. /\ next_id \in Nat /\ next_id < next_id' /\ n \in DOMAIN turns' /\ turns'[n].status = "pending"
       /\ turns'[n].key = k
  BY <1>2, <1>3, <1>4
<1>11. ASSUME NEW id \in DOMAIN pending_translations'
       PROVE  /\ id \in Nat /\ id < next_id' /\ pending_translations'[id] \in DOMAIN turns'
              /\ turns'[pending_translations'[id]].status = "pending"
  BY <1>6, <1>9, <1>10
<1>12. ASSUME NEW a \in DOMAIN pending_translations', NEW b \in DOMAIN pending_translations',
              pending_translations'[a] = pending_translations'[b]
       PROVE  a = b
  <2>1. \A id \in DOMAIN pending_translations : pending_translations'[id] # n
    BY <1>3, <1>9
  <2>2. \A x, y \in DOMAIN pending_translations : pending_translations[x] = pending_translations[y] => x = y
    BY DEF Told
  <2> QED BY <1>6, <1>12, <2>1, <2>2
<1>13. ASSUME NEW i \in DOMAIN turns', turns'[i].status = "pending"
       PROVE  \E id \in DOMAIN pending_translations' : pending_translations'[id] = i
  <2>1. CASE i = n
    BY <1>6, <2>1
  <2>2. CASE i # n
    <3>1. i \in DOMAIN turns /\ turns[i].status = "pending"
      BY <1>3, <1>13, <2>2
    <3>2. PICK id \in DOMAIN pending_translations : pending_translations[id] = i
      BY <3>1 DEF Told
    <3> QED BY <1>6, <3>2
  <2> QED BY <2>1, <2>2
<1>14. ASSUME NEW l \in DOMAIN in_flight', NEW id \in Subscribed(l)'
       PROVE  turns'[pending_translations'[id]].key = l
  <2>1. CASE id = next_id /\ l = k
    BY <1>6, <1>10, <2>1
  <2>2. CASE l \in DOMAIN in_flight /\ id \in Subscribed(l)
    <3>1. id \in DOMAIN pending_translations /\ turns[pending_translations[id]].key = l
      BY <1>4, <2>2 DEF Told
    <3> QED BY <1>9, <3>1
  <2>3. (id = next_id /\ l = k) \/ (l \in DOMAIN in_flight /\ id \in Subscribed(l))
    <3>1. CASE l = k
      BY <1>14, <3>1
    <3>2. CASE l # k
      <4>1. l \in DOMAIN in_flight /\ in_flight'[l] = in_flight[l]
        BY <3>2
      <4> QED BY <1>14, <4>1 DEF Subscribed
    <3> QED BY <3>1, <3>2
  <2> QED BY <2>1, <2>2, <2>3
<1>15. ASSUME NEW r \in ToSet(ready) PROVE r.text \in {turns'[pending_translations'[r.id]].key, NoText}
  <2>1. r.id \in DOMAIN pending_translations /\ r.text \in {turns[pending_translations[r.id]].key, NoText}
    BY <1>15 DEF Told, ReadyIds
  <2> QED BY <1>9, <2>1
<1>16. ready' \in Seq(Result) /\ (ui' # "polling" => ready' = <<>>)
  BY <1>1 DEF Told
<1>17. \A r \in ToSet(ready') : r.text \in {turns'[pending_translations'[r.id]].key, NoText}
  BY <1>1, <1>15
<1> QED BY <1>3, <1>8, <1>11, <1>12, <1>13, <1>14, <1>16, <1>17 DEF Told

\* The result waits in `ready` for the end of the poll.
LEMMA ShownSettled ==
  ASSUME Lined, Awaited, Flight, Told, PollOne, Head(channel).id \in DOMAIN pending
  PROVE  /\ Told' /\ Head(channel).text \in {pending[Head(channel).id], NoText}
<1> DEFINE h == Head(channel)
           k == pending[h.id]
           answers == [i \in DOMAIN in_flight[k] |-> [id |-> in_flight[k][i], text |-> h.text]]
<1>1. /\ k \in DOMAIN in_flight /\ k \in Keys /\ in_flight' = Without(in_flight, k)
      /\ ready' = ready \o answers
      /\ Subscribers' = Subscribers \ Subscribed(k)
  BY FlightSettled
<1>2. /\ ui = "polling" /\ UNCHANGED <<ui, turns, pending_translations, next_id>>
      /\ h.id \in DOMAIN pending
  BY DEF PollOne, requestVars
<1>3. h \in UnderWay /\ h \in Request /\ \A r \in UnderWay : r.id = h.id => r = h
  BY HeadIsLeast
<1> HIDE DEF h
<1>4. h.text \in {k, NoText}
  <2>1. PICK r \in UnderWay : r.id = h.id /\ r.key = k
    BY <1>2 DEF Awaited, Awaits
  <2>2. r = h
    BY <1>3, <2>1
  <2> QED BY <1>3, <2>1, <2>2 DEF Lined
<1> HIDE DEF k
<1>5. /\ in_flight[k] \in Seq(Nat) /\ DOMAIN in_flight[k] = 1 .. Len(in_flight[k])
      /\ Len(in_flight[k]) \in Nat /\ h.text \in Keys \cup {NoText}
  BY <1>1, <1>4 DEF Flight, Waits
<1>6. answers \in Seq(Result)
  <2>1. \A i \in 1 .. Len(in_flight[k]) : [id |-> in_flight[k][i], text |-> h.text] \in Result
    BY <1>5 DEF Result
  <2> QED BY <1>5, <2>1
<1>7. ToSet(answers) = {[id |-> id, text |-> h.text] : id \in Subscribed(k)}
  BY DEF ToSet, Subscribed
<1> HIDE DEF answers
<1>8. ready' \in Seq(Result) /\ ToSet(ready') = ToSet(ready) \cup ToSet(answers)
  BY <1>1, <1>6, ConcatLine DEF Told
<1>9. ReadyIds' = ReadyIds \cup Subscribed(k)
  <2>1. ASSUME NEW id \in Subscribed(k) PROVE \E r \in ToSet(answers) : r.id = id
    <3>1. [id |-> id, text |-> h.text] \in ToSet(answers)
      BY <1>7
    <3> QED BY <3>1
  <2>2. \A r \in ToSet(answers) : r.id \in Subscribed(k)
    BY <1>7
  <2>3. {r.id : r \in ToSet(answers)} = Subscribed(k)
    BY <2>1, <2>2
  <2> QED BY <1>8, <2>3 DEF ReadyIds
<1>10. Subscribed(k) \subseteq Subscribers
  BY <1>1 DEF Subscribers, Subscribed
<1>11. DOMAIN pending_translations = Subscribers' \cup ReadyIds' /\ Subscribers' \cap ReadyIds' = {}
  BY <1>1, <1>9, <1>10 DEF Told
<1>12. ASSUME NEW l \in DOMAIN in_flight', NEW id \in Subscribed(l)'
       PROVE  turns[pending_translations[id]].key = l
  <2>1. l \in DOMAIN in_flight /\ in_flight'[l] = in_flight[l]
    BY <1>1 DEF Without
  <2> QED BY <1>12, <2>1 DEF Told, Subscribed
<1>13. ASSUME NEW r \in ToSet(ready') PROVE r.text \in {turns[pending_translations[r.id]].key, NoText}
  <2>1. CASE r \in ToSet(ready)
    BY <2>1 DEF Told
  <2>2. CASE r \in ToSet(answers)
    <3>1. PICK id \in Subscribed(k) : r = [id |-> id, text |-> h.text]
      BY <1>7, <2>2
    <3>2. turns[pending_translations[id]].key = k
      BY <1>1, <3>1 DEF Told
    <3> QED BY <1>4, <3>1, <3>2
  <2> QED BY <1>8, <2>1, <2>2
<1>14. Told'
  BY <1>2, <1>8, <1>11, <1>12, <1>13 DEF Told
<1> QED BY <1>4, <1>14 DEF h, k

\* What a turn is after the poll.
Settled(i) ==
  IF Results(i) = {} THEN turns[i]
  ELSE [turns[i] EXCEPT !.status = "complete", !.text = CHOOSE t \in Results(i) : TRUE]

\* The poll settles turns that wait, each with a translation of its own text or none.
LEMMA SettledFacts ==
  ASSUME Told, NEW i \in DOMAIN turns
  PROVE  /\ Settled(i) \in Turn /\ Settled(i).key = turns[i].key
         /\ Results(i) = {} => Settled(i) = turns[i]
         /\ Results(i) # {} => /\ turns[i].status = "pending" /\ Settled(i).status = "complete"
                               /\ Settled(i).text \in {turns[i].key, NoText}
                               /\ \E id \in ReadyIds : pending_translations[id] = i
         /\ \A id \in ReadyIds : pending_translations[id] = i => Results(i) # {}
<1>1. turns[i] \in Turn /\ turns[i].key \in Keys
  <2>1. turns \in Seq(Turn)
    BY DEF Told
  <2>2. turns[i] \in Turn
    BY <2>1
  <2> QED BY <2>2 DEF Turn
<1>2. ReadyIds \subseteq DOMAIN pending_translations
  BY DEF Told
<1>3. \A r \in ToSet(ready) : r.id \in ReadyIds
  BY DEF ReadyIds
<1>4. ASSUME NEW t \in Results(i)
      PROVE  /\ t \in {turns[i].key, NoText} /\ turns[i].status = "pending"
             /\ \E id \in ReadyIds : pending_translations[id] = i
  <2>1. PICK r \in ToSet(ready) : /\ r.text = t /\ r.id \in DOMAIN pending_translations
                                  /\ pending_translations[r.id] = i
    BY DEF Results
  <2>2. r.text \in {turns[pending_translations[r.id]].key, NoText}
    BY <2>1 DEF Told
  <2>3. turns[pending_translations[r.id]].status = "pending"
    BY <2>1 DEF Told
  <2> QED BY <1>3, <2>1, <2>2, <2>3
<1>5. ASSUME NEW id \in ReadyIds, pending_translations[id] = i PROVE Results(i) # {}
  <2>1. PICK r \in ToSet(ready) : r.id = id
    BY DEF ReadyIds
  <2>2. r.text \in Results(i)
    BY <1>2, <1>5, <2>1 DEF Results
  <2> QED BY <2>2
<1>6. CASE Results(i) = {}
  BY <1>1, <1>5, <1>6 DEF Settled
<1>7. CASE Results(i) # {}
  <2> DEFINE t == CHOOSE x \in Results(i) : TRUE
  <2>1. t \in Results(i)
    BY <1>7
  <2> HIDE DEF t
  <2>2. t \in {turns[i].key, NoText} /\ turns[i].status = "pending" /\ \E id \in ReadyIds : pending_translations[id] = i
    BY <1>4, <2>1
  <2>3. Settled(i) = [turns[i] EXCEPT !.status = "complete", !.text = t]
    BY <1>7 DEF Settled, t
  <2>4. /\ Settled(i) \in Turn /\ Settled(i).key = turns[i].key
        /\ Settled(i).status = "complete" /\ Settled(i).text = t
    BY <1>1, <2>2, <2>3 DEF Turn
  <2> QED BY <1>7, <2>2, <2>4
<1> QED BY <1>6, <1>7

LEMMA PollEndTurns ==
  ASSUME Told, PollEnd
  PROVE  /\ DOMAIN turns' = DOMAIN turns /\ turns' \in Seq(Turn) /\ Len(turns') = Len(turns)
         /\ \A i \in DOMAIN turns : turns'[i] = Settled(i)
<1>1. turns' = [i \in DOMAIN turns |-> Settled(i)]
  BY DEF PollEnd, Settled
<1>2. turns \in Seq(Turn) /\ DOMAIN turns = 1 .. Len(turns) /\ Len(turns) \in Nat
  BY DEF Told
<1>3. \A i \in 1 .. Len(turns) : Settled(i) \in Turn
  BY <1>2, SettledFacts
<1>4. turns' = [i \in 1 .. Len(turns) |-> Settled(i)]
  BY <1>1, <1>2
<1>5. turns' \in Seq(Turn) /\ Len(turns') = Len(turns)
  BY <1>2, <1>3, <1>4
<1> QED BY <1>1, <1>5

LEMMA ShownPollEnd ==
  ASSUME Lined, Flight, Told, PollEnd
  PROVE  Told'
<1>1. /\ ui' = "free" /\ ready' = <<>> /\ UNCHANGED <<in_flight, next_id>>
      /\ pending_translations' = [id \in DOMAIN pending_translations \ {r.id : r \in ToSet(ready)} |->
                                    pending_translations[id]]
  BY DEF PollEnd, requestVars
<1>2. /\ DOMAIN turns' = DOMAIN turns /\ turns' \in Seq(Turn) /\ Len(turns') = Len(turns)
      /\ \A i \in DOMAIN turns : turns'[i] = Settled(i)
  BY PollEndTurns
<1>3. /\ DOMAIN pending_translations' = Subscribers
      /\ \A id \in Subscribers : pending_translations'[id] = pending_translations[id] /\ id \in DOMAIN pending_translations
  BY <1>1 DEF Told, ReadyIds
<1>4. Subscribers' = Subscribers /\ ReadyIds' = {} /\ ToSet(ready') = {}
  BY <1>1, EmptyLine DEF Subscribers, ReadyIds
<1>5. ASSUME NEW id \in Subscribers
      PROVE  /\ pending_translations[id] \in DOMAIN turns
             /\ turns'[pending_translations[id]] = turns[pending_translations[id]]
             /\ turns[pending_translations[id]].status = "pending"
             /\ id \in Nat /\ id < next_id
  <2> DEFINE i == pending_translations[id]
  <2>1. i \in DOMAIN turns /\ turns[i].status = "pending" /\ id \in Nat /\ id < next_id
    BY <1>3 DEF Told
  <2>2. Results(i) = {}
    <3>1. SUFFICES ASSUME Results(i) # {} PROVE FALSE
      OBVIOUS
    <3>2. PICK other \in ReadyIds : pending_translations[other] = i
      BY <2>1, <3>1, SettledFacts
    <3>3. other = id
      BY <1>3, <3>2 DEF Told
    <3> QED BY <3>2, <3>3 DEF Told
  <2>3. Settled(i) = turns[i]
    BY <2>1, <2>2, SettledFacts
  <2> QED BY <1>2, <2>1, <2>3
<1>6. ASSUME NEW i \in DOMAIN turns', turns'[i].status = "pending"
      PROVE  \E id \in Subscribers : pending_translations'[id] = i
  <2>1. i \in DOMAIN turns /\ turns'[i] = Settled(i)
    BY <1>2
  <2>2. Results(i) = {} /\ turns[i].status = "pending"
    BY <1>6, <2>1, SettledFacts
  <2>3. PICK id \in DOMAIN pending_translations : pending_translations[id] = i
    BY <2>1, <2>2 DEF Told
  <2>4. id \notin ReadyIds
    BY <2>1, <2>2, <2>3, SettledFacts
  <2>5. id \in Subscribers
    BY <2>4 DEF Told
  <2> QED BY <1>3, <2>3, <2>5
<1>7. ASSUME NEW l \in DOMAIN in_flight, NEW id \in Subscribed(l)
      PROVE  turns'[pending_translations'[id]].key = l
  <2>1. id \in Subscribers
    BY DEF Subscribers, Subscribed
  <2> QED BY <1>3, <1>5, <2>1 DEF Told
<1>8. ready' \in Seq(Result)
  BY <1>1
<1>9. \A a, b \in Subscribers : pending_translations'[a] = pending_translations'[b] => a = b
  BY <1>3 DEF Told
<1>10. /\ turns' \in Seq(Turn) /\ Len(turns') <= MaxTurns
       /\ DOMAIN pending_translations' = Subscribers' \cup ReadyIds' /\ Subscribers' \cap ReadyIds' = {}
  BY <1>2, <1>3, <1>4 DEF Told
<1>11. \A id \in DOMAIN pending_translations' :
         /\ id \in Nat /\ id < next_id'
         /\ pending_translations'[id] \in DOMAIN turns'
         /\ turns'[pending_translations'[id]].status = "pending"
  BY <1>1, <1>2, <1>3, <1>5
<1>12. \A l \in DOMAIN in_flight' : \A id \in Subscribed(l)' : turns'[pending_translations'[id]].key = l
  BY <1>1, <1>7 DEF Subscribed
<1>13. \A r \in ToSet(ready') : r.text \in {turns'[pending_translations'[r.id]].key, NoText}
  BY <1>4
<1>14. \A i \in DOMAIN turns' : turns'[i].status = "pending" =>
         \E id \in DOMAIN pending_translations' : pending_translations'[id] = i
  BY <1>3, <1>6
<1>15. \A a, b \in DOMAIN pending_translations' :
         pending_translations'[a] = pending_translations'[b] => a = b
  BY <1>3, <1>9
<1> QED BY <1>1, <1>8, <1>10, <1>11, <1>12, <1>13, <1>14, <1>15 DEF Told

LEMMA ShownForgotten ==
  ASSUME Told, Forget, ui # "polling"
  PROVE  Told'
<1>1. /\ turns' = <<>> /\ DOMAIN pending_translations' = {} /\ DOMAIN in_flight' = {} /\ ready' = <<>>
  BY DEF Forget, Empty, Told
<1>2. /\ turns' \in Seq(Turn) /\ Len(turns') = 0 /\ DOMAIN turns' = {} /\ ready' \in Seq(Result)
      /\ ToSet(ready') = {}
  BY <1>1, EmptyLine
<1>3. Subscribers' = {} /\ ReadyIds' = {}
  BY <1>1, <1>2 DEF Subscribers, ReadyIds
<1>4. MaxTurns \in Nat
  BY TranslatorAssumption
<1> QED BY <1>1, <1>2, <1>3, <1>4 DEF Told

-----------------------------------------------------------------------------
(* IInv is inductive *)

LEMMA IInvInit == Init => IInv
<1> SUFFICES ASSUME Init PROVE IInv
  OBVIOUS
<1>1. /\ <<>> \in Seq(Request) /\ Len(<<>>) = 0 /\ Rising(<<>>) /\ ToSet(<<>>) = {}
      /\ \A t : Before(<<>>, t) /\ Before(t, <<>>)
  BY EmptyLine
<1>2. /\ queue = <<>> /\ job = <<>> /\ channel = <<>> /\ cache = <<>> /\ ready = <<>> /\ turns = <<>>
      /\ worker \in {"idle", "stopped"} /\ generation = 0 /\ next_id = 1 /\ ui = "free" /\ closed \in BOOLEAN
      /\ DOMAIN in_flight = {} /\ DOMAIN pending = {} /\ DOMAIN pending_translations = {}
      /\ pending_turns = 0 /\ pending_bytes = 0
  BY DEF Init, Empty
<1>3. /\ QueueCap \in Nat /\ ChannelCap \in Nat /\ MaxIds \in Nat \ {0} /\ MaxGeneration \in Nat
      /\ MaxPendingTurns \in Nat /\ MaxPendingBytes \in Nat /\ MaxTurns \in Nat
      /\ MaxCacheEntries \in Nat /\ MaxCacheBytes \in Nat
  BY TranslatorAssumption
<1>4. UnderWay = {}
  BY <1>1, <1>2 DEF UnderWay
<1>5. Lined
  BY <1>1, <1>2, <1>3, <1>4 DEF Lined
<1>6. Awaited
  BY <1>2, <1>3 DEF Awaited
<1>7. Subscribers = {} /\ ReadyIds = {}
  BY <1>1, <1>2 DEF Subscribers, ReadyIds
<1>8. Flight
  <2>1. IsFiniteSet({}) /\ Cardinality({}) = 0
    BY FS_EmptySet
  <2>2. SumOf(KeyCosts, {}) = 0
    BY SumEmpty
  <2> QED BY <1>2, <1>3, <1>7, <2>1, <2>2 DEF Flight
<1>9. Told
  <2>1. turns \in Seq(Turn) /\ Len(turns) = 0 /\ DOMAIN turns = {} /\ ready \in Seq(Result) /\ ToSet(ready) = {}
    BY <1>1, <1>2
  <2> QED BY <1>2, <1>3, <1>7, <2>1 DEF Told
<1>10. Cached(cache)
  <2>1. cache \in Seq(Entry) /\ Len(cache) = 0 /\ DOMAIN cache = {}
    BY <1>1, <1>2
  <2>2. KeysOf(cache) = {}
    BY <2>1 DEF KeysOf
  <2>3. CacheBytes(cache) = 0
    BY <2>1, <2>2, KeysOfFinite, SumEmpty
  <2> QED BY <1>3, <2>1, <2>3 DEF Cached, Distinct
<1> QED BY <1>5, <1>6, <1>8, <1>9, <1>10 DEF IInv

\* The next number stays one of the model, whether or not one is taken.
LEMMA NextNumber ==
  ASSUME NEW n \in 1 .. MaxIds + 1, NEW m, m = n \/ (m = n + 1 /\ n <= MaxIds)
  PROVE  m \in 1 .. MaxIds + 1 /\ m >= n /\ m \in Nat /\ n \in Nat
BY TranslatorAssumption

\* A turn that gets its text at once, or none: only a number may be taken.
LEMMA RecordStep ==
  ASSUME IInv, NEW k \in Keys, NotRequested(k) \/ FromCache(k) \/ Refused(k) \/ NotQueued(k)
  PROVE  IInv'
<1> USE DEF IInv
<1>1. /\ UNCHANGED <<channel, job, worker, queue, closed, generation, ui, ready, pending, in_flight,
                     pending_turns, pending_bytes, pending_translations>>
      /\ next_id' = next_id \/ (next_id' = next_id + 1 /\ next_id <= MaxIds)
  <2>1. CASE NotRequested(k) \/ FromCache(k) \/ Refused(k)
    BY <2>1 DEF NotRequested, FromCache, Refused, Record, workerVars, requestVars
  <2>2. CASE NotQueued(k)
    <3>1. Numbered(k) /\ Record(k, "complete", NoText)
      BY <2>2 DEF NotQueued
    <3> QED BY <2>2, <3>1 DEF NotQueued, Record, Numbered, workerVars
  <2> QED BY <2>1, <2>2
<1>2. next_id' \in 1 .. MaxIds + 1 /\ next_id' >= next_id /\ next_id' \in Nat
  <2>1. next_id \in 1 .. MaxIds + 1
    BY Zenon DEF Lined
  <2> QED BY <1>1, <2>1, NextNumber, Zenon
<1>3. Lined'
  BY <1>1, <1>2, LinedStays
<1>4. Awaited'
  BY <1>1 DEF Awaited, Awaits, UnderWay, ToSet, IsCurrent
<1>5. Flight'
  BY <1>1, <1>2, FlightStays
<1>6. Cached(cache)'
  <2>1. CASE FromCache(k)
    <3>1. k \in CachedKeys /\ cache' = Touched(k)
      BY <2>1 DEF FromCache
    <3> QED BY <3>1, TouchedCached
  <2>2. CASE ~ FromCache(k)
    <3>1. cache' = cache
      BY <2>2 DEF NotRequested, Refused, NotQueued, Numbered
    <3> QED BY <3>1 DEF Cached, Distinct, CacheBytes, KeysOf
  <2> QED BY <2>1, <2>2
<1>7. \E e \in Turn : e.status # "pending" /\ turns' = Append(turns, e) /\ Len(turns) < MaxTurns
  <2>1. CASE FromCache(k)
    <3>1. k \in CachedKeys /\ Distinct(cache) /\ Record(k, "complete", CachedText(k))
      BY <2>1 DEF FromCache, Cached
    <3>2. CachedText(k) = k
      BY <3>1, CachedTextFacts
    <3>3. [key |-> k, status |-> "complete", text |-> k] \in Turn
      BY DEF Turn
    <3> QED BY <3>1, <3>2, <3>3 DEF Record
  <2>2. CASE ~ FromCache(k)
    <3>1. \E status \in {"not_requested", "complete"} : Record(k, status, NoText)
      BY <2>2 DEF NotRequested, Refused, NotQueued
    <3> QED BY <3>1 DEF Record, Turn
  <2> QED BY <2>1, <2>2
<1>8. Told'
  BY <1>1, <1>2, <1>7, ShownAtOnce
<1> QED BY <1>3, <1>4, <1>5, <1>6, <1>8

\* A turn that waits, with a request of its own or for that of an earlier one.
LEMMA WaitingStep ==
  ASSUME IInv, NEW k \in Keys, Merged(k) \/ Queued(k)
  PROVE  IInv'
<1> USE DEF IInv
<1>1. /\ Waiting(k) /\ next_id' = next_id + 1 /\ next_id <= MaxIds /\ cache' = cache
      /\ UNCHANGED <<channel, job, worker, closed, generation, ui>>
  BY DEF Merged, Queued, Numbered, Waiting, Record, workerVars
<1>2. generation \in Nat /\ next_id \in Nat /\ next_id' \in 1 .. MaxIds + 1 /\ next_id' >= next_id
  <2>1. next_id \in 1 .. MaxIds + 1
    BY Zenon DEF Lined
  <2>2. generation \in 0 .. MaxGeneration + 1
    BY Zenon DEF Awaited
  <2>3. generation \in Nat
    BY <2>2, TranslatorAssumption
  <2> QED BY <1>1, <2>1, <2>3, NextNumber, Zenon
<1>3. Cached(cache)'
  BY <1>1 DEF Cached, Distinct, CacheBytes, KeysOf
<1>4. CASE Merged(k)
  <2>1. /\ k \in DOMAIN in_flight /\ UNCHANGED <<queue, pending>>
        /\ in_flight' = Put(in_flight, k, Append(in_flight[k], next_id))
    BY <1>4 DEF Merged
  <2>2. Lined'
    BY <1>1, <1>2, <2>1, LinedStays
  <2>3. Awaited'
    BY <1>1, <2>1 DEF Awaited, Awaits, UnderWay, ToSet, IsCurrent
  <2>4. Flight' /\ Subscribers' = Subscribers \cup {next_id}
    BY <1>4, FlightMerged
  <2>5. /\ DOMAIN in_flight' = DOMAIN in_flight \cup {k} /\ in_flight'[k] = Append(in_flight[k], next_id)
        /\ \A l \in DOMAIN in_flight : l # k => in_flight'[l] = in_flight[l]
    BY <2>1 DEF Put
  <2>6. Subscribed(k)' = {next_id} \cup (IF k \in DOMAIN in_flight THEN Subscribed(k) ELSE {})
    <3>1. in_flight[k] \in Seq(Nat)
      BY <2>1 DEF Flight, Waits
    <3>2. ToSet(Append(in_flight[k], next_id)) = ToSet(in_flight[k]) \cup {next_id}
      BY <1>2, <3>1, AppendLine
    <3> QED BY <2>1, <2>5, <3>2 DEF Subscribed
  <2>7. Told'
    BY <1>1, <2>4, <2>5, <2>6, ShownWaiting
  <2> QED BY <1>3, <2>2, <2>3, <2>4, <2>7
<1>5. CASE Queued(k)
  <2>1. k \notin DOMAIN in_flight /\ in_flight' = Put(in_flight, k, <<next_id>>)
    BY <1>5 DEF Queued
  <2>2. Lined'
    BY <1>2, <1>5, LinedQueued
  <2>3. Awaited'
    BY <1>5, AwaitedQueued
  <2>4. Flight' /\ Subscribers' = Subscribers \cup {next_id}
    BY <1>5, FlightQueued
  <2>5. /\ DOMAIN in_flight' = DOMAIN in_flight \cup {k} /\ in_flight'[k] = <<next_id>>
        /\ \A l \in DOMAIN in_flight : l # k => in_flight'[l] = in_flight[l]
    BY <2>1 DEF Put
  <2>6. Subscribed(k)' = {next_id} \cup (IF k \in DOMAIN in_flight THEN Subscribed(k) ELSE {})
    <3>1. DOMAIN <<next_id>> = {1} /\ <<next_id>>[1] = next_id
      OBVIOUS
    <3> QED BY <2>1, <2>5, <3>1 DEF Subscribed, ToSet
  <2>7. Told'
    BY <1>1, <2>4, <2>5, <2>6, ShownWaiting
  <2> QED BY <1>3, <2>2, <2>3, <2>4, <2>7
<1> QED BY <1>4, <1>5

LEMMA PollStep ==
  ASSUME IInv, PollOne
  PROVE  IInv'
<1> USE DEF IInv
<1>1. Lined' /\ Awaited'
  BY LinedPoll, AwaitedPoll
<1>2. CASE Head(channel).id \in DOMAIN pending
  <2> DEFINE k == pending[Head(channel).id]
             text == Head(channel).text
  <2>1. /\ k \in Keys /\ cache' = IF text = NoText THEN cache ELSE Inserted(k, text)
        /\ Flight'
    BY <1>2, FlightSettled
  <2>2. Told' /\ text \in {k, NoText}
    BY <1>2, ShownSettled
  <2> HIDE DEF k, text
  <2>3. Cached(cache)'
    <3>1. CASE cache' = cache
      BY <3>1 DEF Cached, Distinct, CacheBytes, KeysOf
    <3>2. CASE cache' = Inserted(k, k)
      BY <2>1, <3>2, InsertedCached
    <3> QED BY <2>1, <2>2, <3>1, <3>2
  <2> QED BY <1>1, <2>1, <2>2, <2>3
<1>3. CASE Head(channel).id \notin DOMAIN pending
  <2>1. UNCHANGED <<cache, in_flight, pending, pending_turns, pending_bytes, next_id, ready, ui, turns,
                    pending_translations>>
    BY <1>3 DEF PollOne, requestVars
  <2>2. Flight'
    BY <2>1 DEF Flight, Waits, Subscribed, Subscribers
  <2>3. Told'
    <3>1. ui' # "polling" => ready = <<>>
      BY <2>1 DEF Told
    <3> QED BY <2>1, <3>1, ShownStays
  <2>4. Cached(cache)'
    BY <2>1 DEF Cached, Distinct, CacheBytes, KeysOf
  <2> QED BY <1>1, <2>2, <2>3, <2>4
<1> QED BY <1>2, <1>3

LEMMA ForgetStep ==
  ASSUME IInv, Reset \/ Close \/ DropFields
  PROVE  IInv'
<1> USE DEF IInv
<1>1. /\ UNCHANGED <<worker, job, next_id>> /\ channel' \in {<<>>, channel} /\ queue' \in {<<>>, queue}
      /\ ui # "polling"
  BY DEF Reset, Close, DropFields, Abandon, Forget, queueVars, workerVars, requestVars
<1>2. Lined' /\ Awaited'
  BY <1>1, LinedEmptied, AwaitedForgotten
<1>3. CASE Reset \/ DropFields
  <2>1. Forget
    BY <1>3 DEF Reset, DropFields
  <2>2. Flight' /\ Told'
    BY <1>1, <2>1, FlightForgotten, ShownForgotten DEF Forget
  <2>3. Cached(cache)'
    <3>1. cache' = <<>> /\ <<>> \in Seq(Entry) /\ Len(<<>>) = 0 /\ DOMAIN <<>> = {}
      BY <2>1 DEF Forget
    <3>2. KeysOf(<<>>) = {}
      BY <3>1 DEF KeysOf
    <3>3. CacheBytes(<<>>) = 0
      BY <3>1, <3>2, KeysOfFinite, SumEmpty
    <3>4. Cached(<<>>)
      BY <3>1, <3>3, TranslatorAssumption DEF Cached, Distinct
    <3> QED BY <3>1, <3>4
  <2> QED BY <1>2, <2>2, <2>3
<1>4. CASE Close
  <2>1. /\ ui = "free" /\ ui' = "closing"
        /\ UNCHANGED <<cache, in_flight, pending, pending_turns, pending_bytes, next_id, ready, turns,
                       pending_translations>>
    BY <1>4 DEF Close, requestVars, appVars
  <2>2. Flight'
    BY <2>1 DEF Flight, Waits, Subscribed, Subscribers
  <2>3. Told'
    <3>1. ready = <<>>
      BY <2>1 DEF Told
    <3> QED BY <2>1, <3>1, ShownStays
  <2>4. Cached(cache)'
    BY <2>1 DEF Cached, Distinct, CacheBytes, KeysOf
  <2> QED BY <1>2, <2>2, <2>3, <2>4
<1> QED BY <1>3, <1>4

\* The poll begins or ends, the worker works, or nothing happens.
LEMMA OtherStep ==
  ASSUME IInv, PollBegin \/ PollEnd \/ Worker \/ UNCHANGED vars
  PROVE  IInv'
<1> USE DEF IInv
<1>1. UNCHANGED <<cache, in_flight, pending, pending_turns, pending_bytes, next_id>>
  BY DEF PollBegin, PollEnd, Worker, Receive, StopReceiving, Call, Answer, Compare, Send, SendFails,
         Goes, requestVars, vars
<1>2. Flight' /\ Cached(cache)'
  BY <1>1 DEF Flight, Waits, Subscribed, Subscribers, Cached, Distinct, CacheBytes, KeysOf
<1>3. CASE Worker
  <2>1. UNCHANGED <<ui, ready, turns, pending_translations>>
    BY <1>3 DEF Worker, Receive, StopReceiving, Call, Answer, Compare, Send, SendFails, Goes, appVars
  <2>2. Told'
    <3>1. ui' # "polling" => ready = <<>>
      BY <2>1 DEF Told
    <3> QED BY <1>1, <2>1, <3>1, ShownStays
  <2> QED BY <1>2, <1>3, <2>2, AwaitedWorker
<1>4. CASE PollBegin \/ PollEnd \/ UNCHANGED vars
  <2>1. /\ UNCHANGED <<channel, job, worker, queue, closed, generation>>
        /\ ui' = ui \/ (ui = "free" /\ ui' = "polling") \/ (ui = "polling" /\ ui' = "free")
    BY <1>4 DEF PollBegin, PollEnd, queueVars, workerVars, vars
  <2>2. Lined'
    BY <1>1, <2>1 DEF Lined, Rising, Before, UnderWay, ToSet
  <2>3. Awaited'
    BY <1>1, <2>1 DEF Awaited, Awaits, UnderWay, ToSet, IsCurrent
  <2>4. CASE PollEnd
    BY <1>2, <2>2, <2>3, <2>4, ShownPollEnd
  <2>5. CASE ~ PollEnd
    <3>1. UNCHANGED <<ready, turns, pending_translations>> /\ (ui' # "polling" => ui # "polling")
      BY <1>4, <2>5 DEF PollBegin, vars, appVars
    <3>2. Told'
      <4>1. ui' # "polling" => ready = <<>>
        BY <3>1 DEF Told
      <4> QED BY <1>1, <3>1, <4>1, ShownStays
    <3> QED BY <1>2, <2>2, <2>3, <3>2
  <2> QED BY <2>4, <2>5
<1> QED BY <1>3, <1>4

LEMMA IInvNext == IInv /\ [Next]_vars => IInv'
<1> SUFFICES ASSUME IInv, [Next]_vars PROVE IInv'
  OBVIOUS
<1>1. CASE FinishTurn
  <2>1. PICK k \in Keys : NotRequested(k) \/ FromCache(k) \/ Refused(k) \/ Merged(k) \/ Queued(k) \/ NotQueued(k)
    BY <1>1 DEF FinishTurn
  <2> QED BY <2>1, RecordStep, WaitingStep
<1>2. CASE PollOne
  BY <1>2, PollStep
<1>3. CASE Reset \/ Close \/ DropFields
  BY <1>3, ForgetStep
<1>4. CASE PollBegin \/ PollEnd \/ Worker \/ Terminated \/ UNCHANGED vars
  BY <1>4, OtherStep DEF Terminated
<1> QED BY <1>1, <1>2, <1>3, <1>4 DEF Next

LEMMA IInvHolds == Spec => []IInv
<1> QED BY IInvInit, IInvNext, PTL DEF Spec

-----------------------------------------------------------------------------
(* Accounted *)

\* The limit on the turns that wait counts every turn that shares a request.
LEMMA TurnsAreCounted ==
  ASSUME Flight
  PROVE  pending_turns = MapThenSumSet(LAMBDA k : Len(in_flight[k]), DOMAIN in_flight)
<1> DEFINE D == DOMAIN in_flight
           Lens == [k \in D |-> Len(in_flight[k])]
           Joined(S) == UNION {Subscribed(k) : k \in S}
           G == {S \in SUBSET D : IsFiniteSet(Joined(S)) /\ Cardinality(Joined(S)) = SumOf(Lens, S)}
<1>1. IsFiniteSet(D) /\ \A k \in D : Lens[k] \in Nat
  BY DEF Flight, Waits
<1>2. ASSUME NEW S \in SUBSET D, \A x \in S : S \ {x} \in G PROVE S \in G
  <2> HIDE DEF Lens
  <2>1. CASE S = {}
    <3>1. Joined(S) = {}
      BY <2>1
    <3>2. SumOf(Lens, S) = 0
      BY <2>1, SumEmpty
    <3> QED BY <3>1, <3>2, FS_EmptySet
  <2>2. CASE S # {}
    <3>1. PICK x \in S : TRUE
      BY <2>2
    <3> DEFINE R == S \ {x}
    <3>2. IsFiniteSet(Joined(R)) /\ Cardinality(Joined(R)) = SumOf(Lens, R)
      BY <1>2, <3>1
    <3>3. IsFiniteSet(Subscribed(x)) /\ Cardinality(Subscribed(x)) = Len(in_flight[x])
      BY <3>1, SubscribedCount
    <3>4. Joined(S) = Joined(R) \cup Subscribed(x)
      BY <3>1
    <3>5. Joined(R) \cap Subscribed(x) = {}
      BY <3>1 DEF Flight
    <3> HIDE DEF Joined, R
    <3>6. /\ IsFiniteSet(Joined(S))
          /\ Cardinality(Joined(S)) = Cardinality(Joined(R)) + Cardinality(Subscribed(x))
      <4>1. /\ IsFiniteSet(Joined(R) \cup Subscribed(x))
            /\ Cardinality(Joined(R) \cup Subscribed(x))
                 = Cardinality(Joined(R)) + Cardinality(Subscribed(x)) - Cardinality(Joined(R) \cap Subscribed(x))
        BY <3>2, <3>3, FS_Union
      <4>2. Cardinality(Joined(R)) \in Nat /\ Cardinality(Subscribed(x)) \in Nat /\ Cardinality({}) = 0
        BY <3>2, <3>3, FS_CardinalityType, FS_EmptySet
      <4>3. Cardinality(Joined(R) \cap Subscribed(x)) = 0
        BY <3>5, <4>2
      <4>4. /\ IsFiniteSet(Joined(S))
            /\ Cardinality(Joined(S))
                 = Cardinality(Joined(R)) + Cardinality(Subscribed(x)) - Cardinality(Joined(R) \cap Subscribed(x))
        BY <3>4, <4>1
      <4> QED BY <4>2, <4>3, <4>4
    <3>7. IsFiniteSet(S) /\ \A k \in S : Lens[k] \in Int
      BY <1>1, FS_Subset
    <3>8. SumOf(Lens, S) = Lens[x] + SumOf(Lens, R)
      BY <3>1, <3>7, SumRemove DEF R
    <3>9. Lens[x] = Len(in_flight[x]) /\ Lens[x] \in Nat /\ Cardinality(Joined(R)) \in Nat
      BY <1>1, <3>1, <3>2, FS_CardinalityType DEF Lens
    <3>10. Cardinality(Joined(S)) = SumOf(Lens, S)
      BY <3>2, <3>3, <3>6, <3>8, <3>9
    <3> QED BY <3>6, <3>10
  <2> QED BY <2>1, <2>2
<1>3. G \in SUBSET (SUBSET D)
  OBVIOUS
<1>4. D \in G
  <2> HIDE DEF G, D
  <2>1. G = SUBSET D
    BY <1>1, <1>2, <1>3, SubsetInduction
  <2> QED BY <2>1
<1>5. pending_turns = SumOf(Lens, D)
  <2>1. Joined(D) = Subscribers
    BY DEF Subscribers, Subscribed
  <2> QED BY <1>4, <2>1 DEF Flight
<1>6. MapThenSumSet(LAMBDA k : Len(in_flight[k]), DOMAIN in_flight) = SumOf(Lens, D)
  <2> DEFINE IsCost(f) == f = [s \in SUBSET D |-> IF s = {} THEN 0 ELSE Len(in_flight[Pick(s)]) + f[s \ {Pick(s)}]]
             iter == CHOOSE f : IsCost(f)
  <2>1. MapThenSumSet(LAMBDA k : Len(in_flight[k]), DOMAIN in_flight) = iter[D]
    BY Zenon DEF MapThenSumSet, MapThenFoldSet, Pick
  <2>2. \A x \in D : Lens[x] \in Int /\ Lens[x] = Len(in_flight[x])
    BY <1>1
  <2> HIDE DEF D, Lens
  <2>3. PICK h : IsSum(Lens, D, h)
    BY <1>1, <2>2, SumDefined
  <2>4. ASSUME NEW f PROVE IsCost(f) <=> IsSum(Lens, D, f)
    <3>1. \A s \in SUBSET D : s # {} => Lens[Pick(s)] = Len(in_flight[Pick(s)])
      BY <2>2 DEF Pick
    <3> QED BY <3>1 DEF IsSum
  <2>5. IsSum(Lens, D, iter)
    BY <2>3, <2>4
  <2>6. SumOf(Lens, D) = iter[D]
    BY <1>1, <2>2, <2>5, SumSame
  <2> QED BY <2>1, <2>6
<1> QED BY <1>5, <1>6

\* The limit on their size counts every request once.
LEMMA BytesAreCounted ==
  ASSUME Flight
  PROVE  pending_bytes = MapThenSumSet(PendingBytes, DOMAIN in_flight)
<1> DEFINE D == DOMAIN in_flight
           IsCost(f) == f = [s \in SUBSET D |-> IF s = {} THEN 0 ELSE PendingBytes(Pick(s)) + f[s \ {Pick(s)}]]
           iter == CHOOSE f : IsCost(f)
<1>1. MapThenSumSet(PendingBytes, D) = iter[D]
  BY Zenon DEF MapThenSumSet, MapThenFoldSet, Pick
<1> HIDE DEF D
<1>2. IsFiniteSet(D) /\ \A x \in D : x \in Keys /\ KeyCosts[x] \in Int
  BY CostTypes DEF Flight, D
<1>3. PICK h : IsSum(KeyCosts, D, h)
  BY <1>2, SumDefined
<1>4. ASSUME NEW f PROVE IsCost(f) <=> IsSum(KeyCosts, D, f)
  <2>1. \A s \in SUBSET D : s # {} => KeyCosts[Pick(s)] = PendingBytes(Pick(s))
    BY <1>2, CostTypes DEF Pick
  <2> QED BY <2>1 DEF IsSum
<1>5. IsSum(KeyCosts, D, iter)
  BY <1>3, <1>4
<1>6. SumOf(KeyCosts, D) = iter[D]
  BY <1>2, <1>5, SumSame
<1> QED BY <1>1, <1>6 DEF Flight, D

\* Two parts of the line, one before the other, are one part.
LEMMA RisingConcat ==
  ASSUME NEW s \in Seq(Request), NEW t \in Seq(Request), Rising(s), Rising(t), Before(s, t)
  PROVE  Rising(s \o t)
<1>1. /\ \A i \in DOMAIN (s \o t) : \/ i \in DOMAIN s /\ (s \o t)[i] = s[i]
                                    \/ i - Len(s) \in DOMAIN t /\ (s \o t)[i] = t[i - Len(s)] /\ i > Len(s)
      /\ DOMAIN s = 1 .. Len(s) /\ Len(s) \in Nat /\ DOMAIN t = 1 .. Len(t) /\ Len(t) \in Nat
      /\ DOMAIN (s \o t) = 1 .. Len(s) + Len(t)
  BY ConcatLine
<1> SUFFICES ASSUME NEW i \in DOMAIN (s \o t), NEW j \in DOMAIN (s \o t), i < j
             PROVE  (s \o t)[i].id < (s \o t)[j].id
  BY DEF Rising
<1> DEFINE c == s \o t
           a == i - Len(s)
           b == j - Len(s)
<1>2. /\ (i \in DOMAIN s /\ c[i] = s[i]) \/ (a \in DOMAIN t /\ c[i] = t[a] /\ i > Len(s))
      /\ (j \in DOMAIN s /\ c[j] = s[j]) \/ (b \in DOMAIN t /\ c[j] = t[b] /\ j > Len(s))
      /\ a < b
  BY <1>1
<1> HIDE DEF c, a, b
<1>3. ~ (i > Len(s) /\ j \in DOMAIN s)
  BY <1>1
<1>4. c[i].id < c[j].id
  BY <1>2, <1>3 DEF Rising, Before
<1> QED BY <1>4 DEF c

\* The line as one sequence.
LEMMA LineFacts ==
  ASSUME Lined
  PROVE  Line \in Seq(Request) /\ Rising(Line) /\ ToSet(Line) = UnderWay
<1>1. /\ channel \in Seq(Request) /\ job \in Seq(Request) /\ queue \in Seq(Request)
      /\ Rising(channel) /\ Rising(queue) /\ Before(channel, job) /\ Before(channel, queue) /\ Before(job, queue)
  BY DEF Lined
<1>2. Rising(job)
  <2>1. CASE worker \in {"idle", "stopped"}
    BY <2>1, IdleJob, EmptyLine
  <2>2. CASE worker \notin {"idle", "stopped"}
    <3>1. job[1] \in Request /\ job = <<job[1]>>
      BY <2>2, BusyJob
    <3> QED BY <3>1, SingleLine
  <2> QED BY <2>1, <2>2
<1> DEFINE first == channel \o job
<1>3. /\ first \in Seq(Request) /\ ToSet(first) = ToSet(channel) \cup ToSet(job)
      /\ \A i \in DOMAIN first : \/ i \in DOMAIN channel /\ first[i] = channel[i]
                                 \/ i - Len(channel) \in DOMAIN job /\ first[i] = job[i - Len(channel)]
  BY <1>1, ConcatLine
<1>4. Rising(first)
  BY <1>1, <1>2, RisingConcat
<1> HIDE DEF first
<1>5. Before(first, queue)
  BY <1>1, <1>3 DEF Before
<1>6. Rising(first \o queue)
  BY <1>1, <1>3, <1>4, <1>5, RisingConcat
<1>7. first \o queue \in Seq(Request) /\ ToSet(first \o queue) = ToSet(first) \cup ToSet(queue)
  BY <1>1, <1>3, ConcatLine
<1> QED BY <1>3, <1>6, <1>7 DEF Line, first, UnderWay

LEMMA IInvTypeOK == IInv => TypeOK
<1> SUFFICES ASSUME IInv PROVE TypeOK
  OBVIOUS
<1> USE DEF IInv
<1>1. pending_turns \in 0 .. MaxPendingTurns /\ DOMAIN pending \subseteq Nat
      /\ \A id \in DOMAIN pending : pending[id] \in Keys
  <2>1. pending_turns \in Nat /\ Subscribers \subseteq Nat
    BY FlightNumbers
  <2>2. ASSUME NEW id \in DOMAIN pending PROVE id \in Nat /\ pending[id] \in Keys
    <3>1. pending[id] \in DOMAIN in_flight /\ in_flight[pending[id]][1] = id
      BY DEF Flight
    <3>2. in_flight[pending[id]] \in Seq(Nat) /\ in_flight[pending[id]] # <<>>
      BY <3>1 DEF Flight, Waits
    <3> QED BY <3>1, <3>2 DEF Flight
  <2> QED BY <2>1, <2>2, TranslatorAssumption DEF Flight
<1>2. pending_bytes \in 0 .. MaxPendingBytes
  <2>1. IsFiniteSet(DOMAIN in_flight) /\ \A k \in DOMAIN in_flight : KeyCosts[k] \in Nat
    BY CostTypes DEF Flight
  <2>2. SumOf(KeyCosts, DOMAIN in_flight) \in Nat
    BY <2>1, SumMonotone
  <2> QED BY <2>2, TranslatorAssumption DEF Flight
<1>3. /\ DOMAIN in_flight \subseteq Keys /\ \A k \in DOMAIN in_flight : in_flight[k] \in Seq(Nat)
  BY DEF Flight, Waits
<1>4. /\ ready \in Seq([id : Nat, text : Keys \cup {NoText}])
      /\ turns \in Seq(Turn) /\ Len(turns) <= MaxTurns
      /\ DOMAIN pending_translations \subseteq Nat
      /\ \A id \in DOMAIN pending_translations : pending_translations[id] \in DOMAIN turns
  BY DEF Told, Result
<1>5. cache \in Seq([key : Keys, text : Keys])
  BY DEF Cached, Distinct, Entry
<1> QED BY <1>1, <1>2, <1>3, <1>4, <1>5 DEF TypeOK, Lined, Awaited

LEMMA IInvAccounted == IInv => Accounted
<1> SUFFICES ASSUME IInv PROVE Accounted
  OBVIOUS
<1>1. TypeOK
  BY IInvTypeOK
<1> USE DEF IInv
<1>2. Counted
  <2>1. {pending_translations[id] : id \in DOMAIN pending_translations}
          = {i \in DOMAIN turns : turns[i].status = "pending"}
    BY DEF Told
  <2> QED BY <1>1, <2>1, TurnsAreCounted, BytesAreCounted DEF Counted, Flight, Told
<1>3. Outstanding
  <2>1. \A i, j \in DOMAIN Line : i < j => Line[i].id < Line[j].id
    BY LineFacts DEF Rising
  <2>2. ui # "closing" => \A id \in DOMAIN pending :
          \E r \in ToSet(Line) : r.id = id /\ r.key = pending[id] /\ IsCurrent(r)
    BY LineFacts DEF Awaited, Awaits
  <2>3. \A k \in DOMAIN in_flight : \E id \in DOMAIN pending : pending[id] = k /\ in_flight[k][1] = id
    BY DEF Flight, Waits
  <2>4. \A a, b \in DOMAIN pending : pending[a] = pending[b] => a = b
    BY DEF Flight
  <2> QED BY <2>1, <2>2, <2>3, <2>4 DEF Outstanding
<1>4. CacheSound
  BY DEF Cached, Distinct, CacheSound
<1> QED BY <1>2, <1>3, <1>4 DEF Accounted

\* Whatever turns are submitted, polled and abandoned, and wherever a reset
\* catches the worker: the limits count what is really retained, every request
\* the user interface waits for is under way once, in order and for the present
\* generation, and the cache answers a key with its own translation only.
THEOREM TranslationAccounted == Spec => []Accounted
<1> QED BY IInvHolds, IInvAccounted, PTL

-----------------------------------------------------------------------------
(* TurnHistory *)

\* A turn that gets its text at once.
LEMMA HistoryRecord ==
  ASSUME IInv, NEW k \in Keys, NEW status \in {"not_requested", "pending", "complete"}, NEW text,
         status = "complete" => text \in {k, NoText}, status # "complete" => text = NoText,
         Record(k, status, text)
  PROVE  History!Record
<1> DEFINE t == [key |-> k, status |-> status, text |-> text]
<1>1. t \in History!Turn /\ t.text \in IF t.status = "complete" THEN {t.key, NoText} ELSE {NoText}
  BY DEF History!Turn
<1>2. turns' = Append(turns, t)
  BY DEF Record
<1> QED BY <1>1, <1>2 DEF History!Record

LEMMA HistoryStep == IInv /\ [Next]_vars => [History!ANext]_turns
<1> SUFFICES ASSUME IInv, [Next]_vars PROVE [History!ANext]_turns
  OBVIOUS
<1>1. CASE FinishTurn
  <2>1. PICK k \in Keys : NotRequested(k) \/ FromCache(k) \/ Refused(k) \/ Merged(k) \/ Queued(k) \/ NotQueued(k)
    BY <1>1 DEF FinishTurn
  <2>2. CASE FromCache(k)
    <3>1. Record(k, "complete", CachedText(k)) /\ CachedText(k) = k
      BY <2>2, CachedTextFacts DEF FromCache, IInv, Cached
    <3> QED BY <3>1, HistoryRecord DEF History!ANext
  <2>3. CASE NotRequested(k)
    BY <2>3, HistoryRecord DEF NotRequested, History!ANext
  <2>4. CASE Refused(k) \/ NotQueued(k)
    <3>1. Record(k, "complete", NoText)
      BY <2>4 DEF Refused, NotQueued
    <3> QED BY <3>1, HistoryRecord DEF History!ANext
  <2>5. CASE Merged(k) \/ Queued(k)
    <3>1. Record(k, "pending", NoText)
      BY <2>5 DEF Merged, Queued, Waiting
    <3> QED BY <3>1, HistoryRecord DEF History!ANext
  <2> QED BY <2>1, <2>2, <2>3, <2>4, <2>5
<1>2. CASE PollEnd
  <2>1. Told
    BY DEF IInv
  <2>2. /\ DOMAIN turns' = DOMAIN turns /\ turns' \in Seq(Turn)
        /\ \A i \in DOMAIN turns : turns'[i] = Settled(i)
    BY <1>2, <2>1, PollEndTurns
  <2>3. ASSUME NEW i \in DOMAIN turns
        PROVE  \/ turns'[i] = turns[i]
               \/ /\ turns[i].status = "pending" /\ turns'[i].key = turns[i].key
                  /\ turns'[i].status = "complete" /\ turns'[i].text \in {turns[i].key, NoText}
    BY <2>1, <2>2, SettledFacts
  <2>4. turns' \in Seq(History!Turn)
    BY <2>2 DEF Turn, History!Turn
  <2>5. History!Settle
    BY <2>2, <2>3, <2>4 DEF History!Settle
  <2> QED BY <2>5 DEF History!ANext
<1>3. CASE Reset \/ DropFields
  <2>1. turns' = <<>>
    BY <1>3 DEF Reset, DropFields, Forget
  <2> QED BY <2>1 DEF History!ANext, History!Clear
<1>4. CASE PollBegin \/ PollOne \/ Close \/ Worker \/ Terminated \/ UNCHANGED vars
  <2>1. turns' = turns
    BY <1>4 DEF PollBegin, PollOne, Close, Worker, Receive, StopReceiving, Call, Answer, Compare, Send,
                SendFails, Goes, Terminated, appVars, vars
  <2> QED BY <2>1
<1> QED BY <1>1, <1>2, <1>3, <1>4 DEF Next

\* The translator with its queue, worker, merged requests and cache implements
\* the history of turns a reader is promised: no turn ever shows a translation
\* that is not its own, whichever story or request an answer comes from.
THEOREM TurnsKeepTheirHistory == Spec => KeepsHistory
<1>1. Init => History!AInit
  BY DEF Init, History!AInit
<1>2. Spec => History!AInit /\ [][History!ANext]_turns
  BY <1>1, HistoryStep, IInvHolds, PTL DEF Spec
<1> QED BY <1>2 DEF KeepsHistory, History!ASpec

-----------------------------------------------------------------------------
(* Canvas: what its operations show.                                         *)

\* The function that Shown is defined by.
IsShown(f, background, operations, p) ==
  f = [k \in 0 .. Len(operations) |-> IF k = 0 THEN <<background>> ELSE Shows(f[k - 1], operations[k], p)]

\* There is such a function.
LEMMA ShownExists ==
  ASSUME NEW background, NEW operations, IsSeq(operations), NEW p
  PROVE  \E f : IsShown(f, background, operations, p)
<1> DEFINE N == Len(operations)
           D == 0 .. N
           Step(f, k) == IF k = 0 THEN <<background>> ELSE Shows(f[k - 1], operations[k], p)
           G == {n \in Nat : \E f : DOMAIN f = D /\ \A k \in D : k <= n => f[k] = Step(f, k)}
<1>0. N \in Nat
  BY DEF IsSeq
<1>1. 0 \in G
  <2> DEFINE f == [k \in D |-> <<background>>]
  <2>1. DOMAIN f = D /\ \A k \in D : k <= 0 => f[k] = Step(f, k)
    BY <1>0
  <2> QED BY <2>1
<1>2. ASSUME NEW n \in G PROVE n + 1 \in G
  <2>1. PICK f : DOMAIN f = D /\ \A k \in D : k <= n => f[k] = Step(f, k)
    OBVIOUS
  <2> DEFINE h == [k \in D |-> Step(f, k)]
  <2>2. ASSUME NEW k \in D, k <= n + 1 PROVE h[k] = Step(h, k)
    <3>1. CASE k = 0
      BY <3>1
    <3>2. CASE k # 0
      <4>1. k - 1 \in D /\ k - 1 <= n
        BY <1>0, <2>2, <3>2
      <4>2. h[k - 1] = f[k - 1]
        BY <2>1, <4>1
      <4>3. h[k] = Step(f, k)
        OBVIOUS
      <4> QED BY <3>2, <4>2, <4>3
    <3> QED BY <3>1, <3>2
  <2>3. DOMAIN h = D
    OBVIOUS
  <2> HIDE DEF h
  <2>4. n + 1 \in Nat
    OBVIOUS
  <2> QED BY <2>2, <2>3, <2>4
<1>3. G = Nat
  <2> HIDE DEF G
  <2>1. G \in SUBSET Nat
    BY DEF G
  <2> QED BY <1>1, <1>2, <2>1, SetInduction
<1>4. PICK f : DOMAIN f = D /\ \A k \in D : k <= N => f[k] = Step(f, k)
  <2>1. N \in G
    BY <1>0, <1>3
  <2> QED BY <2>1
<1>5. \A k \in D : f[k] = Step(f, k)
  BY <1>0, <1>4
<1> DEFINE g == [k \in D |-> f[k]]
<1>6. g = [k \in D |-> Step(g, k)]
  <2>1. \A k \in D : Step(g, k) = Step(f, k)
    <3> SUFFICES ASSUME NEW k \in D, k # 0 PROVE g[k - 1] = f[k - 1]
      OBVIOUS
    <3>1. k - 1 \in D
      BY <1>0
    <3> HIDE DEF D
    <3> QED BY <3>1
  <2> HIDE DEF Step
  <2> QED BY <1>5, <2>1
<1> QED BY <1>6, Zenon DEF IsShown

\* What the operations show, one step at a time.
AreLayers(f, background, operations, p) ==
  /\ f[0] = <<background>>
  /\ \A k \in 1 .. Len(operations) : f[k] = Shows(f[k - 1], operations[k], p)

LEMMA ShownLayers ==
  ASSUME NEW background, NEW operations, IsSeq(operations), NEW p
  PROVE  \E f : /\ AreLayers(f, background, operations, p)
                /\ Shown(background, operations, p) = f[Len(operations)]
<1> DEFINE upto == CHOOSE f : IsShown(f, background, operations, p)
           N == Len(operations)
<1>1. Shown(background, operations, p) = upto[N]
  BY Zenon DEF Shown, IsShown
<1>2. IsShown(upto, background, operations, p)
  BY ShownExists, Zenon
<1>3. N \in Nat
  BY DEF IsSeq
<1> HIDE DEF upto, N
<1>4. 0 \in 0 .. N /\ \A k \in 1 .. N : k \in 0 .. N /\ k # 0
  BY <1>3
<1>5. upto[0] = <<background>>
  BY <1>2, <1>4, Zenon DEF IsShown, N
<1>6. \A k \in 1 .. N : upto[k] = Shows(upto[k - 1], operations[k], p)
  BY <1>2, <1>4, Zenon DEF IsShown, N
<1> QED BY <1>1, <1>5, <1>6, Zenon DEF AreLayers, N

\* Whatever is under it, the operation shows the same.
Hides(o, p) == \A u, v : Shows(u, o, p) = Shows(v, o, p)
Alike(o, e, p) == \A u : Shows(u, o, p) = Shows(u, e, p)

\* They show the same, where one background is the other or nothing shows through one of them.
AreAlike(b, q, d, r, n, p) ==
  /\ n \in Nat /\ n <= Len(q) /\ n <= Len(r) /\ Len(q) \in Nat /\ Len(r) \in Nat
  /\ \A k \in 1 .. n : Alike(q[k], r[k], p)
  /\ b = d \/ \E k \in 1 .. n : Hides(q[k], p)

LEMMA LayersAgree ==
  ASSUME NEW b, NEW q, NEW d, NEW r, NEW n, NEW p, AreAlike(b, q, d, r, n, p),
         NEW f, AreLayers(f, b, q, p), NEW g, AreLayers(g, d, r, p)
  PROVE  f[n] = g[n]
<1>0. /\ n \in Nat /\ n <= Len(q) /\ n <= Len(r) /\ Len(q) \in Nat /\ Len(r) \in Nat
      /\ \A k \in 1 .. n : Alike(q[k], r[k], p)
      /\ b = d \/ \E k \in 1 .. n : Hides(q[k], p)
  BY DEF AreAlike
<1> DEFINE Hidden(m) == b = d \/ \E k \in 1 .. m : Hides(q[k], p)
           G == {m \in Nat : m <= n => (Hidden(m) => f[m] = g[m])}
<1>1. 0 \in G
  BY DEF AreLayers
<1>2. ASSUME NEW m \in G PROVE m + 1 \in G
  <2> SUFFICES ASSUME m + 1 <= n, Hidden(m + 1) PROVE f[m + 1] = g[m + 1]
    OBVIOUS
  <2>1. m + 1 \in 1 .. n /\ m + 1 \in 1 .. Len(q) /\ m + 1 \in 1 .. Len(r) /\ m + 1 - 1 = m /\ m <= n
    BY <1>0
  <2>2. f[m + 1] = Shows(f[m], q[m + 1], p) /\ g[m + 1] = Shows(g[m], r[m + 1], p)
    BY <2>1 DEF AreLayers
  <2>3. Shows(g[m], q[m + 1], p) = Shows(g[m], r[m + 1], p)
    BY <1>0, <2>1 DEF Alike
  <2>4. CASE Hidden(m)
    <3>1. f[m] = g[m]
      BY <2>1, <2>4
    <3> QED BY <2>2, <2>3, <3>1
  <2>5. CASE Hides(q[m + 1], p)
    <3>1. Shows(f[m], q[m + 1], p) = Shows(g[m], q[m + 1], p)
      BY <2>5, Zenon DEF Hides
    <3> QED BY <2>2, <2>3, <3>1
  <2>6. Hidden(m) \/ Hides(q[m + 1], p)
    <3>1. \A k \in 1 .. m + 1 : k \in 1 .. m \/ k = m + 1
      OBVIOUS
    <3> QED BY <3>1, Zenon
  <2> QED BY <2>4, <2>5, <2>6
<1>3. G = Nat
  <2> HIDE DEF G
  <2>1. G \in SUBSET Nat
    BY DEF G
  <2> QED BY <1>1, <1>2, <2>1, SetInduction
<1>4. n \in G
  BY <1>0, <1>3
<1> QED BY <1>0, <1>4

\* Operations that show the same one by one show the same together, on the same
\* background, or where one of them lets nothing through.
LEMMA ShownAgree ==
  ASSUME NEW b, NEW d, NEW q, NEW r, IsSeq(q), IsSeq(r), NEW p, Len(q) = Len(r),
         \A k \in 1 .. Len(q) : Alike(q[k], r[k], p),
         b = d \/ \E k \in 1 .. Len(q) : Hides(q[k], p)
  PROVE  Shown(b, q, p) = Shown(d, r, p)
<1>1. PICK f : AreLayers(f, b, q, p) /\ Shown(b, q, p) = f[Len(q)]
  BY ShownLayers, Zenon
<1>2. PICK g : AreLayers(g, d, r, p) /\ Shown(d, r, p) = g[Len(r)]
  BY ShownLayers, Zenon
<1>3. AreAlike(b, q, d, r, Len(q), p)
  <2>1. Len(q) \in Nat /\ Len(r) \in Nat
    BY DEF IsSeq
  <2> QED BY <2>1 DEF AreAlike
<1>4. f[Len(q)] = g[Len(q)]
  BY <1>1, <1>2, <1>3, LayersAgree
<1> QED BY <1>1, <1>2, <1>4

LEMMA ShownAppend ==
  ASSUME NEW b, NEW q, IsSeq(q), NEW o, NEW p
  PROVE  Shown(b, Append(q, o), p) = Shows(Shown(b, q, p), o, p)
<1> DEFINE r == Append(q, o)
           N == Len(q)
<1>1. IsSeq(r) /\ N \in Nat /\ Len(r) = N + 1 /\ (\A k \in 1 .. N : r[k] = q[k]) /\ r[N + 1] = o
  BY AppendIsSeq
<1> HIDE DEF r, N
<1>2. PICK f : AreLayers(f, b, q, p) /\ Shown(b, q, p) = f[N]
  BY ShownLayers, Zenon DEF N
<1>3. PICK g : AreLayers(g, b, r, p) /\ Shown(b, r, p) = g[N + 1]
  BY <1>1, ShownLayers, Zenon
<1>4. f[N] = g[N]
  <2>1. AreAlike(b, q, b, r, N, p)
    <3>1. N \in Nat /\ N <= Len(q) /\ N <= Len(r) /\ Len(q) \in Nat /\ Len(r) \in Nat
      BY <1>1 DEF N
    <3> QED BY <1>1, <3>1 DEF AreAlike, Alike
  <2> QED BY <1>2, <1>3, <2>1, LayersAgree
<1>5. g[N + 1] = Shows(g[N], r[N + 1], p)
  <2>1. PICK k \in 1 .. Len(r) : k = N + 1 /\ k - 1 = N
    BY <1>1
  <2>2. g[k] = Shows(g[k - 1], r[k], p)
    BY <1>3, Zenon DEF AreLayers
  <2> QED BY <2>1, <2>2
<1> QED BY <1>1, <1>2, <1>3, <1>4, <1>5 DEF r

\* What is left out does not matter where it shows nothing.
LEMMA ShownRetain ==
  ASSUME NEW b, NEW q, IsSeq(q), NEW kept, NEW p,
         \A k \in 1 .. Len(q) : k \notin kept => \A u : Shows(u, q[k], p) = u
  PROVE  /\ Shown(b, Retain(q, kept), p) = Shown(b, q, p)
         /\ IsSeq(Retain(q, kept))
<1>1. PICK S : q \in Seq(S)
  BY DEF IsSeq
<1> DEFINE upto == CHOOSE f : IsUpto(f, q, kept)
           N == Len(q)
<1>2. Retain(q, kept) = upto[N]
  BY Zenon DEF Retain, IsUpto
<1>3. IsUpto(upto, q, kept)
  BY <1>1, UptoExists
<1>4. PICK f : AreLayers(f, b, q, p) /\ Shown(b, q, p) = f[N]
  BY ShownLayers, Zenon
<1>5. N \in Nat
  BY <1>1
<1> HIDE DEF upto
<1> DEFINE G == {n \in Nat : n <= N => IsSeq(upto[n]) /\ Shown(b, upto[n], p) = f[n]}
<1>6. 0 \in G
  <2> DEFINE none == <<>>
  <2>1. upto[0] = none
    BY <1>3, <1>5 DEF IsUpto
  <2>2. IsSeq(none) /\ Len(none) = 0
    <3>1. none \in Seq({}) /\ Len(none) = 0
      OBVIOUS
    <3> QED BY <3>1 DEF IsSeq
  <2> HIDE DEF none
  <2>3. PICK g : AreLayers(g, b, none, p) /\ Shown(b, none, p) = g[Len(none)]
    BY <2>2, ShownLayers, Zenon
  <2>4. g[0] = f[0]
    BY <1>4, <2>3 DEF AreLayers
  <2> QED BY <2>1, <2>2, <2>3, <2>4
<1>7. ASSUME NEW n \in G PROVE n + 1 \in G
  <2> SUFFICES ASSUME n + 1 <= N PROVE IsSeq(upto[n + 1]) /\ Shown(b, upto[n + 1], p) = f[n + 1]
    OBVIOUS
  <2>1. n + 1 \in 0 .. N /\ n + 1 # 0 /\ n + 1 - 1 = n /\ n + 1 \in 1 .. N /\ n <= N
    BY <1>5
  <2>2. IsSeq(upto[n]) /\ Shown(b, upto[n], p) = f[n]
    BY <2>1
  <2>3. upto[n + 1] = IF n + 1 \in kept THEN Append(upto[n], q[n + 1]) ELSE upto[n]
    <3>1. \A m \in 0 .. N : m # 0 =>
            upto[m] = IF m \in kept THEN Append(upto[m - 1], q[m]) ELSE upto[m - 1]
      BY <1>3, Zenon DEF IsUpto
    <3>2. upto[n + 1] = IF n + 1 \in kept THEN Append(upto[n + 1 - 1], q[n + 1]) ELSE upto[n + 1 - 1]
      BY <2>1, <3>1
    <3> QED BY <2>1, <3>2
  <2>4. f[n + 1] = Shows(f[n], q[n + 1], p)
    BY <1>4, <2>1 DEF AreLayers
  <2>5. CASE n + 1 \in kept
    <3>1. IsSeq(Append(upto[n], q[n + 1]))
      BY <2>2, AppendIsSeq
    <3>2. Shown(b, Append(upto[n], q[n + 1]), p) = Shows(Shown(b, upto[n], p), q[n + 1], p)
      BY <2>2, ShownAppend
    <3> QED BY <2>2, <2>3, <2>4, <2>5, <3>1, <3>2
  <2>6. CASE n + 1 \notin kept
    <3>1. Shows(f[n], q[n + 1], p) = f[n]
      BY <2>1, <2>6
    <3> QED BY <2>2, <2>3, <2>4, <2>6, <3>1
  <2> QED BY <2>5, <2>6
<1>8. G = Nat
  <2> HIDE DEF G
  <2>1. G \in SUBSET Nat
    BY DEF G
  <2> QED BY <1>6, <1>7, <2>1, SetInduction
<1>9. N \in G
  BY <1>5, <1>8
<1> QED BY <1>2, <1>4, <1>5, <1>9

-----------------------------------------------------------------------------
(* Clips, operations and regions.                                            *)

\* A clip within a canvas of this size.
IsClip(clip, size) ==
  /\ clip = <<clip[1], clip[2], clip[3], clip[4]>>
  /\ clip[1] \in Int /\ clip[2] \in Int /\ clip[3] \in Int /\ clip[4] \in Int
  /\ 0 <= clip[1] /\ 0 <= clip[2] /\ clip[3] <= size[1] /\ clip[4] <= size[2]

IsOperation(o, size) ==
  /\ IsClip(o.clip, size)
  /\ o = FillOp(o.clip, o.color) \/ o = ImageOp(o.clip, o.source, o.rect)

IsRegion(l, size) ==
  /\ IsClip(l.clip, size)
  /\ l = [clip |-> l.clip, hyperlink |-> l.hyperlink]

AreOperations(q, size) == IsSeq(q) /\ \A k \in 1 .. Len(q) : IsOperation(q[k], size)
AreRegions(q, size) == IsSeq(q) /\ \A k \in 1 .. Len(q) : IsRegion(q[k], size)

IsCanvas(c) ==
  /\ c = [size |-> c.size, background |-> c.background, operations |-> c.operations,
          cpu_pixels |-> c.cpu_pixels, links |-> c.links]
  /\ c.size \in Nat \X Nat
  /\ AreOperations(c.operations, c.size) /\ AreRegions(c.links, c.size)

\* The canvas shows these pixels, on the graphics card or without one.
Depicts(c, pixels) ==
  /\ IsCanvas(c) /\ Painting(c) = pixels /\ c.cpu_pixels \subseteq {pixels}

LEMMA PointsAreInside ==
  ASSUME NEW size \in Nat \X Nat
  PROVE  /\ IsClip(Bounds(size), size)
         /\ \A p \in Points(size) : /\ p[1] \in Int /\ p[2] \in Int /\ Inside(Bounds(size), p)
                                    /\ 0 <= p[1] /\ p[1] < size[1] /\ 0 <= p[2] /\ p[2] < size[2]
<1>1. size[1] \in Nat /\ size[2] \in Nat
  OBVIOUS
<1>2. IsClip(Bounds(size), size)
  BY <1>1 DEF IsClip, Bounds
<1> SUFFICES ASSUME NEW p \in Points(size)
             PROVE  /\ p[1] \in Int /\ p[2] \in Int /\ Inside(Bounds(size), p)
                    /\ 0 <= p[1] /\ p[1] < size[1] /\ 0 <= p[2] /\ p[2] < size[2]
  BY <1>2
<1>3. p[1] \in 0 .. size[1] - 1 /\ p[2] \in 0 .. size[2] - 1
  BY DEF Points
<1> QED BY <1>1, <1>3 DEF Inside, Bounds

\* The part of a rectangle that is on the canvas.
LEMMA IntersectClips ==
  ASSUME NEW size \in Nat \X Nat, NEW area \in Int \X Int \X Int \X Int
  PROVE  /\ IsClip(Intersect(area, Bounds(size)), size)
         /\ \A p \in Points(size) : Inside(Intersect(area, Bounds(size)), p) <=> Inside(area, p)
<1>1. area[1] \in Int /\ area[2] \in Int /\ area[3] \in Int /\ area[4] \in Int
  OBVIOUS
<1>2. size[1] \in Nat /\ size[2] \in Nat
  OBVIOUS
<1>3. IsClip(Intersect(area, Bounds(size)), size)
  BY <1>1, <1>2 DEF IsClip, Intersect, Bounds
<1>4. ASSUME NEW p \in Points(size)
      PROVE  Inside(Intersect(area, Bounds(size)), p) <=> Inside(area, p)
  <2>1. p[1] \in Int /\ p[2] \in Int /\ 0 <= p[1] /\ p[1] < size[1] /\ 0 <= p[2] /\ p[2] < size[2]
    BY PointsAreInside
  <2> QED BY <1>1, <1>2, <2>1 DEF Inside, Intersect, Bounds
<1> QED BY <1>3, <1>4

LEMMA CoveredIsInside ==
  ASSUME NEW size \in Nat \X Nat, NEW a, IsClip(a, size), NEW b, IsClip(b, size), Covers(a, b),
         NEW p \in Points(size), Inside(b, p)
  PROVE  Inside(a, p)
<1>1. p[1] \in Int /\ p[2] \in Int
  BY PointsAreInside
<1> QED BY <1>1 DEF IsClip, Covers, Inside

LEMMA EmptyIsOutside ==
  ASSUME NEW size \in Nat \X Nat, NEW a, IsClip(a, size), ~ Nonempty(a), NEW p \in Points(size)
  PROVE  ~ Inside(a, p)
<1>1. p[1] \in Int /\ p[2] \in Int
  BY PointsAreInside
<1> QED BY <1>1 DEF IsClip, Nonempty, Inside

LEMMA ShowsOutside ==
  ASSUME NEW o, NEW p, ~ Inside(o.clip, p)
  PROVE  \A u : Shows(u, o, p) = u
BY DEF Shows

\* What is kept are some of the elements.
LEMMA RetainElements ==
  ASSUME NEW q, IsSeq(q), NEW kept
  PROVE  /\ IsSeq(Retain(q, kept))
         /\ \A i \in 1 .. Len(Retain(q, kept)) : \E k \in 1 .. Len(q) : Retain(q, kept)[i] = q[k]
<1>1. PICK S : q \in Seq(S)
  BY DEF IsSeq
<1>2. Retain(q, kept) \in Seq(S) /\ IsRest(Retain(q, kept), q, kept)
  BY <1>1, RetainProperties
<1>3. PICK h : IsPart(Retain(q, kept), q, h)
  BY <1>2 DEF IsRest
<1> QED BY <1>2, <1>3 DEF IsPart, IsSeq

LEMMA RetainOperations ==
  ASSUME NEW size, NEW q, NEW kept
  PROVE  /\ AreOperations(q, size) => AreOperations(Retain(q, kept), size)
         /\ AreRegions(q, size) => AreRegions(Retain(q, kept), size)
<1>1. ASSUME AreOperations(q, size) PROVE AreOperations(Retain(q, kept), size)
  BY <1>1, RetainElements DEF AreOperations
<1>2. ASSUME AreRegions(q, size) PROVE AreRegions(Retain(q, kept), size)
  BY <1>2, RetainElements DEF AreRegions
<1> QED BY <1>1, <1>2

LEMMA AppendOperations ==
  ASSUME NEW size, NEW q, NEW o
  PROVE  /\ AreOperations(q, size) /\ IsOperation(o, size) => AreOperations(Append(q, o), size)
         /\ AreRegions(q, size) /\ IsRegion(o, size) => AreRegions(Append(q, o), size)
<1>1. ASSUME IsSeq(q)
      PROVE  /\ IsSeq(Append(q, o))
             /\ \A k \in 1 .. Len(Append(q, o)) :
                  (k \in 1 .. Len(q) /\ Append(q, o)[k] = q[k]) \/ Append(q, o)[k] = o
  <2>1. /\ IsSeq(Append(q, o)) /\ Len(q) \in Nat /\ Len(Append(q, o)) = Len(q) + 1
        /\ \A k \in 1 .. Len(q) : Append(q, o)[k] = q[k]
        /\ Append(q, o)[Len(q) + 1] = o
    BY <1>1, AppendIsSeq
  <2>2. \A k \in 1 .. Len(q) + 1 : k \in 1 .. Len(q) \/ k = Len(q) + 1
    BY <2>1
  <2> QED BY <2>1, <2>2
<1> QED BY <1>1, Zenon DEF AreOperations, AreRegions

\* One of one operation.
LEMMA SingleIsSeq ==
  ASSUME NEW e
  PROVE  /\ IsSeq(<<e>>) /\ Len(<<e>>) = 1 /\ <<e>>[1] = e
         /\ \A k \in 1 .. Len(<<e>>) : <<e>>[k] = e
<1> DEFINE q == <<e>>
<1>1. q \in Seq({e}) /\ Len(q) = 1 /\ q[1] = e
  OBVIOUS
<1> HIDE DEF q
<1>2. IsSeq(q)
  BY <1>1, Zenon DEF IsSeq
<1>3. \A k \in 1 .. Len(q) : q[k] = e
  BY <1>1
<1> QED BY <1>1, <1>2, <1>3 DEF q

LEMMA ShownSingle ==
  ASSUME NEW b, NEW o, NEW p
  PROVE  Shown(b, <<o>>, p) = Shows(<<b>>, o, p)
<1> DEFINE q == <<o>>
<1>1. IsSeq(q) /\ Len(q) = 1 /\ q[1] = o
  BY SingleIsSeq
<1> HIDE DEF q
<1>2. PICK f : AreLayers(f, b, q, p) /\ Shown(b, q, p) = f[Len(q)]
  BY <1>1, ShownLayers, Zenon
<1>3. 1 \in 1 .. Len(q) /\ 1 - 1 = 0
  BY <1>1
<1>4. f[1] = Shows(f[0], q[1], p) /\ f[0] = <<b>>
  BY <1>2, <1>3 DEF AreLayers
<1> QED BY <1>1, <1>2, <1>4 DEF q

-----------------------------------------------------------------------------
(* What is drawn.                                                            *)

LEMMA PushedShows ==
  ASSUME NEW size \in Nat \X Nat, NEW b, NEW q, AreOperations(q, size),
         NEW o, IsOperation(o, size), NEW opaque \in BOOLEAN, NEW p \in Points(size),
         opaque /\ Inside(o.clip, p) => Hides(o, p)
  PROVE  Shown(b, Pushed(q, o, opaque), p) = Shows(Shown(b, q, p), o, p)
<1> DEFINE kept == {k \in DOMAIN q : ~ (opaque /\ Covers(o.clip, q[k].clip))}
           r == Retain(q, kept)
<1>1. IsSeq(q) /\ IsSeq(r)
  BY RetainElements DEF AreOperations
<1>2. Shown(b, Append(r, o), p) = Shows(Shown(b, r, p), o, p)
  BY <1>1, ShownAppend
<1>3. Pushed(q, o, opaque) = Append(r, o)
  BY DEF Pushed
<1> HIDE DEF r
<1>4. CASE opaque /\ Inside(o.clip, p)
  BY <1>2, <1>3, <1>4, Zenon DEF Hides
<1>5. CASE ~ (opaque /\ Inside(o.clip, p))
  <2>1. \A k \in 1 .. Len(q) : k \notin kept => \A u : Shows(u, q[k], p) = u
    <3> SUFFICES ASSUME NEW k \in 1 .. Len(q), k \notin kept PROVE \A u : Shows(u, q[k], p) = u
      OBVIOUS
    <3>1. opaque /\ Covers(o.clip, q[k].clip)
      BY <1>1 DEF IsSeq
    <3>2. ~ Inside(q[k].clip, p)
      BY <1>5, <3>1, CoveredIsInside DEF AreOperations, IsOperation
    <3> QED BY <3>2, ShowsOutside
  <2> HIDE DEF kept
  <2>2. Shown(b, r, p) = Shown(b, q, p)
    BY <1>1, <2>1, ShownRetain DEF r
  <2> QED BY <1>2, <1>3, <2>2
<1> QED BY <1>4, <1>5

LEMMA RasterizeDepicts ==
  ASSUME NEW c, NEW pixels, Depicts(c, pixels)
  PROVE  Rasterize(c) = pixels
<1>1. CASE c.cpu_pixels = {}
  BY <1>1 DEF Rasterize, Depicts
<1>2. CASE c.cpu_pixels # {}
  <2>1. c.cpu_pixels = {pixels}
    BY <1>2 DEF Depicts
  <2>2. \A x \in {pixels} : x = pixels
    OBVIOUS
  <2>3. (CHOOSE x \in {pixels} : TRUE) \in {pixels}
    OBVIOUS
  <2> QED BY <1>2, <2>1, <2>2, <2>3 DEF Rasterize
<1> QED BY <1>1, <1>2

\* Drawing all operations into one image changes nothing that is seen.
LEMMA CompactedDepicts ==
  ASSUME NEW c, NEW pixels, Depicts(c, pixels)
  PROVE  /\ Depicts(Compacted(c), pixels)
         /\ Compacted(c).size = c.size /\ Compacted(c).links = c.links
<1>1. CASE Len(c.operations) <= MaxOperations
  BY <1>1 DEF Compacted
<1>2. CASE ~ Len(c.operations) <= MaxOperations
  <2> DEFINE o == ImageOp(Bounds(c.size), Snapshot(pixels), Bounds(c.size))
             d == [size |-> c.size, background |-> c.background, operations |-> <<o>>,
                   cpu_pixels |-> c.cpu_pixels, links |-> c.links]
  <2>1. Rasterize(c) = pixels
    BY RasterizeDepicts
  <2>2. Compacted(c) = d
    <3>1. Compacted(c) = [c EXCEPT !.operations = <<o>>]
      BY <1>2, <2>1 DEF Compacted
    <3>2. c = [size |-> c.size, background |-> c.background, operations |-> c.operations,
               cpu_pixels |-> c.cpu_pixels, links |-> c.links]
      BY DEF Depicts, IsCanvas
    <3> HIDE DEF o
    <3> QED BY <3>1, <3>2
  <2>3. IsOperation(o, c.size)
    <3>1. IsClip(Bounds(c.size), c.size)
      BY PointsAreInside DEF Depicts, IsCanvas
    <3>2. o.clip = Bounds(c.size) /\ o = ImageOp(o.clip, o.source, o.rect)
      BY DEF ImageOp
    <3> HIDE DEF o
    <3> QED BY <3>1, <3>2 DEF IsOperation
  <2>4. \A p \in Points(c.size) : \A u : Shows(u, o, p) = pixels[p]
    <3>1. \A p \in Points(c.size) : Inside(Bounds(c.size), p)
      BY PointsAreInside DEF Depicts, IsCanvas
    <3> SUFFICES ASSUME NEW p \in Points(c.size) PROVE \A u : Shows(u, o, p) = pixels[p]
      OBVIOUS
    <3> DEFINE bounds == Bounds(c.size)
    <3>2. Inside(bounds, p)
      BY <3>1
    <3> HIDE DEF bounds
    <3>3. ASSUME NEW u PROVE Shows(u, ImageOp(bounds, Snapshot(pixels), bounds), p) = pixels[p]
      BY <3>2 DEF Shows, ImageOp, Snapshot, Blend, Sample
    <3> QED BY <3>3 DEF bounds
  <2> HIDE DEF o
  <2>5. AreOperations(<<o>>, c.size)
    BY <2>3, SingleIsSeq, Zenon DEF AreOperations
  <2>6. IsCanvas(d)
    BY <2>5 DEF IsCanvas, Depicts
  <2>7. Painting(d) = pixels
    <3>1. \A p \in Points(c.size) : Shown(c.background, <<o>>, p) = pixels[p]
      BY <2>4, ShownSingle
    <3>2. pixels = [p \in Points(c.size) |-> pixels[p]]
      BY DEF Depicts, Painting
    <3>3. Painting(d) = [p \in Points(c.size) |-> Shown(c.background, <<o>>, p)]
      BY DEF Painting
    <3> QED BY <3>1, <3>2, <3>3
  <2> QED BY <2>2, <2>6, <2>7 DEF Depicts
<1> QED BY <1>1, <1>2

\* What is pushed is seen on top of what was there.
LEMMA PushDepicts ==
  ASSUME NEW c, IsCanvas(c), NEW o, IsOperation(o, c.size), NEW opaque \in BOOLEAN,
         \A p \in Points(c.size) : opaque /\ Inside(o.clip, p) => Hides(o, p),
         NEW old, Painting(c) = old,
         NEW pixels, pixels = [p \in Points(c.size) |-> Shows(old[p], o, p)],
         c.cpu_pixels \subseteq {pixels}
  PROVE  /\ Depicts(Push(c, o, opaque), pixels)
         /\ Push(c, o, opaque).size = c.size /\ Push(c, o, opaque).links = c.links
<1> DEFINE ops == Pushed(c.operations, o, opaque)
           d == [size |-> c.size, background |-> c.background, operations |-> ops,
                 cpu_pixels |-> c.cpu_pixels, links |-> c.links]
<1>1. Push(c, o, opaque) = Compacted(d)
  <2>1. c = [size |-> c.size, background |-> c.background, operations |-> c.operations,
             cpu_pixels |-> c.cpu_pixels, links |-> c.links]
    BY DEF IsCanvas
  <2>2. [c EXCEPT !.operations = Pushed(@, o, opaque)] = d
    BY <2>1
  <2> QED BY <2>2 DEF Push
<1>2. IsCanvas(d)
  <2>1. AreOperations(ops, c.size)
    BY RetainOperations, AppendOperations, Zenon DEF Pushed, IsCanvas
  <2> HIDE DEF ops
  <2> QED BY <2>1 DEF IsCanvas
<1>3. Painting(d) = pixels
  <2>1. \A p \in Points(c.size) : Shown(c.background, ops, p) = Shows(old[p], o, p)
    <3> SUFFICES ASSUME NEW p \in Points(c.size)
                 PROVE  Shown(c.background, ops, p) = Shows(old[p], o, p)
      OBVIOUS
    <3>1. Shown(c.background, ops, p) = Shows(Shown(c.background, c.operations, p), o, p)
      BY PushedShows DEF IsCanvas
    <3>2. old[p] = Shown(c.background, c.operations, p)
      BY DEF Painting
    <3> QED BY <3>1, <3>2
  <2>2. Painting(d) = [p \in Points(c.size) |-> Shown(c.background, ops, p)]
    BY DEF Painting
  <2> QED BY <2>1, <2>2
<1>4. Depicts(d, pixels)
  BY <1>2, <1>3 DEF Depicts
<1> HIDE DEF d
<1>5. /\ Depicts(Compacted(d), pixels)
      /\ Compacted(d).size = d.size /\ Compacted(d).links = d.links
  BY <1>4, CompactedDepicts
<1> QED BY <1>1, <1>5 DEF d

-----------------------------------------------------------------------------
(* The links of what is drawn.                                               *)

\* The uppermost region at this point has this link.
IsTop(links, p, hyperlink) ==
  \/ \E k \in 1 .. Len(links) :
       /\ Inside(links[k].clip, p) /\ links[k].hyperlink = hyperlink
       /\ \A j \in 1 .. Len(links) : k < j => ~ Inside(links[j].clip, p)
  \/ hyperlink = NoLink /\ \A k \in 1 .. Len(links) : ~ Inside(links[k].clip, p)

LEMMA HyperlinkIsTop ==
  ASSUME NEW c, IsSeq(c.links), NEW p, NEW hyperlink, IsTop(c.links, p, hyperlink)
  PROVE  HyperlinkAt(c, p) = hyperlink
<1> DEFINE q == c.links
           hit == {k \in DOMAIN q : Inside(q[k].clip, p)}
           top == CHOOSE k \in hit : \A j \in hit : j <= k
<1>1. Len(q) \in Nat /\ DOMAIN q = 1 .. Len(q)
  BY DEF IsSeq
<1>2. HyperlinkAt(c, p) = IF hit = {} THEN NoLink ELSE q[top].hyperlink
  BY DEF HyperlinkAt
<1> HIDE DEF q, top
<1>3. CASE hit = {}
  <2>1. \A k \in 1 .. Len(q) : ~ Inside(q[k].clip, p)
    BY <1>1, <1>3
  <2> QED BY <1>2, <1>3, <2>1 DEF IsTop, q
<1>4. CASE hit # {}
  <2>1. PICK k \in 1 .. Len(q) :
          /\ Inside(q[k].clip, p) /\ q[k].hyperlink = hyperlink
          /\ \A j \in 1 .. Len(q) : k < j => ~ Inside(q[j].clip, p)
    BY <1>1, <1>4 DEF IsTop, q
  <2>2. hit \subseteq 1 .. Len(q)
    BY <1>1
  <2>3. k \in hit
    BY <1>1, <2>1
  <2>4. \A j \in hit : j <= k
    BY <1>1, <2>1, <2>2
  <2> HIDE DEF hit
  <2>5. top \in hit /\ \A j \in hit : j <= top
    BY <2>3, <2>4, Zenon DEF top
  <2>6. top = k
    <3>1. top <= k /\ k <= top /\ top \in Int /\ k \in Int
      BY <1>1, <2>2, <2>3, <2>4, <2>5
    <3> QED BY <3>1
  <2> QED BY <1>2, <1>4, <2>1, <2>6
<1> QED BY <1>3, <1>4

LEMMA TopAppend ==
  ASSUME NEW q, IsSeq(q), NEW p, NEW hyperlink, IsTop(q, p, hyperlink), NEW e
  PROVE  IsTop(Append(q, e), p, IF Inside(e.clip, p) THEN e.hyperlink ELSE hyperlink)
<1> DEFINE r == Append(q, e)
           n == Len(q)
<1>1. n \in Nat /\ Len(r) = n + 1 /\ (\A k \in 1 .. n : r[k] = q[k]) /\ r[n + 1] = e
  BY AppendIsSeq
<1> HIDE DEF r, n
<1>2. \A k \in 1 .. n + 1 : k \in 1 .. n \/ k = n + 1
  BY <1>1
<1>3. CASE Inside(e.clip, p)
  <2>1. n + 1 \in 1 .. Len(r) /\ \A j \in 1 .. Len(r) : ~ (n + 1 < j)
    BY <1>1
  <2>2. Inside(r[n + 1].clip, p) /\ r[n + 1].hyperlink = e.hyperlink
    BY <1>1, <1>3
  <2>3. IsTop(r, p, e.hyperlink)
    BY <2>1, <2>2 DEF IsTop
  <2> QED BY <1>3, <2>3 DEF r
<1>4. CASE ~ Inside(e.clip, p)
  <2>1. \A j \in 1 .. n + 1 : Inside(r[j].clip, p) => j \in 1 .. n /\ Inside(q[j].clip, p)
    BY <1>1, <1>2, <1>4
  <2>2. IsTop(r, p, hyperlink)
    <3>1. CASE \E k \in 1 .. n : /\ Inside(q[k].clip, p) /\ q[k].hyperlink = hyperlink
                                 /\ \A j \in 1 .. n : k < j => ~ Inside(q[j].clip, p)
      <4>1. PICK k \in 1 .. n : /\ Inside(q[k].clip, p) /\ q[k].hyperlink = hyperlink
                                /\ \A j \in 1 .. n : k < j => ~ Inside(q[j].clip, p)
        BY <3>1
      <4>2. k \in 1 .. Len(r) /\ Inside(r[k].clip, p) /\ r[k].hyperlink = hyperlink
        BY <1>1, <4>1
      <4>3. \A j \in 1 .. Len(r) : k < j => ~ Inside(r[j].clip, p)
        BY <1>1, <2>1, <4>1
      <4> QED BY <4>2, <4>3 DEF IsTop
    <3>2. CASE hyperlink = NoLink /\ \A k \in 1 .. n : ~ Inside(q[k].clip, p)
      BY <1>1, <2>1, <3>2 DEF IsTop
    <3> QED BY <3>1, <3>2 DEF IsTop, n
  <2> QED BY <1>4, <2>2 DEF r
<1> QED BY <1>3, <1>4

LEMMA TopRetain ==
  ASSUME NEW q, IsSeq(q), NEW p, NEW hyperlink, IsTop(q, p, hyperlink), NEW kept,
         \A k \in 1 .. Len(q) : k \notin kept => ~ Inside(q[k].clip, p)
  PROVE  IsTop(Retain(q, kept), p, hyperlink)
<1> DEFINE r == Retain(q, kept)
<1>1. PICK S : q \in Seq(S)
  BY DEF IsSeq
<1>2. r \in Seq(S) /\ IsRest(r, q, kept)
  BY <1>1, RetainProperties
<1> HIDE DEF r
<1>3. PICK h : /\ IsPart(r, q, h)
               /\ \A j \in 1 .. Len(q) : j \in kept <=> \E i \in 1 .. Len(r) : h[i] = j
  BY <1>2 DEF IsRest
<1>4. /\ \A i \in 1 .. Len(r) : h[i] \in 1 .. Len(q) /\ r[i] = q[h[i]]
      /\ \A i, j \in 1 .. Len(r) : i < j => h[i] < h[j]
  BY <1>3 DEF IsPart
<1>5. CASE \E k \in 1 .. Len(q) : /\ Inside(q[k].clip, p) /\ q[k].hyperlink = hyperlink
                                  /\ \A j \in 1 .. Len(q) : k < j => ~ Inside(q[j].clip, p)
  <2>1. PICK k \in 1 .. Len(q) : /\ Inside(q[k].clip, p) /\ q[k].hyperlink = hyperlink
                                 /\ \A j \in 1 .. Len(q) : k < j => ~ Inside(q[j].clip, p)
    BY <1>5
  <2>2. PICK i \in 1 .. Len(r) : h[i] = k
    BY <1>3, <2>1
  <2>3. Inside(r[i].clip, p) /\ r[i].hyperlink = hyperlink
    BY <1>4, <2>1, <2>2
  <2>4. \A j \in 1 .. Len(r) : i < j => ~ Inside(r[j].clip, p)
    BY <1>4, <2>1, <2>2
  <2>5. IsTop(r, p, hyperlink)
    BY <2>3, <2>4 DEF IsTop
  <2> QED BY <2>5 DEF r
<1>6. CASE hyperlink = NoLink /\ \A k \in 1 .. Len(q) : ~ Inside(q[k].clip, p)
  <2>1. \A i \in 1 .. Len(r) : ~ Inside(r[i].clip, p)
    BY <1>4, <1>6
  <2>2. IsTop(r, p, hyperlink)
    BY <1>6, <2>1 DEF IsTop
  <2> QED BY <2>2 DEF r
<1> QED BY <1>5, <1>6 DEF IsTop

-----------------------------------------------------------------------------
(* What a canvas keeps.                                                      *)

\* The canvas shows these pixels, and has these links.
Faithful(c, pixels, links) ==
  /\ Depicts(c, pixels)
  /\ DOMAIN links = Points(c.size)
  /\ \A p \in Points(c.size) : IsTop(c.links, p, links[p])

LEMMA FaithfulIsEnough ==
  ASSUME NEW c, NEW pixels, NEW links, Faithful(c, pixels, links)
  PROVE  /\ Painting(c) = pixels /\ c.cpu_pixels \subseteq {pixels}
         /\ \A p \in Points(c.size) : HyperlinkAt(c, p) = links[p]
<1>1. IsSeq(c.links)
  BY DEF Faithful, Depicts, IsCanvas, AreRegions
<1> QED BY <1>1, HyperlinkIsTop DEF Faithful, Depicts

\* What an operation makes of the pixels, and of the links.
IsDrawn(after, pixels, c, o) == after = [p \in Points(c.size) |-> Shows(pixels[p], o, p)]
IsClicked(clicks, links, c, o, hyperlink) ==
  clicks = [p \in Points(c.size) |-> IF Inside(o.clip, p) THEN hyperlink ELSE links[p]]
HidesAll(c, o, opaque) ==
  opaque \in BOOLEAN /\ \A p \in Points(c.size) : opaque /\ Inside(o.clip, p) => Hides(o, p)
WithPixels(d, c, cpu) ==
  d = [size |-> c.size, background |-> c.background, operations |-> c.operations,
       cpu_pixels |-> cpu, links |-> c.links]

\* Something is drawn, with its link, on what was there.
LEMMA DrawnIsFaithful ==
  ASSUME NEW c, NEW pixels, NEW links, Faithful(c, pixels, links),
         NEW o, IsOperation(o, c.size), NEW opaque, HidesAll(c, o, opaque),
         NEW hyperlink, NEW after, IsDrawn(after, pixels, c, o),
         NEW clicks, IsClicked(clicks, links, c, o, hyperlink),
         NEW d, NEW cpu, cpu \subseteq {after}, WithPixels(d, c, cpu)
  PROVE  /\ Push(Linked(d, o.clip, hyperlink), o, opaque).size = c.size
         /\ Faithful(Push(Linked(d, o.clip, hyperlink), o, opaque), after, clicks)
<1>0. /\ opaque \in BOOLEAN
      /\ \A p \in Points(c.size) : opaque /\ Inside(o.clip, p) => Hides(o, p)
      /\ after = [p \in Points(c.size) |-> Shows(pixels[p], o, p)]
      /\ clicks = [p \in Points(c.size) |-> IF Inside(o.clip, p) THEN hyperlink ELSE links[p]]
      /\ d = [size |-> c.size, background |-> c.background, operations |-> c.operations,
              cpu_pixels |-> cpu, links |-> c.links]
  BY DEF HidesAll, IsDrawn, IsClicked, WithPixels
<1> DEFINE region == [clip |-> o.clip, hyperlink |-> hyperlink]
           linked == Append(c.links, region)
           l == [size |-> c.size, background |-> c.background, operations |-> c.operations,
                 cpu_pixels |-> cpu, links |-> linked]
           e == Push(l, o, opaque)
<1>1. Linked(d, o.clip, hyperlink) = l
  <2> HIDE DEF region
  <2>1. Linked(d, o.clip, hyperlink) = [d EXCEPT !.links = Append(@, region)]
    BY DEF Linked, region
  <2> QED BY <1>0, <2>1
<1>2. IsCanvas(l)
  <2>1. IsRegion(region, c.size)
    BY DEF IsRegion, IsOperation
  <2> HIDE DEF region
  <2>2. AreRegions(linked, c.size)
    BY <2>1, AppendOperations, Zenon DEF Faithful, Depicts, IsCanvas
  <2> HIDE DEF linked
  <2> QED BY <2>2 DEF IsCanvas, Faithful, Depicts
<1>3. Painting(l) = pixels
  <2>1. Painting(l) = Painting(c)
    BY DEF Painting
  <2> QED BY <2>1 DEF Faithful, Depicts
<1>4. \A p \in Points(c.size) : IsTop(linked, p, clicks[p])
  <2> SUFFICES ASSUME NEW p \in Points(c.size) PROVE IsTop(linked, p, clicks[p])
    OBVIOUS
  <2>1. IsSeq(c.links) /\ IsTop(c.links, p, links[p])
    BY DEF Faithful, Depicts, IsCanvas, AreRegions
  <2>2. IsTop(linked, p, IF Inside(region.clip, p) THEN region.hyperlink ELSE links[p])
    <3> HIDE DEF region
    <3> QED BY <2>1, TopAppend
  <2>3. clicks[p] = IF Inside(region.clip, p) THEN region.hyperlink ELSE links[p]
    BY <1>0
  <2> HIDE DEF linked
  <2> QED BY <2>2, <2>3
<1>5. /\ l.size = c.size /\ l.cpu_pixels = cpu /\ l.links = linked
      /\ after = [p \in Points(l.size) |-> Shows(pixels[p], o, p)]
  BY <1>0
<1> HIDE DEF l
<1>6. Depicts(e, after) /\ e.size = c.size /\ e.links = linked
  <2>1. cpu \subseteq {after}
    OBVIOUS
  <2>2. l.cpu_pixels \subseteq {after} /\ IsOperation(o, l.size)
        /\ \A p \in Points(l.size) : opaque /\ Inside(o.clip, p) => Hides(o, p)
    BY <1>0, <1>5, <2>1
  <2>3. Depicts(Push(l, o, opaque), after) /\ Push(l, o, opaque).size = l.size
        /\ Push(l, o, opaque).links = l.links
    BY <1>0, <1>2, <1>3, <1>5, <2>2, PushDepicts
  <2> QED BY <1>5, <2>3
<1>7. DOMAIN clicks = Points(c.size)
  BY <1>0
<1> HIDE DEF linked
<1>8. Faithful(e, after, clicks)
  BY <1>4, <1>6, <1>7 DEF Faithful
<1> QED BY <1>1, <1>6, <1>8 DEF l

LEMMA FillHides ==
  ASSUME NEW clip, NEW color, NEW p, Inside(clip, p)
  PROVE  Hides(FillOp(clip, color), p)
BY DEF Hides, Shows, FillOp

LEMMA OpaqueHides ==
  ASSUME NEW o, NEW size, IsOperation(o, size), Opaque(o), NEW p, Inside(o.clip, p)
  PROVE  Hides(o, p)
<1>1. CASE o = FillOp(o.clip, o.color)
  <2>1. o.kind = "fill"
    BY <1>1 DEF FillOp
  <2> QED BY <2>1 DEF Hides, Shows
<1>2. CASE o = ImageOp(o.clip, o.source, o.rect)
  <2>1. o.kind = "image"
    BY <1>2 DEF ImageOp
  <2> QED BY <2>1 DEF Hides, Shows, Opaque, Blend
<1> QED BY <1>1, <1>2 DEF IsOperation

\* A rectangle of this place and size.
IsRectangle(rect) == rect[1] \in Int /\ rect[2] \in Int /\ rect[3] \in Nat /\ rect[4] \in Nat

LEMMA AreaOnCanvas ==
  ASSUME NEW size \in Nat \X Nat, NEW rect, IsRectangle(rect)
  PROVE  /\ IsClip(Intersect(Area(rect), Bounds(size)), size)
         /\ \A p \in Points(size) : Inside(Intersect(Area(rect), Bounds(size)), p) <=> Inside(Area(rect), p)
<1>1. Area(rect) \in Int \X Int \X Int \X Int
  BY DEF Area, IsRectangle
<1> QED BY <1>1, IntersectClips

\* Pixels are a function on the points of the canvas.
LEMMA PixelsOnPoints ==
  ASSUME NEW c, NEW pixels, NEW links, Faithful(c, pixels, links)
  PROVE  /\ pixels = [p \in Points(c.size) |-> pixels[p]] /\ DOMAIN pixels = Points(c.size)
         /\ c.size \in Nat \X Nat /\ c.cpu_pixels \subseteq {pixels}
         /\ c = [size |-> c.size, background |-> c.background, operations |-> c.operations,
                 cpu_pixels |-> c.cpu_pixels, links |-> c.links]
<1>1. Painting(c) = pixels
  BY DEF Faithful, Depicts
<1> QED BY <1>1 DEF Faithful, Depicts, IsCanvas, Painting

LEMMA FilledIsFaithful ==
  ASSUME NEW c, NEW pixels, NEW links, Faithful(c, pixels, links),
         NEW rect, IsRectangle(rect), NEW color
  PROVE  /\ Filled(c, rect, color).size = c.size
         /\ Faithful(Filled(c, rect, color), FillPixels(pixels, rect, <<color>>),
                     FillPixels(links, rect, NoLink))
<1> DEFINE clip == Intersect(Area(rect), Bounds(c.size))
           o == FillOp(clip, color)
           cpu == {FillPixels(x, rect, <<color>>) : x \in c.cpu_pixels}
           d == [size |-> c.size, background |-> c.background, operations |-> c.operations,
                 cpu_pixels |-> cpu, links |-> c.links]
           after == FillPixels(pixels, rect, <<color>>)
           clicks == FillPixels(links, rect, NoLink)
<1>1. /\ pixels = [p \in Points(c.size) |-> pixels[p]] /\ DOMAIN pixels = Points(c.size)
      /\ c.size \in Nat \X Nat /\ c.cpu_pixels \subseteq {pixels}
      /\ c = [size |-> c.size, background |-> c.background, operations |-> c.operations,
              cpu_pixels |-> c.cpu_pixels, links |-> c.links]
  BY PixelsOnPoints
<1>2. DOMAIN links = Points(c.size)
  BY DEF Faithful
<1>3. /\ IsClip(clip, c.size)
      /\ \A p \in Points(c.size) : Inside(clip, p) <=> Inside(Area(rect), p)
  BY <1>1, AreaOnCanvas
<1>4. Filled(c, rect, color) = IF Nonempty(clip) THEN Push(Linked(d, clip, NoLink), o, TRUE) ELSE d
  <2>1. [c EXCEPT !.cpu_pixels = {FillPixels(x, rect, <<color>>) : x \in @}] = d
    <3> HIDE DEF cpu
    <3>1. [c EXCEPT !.cpu_pixels = cpu] = d
      BY <1>1
    <3> QED BY <3>1 DEF cpu
  <2> QED BY <2>1, Zenon DEF Filled
<1> HIDE DEF clip
<1>5. o.clip = clip /\ o.kind = "fill" /\ o.color = color
  BY DEF FillOp
<1>6. IsOperation(o, c.size)
  BY <1>3, <1>5 DEF IsOperation
<1>7. after = [p \in Points(c.size) |-> IF Inside(Area(rect), p) THEN <<color>> ELSE pixels[p]]
  BY <1>1, Zenon DEF FillPixels
<1>8. clicks = [p \in Points(c.size) |-> IF Inside(Area(rect), p) THEN NoLink ELSE links[p]]
  BY <1>2, Zenon DEF FillPixels
<1>9. \A p \in Points(c.size) : Shows(pixels[p], o, p) = IF Inside(Area(rect), p) THEN <<color>> ELSE pixels[p]
  BY <1>3, <1>5 DEF Shows
<1>10. \A p \in Points(c.size) : Inside(o.clip, p) => Hides(o, p)
  BY <1>5, FillHides
<1>11. cpu \subseteq {after}
  BY <1>1
<1> HIDE DEF o, after, clicks, cpu
<1>12. /\ after = [p \in Points(c.size) |-> Shows(pixels[p], o, p)]
       /\ clicks = [p \in Points(c.size) |-> IF Inside(o.clip, p) THEN NoLink ELSE links[p]]
  BY <1>3, <1>5, <1>7, <1>8, <1>9
<1>13. CASE Nonempty(clip)
  <2> DEFINE e == Push(Linked(d, o.clip, NoLink), o, TRUE)
  <2>1. IsDrawn(after, pixels, c, o) /\ IsClicked(clicks, links, c, o, NoLink)
    BY <1>12 DEF IsDrawn, IsClicked
  <2>2. HidesAll(c, o, TRUE)
    BY <1>10 DEF HidesAll
  <2>3. WithPixels(d, c, cpu)
    BY DEF WithPixels
  <2> HIDE DEF d
  <2>4. e.size = c.size /\ Faithful(e, after, clicks)
    BY <1>6, <1>11, <2>1, <2>2, <2>3, DrawnIsFaithful
  <2> QED BY <1>4, <1>5, <1>13, <2>4 DEF after, clicks
<1>14. CASE ~ Nonempty(clip)
  <2>1. \A p \in Points(c.size) : ~ Inside(Area(rect), p)
    BY <1>1, <1>3, <1>14, EmptyIsOutside
  <2>2. after = pixels
    BY <1>1, <1>7, <2>1
  <2>3. \A p \in Points(c.size) : clicks[p] = links[p]
    BY <1>8, <2>1
  <2>4. DOMAIN clicks = Points(c.size)
    BY <1>8
  <2>5. Faithful(d, pixels, clicks)
    BY <1>11, <2>2, <2>3, <2>4 DEF Faithful, Depicts, IsCanvas, Painting
  <2> QED BY <1>4, <1>14, <2>2, <2>5 DEF after, clicks
<1> QED BY <1>13, <1>14

LEMMA DrawHyperlinkedIsFaithful ==
  ASSUME NEW c, NEW pixels, NEW links, Faithful(c, pixels, links),
         NEW source, source.opaque \in BOOLEAN, NEW rect, IsRectangle(rect), NEW hyperlink
  PROVE  /\ DrawHyperlinked(c, source, rect, hyperlink).size = c.size
         /\ Faithful(DrawHyperlinked(c, source, rect, hyperlink), BlitPixels(pixels, rect, source),
                     FillPixels(links, rect, hyperlink))
<1> DEFINE clip == Intersect(Area(rect), Bounds(c.size))
           o == ImageOp(clip, source, rect)
           cpu == {BlitPixels(x, rect, source) : x \in c.cpu_pixels}
           d == [size |-> c.size, background |-> c.background, operations |-> c.operations,
                 cpu_pixels |-> cpu, links |-> c.links]
           after == BlitPixels(pixels, rect, source)
           clicks == FillPixels(links, rect, hyperlink)
<1>1. /\ pixels = [p \in Points(c.size) |-> pixels[p]] /\ DOMAIN pixels = Points(c.size)
      /\ c.size \in Nat \X Nat /\ c.cpu_pixels \subseteq {pixels}
      /\ c = [size |-> c.size, background |-> c.background, operations |-> c.operations,
              cpu_pixels |-> c.cpu_pixels, links |-> c.links]
  BY PixelsOnPoints
<1>2. DOMAIN links = Points(c.size)
  BY DEF Faithful
<1>3. /\ IsClip(clip, c.size)
      /\ \A p \in Points(c.size) : Inside(clip, p) <=> Inside(Area(rect), p)
  BY <1>1, AreaOnCanvas
<1>4. DrawHyperlinked(c, source, rect, hyperlink)
        = IF Nonempty(clip) THEN Push(Linked(d, clip, hyperlink), o, source.opaque) ELSE d
  <2>1. [c EXCEPT !.cpu_pixels = {BlitPixels(x, rect, source) : x \in @}] = d
    <3> HIDE DEF cpu
    <3>1. [c EXCEPT !.cpu_pixels = cpu] = d
      BY <1>1
    <3> QED BY <3>1 DEF cpu
  <2> QED BY <2>1, Zenon DEF DrawHyperlinked
<1> HIDE DEF clip
<1>5. o.clip = clip /\ o.kind = "image" /\ o.source = source /\ o.rect = rect
  BY DEF ImageOp
<1>6. IsOperation(o, c.size)
  BY <1>3, <1>5 DEF IsOperation
<1>7. after = [p \in Points(c.size) |->
                 IF Inside(Area(rect), p) THEN Blend(pixels[p], source, rect, p) ELSE pixels[p]]
  BY <1>1, Zenon DEF BlitPixels
<1>8. clicks = [p \in Points(c.size) |-> IF Inside(Area(rect), p) THEN hyperlink ELSE links[p]]
  BY <1>2, Zenon DEF FillPixels
<1>9. \A p \in Points(c.size) :
        Shows(pixels[p], o, p) = IF Inside(Area(rect), p) THEN Blend(pixels[p], source, rect, p) ELSE pixels[p]
  BY <1>3, <1>5 DEF Shows
<1>10. \A p \in Points(c.size) : source.opaque /\ Inside(o.clip, p) => Hides(o, p)
  BY <1>5, <1>6, OpaqueHides DEF Opaque
<1>11. cpu \subseteq {after}
  BY <1>1
<1> HIDE DEF o, after, clicks, cpu
<1>12. /\ after = [p \in Points(c.size) |-> Shows(pixels[p], o, p)]
       /\ clicks = [p \in Points(c.size) |-> IF Inside(o.clip, p) THEN hyperlink ELSE links[p]]
  BY <1>3, <1>5, <1>7, <1>8, <1>9
<1>13. CASE Nonempty(clip)
  <2> DEFINE e == Push(Linked(d, o.clip, hyperlink), o, source.opaque)
  <2>1. IsDrawn(after, pixels, c, o) /\ IsClicked(clicks, links, c, o, hyperlink)
    BY <1>12 DEF IsDrawn, IsClicked
  <2>2. HidesAll(c, o, source.opaque)
    BY <1>10 DEF HidesAll
  <2>3. WithPixels(d, c, cpu)
    BY DEF WithPixels
  <2> HIDE DEF d
  <2>4. e.size = c.size /\ Faithful(e, after, clicks)
    BY <1>6, <1>11, <2>1, <2>2, <2>3, DrawnIsFaithful
  <2> QED BY <1>4, <1>5, <1>13, <2>4 DEF after, clicks
<1>14. CASE ~ Nonempty(clip)
  <2>1. \A p \in Points(c.size) : ~ Inside(Area(rect), p)
    BY <1>1, <1>3, <1>14, EmptyIsOutside
  <2>2. after = pixels
    BY <1>1, <1>7, <2>1
  <2>3. \A p \in Points(c.size) : clicks[p] = links[p]
    BY <1>8, <2>1
  <2>4. DOMAIN clicks = Points(c.size)
    BY <1>8
  <2>5. Faithful(d, pixels, clicks)
    BY <1>11, <2>2, <2>3, <2>4 DEF Faithful, Depicts, IsCanvas, Painting
  <2> QED BY <1>4, <1>14, <2>2, <2>5 DEF after, clicks
<1> QED BY <1>13, <1>14

\* A canvas of one colour.
Plain(size, color) == [p \in Points(size) |-> <<color>>]
Unlinked(size) == [p \in Points(size) |-> NoLink]

LEMMA NewCanvasIsFaithful ==
  ASSUME NEW size \in Nat \X Nat, NEW color, NEW cpu, cpu \subseteq {Plain(size, color)}
  PROVE  /\ [NewCanvas(size, color) EXCEPT !.cpu_pixels = cpu].size = size
         /\ Faithful([NewCanvas(size, color) EXCEPT !.cpu_pixels = cpu], Plain(size, color), Unlinked(size))
<1> DEFINE o == FillOp(Bounds(size), color)
           region == [clip |-> Bounds(size), hyperlink |-> NoLink]
           c == [size |-> size, background |-> color, operations |-> <<o>>,
                 cpu_pixels |-> cpu, links |-> <<region>>]
           after == Plain(size, color)
           clicks == Unlinked(size)
<1>0. after = [p \in Points(size) |-> <<color>>] /\ clicks = [p \in Points(size) |-> NoLink]
  BY DEF Plain, Unlinked
<1>1. [NewCanvas(size, color) EXCEPT !.cpu_pixels = cpu] = c
  BY DEF NewCanvas
<1>2. /\ IsClip(Bounds(size), size)
      /\ \A p \in Points(size) : Inside(Bounds(size), p)
  BY PointsAreInside
<1>3. IsOperation(o, size) /\ o.kind = "fill" /\ o.clip = Bounds(size) /\ o.color = color
  BY <1>2 DEF IsOperation, FillOp
<1>4. IsRegion(region, size) /\ region.clip = Bounds(size) /\ region.hyperlink = NoLink
  BY <1>2 DEF IsRegion
<1> HIDE DEF o, region
<1>5. IsCanvas(c)
  <2>1. AreOperations(<<o>>, size) /\ AreRegions(<<region>>, size)
    BY <1>3, <1>4, SingleIsSeq, Zenon DEF AreOperations, AreRegions
  <2> QED BY <2>1 DEF IsCanvas
<1>6. Painting(c) = after
  <2>1. Painting(c) = [p \in Points(size) |-> Shown(color, <<o>>, p)]
    BY DEF Painting
  <2>2. \A p \in Points(size) : Shown(color, <<o>>, p) = <<color>>
    BY <1>2, <1>3, ShownSingle DEF Shows
  <2> QED BY <1>0, <2>1, <2>2
<1>7. \A p \in Points(size) : IsTop(<<region>>, p, clicks[p])
  <2> SUFFICES ASSUME NEW p \in Points(size) PROVE IsTop(<<region>>, p, NoLink)
    BY <1>0
  <2> DEFINE q == <<region>>
  <2>1. Len(q) = 1 /\ q[1] = region
    OBVIOUS
  <2> HIDE DEF q
  <2>2. 1 \in 1 .. Len(q) /\ \A j \in 1 .. Len(q) : ~ (1 < j)
    BY <2>1
  <2>3. IsTop(q, p, NoLink)
    BY <1>2, <1>4, <2>1, <2>2 DEF IsTop
  <2> QED BY <2>3 DEF q
<1>8. c.cpu_pixels \subseteq {after} /\ c.size = size /\ c.links = <<region>> /\ DOMAIN clicks = Points(size)
  BY <1>0
<1> HIDE DEF c, after, clicks
<1>9. Faithful(c, after, clicks)
  BY <1>5, <1>6, <1>7, <1>8 DEF Faithful, Depicts
<1> QED BY <1>1, <1>8, <1>9 DEF after, clicks

\* Everything that was drawn before is cleared.
LEMMA ErasedIsFaithful ==
  ASSUME NEW c, NEW pixels, NEW links, Faithful(c, pixels, links), NEW color
  PROVE  Erased(c, color).size = c.size /\ Faithful(Erased(c, color), Plain(c.size, color), Unlinked(c.size))
<1> DEFINE cpu == {[p \in DOMAIN x |-> <<color>>] : x \in c.cpu_pixels}
<1>1. DOMAIN pixels = Points(c.size) /\ c.size \in Nat \X Nat /\ c.cpu_pixels \subseteq {pixels}
  BY PixelsOnPoints
<1>2. cpu \subseteq {Plain(c.size, color)}
  <2>1. [p \in DOMAIN pixels |-> <<color>>] = Plain(c.size, color)
    BY <1>1, Zenon DEF Plain
  <2> QED BY <1>1, <2>1
<1>3. Erased(c, color) = [NewCanvas(c.size, color) EXCEPT !.cpu_pixels = cpu]
  BY DEF Erased
<1> HIDE DEF cpu
<1> QED BY <1>1, <1>2, <1>3, NewCanvasIsFaithful

\* The pixels of a software canvas are set.
LEMMA UseCpuIsFaithful ==
  ASSUME NEW c, NEW pixels, NEW links, Faithful(c, pixels, links)
  PROVE  UseCpu(c).size = c.size /\ Faithful(UseCpu(c), pixels, links)
<1> DEFINE d == [size |-> c.size, background |-> c.background, operations |-> c.operations,
                 cpu_pixels |-> {pixels}, links |-> c.links]
<1>1. Rasterize(c) = pixels
  BY RasterizeDepicts DEF Faithful
<1>2. UseCpu(c) = d
  BY <1>1, PixelsOnPoints DEF UseCpu
<1>3. Faithful(d, pixels, links)
  BY DEF Faithful, Depicts, IsCanvas, Painting
<1> QED BY <1>2, <1>3

\* A canvas made of the pixels of another shows what that shows.
LEMMA FromPixelsIsFaithful ==
  ASSUME NEW size \in Nat \X Nat, NEW pixels, pixels = [p \in Points(size) |-> pixels[p]]
  PROVE  FromPixels(size, pixels).size = size /\ Faithful(FromPixels(size, pixels), pixels, Unlinked(size))
<1> DEFINE c == NewCanvas(size, White)
           source == Snapshot(pixels)
           rect == Bounds(size)
           plain == Plain(size, White)
           links == Unlinked(size)
<1>1. c.size = size /\ Faithful(c, plain, links)
  <2>1. [NewCanvas(size, White) EXCEPT !.cpu_pixels = {}] = c
    BY DEF NewCanvas
  <2>2. {} \subseteq {plain}
    OBVIOUS
  <2> HIDE DEF plain, c
  <2> QED BY <2>1, <2>2, NewCanvasIsFaithful DEF plain
<1>2. source.opaque \in BOOLEAN /\ source.opaque = TRUE /\ source.name = "snapshot" /\ source.pixels = pixels
  BY DEF Snapshot
<1>3. IsRectangle(rect) /\ Area(rect) = rect
  BY DEF IsRectangle, Bounds, Area
<1>4. \A p \in Points(size) : Inside(rect, p)
  BY PointsAreInside
<1>5. FromPixels(size, pixels) = DrawHyperlinked(c, source, rect, NoLink)
  BY DEF FromPixels
<1>6. DOMAIN plain = Points(size) /\ DOMAIN links = Points(size)
  BY DEF Plain, Unlinked
<1> HIDE DEF c, source, rect, plain, links
<1>7. BlitPixels(plain, rect, source) = pixels
  <2>1. \A p \in Points(size) : Blend(plain[p], source, rect, p) = pixels[p]
    BY <1>2 DEF Blend, Sample
  <2>2. BlitPixels(plain, rect, source)
          = [p \in Points(size) |-> IF Inside(rect, p) THEN Blend(plain[p], source, rect, p) ELSE plain[p]]
    BY <1>3, <1>6, Zenon DEF BlitPixels
  <2> QED BY <1>4, <2>1, <2>2
<1>8. FillPixels(links, rect, NoLink) = links
  <2>1. FillPixels(links, rect, NoLink)
          = [p \in Points(size) |-> IF Inside(rect, p) THEN NoLink ELSE links[p]]
    BY <1>3, <1>6, Zenon DEF FillPixels
  <2>2. links = [p \in Points(size) |-> NoLink]
    BY DEF links, Unlinked
  <2> QED BY <1>4, <2>1, <2>2
<1>9. /\ DrawHyperlinked(c, source, rect, NoLink).size = c.size
      /\ Faithful(DrawHyperlinked(c, source, rect, NoLink), BlitPixels(plain, rect, source),
                  FillPixels(links, rect, NoLink))
  BY <1>1, <1>2, <1>3, DrawHyperlinkedIsFaithful
<1> QED BY <1>1, <1>5, <1>7, <1>8, <1>9 DEF links

\* A session restored shows what it showed when it was saved, and links as it did.
LEMMA RestoredIsFaithful ==
  ASSUME NEW c, NEW pixels, NEW links, Faithful(c, pixels, links)
  PROVE  LET restored == FromPixelsWithLinks(c.size, Rasterize(c), LinkRegions(c))
         IN  restored.size = c.size /\ Faithful(restored, pixels, links)
<1> DEFINE d == FromPixels(c.size, pixels)
           kept == {k \in DOMAIN c.links : Nonempty(c.links[k].clip)}
           regions == Retain(c.links, kept)
<1>1. Rasterize(c) = pixels
  BY RasterizeDepicts DEF Faithful
<1>2. /\ pixels = [p \in Points(c.size) |-> pixels[p]] /\ c.size \in Nat \X Nat
      /\ IsSeq(c.links) /\ AreRegions(c.links, c.size) /\ DOMAIN links = Points(c.size)
  BY PixelsOnPoints DEF Faithful, Depicts, IsCanvas, AreRegions
<1>3. d.size = c.size /\ Faithful(d, pixels, Unlinked(c.size))
  BY <1>2, FromPixelsIsFaithful
<1>4. LinkRegions(c) = regions
  BY DEF LinkRegions, Visible
<1>5. AreRegions(regions, c.size)
  BY <1>2, RetainOperations
<1>6. \A p \in Points(c.size) : IsTop(regions, p, links[p])
  <2> SUFFICES ASSUME NEW p \in Points(c.size) PROVE IsTop(regions, p, links[p])
    OBVIOUS
  <2>1. \A k \in 1 .. Len(c.links) : k \notin kept => ~ Inside(c.links[k].clip, p)
    <3> SUFFICES ASSUME NEW k \in 1 .. Len(c.links), k \notin kept PROVE ~ Inside(c.links[k].clip, p)
      OBVIOUS
    <3>1. ~ Nonempty(c.links[k].clip)
      BY <1>2 DEF IsSeq
    <3>2. IsClip(c.links[k].clip, c.size)
      BY <1>2 DEF AreRegions, IsRegion
    <3> QED BY <1>2, <3>1, <3>2, EmptyIsOutside
  <2>2. IsTop(c.links, p, links[p])
    BY DEF Faithful
  <2> HIDE DEF kept
  <2> QED BY <1>2, <2>1, <2>2, TopRetain
<1> DEFINE e == FromPixelsWithLinks(c.size, pixels, regions)
<1>7. e = IF regions = <<>> THEN d ELSE [d EXCEPT !.links = regions]
  BY DEF FromPixelsWithLinks
<1> HIDE DEF regions, d, e
<1>8. CASE regions = <<>>
  <2>1. \A p \in Points(c.size) : links[p] = NoLink
    <3>1. ~ \E k \in 1 .. Len(regions) : TRUE
      BY <1>8
    <3> QED BY <1>6, <3>1 DEF IsTop
  <2>2. \A p \in Points(c.size) : Unlinked(c.size)[p] = links[p]
    BY <2>1 DEF Unlinked
  <2>3. \A p \in Points(d.size) : IsTop(d.links, p, links[p])
    BY <1>3, <2>2 DEF Faithful
  <2>4. Faithful(d, pixels, links)
    BY <1>2, <1>3, <2>3 DEF Faithful
  <2> QED BY <1>1, <1>3, <1>4, <1>7, <1>8, <2>4 DEF e
<1>9. CASE regions # <<>>
  <2> DEFINE l == [size |-> d.size, background |-> d.background, operations |-> d.operations,
                   cpu_pixels |-> d.cpu_pixels, links |-> regions]
  <2>1. [d EXCEPT !.links = regions] = l
    BY <1>3, PixelsOnPoints
  <2>2. Depicts(l, pixels)
    <3>1. AreRegions(regions, d.size)
      BY <1>3, <1>5
    <3>2. IsCanvas(l)
      BY <1>3, <3>1 DEF Faithful, Depicts, IsCanvas
    <3>3. Painting(l) = Painting(d) /\ l.cpu_pixels = d.cpu_pixels
      BY DEF Painting
    <3> QED BY <1>3, <3>2, <3>3 DEF Faithful, Depicts
  <2>3. l.size = c.size /\ l.links = regions
    BY <1>3
  <2> HIDE DEF l
  <2>4. Faithful(l, pixels, links)
    BY <1>2, <1>6, <2>2, <2>3 DEF Faithful
  <2> QED BY <1>1, <1>4, <1>7, <1>9, <2>1, <2>3, <2>4 DEF e
<1> QED BY <1>8, <1>9

-----------------------------------------------------------------------------
(* A window is rearranged.                                                   *)

\* The bounds of a canvas crop an operation as they crop its points.
LEMMA CroppedClip ==
  ASSUME NEW before \in Nat \X Nat, NEW size \in Nat \X Nat, NEW clip, IsClip(clip, before)
  PROVE  /\ IsClip(Intersect(clip, Bounds(size)), size)
         /\ \A p \in Points(size) : Inside(Intersect(clip, Bounds(size)), p) <=> Inside(clip, p)
<1>1. clip \in Int \X Int \X Int \X Int
  <2>1. clip = <<clip[1], clip[2], clip[3], clip[4]>>
    BY DEF IsClip
  <2>2. clip[1] \in Int /\ clip[2] \in Int /\ clip[3] \in Int /\ clip[4] \in Int
    BY DEF IsClip
  <2>3. <<clip[1], clip[2], clip[3], clip[4]>> \in Int \X Int \X Int \X Int
    BY <2>2
  <2> QED BY <2>1, <2>3, Zenon
<1> QED BY <1>1, IntersectClips

LEMMA CroppedOperation ==
  ASSUME NEW before \in Nat \X Nat, NEW size \in Nat \X Nat, NEW o, IsOperation(o, before)
  PROVE  /\ IsOperation([o EXCEPT !.clip = Intersect(@, Bounds(size))], size)
         /\ \A p \in Points(size) : Alike([o EXCEPT !.clip = Intersect(@, Bounds(size))], o, p)
<1> DEFINE clip == Intersect(o.clip, Bounds(size))
           e == [o EXCEPT !.clip = Intersect(@, Bounds(size))]
<1>1. /\ IsClip(clip, size)
      /\ \A p \in Points(size) : Inside(clip, p) <=> Inside(o.clip, p)
  BY CroppedClip DEF IsOperation
<1>2. e = [o EXCEPT !.clip = clip]
  OBVIOUS
<1> HIDE DEF clip, e
<1>3. CASE o = FillOp(o.clip, o.color)
  <2>1. e.clip = clip /\ e.kind = "fill" /\ e.color = o.color /\ o.kind = "fill" /\ e = FillOp(e.clip, e.color)
    BY <1>2, <1>3 DEF FillOp
  <2>2. IsOperation(e, size)
    BY <1>1, <2>1 DEF IsOperation
  <2>3. \A p \in Points(size) : Alike(e, o, p)
    BY <1>1, <2>1 DEF Alike, Shows
  <2> QED BY <2>2, <2>3 DEF e
<1>4. CASE o = ImageOp(o.clip, o.source, o.rect)
  <2>1. /\ e.clip = clip /\ e.kind = "image" /\ e.source = o.source /\ e.rect = o.rect /\ o.kind = "image"
        /\ e = ImageOp(e.clip, e.source, e.rect)
    BY <1>2, <1>4 DEF ImageOp
  <2>2. IsOperation(e, size)
    BY <1>1, <2>1 DEF IsOperation
  <2>3. \A p \in Points(size) : Alike(e, o, p)
    BY <1>1, <2>1 DEF Alike, Shows
  <2> QED BY <2>2, <2>3 DEF e
<1> QED BY <1>3, <1>4 DEF IsOperation

LEMMA CroppedRegion ==
  ASSUME NEW before \in Nat \X Nat, NEW size \in Nat \X Nat, NEW l, IsRegion(l, before)
  PROVE  LET e == [l EXCEPT !.clip = Intersect(@, Bounds(size))]
         IN  /\ IsRegion(e, size) /\ e.hyperlink = l.hyperlink
             /\ \A p \in Points(size) : Inside(e.clip, p) <=> Inside(l.clip, p)
<1> DEFINE clip == Intersect(l.clip, Bounds(size))
           e == [l EXCEPT !.clip = Intersect(@, Bounds(size))]
<1>1. /\ IsClip(clip, size)
      /\ \A p \in Points(size) : Inside(clip, p) <=> Inside(l.clip, p)
  BY CroppedClip DEF IsRegion
<1>2. e = [l EXCEPT !.clip = clip]
  OBVIOUS
<1> HIDE DEF clip, e
<1>3. e.clip = clip /\ e.hyperlink = l.hyperlink /\ e = [clip |-> e.clip, hyperlink |-> e.hyperlink]
  BY <1>2 DEF IsRegion
<1> QED BY <1>1, <1>3 DEF IsRegion, e

\* Where nothing was drawn the background is seen.
LEMMA ShownNothing ==
  ASSUME NEW b, NEW q, IsSeq(q), NEW p, \A k \in 1 .. Len(q) : ~ Inside(q[k].clip, p)
  PROVE  Shown(b, q, p) = <<b>>
<1> DEFINE r == Retain(q, {})
<1>1. PICK S : q \in Seq(S)
  BY DEF IsSeq
<1>2. r \in Seq(S) /\ IsRest(r, q, {})
  BY <1>1, RetainProperties
<1>3. Shown(b, r, p) = Shown(b, q, p) /\ IsSeq(r)
  <2>1. \A k \in 1 .. Len(q) : k \notin {} => \A u : Shows(u, q[k], p) = u
    BY ShowsOutside
  <2> QED BY <2>1, ShownRetain
<1> HIDE DEF r
<1>4. Len(r) = 0
  <2>1. PICK h : /\ IsPart(r, q, h)
                 /\ \A j \in 1 .. Len(q) : j \in {} <=> \E i \in 1 .. Len(r) : h[i] = j
    BY <1>2 DEF IsRest
  <2>2. \A i \in 1 .. Len(r) : h[i] \in 1 .. Len(q)
    BY <2>1 DEF IsPart
  <2>3. \A i \in 1 .. Len(r) : FALSE
    BY <2>1, <2>2
  <2>4. Len(r) \in Nat
    BY <1>2
  <2> QED BY <2>3, <2>4
<1>5. PICK f : AreLayers(f, b, r, p) /\ Shown(b, r, p) = f[Len(r)]
  BY <1>3, ShownLayers, Zenon
<1> QED BY <1>3, <1>4, <1>5 DEF AreLayers

\* The operations, cropped: they show what they did, where nothing shows through
\* or the background is the same.
LEMMA CroppedShows ==
  ASSUME NEW before \in Nat \X Nat, NEW size \in Nat \X Nat, NEW q, AreOperations(q, before),
         NEW p \in Points(size), NEW b, NEW d,
         b = d \/ \E k \in 1 .. Len(q) : Hides(q[k], p)
  PROVE  /\ AreOperations(Cropped(q, Bounds(size)), size)
         /\ Shown(d, Cropped(q, Bounds(size)), p) = Shown(b, q, p)
<1> DEFINE r == [k \in DOMAIN q |-> [q[k] EXCEPT !.clip = Intersect(@, Bounds(size))]]
           kept == {k \in DOMAIN r : Nonempty(r[k].clip)}
<1>1. IsSeq(q) /\ DOMAIN q = 1 .. Len(q) /\ Len(q) \in Nat
  BY DEF AreOperations, IsSeq
<1>2. Cropped(q, Bounds(size)) = Retain(r, kept)
  BY DEF Cropped, Visible
<1>3. \A k \in 1 .. Len(q) : IsOperation(r[k], size) /\ Alike(r[k], q[k], p)
  <2> SUFFICES ASSUME NEW k \in 1 .. Len(q) PROVE IsOperation(r[k], size) /\ Alike(r[k], q[k], p)
    OBVIOUS
  <2>1. IsOperation(q[k], before)
    BY DEF AreOperations
  <2>2. r[k] = [q[k] EXCEPT !.clip = Intersect(@, Bounds(size))]
    BY <1>1
  <2> HIDE DEF r
  <2> QED BY <2>1, <2>2, CroppedOperation
<1>4. IsSeq(r) /\ Len(r) = Len(q) /\ DOMAIN r = 1 .. Len(r)
  <2> DEFINE F(k) == [q[k] EXCEPT !.clip = Intersect(@, Bounds(size))]
             T == {F(k) : k \in 1 .. Len(q)}
  <2>1. r = [k \in 1 .. Len(q) |-> F(k)]
    BY <1>1
  <2> HIDE DEF F
  <2>2. r \in [1 .. Len(q) -> T]
    BY <2>1
  <2>3. r \in Seq(T) /\ Len(r) = Len(q)
    BY <1>1, <2>2
  <2> QED BY <2>2, <2>3 DEF IsSeq
<1> HIDE DEF r
<1>5. AreOperations(r, size)
  BY <1>3, <1>4 DEF AreOperations
<1>6. AreOperations(Cropped(q, Bounds(size)), size)
  BY <1>2, <1>5, RetainOperations
<1>7. Shown(d, Retain(r, kept), p) = Shown(d, r, p)
  <2>1. \A k \in 1 .. Len(r) : k \notin kept => \A u : Shows(u, r[k], p) = u
    <3> SUFFICES ASSUME NEW k \in 1 .. Len(r), k \notin kept PROVE \A u : Shows(u, r[k], p) = u
      OBVIOUS
    <3>1. ~ Nonempty(r[k].clip)
      BY <1>4
    <3>2. IsClip(r[k].clip, size)
      BY <1>3, <1>4 DEF IsOperation
    <3>3. ~ Inside(r[k].clip, p)
      BY <3>1, <3>2, EmptyIsOutside
    <3> QED BY <3>3, ShowsOutside
  <2> HIDE DEF kept
  <2> QED BY <1>4, <2>1, ShownRetain
<1>8. Shown(d, r, p) = Shown(b, q, p)
  <2>1. \A k \in 1 .. Len(q) : Alike(q[k], r[k], p)
    BY <1>3, Zenon DEF Alike
  <2>2. Shown(b, q, p) = Shown(d, r, p)
    BY <1>1, <1>4, <2>1, ShownAgree
  <2> QED BY <2>2
<1> QED BY <1>2, <1>6, <1>7, <1>8

LEMMA CroppedTop ==
  ASSUME NEW before \in Nat \X Nat, NEW size \in Nat \X Nat, NEW q, AreRegions(q, before),
         NEW p \in Points(size), NEW hyperlink, IsTop(q, p, hyperlink)
  PROVE  /\ AreRegions(Cropped(q, Bounds(size)), size)
         /\ IsTop(Cropped(q, Bounds(size)), p, hyperlink)
<1> DEFINE r == [k \in DOMAIN q |-> [q[k] EXCEPT !.clip = Intersect(@, Bounds(size))]]
           kept == {k \in DOMAIN r : Nonempty(r[k].clip)}
<1>1. IsSeq(q) /\ DOMAIN q = 1 .. Len(q) /\ Len(q) \in Nat
  BY DEF AreRegions, IsSeq
<1>2. Cropped(q, Bounds(size)) = Retain(r, kept)
  BY DEF Cropped, Visible
<1>3. \A k \in 1 .. Len(q) : /\ IsRegion(r[k], size) /\ r[k].hyperlink = q[k].hyperlink
                             /\ Inside(r[k].clip, p) <=> Inside(q[k].clip, p)
  <2> SUFFICES ASSUME NEW k \in 1 .. Len(q)
               PROVE  /\ IsRegion(r[k], size) /\ r[k].hyperlink = q[k].hyperlink
                      /\ Inside(r[k].clip, p) <=> Inside(q[k].clip, p)
    OBVIOUS
  <2>1. IsRegion(q[k], before)
    BY DEF AreRegions
  <2>2. r[k] = [q[k] EXCEPT !.clip = Intersect(@, Bounds(size))]
    BY <1>1
  <2> HIDE DEF r
  <2> QED BY <2>1, <2>2, CroppedRegion
<1>4. IsSeq(r) /\ Len(r) = Len(q) /\ DOMAIN r = 1 .. Len(r)
  <2> DEFINE F(k) == [q[k] EXCEPT !.clip = Intersect(@, Bounds(size))]
             T == {F(k) : k \in 1 .. Len(q)}
  <2>1. r = [k \in 1 .. Len(q) |-> F(k)]
    BY <1>1
  <2> HIDE DEF F
  <2>2. r \in [1 .. Len(q) -> T]
    BY <2>1
  <2>3. r \in Seq(T) /\ Len(r) = Len(q)
    BY <1>1, <2>2
  <2> QED BY <2>2, <2>3 DEF IsSeq
<1> HIDE DEF r
<1>5. AreRegions(r, size)
  BY <1>3, <1>4 DEF AreRegions
<1>6. AreRegions(Cropped(q, Bounds(size)), size)
  BY <1>2, <1>5, RetainOperations
<1>7. IsTop(r, p, hyperlink)
  BY <1>3, <1>4 DEF IsTop
<1>8. \A k \in 1 .. Len(r) : k \notin kept => ~ Inside(r[k].clip, p)
  <2> SUFFICES ASSUME NEW k \in 1 .. Len(r), k \notin kept PROVE ~ Inside(r[k].clip, p)
    OBVIOUS
  <2>1. ~ Nonempty(r[k].clip)
    BY <1>4
  <2>2. IsClip(r[k].clip, size)
    BY <1>3, <1>4 DEF IsRegion
  <2> QED BY <2>1, <2>2, EmptyIsOutside
<1> HIDE DEF kept
<1> QED BY <1>2, <1>4, <1>6, <1>7, <1>8, TopRetain

\* The background does not show through, or it stays the same.
Holds(c, background) ==
  \/ background = c.background
  \/ \A p \in Points(c.size) : \E k \in 1 .. Len(c.operations) : Hides(c.operations[k], p)

LEMMA ResizedIsFaithful ==
  ASSUME NEW c, NEW pixels, NEW links, Faithful(c, pixels, links),
         NEW size \in (Nat \ {0}) \X (Nat \ {0}), size # c.size, NEW background, Holds(c, background)
  PROVE  /\ Resized(c, size, background).size = size
         /\ Faithful(Resized(c, size, background), Overlaid(pixels, size, background),
                     [p \in Points(size) |-> IF p \in DOMAIN links THEN links[p] ELSE NoLink])
<1> DEFINE q == c.operations
           l == c.links
           bounds == Bounds(size)
           cpu == {Overlaid(x, size, background) : x \in c.cpu_pixels}
           d == [size |-> size, background |-> background, operations |-> Cropped(q, bounds),
                 cpu_pixels |-> cpu, links |-> Cropped(l, bounds)]
           after == Overlaid(pixels, size, background)
           clicks == [p \in Points(size) |-> IF p \in DOMAIN links THEN links[p] ELSE NoLink]
<1>1. /\ DOMAIN pixels = Points(c.size) /\ DOMAIN links = Points(c.size)
      /\ c.size \in Nat \X Nat /\ size \in Nat \X Nat /\ c.cpu_pixels \subseteq {pixels}
      /\ AreOperations(q, c.size) /\ AreRegions(l, c.size) /\ IsSeq(q) /\ IsSeq(l)
  BY PixelsOnPoints DEF Faithful, Depicts, IsCanvas, AreOperations, AreRegions
<1>2. Resized(c, size, background) = d
  BY DEF Resized
<1>3. <<0, 0>> \in Points(size)
  <2>1. size[1] \in Nat \ {0} /\ size[2] \in Nat \ {0}
    OBVIOUS
  <2>2. 0 \in 0 .. size[1] - 1 /\ 0 \in 0 .. size[2] - 1
    BY <2>1
  <2> QED BY <2>2 DEF Points
\* A point that is gained lies in no clip.
<1>4. ASSUME NEW p \in Points(size), p \notin Points(c.size)
      PROVE  /\ \A k \in 1 .. Len(q) : ~ Inside(q[k].clip, p)
             /\ \A k \in 1 .. Len(l) : ~ Inside(l[k].clip, p)
  <2>1. ASSUME NEW clip, IsClip(clip, c.size) PROVE ~ Inside(clip, p)
    <3>1. p[1] \in Int /\ p[2] \in Int /\ 0 <= p[1] /\ 0 <= p[2]
      BY <1>1, PointsAreInside
    <3>2. c.size[1] \in Nat /\ c.size[2] \in Nat
      BY <1>1
    <3>3. p = <<p[1], p[2]>>
      BY DEF Points
    <3>4. ~ (p[1] < c.size[1] /\ p[2] < c.size[2])
      <4> SUFFICES ASSUME p[1] < c.size[1] /\ p[2] < c.size[2] PROVE FALSE
        OBVIOUS
      <4>1. p[1] \in 0 .. c.size[1] - 1 /\ p[2] \in 0 .. c.size[2] - 1
        BY <3>1, <3>2
      <4>2. <<p[1], p[2]>> \in Points(c.size)
        BY <4>1 DEF Points
      <4> QED BY <1>4, <3>3, <4>2
    <3> QED BY <2>1, <3>1, <3>2, <3>4 DEF IsClip, Inside
  <2> QED BY <1>1, <2>1 DEF AreOperations, IsOperation, AreRegions, IsRegion
<1>5. ASSUME NEW p \in Points(size)
      PROVE  /\ AreOperations(Cropped(q, bounds), size)
             /\ Shown(background, Cropped(q, bounds), p) = after[p]
  <2>1. after[p] = IF p \in DOMAIN pixels THEN pixels[p] ELSE <<background>>
    BY DEF Overlaid
  <2> HIDE DEF after
  <2>2. CASE p \in Points(c.size)
    <3>1. pixels[p] = Shown(c.background, q, p)
      BY <2>2 DEF Faithful, Depicts, Painting
    <3>2. c.background = background \/ \E k \in 1 .. Len(q) : Hides(q[k], p)
      BY <2>2 DEF Holds
    <3> HIDE DEF q
    <3>3. /\ AreOperations(Cropped(q, Bounds(size)), size)
          /\ Shown(background, Cropped(q, Bounds(size)), p) = Shown(c.background, q, p)
      BY <1>1, <3>2, CroppedShows
    <3> QED BY <1>1, <2>1, <2>2, <3>1, <3>3
  <2>3. CASE p \notin Points(c.size)
    <3> HIDE DEF q
    <3>1. Shown(background, q, p) = <<background>>
      BY <1>1, <1>4, <2>3, ShownNothing
    <3>2. /\ AreOperations(Cropped(q, Bounds(size)), size)
          /\ Shown(background, Cropped(q, Bounds(size)), p) = Shown(background, q, p)
      BY <1>1, CroppedShows
    <3> QED BY <1>1, <2>1, <2>3, <3>1, <3>2
  <2> QED BY <2>2, <2>3
<1>6. ASSUME NEW p \in Points(size)
      PROVE  AreRegions(Cropped(l, bounds), size) /\ IsTop(Cropped(l, bounds), p, clicks[p])
  <2>1. IsTop(l, p, clicks[p])
    <3>1. CASE p \in Points(c.size)
      BY <1>1, <3>1 DEF Faithful
    <3>2. CASE p \notin Points(c.size)
      BY <1>1, <1>4, <3>2 DEF IsTop
    <3> QED BY <3>1, <3>2
  <2> HIDE DEF l, clicks
  <2> QED BY <1>1, <2>1, CroppedTop
<1>7. AreOperations(Cropped(q, bounds), size) /\ AreRegions(Cropped(l, bounds), size)
  <2> HIDE DEF q, l, bounds
  <2> QED BY <1>3, <1>5, <1>6
<1>8. IsCanvas(d)
  BY <1>1, <1>7 DEF IsCanvas
<1>9. Painting(d) = after
  <2>1. Painting(d) = [p \in Points(size) |-> Shown(background, Cropped(q, bounds), p)]
    BY DEF Painting
  <2>2. after = [p \in Points(size) |-> after[p]]
    BY DEF Overlaid
  <2> HIDE DEF q, bounds, after, d
  <2> QED BY <1>5, <2>1, <2>2
<1>10. cpu \subseteq {after}
  BY <1>1
<1>11. DOMAIN clicks = Points(size) /\ d.size = size /\ d.links = Cropped(l, bounds) /\ d.cpu_pixels = cpu
  OBVIOUS
<1> HIDE DEF q, l, bounds, d, after, clicks, cpu
<1>12. Faithful(d, after, clicks)
  BY <1>6, <1>8, <1>9, <1>10, <1>11 DEF Faithful, Depicts
<1> QED BY <1>2, <1>11, <1>12 DEF after, clicks

-----------------------------------------------------------------------------
(* The canvas of a window shows what was drawn on it.                        *)

CanvasInv ==
  /\ Faithful(canvas, bitmap, linkmap)
  /\ canvas.size \in (Nat \ {0}) \X (Nat \ {0})

LEMMA CanvasInvInit == CanvasInit => CanvasInv
<1> SUFFICES ASSUME CanvasInit PROVE CanvasInv
  OBVIOUS
<1>1. PICK size \in Sizes, software \in BOOLEAN :
        /\ canvas = IF software THEN UseCpu(NewCanvas(size, White)) ELSE NewCanvas(size, White)
        /\ bitmap = [p \in Points(size) |-> <<White>>] /\ linkmap = [p \in Points(size) |-> NoLink]
  BY DEF CanvasInit
<1>2. size \in (Nat \ {0}) \X (Nat \ {0}) /\ size \in Nat \X Nat
  BY CanvasAssumption
<1>3. bitmap = Plain(size, White) /\ linkmap = Unlinked(size)
  BY <1>1 DEF Plain, Unlinked
<1> DEFINE c == NewCanvas(size, White)
<1>4. c.size = size /\ Faithful(c, bitmap, linkmap)
  <2>1. [NewCanvas(size, White) EXCEPT !.cpu_pixels = {}] = c
    BY DEF NewCanvas
  <2>2. {} \subseteq {Plain(size, White)}
    OBVIOUS
  <2> HIDE DEF c
  <2> QED BY <1>2, <1>3, <2>1, <2>2, NewCanvasIsFaithful
<1> HIDE DEF c
<1>5. UseCpu(c).size = c.size /\ Faithful(UseCpu(c), bitmap, linkmap)
  BY <1>4, UseCpuIsFaithful
<1> QED BY <1>1, <1>2, <1>4, <1>5 DEF CanvasInv, c

LEMMA CanvasInvStep ==
  ASSUME ~ Recolors, CanvasInv, [CanvasNext]_canvasVars
  PROVE  CanvasInv'
<1>1. /\ Faithful(canvas, bitmap, linkmap) /\ canvas.size \in (Nat \ {0}) \X (Nat \ {0})
      /\ DOMAIN linkmap = Points(canvas.size) /\ DOMAIN bitmap = Points(canvas.size)
  BY PixelsOnPoints DEF CanvasInv, Faithful
<1>2. ASSUME NEW size \in Sizes \ {canvas.size},
             Overdrawn \/ background_color = canvas.background,
             canvas' = Resized(canvas, size, background_color),
             bitmap' = Overlaid(bitmap, size, background_color),
             linkmap' = [p \in Points(size) |-> IF p \in DOMAIN linkmap THEN linkmap[p] ELSE NoLink]
      PROVE  CanvasInv'
  <2>1. size \in (Nat \ {0}) \X (Nat \ {0}) /\ size # canvas.size
    BY CanvasAssumption
  <2>2. Holds(canvas, background_color)
    <3>1. CASE background_color = canvas.background
      BY <3>1 DEF Holds
    <3>2. CASE Overdrawn
      <4>1. /\ IsSeq(canvas.operations) /\ DOMAIN canvas.operations = 1 .. Len(canvas.operations)
            /\ \A k \in 1 .. Len(canvas.operations) : IsOperation(canvas.operations[k], canvas.size)
        BY <1>1 DEF Faithful, Depicts, IsCanvas, AreOperations, IsSeq
      <4>2. \A p \in Points(canvas.size) : \E k \in 1 .. Len(canvas.operations) :
              Opaque(canvas.operations[k]) /\ Inside(canvas.operations[k].clip, p)
        BY <3>2, <4>1 DEF Overdrawn
      <4>3. \A p \in Points(canvas.size) : \E k \in 1 .. Len(canvas.operations) :
              Hides(canvas.operations[k], p)
        BY <4>1, <4>2, OpaqueHides
      <4> QED BY <4>3 DEF Holds
    <3> QED BY <1>2, <3>1, <3>2
  <2>3. /\ Resized(canvas, size, background_color).size = size
        /\ Faithful(Resized(canvas, size, background_color), Overlaid(bitmap, size, background_color),
                    [p \in Points(size) |-> IF p \in DOMAIN linkmap THEN linkmap[p] ELSE NoLink])
    BY <1>1, <2>1, <2>2, ResizedIsFaithful
  <2> QED BY <1>2, <2>1, <2>3 DEF CanvasInv
<1>3. ASSUME NEW rect \in Rectangles PROVE IsRectangle(rect)
  BY CanvasAssumption DEF IsRectangle
<1>4. CASE FillCanvas
  <2>1. PICK rect \in Rectangles, color \in Colors :
          /\ canvas' = Filled(canvas, rect, color)
          /\ bitmap' = FillPixels(bitmap, rect, <<color>>)
          /\ linkmap' = FillPixels(linkmap, rect, NoLink)
    BY <1>4 DEF FillCanvas
  <2> QED BY <1>1, <1>3, <2>1, FilledIsFaithful DEF CanvasInv
<1>5. CASE DrawImage
  <2>1. PICK rect \in Rectangles, source \in Assets, hyperlink \in Hyperlinks :
          /\ canvas' = DrawHyperlinked(canvas, source, rect, hyperlink)
          /\ bitmap' = BlitPixels(bitmap, rect, source)
          /\ linkmap' = FillPixels(linkmap, rect, hyperlink)
    BY <1>5 DEF DrawImage
  <2>2. source.opaque \in BOOLEAN
    BY CanvasAssumption
  <2> QED BY <1>1, <1>3, <2>1, <2>2, DrawHyperlinkedIsFaithful DEF CanvasInv
<1>6. CASE EraseCanvas
  <2>1. PICK color \in Colors :
          /\ canvas' = Erased(canvas, color)
          /\ bitmap' = [p \in DOMAIN bitmap |-> <<color>>] /\ linkmap' = [p \in DOMAIN linkmap |-> NoLink]
    BY <1>6 DEF EraseCanvas
  <2>2. bitmap' = Plain(canvas.size, color) /\ linkmap' = Unlinked(canvas.size)
    BY <1>1, <2>1 DEF Plain, Unlinked
  <2> QED BY <1>1, <2>1, <2>2, ErasedIsFaithful DEF CanvasInv
<1>7. CASE RestoreCanvas
  <2> DEFINE restored == FromPixelsWithLinks(canvas.size, Rasterize(canvas), LinkRegions(canvas))
  <2>1. restored.size = canvas.size /\ Faithful(restored, bitmap, linkmap)
    BY <1>1, RestoredIsFaithful
  <2>2. /\ canvas' = IF Software THEN UseCpu(restored) ELSE restored
        /\ bitmap' = bitmap /\ linkmap' = linkmap
    BY <1>7, Zenon DEF RestoreCanvas
  <2> HIDE DEF restored
  <2>3. UseCpu(restored).size = restored.size /\ Faithful(UseCpu(restored), bitmap, linkmap)
    BY <2>1, UseCpuIsFaithful
  <2> QED BY <1>1, <2>1, <2>2, <2>3 DEF CanvasInv
<1>8. CASE UNCHANGED <<canvas, bitmap, linkmap>>
  BY <1>1, <1>8 DEF CanvasInv
<1>9. CASE ResizeCanvas
  BY <1>2, <1>9, CanvasAssumption DEF ResizeCanvas
<1>10. CASE SetBackground \/ UNCHANGED canvasVars
  BY <1>8, <1>10 DEF SetBackground, canvasVars
<1> QED BY <1>4, <1>5, <1>6, <1>7, <1>9, <1>10 DEF CanvasNext

\* What a canvas keeps of its drawings shows, with pixels or without, what was
\* drawn, and the links that were drawn last, whatever was dropped, cropped,
\* compacted or restored (Canvas::push, resize, rasterize, from_pixels_with_links).
\* ~ Recolors: the colour of what was gained before is not another one now.
THEOREM CanvasIsFaithful ==
  ASSUME ~ Recolors
  PROVE  CanvasSpec => []ShowsWhatWasDrawn
<1>1. CanvasInv => ShowsWhatWasDrawn
  BY FaithfulIsEnough DEF CanvasInv, ShowsWhatWasDrawn
<1> QED BY <1>1, CanvasInvInit, CanvasInvStep, PTL DEF CanvasSpec

-----------------------------------------------------------------------------
(* The frames of the application *)

\* Drawings, as the machine asks for them.
Drawn == [kind : {"draw"}, resource : Pictures, story : Nat]
GraphicsRequest == [kind : {"resize", "close", "clear", "fill"}] \cup Drawn

States == {"run", "wait", "file", "halt"}
Machine == [story : Nat, state : States, revision : Nat, pending : BOOLEAN, selects : BOOLEAN,
            text : Nat, graphics : Seq(GraphicsRequest)]

\* What the screen shows was published, and the machine has gone on since only if
\* it is not said to be there yet.
WholeInv ==
  /\ presented.revision \in Nat
  /\ frame \in {"poll", "run", "slice", "input", "view", "closed"}
  /\ frame = "slice" => slice = presented.revision /\ machine.story # NoStory
  /\ machine.story = NoStory => machine.state = "run" /\ machine.revision = presented.revision
  /\ frame \in {"poll", "run"} => machine.revision = presented.revision
  /\ frame = "poll" /\ machine.state # "run" => machine.state = presented.state
  /\ machine.text \in wholes \/ (machine.revision = presented.revision /\ machine.state = "run")
  /\ presented.text \in wholes \cup {-1}
  /\ machine.state = "wait" /\ presented.state = "wait" /\ machine.revision = presented.revision
       => machine.text = presented.text

\* Changing fonts or colours publishes what the story is in the middle of.
ScreenInv == machine \in Machine /\ slice \in Nat /\ (Restyles \/ WholeInv)

\* One story at most is asked for and not installed, the newest.
LoadInv ==
  /\ latest \in Nat
  /\ submitting # {} => submitting = {latest} /\ frame = "input"
  /\ submitting = {} => pending_story \subseteq {latest}
  /\ IsSeq(loaded)

\* Pictures and what was drawn with them.
Mark == [resource : Pictures \cup {0}, story : Nat]
Task == [id : Nat, resource : Pictures, story : Nat]
Image == [id : Nat, request : Drawn]
Canvases == SUBSET Seq(Mark)

\* What is kept of story s, to be drawn again.
Kept(s) == [resource : Pictures \ BadPictures, story : {s}]
\* What story s asks for.
AskedBy(s) == [kind : {"resize", "close", "clear", "fill"}]
                \cup [kind : {"draw"}, resource : Pictures, story : {s}]

Images(s) == [id : Nat, request : [kind : {"draw"}, resource : Pictures, story : {s}]]
Media(s) == [requests : Seq(AskedBy(s)), image : SUBSET Images(s), results : SUBSET Task,
             cache : Seq(Kept(s)), canvas : Canvases, dirty : BOOLEAN]

\* The task or the answer t is that of picture p.
Answering(p, t) == t.id = p.id => t.resource = p.request.resource /\ t.story = p.request.story

DrawInv ==
  /\ machine.graphics \in Seq(AskedBy(machine.story))
  /\ media \in Media(machine.story) /\ IsFiniteSet(media.results)
  /\ image_tasks \in Seq(Task) /\ image_held \in Seq(Task) /\ image_done \in Seq(Task)
  /\ \A p, r \in media.image : p = r
  /\ \A p \in media.image :
       \A t \in media.results \cup Range(image_tasks) \cup Range(image_held) \cup Range(image_done) :
          Answering(p, t)
  /\ meant \in Canvases
  /\ DrawnInOrder

DeskInv == ScreenInv /\ LoadInv /\ DrawInv


-----------------------------------------------------------------------------
(* The story that is installed *)

IsInstalling(f, s, q) ==
  f = [k \in 0 .. Len(q) |-> IF k = 0 THEN s ELSE Installed(f[k - 1], q[k])]

\* While n is waited for and the story is `old`.
Installing(n, old) == [pending : SUBSET {n}, story : {old, n}]

LEMMA NewestInstalled ==
  ASSUME NEW n \in Nat, NEW old \in Nat, NEW q, IsSeq(q), NEW s \in Installing(n, old)
  PROVE  AllInstalled(s, q) \in Installing(n, old)
<1> DEFINE N == Len(q)
           V == Installing(n, old)
           g == [k \in 1 .. N |-> [v \in V |-> Installed(v, q[k])]]
           f == CHOOSE f : IsInstalling(f, s, q)
<1>1. N \in Nat
  BY DEF IsSeq
<1>2. ASSUME NEW v \in V, NEW r PROVE Installed(v, r) \in V
  <2>1. CASE v.pending # {r.id}
    BY <2>1 DEF Installed
  <2>2. CASE v.pending = {r.id}
    <3>1. r.id = n /\ v.story \in {old, n} /\ v = [pending |-> v.pending, story |-> v.story]
      BY <2>2 DEF Installing
    <3>2. Installed(v, r) = [pending |-> {}, story |-> IF r.ok THEN r.id ELSE v.story]
      BY <2>2, <3>1 DEF Installed
    <3> QED BY <3>1, <3>2 DEF Installing
  <2> QED BY <2>1, <2>2
<1>3. g \in [1 .. N -> [V -> V]]
  BY <1>2
<1>4. PICK h \in [0 .. N -> V] : IsSteps(h, N, s, g)
  <2> HIDE DEF N, V, g
  <2>1. s \in V
    BY DEF V
  <2> QED BY <1>1, <1>3, <2>1, StepsExist
<1>5. IsInstalling(h, s, q)
  <2> SUFFICES ASSUME NEW k \in 0 .. N
               PROVE  h[k] = IF k = 0 THEN s ELSE Installed(h[k - 1], q[k])
    BY DEF IsInstalling
  <2>1. CASE k = 0
    BY <1>4, <2>1 DEF IsSteps
  <2>2. CASE k # 0
    <3>1. k \in 1 .. N /\ k - 1 \in 0 .. N
      BY <1>1, <2>2
    <3>2. h[k] = g[k][h[k - 1]] /\ h[k - 1] \in V
      BY <1>4, <2>2, <3>1 DEF IsSteps
    <3> QED BY <2>2, <3>1, <3>2
  <2> QED BY <2>1, <2>2
<1>6. IsInstalling(f, s, q)
  BY <1>5
<1>7. AllInstalled(s, q) = f[N]
  BY Zenon DEF AllInstalled, IsInstalling
<1> HIDE DEF f
<1>8. f[0] = s /\ \A k \in 1 .. N : f[k] = Installed(f[k - 1], q[k])
  <2>1. \A k \in 0 .. N : f[k] = IF k = 0 THEN s ELSE Installed(f[k - 1], q[k])
    BY <1>6, Zenon DEF IsInstalling
  <2>2. 0 \in 0 .. N /\ \A k \in 1 .. N : k \in 0 .. N /\ k # 0
    BY <1>1
  <2> HIDE DEF N
  <2> QED BY <2>1, <2>2
<1>9. StaysIn(f, N, V)
  BY <1>2, <1>8 DEF StaysIn
<1>10. \A k \in 0 .. N : f[k] \in V
  <2> HIDE DEF N, V, f
  <2> QED BY <1>1, <1>9, StepsStay
<1> QED BY <1>1, <1>7, <1>10


-----------------------------------------------------------------------------
(* What requests mean *)

LEMMA MarkedTyped ==
  ASSUME NEW c \in Canvases, NEW m \in Mark
  PROVE  Ensured(c) \in Canvases /\ Marked(c, m) \in Canvases
<1>1. <<>> \in Seq(Mark)
  OBVIOUS
<1>2. Ensured(c) \in Canvases
  BY <1>1 DEF Ensured, Canvases
<1>3. \A x \in Ensured(c) : Append(x, m) \in Seq(Mark)
  BY <1>2 DEF Canvases
<1> QED BY <1>2, <1>3 DEF Marked, Canvases

LEMMA PaintedTyped ==
  ASSUME NEW c \in Canvases, NEW q \in GraphicsRequest, q.kind # "draw"
  PROVE  Painted(c, q) \in Canvases
<1>1. q.kind \in {"resize", "close", "clear", "fill"}
  BY DEF GraphicsRequest, Drawn
<1>2. Ensured(c) \in Canvases /\ Marked(c, Rectangle) \in Canvases
  <2>1. Rectangle \in Mark
    BY DEF Rectangle, Mark, NoStory
  <2> QED BY <2>1, MarkedTyped
<1>3. NoCanvas \in Canvases /\ {<<>>} \in Canvases
  BY DEF Canvases, NoCanvas
<1> QED BY <1>1, <1>2, <1>3 DEF Painted

LEMMA MeaningTyped ==
  ASSUME NEW c \in Canvases, NEW q \in GraphicsRequest
  PROVE  Meaning(c, q) \in Canvases
<1>1. CASE q.kind # "draw"
  BY <1>1, PaintedTyped DEF Meaning
<1>2. CASE q.kind = "draw"
  <2>1. Picture(q) \in Mark
    BY <1>2 DEF GraphicsRequest, Drawn, Picture, Mark
  <2> QED BY <1>2, <2>1, MarkedTyped DEF Meaning
<1> QED BY <1>1, <1>2

IsMeaning(f, c, q) ==
  f = [k \in 0 .. Len(q) |-> IF k = 0 THEN c ELSE Meaning(f[k - 1], q[k])]

\* f[k] is the canvas after k requests.
AreMeant(f, c, q) == f[0] = c /\ \A k \in 1 .. Len(q) : f[k] = Meaning(f[k - 1], q[k])

LEMMA MeaningSteps ==
  ASSUME NEW c \in Canvases, NEW q \in Seq(GraphicsRequest)
  PROVE  \E f : AreMeant(f, c, q) /\ AllMean(c, q) = f[Len(q)] /\ \A k \in 0 .. Len(q) : f[k] \in Canvases
<1> DEFINE N == Len(q)
           g == [k \in 1 .. N |-> [v \in Canvases |-> Meaning(v, q[k])]]
           f == CHOOSE f : IsMeaning(f, c, q)
<1>1. N \in Nat /\ \A k \in 1 .. N : q[k] \in GraphicsRequest
  OBVIOUS
<1>2. g \in [1 .. N -> [Canvases -> Canvases]]
  BY <1>1, MeaningTyped
<1>3. PICK h \in [0 .. N -> Canvases] : IsSteps(h, N, c, g)
  <2> HIDE DEF N, g
  <2> QED BY <1>1, <1>2, StepsExist
<1>4. IsMeaning(h, c, q)
  <2> SUFFICES ASSUME NEW k \in 0 .. N
               PROVE  h[k] = IF k = 0 THEN c ELSE Meaning(h[k - 1], q[k])
    BY DEF IsMeaning
  <2>1. CASE k = 0
    BY <1>3, <2>1 DEF IsSteps
  <2>2. CASE k # 0
    <3>1. k \in 1 .. N /\ k - 1 \in 0 .. N
      BY <1>1, <2>2
    <3>2. h[k] = g[k][h[k - 1]] /\ h[k - 1] \in Canvases
      BY <1>3, <2>2, <3>1 DEF IsSteps
    <3> QED BY <2>2, <3>1, <3>2
  <2> QED BY <2>1, <2>2
<1>5. IsMeaning(f, c, q)
  BY <1>4
<1>6. AllMean(c, q) = f[N]
  BY Zenon DEF AllMean, IsMeaning
<1> HIDE DEF f
<1>7. AreMeant(f, c, q)
  <2>1. \A k \in 0 .. N : f[k] = IF k = 0 THEN c ELSE Meaning(f[k - 1], q[k])
    BY <1>5, Zenon DEF IsMeaning
  <2>2. 0 \in 0 .. N /\ \A k \in 1 .. N : k \in 0 .. N /\ k # 0
    BY <1>1
  <2> QED BY <2>1, <2>2 DEF AreMeant
<1>8. StaysIn(f, N, Canvases)
  BY <1>1, <1>7, MeaningTyped DEF AreMeant, StaysIn
<1>9. \A k \in 0 .. N : f[k] \in Canvases
  <2> HIDE DEF N
  <2> QED BY <1>1, <1>8, StepsStay
<1> QED BY <1>6, <1>7, <1>9

\* r starts with q.
Starts(q, r) == Len(q) <= Len(r) /\ \A k \in 1 .. Len(q) : q[k] = r[k]

LEMMA MeaningUnique ==
  ASSUME NEW c, NEW q \in Seq(GraphicsRequest), NEW r \in Seq(GraphicsRequest), Starts(q, r),
         NEW f, AreMeant(f, c, q), NEW h, AreMeant(h, c, r)
  PROVE  f[Len(q)] = h[Len(q)]
<1> DEFINE N == Len(q)
           G == {n \in Nat : n <= N => f[n] = h[n]}
<1>1. N \in Nat /\ Len(r) \in Nat /\ N <= Len(r)
  BY DEF Starts
<1>2. 0 \in G
  BY DEF AreMeant
<1>3. ASSUME NEW n \in G PROVE n + 1 \in G
  <2> SUFFICES ASSUME n + 1 <= N PROVE f[n + 1] = h[n + 1]
    OBVIOUS
  <2>1. n + 1 \in 1 .. N /\ n + 1 \in 1 .. Len(r) /\ n + 1 - 1 = n /\ f[n] = h[n]
    BY <1>1
  <2> QED BY <2>1 DEF AreMeant, Starts
<1>4. G = Nat
  <2> HIDE DEF G
  <2>1. G \in SUBSET Nat
    BY DEF G
  <2> QED BY <1>2, <1>3, <2>1, SetInduction
<1> QED BY <1>1, <1>4

LEMMA AllMeanTyped ==
  ASSUME NEW c \in Canvases, NEW q \in Seq(GraphicsRequest)
  PROVE  AllMean(c, q) \in Canvases
<1>1. PICK f : AreMeant(f, c, q) /\ AllMean(c, q) = f[Len(q)] /\ \A k \in 0 .. Len(q) : f[k] \in Canvases
  BY MeaningSteps
<1>2. Len(q) \in 0 .. Len(q)
  OBVIOUS
<1> QED BY <1>1, <1>2

LEMMA AllMeanNone ==
  ASSUME NEW c \in Canvases
  PROVE  AllMean(c, <<>>) = c
<1> DEFINE q == <<>>
<1>1. q \in Seq(GraphicsRequest) /\ Len(q) = 0
  OBVIOUS
<1> HIDE DEF q
<1>2. PICK f : AreMeant(f, c, q) /\ AllMean(c, q) = f[Len(q)]
  BY <1>1, MeaningSteps
<1>3. AllMean(c, q) = c
  BY <1>1, <1>2 DEF AreMeant
<1> QED BY <1>3 DEF q

LEMMA AllMeanAppend ==
  ASSUME NEW c \in Canvases, NEW q \in Seq(GraphicsRequest), NEW e \in GraphicsRequest
  PROVE  AllMean(c, Append(q, e)) = Meaning(AllMean(c, q), e)
<1> DEFINE r == Append(q, e)
<1>1. /\ r \in Seq(GraphicsRequest) /\ Len(q) \in Nat /\ Len(r) = Len(q) + 1
      /\ r[Len(q) + 1] = e /\ \A k \in 1 .. Len(q) : r[k] = q[k]
  OBVIOUS
<1> HIDE DEF r
<1>2. PICK f : AreMeant(f, c, q) /\ AllMean(c, q) = f[Len(q)]
  BY MeaningSteps
<1>3. PICK h : AreMeant(h, c, r) /\ AllMean(c, r) = h[Len(r)]
  BY <1>1, MeaningSteps
<1>4. Starts(q, r)
  BY <1>1 DEF Starts
<1>5. f[Len(q)] = h[Len(q)]
  BY <1>1, <1>2, <1>3, <1>4, MeaningUnique
<1>6. Len(r) \in 1 .. Len(r) /\ Len(r) - 1 = Len(q)
  BY <1>1
<1>7. h[Len(r)] = Meaning(h[Len(q)], e)
  BY <1>1, <1>3, <1>6 DEF AreMeant
<1> QED BY <1>2, <1>3, <1>5, <1>7 DEF r


-----------------------------------------------------------------------------
(* One request, and all of them *)

\* A story's requests are handled; n is the number of the next picture, R the
\* results that wait to be taken.
Handling(s) == [media : Media(s), tasks : Seq(Task), next : Nat, waits : BOOLEAN]

\* A picture that is decoded was submitted last, and its number is that of no other.
InTurn(v, n, R) ==
  /\ v.next = n /\ v.media.results = R
  /\ ~ v.waits => v.media.requests = <<>> /\ v.media.image = {}
  /\ \A p, r \in v.media.image : p = r
  /\ \A p \in v.media.image : p.id = n
  /\ \A k \in 1 .. Len(v.tasks) : v.tasks[k].id = n
       => v.media.image # {} /\ \A p \in v.media.image : Answering(p, v.tasks[k])

\* What will be on the canvas.
Due(m) == AllMean(WithImage(m), m.requests)

LEMMA AskedByTyped ==
  ASSUME NEW s \in Nat
  PROVE  /\ AskedBy(s) \subseteq GraphicsRequest /\ Seq(AskedBy(s)) \subseteq Seq(GraphicsRequest)
         /\ \A p \in Images(s) : p.request \in AskedBy(s) /\ p.request.kind = "draw" /\ p.id \in Nat
<1>1. AskedBy(s) \subseteq GraphicsRequest
  BY DEF AskedBy, GraphicsRequest, Drawn
<1> QED BY <1>1 DEF Images, AskedBy

LEMMA WithImageTyped ==
  ASSUME NEW s \in Nat, NEW m \in Media(s)
  PROVE  /\ WithImage(m) \in Canvases
         /\ m.image = {} => WithImage(m) = m.canvas
         /\ \A p \in m.image : m.image = {p} => WithImage(m) = Meaning(m.canvas, p.request)
<1>1. m.canvas \in Canvases /\ m.image \subseteq Images(s)
  BY DEF Media
<1>2. CASE m.image = {}
  BY <1>1, <1>2 DEF WithImage
<1>3. CASE m.image # {}
  <2> DEFINE p == CHOOSE p \in m.image : TRUE
  <2>1. p \in m.image /\ p.request \in GraphicsRequest
    BY <1>1, <1>3, AskedByTyped
  <2>2. WithImage(m) = Meaning(m.canvas, p.request)
    BY <1>3 DEF WithImage
  <2> HIDE DEF p
  <2> QED BY <1>1, <2>1, <2>2, MeaningTyped
<1> QED BY <1>2, <1>3

LEMMA MediaFields ==
  ASSUME NEW s, NEW m \in Media(s)
  PROVE  /\ m.requests \in Seq(AskedBy(s)) /\ m.image \in SUBSET Images(s) /\ m.results \in SUBSET Task
         /\ m.cache \in Seq(Kept(s)) /\ m.canvas \in Canvases /\ m.dirty \in BOOLEAN
         /\ m = [requests |-> m.requests, image |-> m.image, results |-> m.results, cache |-> m.cache,
                 canvas |-> m.canvas, dirty |-> m.dirty]
BY DEF Media

LEMMA MediaExcept ==
  ASSUME NEW s, NEW m \in Media(s), NEW x
  PROVE  /\ [m EXCEPT !.requests = x]
              = [requests |-> x, image |-> m.image, results |-> m.results, cache |-> m.cache,
                 canvas |-> m.canvas, dirty |-> m.dirty]
         /\ [m EXCEPT !.image = x]
              = [requests |-> m.requests, image |-> x, results |-> m.results, cache |-> m.cache,
                 canvas |-> m.canvas, dirty |-> m.dirty]
<1> DEFINE A == Seq(AskedBy(s))
           B == SUBSET Images(s)
           C == SUBSET Task
           D == Seq(Kept(s))
           Rec(a, b, c, d, e, f) ==
             [requests |-> a, image |-> b, results |-> c, cache |-> d, canvas |-> e, dirty |-> f]
<1>0. m \in [requests : A, image : B, results : C, cache : D, canvas : Canvases, dirty : BOOLEAN]
  BY DEF Media
<1> HIDE DEF A, B, C, D
<1>1. [m EXCEPT !.requests = x] = Rec(x, m.image, m.results, m.cache, m.canvas, m.dirty)
  BY <1>0
<1>2. [m EXCEPT !.image = x] = Rec(m.requests, x, m.results, m.cache, m.canvas, m.dirty)
  BY <1>0
<1> QED BY <1>1, <1>2

\* The answer r is taken.
IsTaken(u, m, r) == u = [m EXCEPT !.results = @ \ {r}, !.image = {}]

LEMMA MediaTaken ==
  ASSUME NEW s, NEW m \in Media(s), NEW r, NEW u, IsTaken(u, m, r)
  PROVE  u \in Media(s) /\ u.image = {} /\ u.results = m.results \ {r} /\ u.canvas = m.canvas
<1> DEFINE A == Seq(AskedBy(s))
           B == SUBSET Images(s)
           C == SUBSET Task
           D == Seq(Kept(s))
<1>1. /\ m \in [requests : A, image : B, results : C, cache : D, canvas : Canvases, dirty : BOOLEAN]
      /\ {} \in B /\ m.results \ {r} \in C
  BY DEF Media
<1> HIDE DEF A, B, C, D
<1>2. u \in [requests : A, image : B, results : C, cache : D, canvas : Canvases, dirty : BOOLEAN]
  BY <1>1 DEF IsTaken
<1>3. u.image = {} /\ u.results = m.results \ {r} /\ u.canvas = m.canvas
  BY <1>1 DEF IsTaken
<1> QED BY <1>2, <1>3 DEF Media, A, B, C, D

\* What Painted and Applied make of the media.
IsPainted(u, m, x) == u = [m EXCEPT !.canvas = x, !.dirty = TRUE]
IsApplied(u, m, x, y) == u = [m EXCEPT !.canvas = x, !.dirty = TRUE, !.cache = y]

\* What is to be drawn is the same.
SameRequests(u, m) == u.requests = m.requests /\ u.image = m.image /\ u.results = m.results

LEMMA MediaDone ==
  ASSUME NEW s, NEW m \in Media(s), NEW x \in Canvases, NEW y \in Seq(Kept(s)), NEW u,
         IsPainted(u, m, x) \/ IsApplied(u, m, x, y)
  PROVE  u \in Media(s) /\ SameRequests(u, m) /\ u.canvas = x
<1> DEFINE A == Seq(AskedBy(s))
           B == SUBSET Images(s)
           C == SUBSET Task
           D == Seq(Kept(s))
<1>0. m \in [requests : A, image : B, results : C, cache : D, canvas : Canvases, dirty : BOOLEAN] /\ y \in D
  BY DEF Media
<1> HIDE DEF A, B, C, D
<1>1. u \in [requests : A, image : B, results : C, cache : D, canvas : Canvases, dirty : BOOLEAN]
  <2>1. CASE IsPainted(u, m, x)
    BY <1>0, <2>1 DEF IsPainted
  <2>2. CASE IsApplied(u, m, x, y)
    BY <1>0, <2>2 DEF IsApplied
  <2> QED BY <2>1, <2>2
<1>2. u.requests = m.requests /\ u.image = m.image /\ u.results = m.results /\ u.canvas = x
  <2>1. CASE IsPainted(u, m, x)
    BY <1>0, <2>1 DEF IsPainted
  <2>2. CASE IsApplied(u, m, x, y)
    BY <1>0, <2>2 DEF IsApplied
  <2> QED BY <2>1, <2>2
<1> QED BY <1>1, <1>2 DEF Media, A, B, C, D, SameRequests

\* A request that waits for others.
Later(v, q) == [v EXCEPT !.waits = TRUE, !.media.requests = Append(@, q)]

LEMMA LaterDue ==
  ASSUME NEW s \in Nat, NEW v \in Handling(s), NEW n, NEW R, InTurn(v, n, R), NEW q \in AskedBy(s)
  PROVE  /\ Later(v, q) \in Handling(s) /\ InTurn(Later(v, q), n, R)
         /\ Due(Later(v, q).media) = Meaning(Due(v.media), q)
<1> DEFINE m == v.media
           u == [requests |-> Append(m.requests, q), image |-> m.image, results |-> m.results,
                 cache |-> m.cache, canvas |-> m.canvas, dirty |-> m.dirty]
           w == [media |-> u, tasks |-> v.tasks, next |-> v.next, waits |-> TRUE]
<1>1. /\ m \in Media(s) /\ v.tasks \in Seq(Task) /\ v.next \in Nat
      /\ v = [media |-> m, tasks |-> v.tasks, next |-> v.next, waits |-> v.waits]
  BY DEF Handling
<1>2. /\ m.requests \in Seq(AskedBy(s)) /\ m.image \in SUBSET Images(s) /\ m.results \in SUBSET Task
      /\ m.cache \in Seq(Kept(s)) /\ m.canvas \in Canvases /\ m.dirty \in BOOLEAN
      /\ m = [requests |-> m.requests, image |-> m.image, results |-> m.results, cache |-> m.cache,
              canvas |-> m.canvas, dirty |-> m.dirty]
  <2> HIDE DEF m
  <2> QED BY <1>1, MediaFields
<1>3. u \in Media(s)
  <2>1. Append(m.requests, q) \in Seq(AskedBy(s))
    BY <1>2
  <2> HIDE DEF m
  <2> QED BY <1>2, <2>1 DEF Media
<1>4. Later(v, q) = w
  <2>1. [m EXCEPT !.requests = Append(@, q)] = u
    <3> HIDE DEF m
    <3> QED BY <1>1, MediaExcept
  <2>2. Later(v, q) = [v EXCEPT !.waits = TRUE, !.media = [m EXCEPT !.requests = Append(@, q)]]
    BY <1>1 DEF Later
  <2> HIDE DEF u
  <2> QED BY <1>1, <2>1, <2>2
<1>5. w \in Handling(s)
  <2> HIDE DEF u, m
  <2> QED BY <1>1, <1>3 DEF Handling
<1>6. InTurn(w, n, R)
  <2> USE DEF InTurn
  <2> QED BY <1>1
<1>7. WithImage(u) = WithImage(m)
  BY DEF WithImage
<1>8. Due(u) = Meaning(Due(m), q)
  <2>1. WithImage(m) \in Canvases /\ m.requests \in Seq(GraphicsRequest) /\ q \in GraphicsRequest
    <3> HIDE DEF m
    <3> QED BY <1>1, <1>2, AskedByTyped, WithImageTyped
  <2>2. u.requests = Append(m.requests, q)
    OBVIOUS
  <2> HIDE DEF m, u
  <2> QED BY <1>7, <2>1, <2>2, AllMeanAppend DEF Due
<1> HIDE DEF w, u, m
<1>9. w.media = u
  BY DEF w
<1> QED BY <1>4, <1>5, <1>6, <1>8, <1>9 DEF m

\* Nothing waits, and nothing is decoded.
LEMMA NothingDue ==
  ASSUME NEW s \in Nat, NEW m \in Media(s), m.requests = <<>>
  PROVE  Due(m) = WithImage(m) /\ (m.image = {} => Due(m) = m.canvas)
<1>1. WithImage(m) \in Canvases /\ (m.image = {} => WithImage(m) = m.canvas)
  BY WithImageTyped
<1> QED BY <1>1, AllMeanNone DEF Due

\* A request that is done at once leaves media u.
Done(v, u) == [v EXCEPT !.media = u]

LEMMA DoneDue ==
  ASSUME NEW s \in Nat, NEW v \in Handling(s), NEW n, NEW R, InTurn(v, n, R), ~ v.waits,
         NEW u \in Media(s), SameRequests(u, v.media)
  PROVE  /\ Done(v, u) \in Handling(s) /\ InTurn(Done(v, u), n, R)
         /\ Due(Done(v, u).media) = u.canvas /\ Due(v.media) = v.media.canvas
<1> DEFINE m == v.media
           w == [media |-> u, tasks |-> v.tasks, next |-> v.next, waits |-> v.waits]
<1>1. /\ m \in Media(s) /\ v.tasks \in Seq(Task) /\ v.next \in Nat /\ v.waits \in BOOLEAN
      /\ v = [media |-> m, tasks |-> v.tasks, next |-> v.next, waits |-> v.waits]
  BY DEF Handling
<1>2. /\ m.requests = <<>> /\ m.image = {}
      /\ u.requests = m.requests /\ u.image = m.image /\ u.results = m.results
  BY DEF InTurn, SameRequests
<1>4. Done(v, u) = w
  BY <1>1 DEF Done
<1>5. w \in Handling(s)
  <2> HIDE DEF m
  <2> QED BY <1>1, <1>2 DEF Handling
<1>6. InTurn(w, n, R)
  <2> USE DEF InTurn
  <2> QED BY <1>1, <1>2
<1> HIDE DEF w, m
<1>8. Due(u) = u.canvas /\ Due(m) = m.canvas
  BY <1>1, <1>2, NothingDue
<1>9. w.media = u
  BY DEF w
<1> QED BY <1>4, <1>5, <1>6, <1>8, <1>9 DEF m

\* A picture that has to be decoded.
Decoding(v, q) ==
  [v EXCEPT !.waits = TRUE, !.tasks = Append(@, [id |-> v.next, resource |-> q.resource, story |-> q.story]),
            !.media.image = {[id |-> v.next, request |-> q]}]

LEMMA DecodingDue ==
  ASSUME NEW s \in Nat, NEW v \in Handling(s), NEW n, NEW R, InTurn(v, n, R), ~ v.waits,
         NEW q \in AskedBy(s), q.kind = "draw"
  PROVE  /\ Decoding(v, q) \in Handling(s) /\ InTurn(Decoding(v, q), n, R)
         /\ Due(Decoding(v, q).media) = Meaning(Due(v.media), q)
<1> DEFINE m == v.media
           p == [id |-> v.next, request |-> q]
           t == [id |-> v.next, resource |-> q.resource, story |-> q.story]
           u == [requests |-> m.requests, image |-> {p}, results |-> m.results,
                 cache |-> m.cache, canvas |-> m.canvas, dirty |-> m.dirty]
           w == [media |-> u, tasks |-> Append(v.tasks, t), next |-> v.next, waits |-> TRUE]
<1>1. /\ m \in Media(s) /\ v.tasks \in Seq(Task) /\ v.next \in Nat /\ v.waits \in BOOLEAN
      /\ v = [media |-> m, tasks |-> v.tasks, next |-> v.next, waits |-> v.waits]
  BY DEF Handling
<1>2. /\ m.requests \in Seq(AskedBy(s)) /\ m.image \in SUBSET Images(s) /\ m.results \in SUBSET Task
      /\ m.cache \in Seq(Kept(s)) /\ m.canvas \in Canvases /\ m.dirty \in BOOLEAN
      /\ m = [requests |-> m.requests, image |-> m.image, results |-> m.results, cache |-> m.cache,
              canvas |-> m.canvas, dirty |-> m.dirty]
  <2> HIDE DEF m
  <2> QED BY <1>1, MediaFields
<1>3. q \in [kind : {"draw"}, resource : Pictures, story : {s}] /\ t \in Task /\ p \in Images(s)
  <2>1. q \in [kind : {"draw"}, resource : Pictures, story : {s}]
    BY DEF AskedBy
  <2> QED BY <1>1, <2>1 DEF Task, Images
<1>4. u \in Media(s)
  <2> HIDE DEF m, p
  <2> QED BY <1>2, <1>3 DEF Media
<1>5. Decoding(v, q) = w
  <2>1. [m EXCEPT !.image = {p}] = u
    <3> HIDE DEF m, p
    <3> QED BY <1>1, MediaExcept
  <2>2. Decoding(v, q) = [v EXCEPT !.waits = TRUE, !.tasks = Append(v.tasks, t), !.media = [m EXCEPT !.image = {p}]]
    BY <1>1 DEF Decoding
  <2> HIDE DEF u, t, p
  <2> QED BY <1>1, <2>1, <2>2
<1>6. w \in Handling(s)
  <2>1. Append(v.tasks, t) \in Seq(Task)
    BY <1>1, <1>3
  <2> HIDE DEF u, m, t
  <2> QED BY <1>1, <1>4, <2>1 DEF Handling
<1>7. InTurn(w, n, R)
  <2> DEFINE r == Append(v.tasks, t)
  <2>1. /\ Len(v.tasks) \in Nat /\ Len(r) = Len(v.tasks) + 1 /\ r[Len(v.tasks) + 1] = t
        /\ \A k \in 1 .. Len(v.tasks) : r[k] = v.tasks[k]
    BY <1>1, <1>3
  <2>2. Answering(p, t)
    BY DEF Answering
  <2>3. ASSUME NEW k \in 1 .. Len(r), r[k].id = n PROVE Answering(p, r[k])
    <3>1. CASE k = Len(v.tasks) + 1
      BY <2>1, <2>2, <3>1
    <3>2. CASE k # Len(v.tasks) + 1
      <4>1. k \in 1 .. Len(v.tasks)
        BY <2>1, <3>2
      <4> QED BY <2>1, <2>3, <4>1 DEF InTurn
    <3> QED BY <3>1, <3>2
  <2> HIDE DEF r
  <2>4. w.tasks = r /\ w.media.image = {p} /\ w.next = n /\ w.media.results = R /\ p.id = n /\ w.waits
    BY DEF InTurn, r
  <2> HIDE DEF w, p
  <2> QED BY <2>3, <2>4 DEF InTurn
<1>8. m.requests = <<>> /\ m.image = {} /\ u.requests = <<>> /\ u.image = {p} /\ u.canvas = m.canvas /\ p.request = q
  BY DEF InTurn
<1> HIDE DEF w, u, m, p
<1>9. Due(m) = m.canvas /\ Due(u) = WithImage(u)
  BY <1>1, <1>4, <1>8, NothingDue
<1>10. WithImage(u) = Meaning(u.canvas, q)
  BY <1>4, <1>8, WithImageTyped
<1>11. w.media = u
  BY DEF w
<1> QED BY <1>5, <1>6, <1>7, <1>8, <1>9, <1>10, <1>11 DEF m


\* What stays in the cache is the story's.
LEMMA CacheTyped ==
  ASSUME NEW s \in Nat, NEW pictures \in Seq(Kept(s)), NEW e \in Kept(s)
  PROVE  Trimmed(Used(pictures, e)) \in Seq(Kept(s))
<1> DEFINE kept == {k \in DOMAIN pictures : pictures[k] # e}
           q == Used(pictures, e)
<1>1. q \in Seq(Kept(s))
  <2>1. Retain(pictures, kept) \in Seq(Kept(s))
    <3> HIDE DEF kept
    <3> QED BY RetainProperties
  <2> HIDE DEF kept
  <2>2. Append(Retain(pictures, kept), e) \in Seq(Kept(s))
    BY <2>1
  <2> QED BY <2>2 DEF Used, kept
<1> SUFFICES Trimmed(q) \in Seq(Kept(s))
  OBVIOUS
<1> HIDE DEF q
<1>2. CASE Len(q) <= CacheSize
  BY <1>1, <1>2 DEF Trimmed
<1>3. CASE ~ (Len(q) <= CacheSize)
  <2> DEFINE k == Len(q) - CacheSize
  <2>1. Len(q) \in Nat
    BY <1>1
  <2>2. CacheSize \in Nat
    BY DesktopAssumption
  <2>3. k \in 0 .. Len(q)
    BY <1>3, <2>1, <2>2
  <2>4. Trimmed(q) = SubSeq(q, k + 1, Len(q))
    BY <1>3 DEF Trimmed
  <2> HIDE DEF k
  <2> QED BY <1>1, <2>3, <2>4, SuffixProperties
<1> QED BY <1>2, <1>3

\* One request is done, or waits in its place.
LEMMA HandledDue ==
  ASSUME NEW s \in Nat, NEW v \in Handling(s), NEW n, NEW R, InTurn(v, n, R), NEW q \in AskedBy(s)
  PROVE  /\ Handled(v, q) \in Handling(s) /\ InTurn(Handled(v, q), n, R)
         /\ Due(Handled(v, q).media) = Meaning(Due(v.media), q)
<1> DEFINE m == v.media
           cached == {k \in DOMAIN m.cache : m.cache[k].resource = q.resource}
<1>1. m \in Media(s) /\ v.waits \in BOOLEAN
  BY DEF Handling
<1>2. q \in GraphicsRequest /\ m.canvas \in Canvases /\ m.cache \in Seq(Kept(s))
  <2> HIDE DEF m
  <2> QED BY <1>1, MediaFields, AskedByTyped
<1>3. CASE v.waits \/ (q.kind = "draw" /\ cached = {} /\ Len(v.tasks) >= ImageQueueCapacity)
  <2>1. Handled(v, q) = Later(v, q)
    BY <1>3 DEF Handled, Later
  <2> QED BY <2>1, LaterDue
<1>4. CASE ~ v.waits /\ q.kind # "draw"
  <2> DEFINE u == [m EXCEPT !.canvas = Painted(@, q), !.dirty = TRUE]
  <2>1. Painted(m.canvas, q) \in Canvases
    BY <1>2, <1>4, PaintedTyped
  <2>2. IsPainted(u, m, Painted(m.canvas, q))
    BY DEF IsPainted
  <2>3. Handled(v, q) = Done(v, u)
    BY <1>4 DEF Handled, Done
  <2> HIDE DEF u, m
  <2>4. u \in Media(s) /\ SameRequests(u, m) /\ u.canvas = Painted(m.canvas, q)
    BY <1>1, <1>2, <2>1, <2>2, MediaDone
  <2>5. /\ Done(v, u) \in Handling(s) /\ InTurn(Done(v, u), n, R)
        /\ Due(Done(v, u).media) = u.canvas /\ Due(v.media) = v.media.canvas
    <3>1. SameRequests(u, v.media)
      BY <2>4 DEF m
    <3> QED BY <1>4, <2>4, <3>1, DoneDue
  <2>6. Meaning(m.canvas, q) = Painted(m.canvas, q)
    BY <1>4 DEF Meaning
  <2> QED BY <2>3, <2>4, <2>5, <2>6 DEF m
<1>5. CASE ~ v.waits /\ q.kind = "draw" /\ cached # {}
  <2> DEFINE e == m.cache[Min(cached)]
             u == Applied(m, e)
  <2>1. Min(cached) \in cached
    <3>1. cached \subseteq Nat
      BY <1>2
    <3> HIDE DEF cached
    <3> QED BY <1>5, <3>1, LeastIsIn
  <2>2. e \in Kept(s) /\ e.resource = q.resource
    <3>1. PICK k \in DOMAIN m.cache : k = Min(cached) /\ m.cache[k].resource = q.resource
      BY <2>1
    <3> HIDE DEF m, cached
    <3>2. m.cache[k] \in Kept(s)
      BY <1>2
    <3> QED BY <3>1, <3>2
  <2>3. e = Picture(q) /\ q.resource \notin BadPictures /\ e \in Mark
    <3>1. q.story = s
      BY <1>5 DEF AskedBy
    <3>2. e = [resource |-> q.resource, story |-> s] /\ q.resource \in Pictures \ BadPictures
      <4> HIDE DEF e
      <4> QED BY <2>2 DEF Kept
    <3> HIDE DEF e
    <3> QED BY <3>1, <3>2 DEF Picture, Mark
  <2>4. Handled(v, q) = Done(v, u)
    BY <1>5 DEF Handled, Done
  <2> HIDE DEF e, m
  <2>5. Marked(m.canvas, e) \in Canvases /\ Trimmed(Used(m.cache, e)) \in Seq(Kept(s))
    BY <1>2, <2>2, <2>3, MarkedTyped, CacheTyped
  <2>6. IsApplied(u, m, Marked(m.canvas, e), Trimmed(Used(m.cache, e)))
    BY DEF IsApplied, Applied
  <2> HIDE DEF u
  <2>7. u \in Media(s) /\ SameRequests(u, m) /\ u.canvas = Marked(m.canvas, e)
    BY <1>1, <2>5, <2>6, MediaDone
  <2>8. /\ Done(v, u) \in Handling(s) /\ InTurn(Done(v, u), n, R)
        /\ Due(Done(v, u).media) = u.canvas /\ Due(v.media) = v.media.canvas
    <3>1. SameRequests(u, v.media)
      BY <2>7 DEF m
    <3> QED BY <1>5, <2>7, <3>1, DoneDue
  <2>9. Meaning(m.canvas, q) = Marked(m.canvas, e)
    BY <1>5, <2>3 DEF Meaning
  <2> QED BY <2>4, <2>7, <2>8, <2>9 DEF m
<1>6. CASE ~ v.waits /\ q.kind = "draw" /\ cached = {} /\ ~ (Len(v.tasks) >= ImageQueueCapacity)
  <2>1. Handled(v, q) = Decoding(v, q)
    BY <1>6 DEF Handled, Decoding
  <2> QED BY <1>6, <2>1, DecodingDue
<1> HIDE DEF cached, m
<1> QED BY <1>1, <1>3, <1>4, <1>5, <1>6


IsHandling(f, v, q) ==
  f = [k \in 0 .. Len(q) |-> IF k = 0 THEN v ELSE Handled(f[k - 1], q[k])]

LEMMA DueTyped ==
  ASSUME NEW s \in Nat, NEW m \in Media(s)
  PROVE  Due(m) \in Canvases
<1>1. WithImage(m) \in Canvases /\ m.requests \in Seq(GraphicsRequest)
  BY MediaFields, WithImageTyped, AskedByTyped
<1> QED BY <1>1, AllMeanTyped DEF Due

LEMMA AllHandledDue ==
  ASSUME NEW s \in Nat, NEW v \in Handling(s), NEW n, NEW R, InTurn(v, n, R), NEW q \in Seq(AskedBy(s))
  PROVE  /\ AllHandled(v, q) \in Handling(s) /\ InTurn(AllHandled(v, q), n, R)
         /\ Due(AllHandled(v, q).media) = AllMean(Due(v.media), q)
<1> DEFINE N == Len(q)
           V == {w \in Handling(s) : InTurn(w, n, R)}
           g == [k \in 1 .. N |-> [w \in V |-> Handled(w, q[k])]]
           f == CHOOSE f : IsHandling(f, v, q)
<1>1. N \in Nat /\ \A k \in 1 .. N : q[k] \in AskedBy(s)
  OBVIOUS
<1>2. g \in [1 .. N -> [V -> V]]
  BY <1>1, HandledDue
<1>3. PICK h \in [0 .. N -> V] : IsSteps(h, N, v, g)
  <2>1. v \in V
    OBVIOUS
  <2> HIDE DEF N, V, g
  <2> QED BY <1>1, <1>2, <2>1, StepsExist
<1>4. IsHandling(h, v, q)
  <2> SUFFICES ASSUME NEW k \in 0 .. N
               PROVE  h[k] = IF k = 0 THEN v ELSE Handled(h[k - 1], q[k])
    BY DEF IsHandling
  <2>1. CASE k = 0
    BY <1>3, <2>1 DEF IsSteps
  <2>2. CASE k # 0
    <3>1. k \in 1 .. N /\ k - 1 \in 0 .. N
      BY <1>1, <2>2
    <3>2. h[k] = g[k][h[k - 1]] /\ h[k - 1] \in V
      BY <1>3, <2>2, <3>1 DEF IsSteps
    <3> QED BY <2>2, <3>1, <3>2
  <2> QED BY <2>1, <2>2
<1>5. IsHandling(f, v, q)
  BY <1>4
<1>6. AllHandled(v, q) = f[N]
  BY Zenon DEF AllHandled, IsHandling
<1> HIDE DEF f
<1>7. f[0] = v /\ \A k \in 1 .. N : f[k] = Handled(f[k - 1], q[k])
  <2>1. \A k \in 0 .. N : f[k] = IF k = 0 THEN v ELSE Handled(f[k - 1], q[k])
    BY <1>5, Zenon DEF IsHandling
  <2>2. 0 \in 0 .. N /\ \A k \in 1 .. N : k \in 0 .. N /\ k # 0
    BY <1>1
  <2> HIDE DEF N
  <2> QED BY <2>1, <2>2
<1>8. Due(v.media) \in Canvases /\ q \in Seq(GraphicsRequest)
  <2>1. v.media \in Media(s)
    BY DEF Handling
  <2> QED BY <2>1, DueTyped, AskedByTyped
<1>9. PICK c : AreMeant(c, Due(v.media), q) /\ AllMean(Due(v.media), q) = c[N]
  BY <1>8, MeaningSteps
<1> DEFINE G == {k \in Nat : k <= N => f[k] \in V /\ Due(f[k].media) = c[k]}
<1>10. 0 \in G
  BY <1>7, <1>9 DEF AreMeant
<1>11. ASSUME NEW k \in G PROVE k + 1 \in G
  <2> SUFFICES ASSUME k + 1 <= N PROVE f[k + 1] \in V /\ Due(f[k + 1].media) = c[k + 1]
    OBVIOUS
  <2>1. k + 1 \in 1 .. N /\ k + 1 - 1 = k /\ f[k] \in Handling(s) /\ InTurn(f[k], n, R) /\ Due(f[k].media) = c[k]
    BY <1>1
  <2>2. f[k + 1] = Handled(f[k], q[k + 1])
    BY <1>7, <2>1
  <2>3. c[k + 1] = Meaning(c[k], q[k + 1])
    BY <1>9, <2>1 DEF AreMeant
  <2>4. q[k + 1] \in AskedBy(s)
    BY <1>1, <2>1
  <2>5. /\ Handled(f[k], q[k + 1]) \in Handling(s) /\ InTurn(Handled(f[k], q[k + 1]), n, R)
        /\ Due(Handled(f[k], q[k + 1]).media) = Meaning(Due(f[k].media), q[k + 1])
    BY <2>1, <2>4, HandledDue
  <2> QED BY <2>1, <2>2, <2>3, <2>5
<1>12. G = Nat
  <2> HIDE DEF G
  <2>1. G \in SUBSET Nat
    BY DEF G
  <2> QED BY <1>10, <1>11, <2>1, SetInduction
<1>13. f[N] \in V /\ Due(f[N].media) = c[N]
  BY <1>1, <1>12
<1> QED BY <1>6, <1>9, <1>13


-----------------------------------------------------------------------------
(* poll_graphics *)

LEMMA RangeFinite ==
  ASSUME NEW S, NEW q \in Seq(S)
  PROVE  IsFiniteSet(Range(q)) /\ Range(q) \subseteq S
<1>1. Len(q) \in Nat /\ DOMAIN q = 1 .. Len(q) /\ q \in [1 .. Len(q) -> S]
  OBVIOUS
<1>2. IsFiniteSet(1 .. Len(q))
  BY <1>1, FS_Interval
<1>3. q \in Surjection(1 .. Len(q), Range(q))
  BY <1>1 DEF Surjection, Range
<1>4. Range(q) \subseteq S
  BY <1>1 DEF Range
<1> QED BY <1>2, <1>3, <1>4, FS_Surjection

\* The number of the next picture is free.
LEMMA NextIsFree ==
  ASSUME NEW R \in SUBSET Task, IsFiniteSet(R), image_tasks \in Seq(Task), image_held \in Seq(Task)
  PROVE  /\ NextImage(R) \in Nat
         /\ \A t \in R \cup Range(image_tasks) \cup Range(image_held) : t.id # NextImage(R)
<1> DEFINE q == image_tasks \o image_held
           D == R \cup ToSet(q)
           taken == {t.id : t \in D}
           c == Cardinality(taken)
<1>1. q \in Seq(Task)
  OBVIOUS
<1>2. ToSet(q) = Range(q)
  BY DEF ToSet, Range
<1>3. Range(q) = Range(image_tasks) \cup Range(image_held)
  <2>1. ASSUME NEW x \in Range(q) PROVE x \in Range(image_tasks) \cup Range(image_held)
    <3>1. PICK i \in 1 .. Len(q) : x = q[i]
      BY <1>1 DEF Range
    <3>2. CASE i <= Len(image_tasks)
      BY <3>1, <3>2 DEF Range
    <3>3. CASE ~ (i <= Len(image_tasks))
      <4>1. /\ i - Len(image_tasks) \in 1 .. Len(image_held)
            /\ x = image_held[i - Len(image_tasks)]
        BY <3>1, <3>3
      <4> QED BY <4>1 DEF Range
    <3> QED BY <3>2, <3>3
  <2>2. Range(image_tasks) \subseteq Range(q)
    <3> SUFFICES ASSUME NEW i \in 1 .. Len(image_tasks) PROVE image_tasks[i] \in Range(q)
      BY DEF Range
    <3>1. i \in 1 .. Len(q) /\ q[i] = image_tasks[i]
      OBVIOUS
    <3> HIDE DEF q
    <3> QED BY <1>1, <3>1 DEF Range
  <2>3. Range(image_held) \subseteq Range(q)
    <3> SUFFICES ASSUME NEW i \in 1 .. Len(image_held) PROVE image_held[i] \in Range(q)
      BY DEF Range
    <3>1. PICK j : j = Len(image_tasks) + i
      OBVIOUS
    <3>2. j \in 1 .. Len(q) /\ q[j] = image_held[i]
      BY <3>1
    <3> HIDE DEF q
    <3> QED BY <1>1, <3>2 DEF Range
  <2> QED BY <2>1, <2>2, <2>3
<1>4. IsFiniteSet(D) /\ D \subseteq Task
  <2> HIDE DEF q
  <2>1. IsFiniteSet(Range(q)) /\ Range(q) \subseteq Task
    BY <1>1, RangeFinite
  <2> QED BY <1>2, <2>1, FS_Union
<1> HIDE DEF q, D
<1>5. IsFiniteSet(taken) /\ taken \subseteq Nat
  <2> DEFINE f == [t \in D |-> t.id]
  <2>1. f \in Surjection(D, taken)
    BY DEF Surjection
  <2>2. taken \subseteq Nat
    BY <1>4 DEF Task
  <2> HIDE DEF f, taken
  <2> QED BY <1>4, <2>1, <2>2, FS_Surjection
<1> HIDE DEF taken
<1>6. c \in Nat
  BY <1>5, FS_CardinalityType
<1>7. (0 .. c) \ taken # {}
  <2> SUFFICES ASSUME 0 .. c \subseteq taken PROVE FALSE
    OBVIOUS
  <2>1. Cardinality(0 .. c) <= c
    BY <1>5, FS_Subset
  <2>2. Cardinality(0 .. c) = c + 1
    <3> HIDE DEF c
    <3>1. Cardinality(0 .. c) = IF 0 > c THEN 0 ELSE c - 0 + 1
      BY <1>6, FS_Interval
    <3> QED BY <1>6, <3>1
  <2> QED BY <1>6, <2>1, <2>2
<1>8. Min((0 .. c) \ taken) \in (0 .. c) \ taken
  <2> DEFINE E == (0 .. c) \ taken
  <2>1. E \subseteq Nat /\ E # {}
    BY <1>6, <1>7
  <2> HIDE DEF E
  <2>2. Min(E) \in E
    BY <2>1, LeastIsIn
  <2> QED BY <2>2 DEF E
<1>9. NextImage(R) = Min((0 .. c) \ taken)
  BY DEF NextImage, taken, D, q
<1>10. \A t \in R \cup Range(image_tasks) \cup Range(image_held) : t.id \in taken
  BY <1>2, <1>3 DEF taken, D
<1> HIDE DEF c
<1>11. NextImage(R) \in 0 .. c /\ NextImage(R) \notin taken
  BY <1>8, <1>9
<1>12. NextImage(R) \in Nat
  BY <1>6, <1>11
<1> QED BY <1>10, <1>11, <1>12

\* All that waits is handled, with no picture being decoded.
LEMMA HandledAllDue ==
  ASSUME NEW s \in Nat, NEW m \in Media(s), m.image = {}, IsFiniteSet(m.results),
         image_tasks \in Seq(Task), image_held \in Seq(Task), NEW q \in Seq(AskedBy(s)),
         NEW g, g = HandledAll(m, image_tasks, q)
  PROVE  /\ g.media \in Media(s) /\ g.tasks \in Seq(Task) /\ g.media.results = m.results
         /\ Due(g.media) = AllMean(m.canvas, q)
         /\ \A p, r \in g.media.image : p = r
         /\ \A p \in g.media.image : \A t \in g.media.results \cup Range(g.tasks) \cup Range(image_held) :
              Answering(p, t)
<1> DEFINE u == [m EXCEPT !.requests = <<>>]
           R == m.results
           n == NextImage(R)
           v == [media |-> u, tasks |-> image_tasks, next |-> n, waits |-> FALSE]
<1>1. R \in SUBSET Task
  BY MediaFields
<1>2. n \in Nat /\ \A t \in R \cup Range(image_tasks) \cup Range(image_held) : t.id # n
  <2> HIDE DEF R
  <2> QED BY <1>1, NextIsFree DEF R
<1>3. u \in Media(s) /\ u.requests = <<>> /\ u.image = {} /\ u.results = R /\ u.canvas = m.canvas
  <2>1. u = [requests |-> <<>>, image |-> m.image, results |-> m.results, cache |-> m.cache,
             canvas |-> m.canvas, dirty |-> m.dirty]
    BY MediaExcept
  <2> HIDE DEF u
  <2>2. /\ m.image \in SUBSET Images(s) /\ m.results \in SUBSET Task
        /\ m.cache \in Seq(Kept(s)) /\ m.canvas \in Canvases /\ m.dirty \in BOOLEAN
    BY MediaFields
  <2> QED BY <2>1, <2>2 DEF Media
<1> HIDE DEF n, u
<1>4. v \in Handling(s)
  BY <1>2, <1>3 DEF Handling
<1>5. InTurn(v, n, R)
  <2>1. \A k \in 1 .. Len(image_tasks) : image_tasks[k].id # n
    BY <1>2 DEF Range
  <2> HIDE DEF R
  <2> QED BY <1>3, <2>1 DEF InTurn
<1>6. Due(v.media) = m.canvas
  <2>1. Due(u) = u.canvas
    BY <1>3, NothingDue
  <2> QED BY <1>3, <2>1
<1>7. g = AllHandled(v, q)
  BY DEF HandledAll, n, u
<1> HIDE DEF v, R
<1>8. g \in Handling(s) /\ InTurn(g, n, R) /\ Due(g.media) = AllMean(m.canvas, q)
  BY <1>4, <1>5, <1>6, <1>7, AllHandledDue
<1>9. g.media \in Media(s) /\ g.tasks \in Seq(Task) /\ g.media.results = R
  BY <1>8 DEF Handling, InTurn
<1>10. ASSUME NEW p \in g.media.image, NEW t \in g.media.results \cup Range(g.tasks) \cup Range(image_held)
       PROVE  Answering(p, t)
  <2>1. p.id = n
    BY <1>8 DEF InTurn
  <2>2. CASE t \in R \cup Range(image_held)
    BY <1>2, <2>1, <2>2 DEF Answering
  <2>3. CASE t \in Range(g.tasks)
    <3>1. PICK k \in 1 .. Len(g.tasks) : t = g.tasks[k]
      BY <1>9, <2>3 DEF Range
    <3> QED BY <1>8, <2>1, <3>1 DEF InTurn, Answering
  <2> QED BY <1>9, <2>2, <2>3
<1>11. \A p, r \in g.media.image : p = r
  BY <1>8 DEF InTurn
<1> QED BY <1>8, <1>9, <1>10, <1>11 DEF R


\* The picture that was waited for is on the canvas, if it could be decoded.
LEMMA AnswerDue ==
  ASSUME NEW s \in Nat, NEW m \in Media(s), NEW p \in Images(s), NEW r \in Task,
         r.resource = p.request.resource, r.story = p.request.story, m.image = {}
  PROVE  /\ AppliedResult(m, r) \in Media(s) /\ SameRequests(AppliedResult(m, r), m)
         /\ AppliedResult(m, r).canvas = Meaning(m.canvas, p.request)
<1> DEFINE e == Picture(r)
           u == AppliedResult(m, r)
<1>1. p.request.kind = "draw" /\ p.request.resource \in Pictures /\ p.request.story = s
  BY DEF Images
<1>2. e = Picture(p.request)
  BY DEF Picture
<1>3. CASE r.resource \in BadPictures
  <2>1. u = m
    BY <1>3 DEF AppliedResult
  <2>2. Meaning(m.canvas, p.request) = m.canvas
    BY <1>1, <1>3 DEF Meaning
  <2> HIDE DEF u
  <2>3. u \in Media(s) /\ SameRequests(u, m) /\ u.canvas = Meaning(m.canvas, p.request)
    BY <2>1, <2>2 DEF SameRequests
  <2> QED BY <2>3 DEF u
<1>4. CASE r.resource \notin BadPictures
  <2>1. e \in Kept(s) /\ e \in Mark
    BY <1>1, <1>4 DEF Picture, Kept, Mark
  <2>2. m.canvas \in Canvases /\ m.cache \in Seq(Kept(s))
    BY MediaFields
  <2>3. u = Applied(m, e)
    BY <1>4 DEF AppliedResult
  <2>4. Meaning(m.canvas, p.request) = Marked(m.canvas, e)
    BY <1>1, <1>2, <1>4 DEF Meaning
  <2> HIDE DEF u, e
  <2>5. Marked(m.canvas, e) \in Canvases /\ Trimmed(Used(m.cache, e)) \in Seq(Kept(s))
    BY <2>1, <2>2, MarkedTyped, CacheTyped
  <2>6. IsApplied(u, m, Marked(m.canvas, e), Trimmed(Used(m.cache, e)))
    BY <2>3 DEF IsApplied, Applied
  <2>7. u \in Media(s) /\ SameRequests(u, m) /\ u.canvas = Marked(m.canvas, e)
    BY <2>5, <2>6, MediaDone
  <2> QED BY <2>4, <2>7 DEF u
<1> QED BY <1>3, <1>4

\* Nothing is lost or done twice when answers come.
LEMMA GraphicsDue ==
  ASSUME DrawInv, NEW s \in Nat, s = machine.story, NEW arrived \in Seq(Task),
         Range(arrived) \subseteq Range(image_done) \cup Range(image_held),
         NEW g, g = Graphics(arrived)
  PROVE  /\ g.media \in Media(s) /\ IsFiniteSet(g.media.results) /\ g.tasks \in Seq(Task)
         /\ Due(g.media) = AllMean(WithImage(media), media.requests \o machine.graphics)
         /\ \A p, r \in g.media.image : p = r
         /\ \A p \in g.media.image : \A t \in g.media.results \cup Range(g.tasks) \cup Range(image_held) :
              Answering(p, t)
<1> DEFINE results == media.results \cup ToSet(arrived)
           requests == media.requests \o machine.graphics
           answers == {r \in results : \E p \in media.image : p.id = r.id}
           m == [media EXCEPT !.results = results]
<1>1. /\ media \in Media(s) /\ IsFiniteSet(media.results) /\ machine.graphics \in Seq(AskedBy(s))
      /\ image_tasks \in Seq(Task) /\ image_held \in Seq(Task) /\ image_done \in Seq(Task)
  BY DEF DrawInv
<1>2. /\ media.requests \in Seq(AskedBy(s)) /\ media.image \in SUBSET Images(s)
      /\ media.results \in SUBSET Task /\ media.cache \in Seq(Kept(s))
      /\ media.canvas \in Canvases /\ media.dirty \in BOOLEAN
  BY <1>1, MediaFields
<1>3. requests \in Seq(AskedBy(s))
  BY <1>1, <1>2
<1>4. /\ results \in SUBSET Task /\ IsFiniteSet(results)
      /\ results \subseteq media.results \cup Range(image_done) \cup Range(image_held)
  <2>1. ToSet(arrived) = Range(arrived)
    BY DEF ToSet, Range
  <2>2. IsFiniteSet(Range(arrived)) /\ Range(arrived) \subseteq Task
    BY RangeFinite
  <2>3. IsFiniteSet(media.results \cup Range(arrived))
    BY <1>1, <2>2, FS_Union
  <2> QED BY <1>2, <2>1, <2>2, <2>3
<1>5. \A p \in media.image : \A t \in results \cup Range(image_tasks) \cup Range(image_held) : Answering(p, t)
  <2> HIDE DEF results
  <2> QED BY <1>4 DEF DrawInv
<1> HIDE DEF results, requests
<1>6. m \in Media(s) /\ m.requests = media.requests /\ m.image = media.image /\ m.results = results
      /\ m.canvas = media.canvas
  <2> SUFFICES ASSUME TRUE
               PROVE  m \in Media(s) /\ m.requests = media.requests /\ m.image = media.image
                        /\ m.results = results /\ m.canvas = media.canvas
    OBVIOUS
  <2> DEFINE A == Seq(AskedBy(s))
             B == SUBSET Images(s)
             D == Seq(Kept(s))
  <2>1. media \in [requests : A, image : B, results : SUBSET Task, cache : D, canvas : Canvases, dirty : BOOLEAN]
    BY <1>1 DEF Media
  <2> HIDE DEF A, B, D
  <2>2. m \in [requests : A, image : B, results : SUBSET Task, cache : D, canvas : Canvases, dirty : BOOLEAN]
    BY <1>4, <2>1
  <2>3. m.requests = media.requests /\ m.image = media.image /\ m.results = results /\ m.canvas = media.canvas
    BY <2>1
  <2> QED BY <2>2, <2>3 DEF Media, A, B, D
<1>7. CASE media.image # {} /\ answers = {}
  <2> DEFINE u == [m EXCEPT !.requests = requests]
  <2>1. g = [media |-> u, tasks |-> image_tasks]
    BY <1>7 DEF Graphics, results, requests
  <2> HIDE DEF m
  <2>2. u = [requests |-> requests, image |-> m.image, results |-> m.results, cache |-> m.cache,
             canvas |-> m.canvas, dirty |-> m.dirty]
    BY <1>6, MediaExcept
  <2> HIDE DEF u
  <2>3. m.cache \in Seq(Kept(s)) /\ m.dirty \in BOOLEAN
    BY <1>6, MediaFields
  <2>4. u \in Media(s)
    BY <1>2, <1>3, <1>4, <1>6, <2>2, <2>3 DEF Media
  <2>5. u.image = media.image /\ u.canvas = media.canvas /\ u.requests = requests /\ u.results = results
    BY <1>6, <2>2
  <2>6. WithImage(u) = WithImage(media)
    BY <2>5 DEF WithImage
  <2>7. Due(u) = AllMean(WithImage(media), requests)
    BY <2>5, <2>6 DEF Due
  <2>8. g.media = u /\ g.tasks = image_tasks
    BY <2>1
  <2>9. \A p, r \in u.image : p = r
    BY <2>5 DEF DrawInv
  <2> QED BY <1>1, <1>4, <1>5, <2>4, <2>5, <2>7, <2>8, <2>9 DEF requests
<1>8. ASSUME NEW first \in Media(s), first.image = {}, IsFiniteSet(first.results),
             first.canvas = WithImage(media), g = HandledAll(first, image_tasks, requests)
      PROVE  /\ g.media \in Media(s) /\ IsFiniteSet(g.media.results) /\ g.tasks \in Seq(Task)
             /\ Due(g.media) = AllMean(WithImage(media), requests)
             /\ \A p, r \in g.media.image : p = r
             /\ \A p \in g.media.image : \A t \in g.media.results \cup Range(g.tasks) \cup Range(image_held) :
                  Answering(p, t)
  <2>1. /\ g.media \in Media(s) /\ g.tasks \in Seq(Task) /\ g.media.results = first.results
        /\ Due(g.media) = AllMean(first.canvas, requests)
        /\ \A p, r \in g.media.image : p = r
        /\ \A p \in g.media.image : \A t \in g.media.results \cup Range(g.tasks) \cup Range(image_held) :
             Answering(p, t)
    BY <1>1, <1>3, <1>8, HandledAllDue
  <2> QED BY <1>8, <2>1
<1>9. CASE media.image = {}
  <2>1. g = HandledAll(m, image_tasks, requests)
    BY <1>9 DEF Graphics, results, requests
  <2>2. WithImage(media) = media.canvas
    BY <1>9 DEF WithImage
  <2> HIDE DEF m
  <2> QED BY <1>4, <1>6, <1>8, <1>9, <2>1, <2>2 DEF requests
<1>10. CASE media.image # {} /\ answers # {}
  <2> DEFINE r == CHOOSE a \in answers : TRUE
             u == [m EXCEPT !.results = @ \ {r}, !.image = {}]
             first == AppliedResult(u, r)
  <2>1. g = HandledAll(first, image_tasks, requests)
    BY <1>10 DEF Graphics, results, requests
  <2>2. r \in answers
    BY <1>10
  <2> HIDE DEF r, m
  <2>3. PICK p \in media.image : p.id = r.id /\ r \in results
    BY <2>2
  <2>4. p \in Images(s) /\ r \in Task
    BY <1>2, <1>4, <2>3
  <2>5. r.resource = p.request.resource /\ r.story = p.request.story
    BY <1>5, <2>3 DEF Answering
  <2>6. IsTaken(u, m, r)
    BY DEF IsTaken
  <2> HIDE DEF u
  <2>7. u \in Media(s) /\ u.image = {} /\ u.results = m.results \ {r} /\ u.canvas = m.canvas
    BY <1>6, <2>6, MediaTaken
  <2>8. u.results = results \ {r} /\ u.canvas = media.canvas
    BY <1>6, <2>7
  <2>9. first \in Media(s) /\ SameRequests(first, u) /\ first.canvas = Meaning(u.canvas, p.request)
    BY <2>4, <2>5, <2>7, AnswerDue
  <2>10. WithImage(media) = Meaning(media.canvas, p.request)
    <3>1. media.image = {p}
      BY <2>3 DEF DrawInv
    <3> QED BY <1>1, <3>1, WithImageTyped
  <2>11. IsFiniteSet(results \ {r})
    BY <1>4, FS_Subset
  <2> HIDE DEF first
  <2>12. first.image = {} /\ first.results = results \ {r} /\ first.canvas = WithImage(media)
    BY <2>7, <2>8, <2>9, <2>10 DEF SameRequests
  <2> QED BY <1>8, <2>1, <2>9, <2>11, <2>12 DEF requests
<1> HIDE DEF answers, m
<1> QED BY <1>7, <1>9, <1>10


-----------------------------------------------------------------------------
(* The machine and the screen *)

screen == <<machine, presented, slice, frame, wholes>>

LEMMA ScreenStays == ScreenInv /\ UNCHANGED screen => ScreenInv'
BY DEF ScreenInv, WholeInv, screen

LEMMA ScreenInvInit == DesktopInit => ScreenInv
BY DEF DesktopInit, ScreenInv, WholeInv, Machine, NewMachine, NothingShown, States, NoStory

\* The story goes on in its slice.
LEMMA ScreenStory ==
  ASSUME DesktopAssumption, ScreenInv, Story
  PROVE  ScreenInv'
<1> DEFINE G == Seq(GraphicsRequest)
<1>0. /\ machine \in [story : Nat, state : States, revision : Nat, pending : BOOLEAN, selects : BOOLEAN,
                      text : Nat, graphics : G]
      /\ {"run", "wait", "file", "halt"} \subseteq States
  BY DEF ScreenInv, WholeInv, Machine, States
<1>1. ASSUME Prints PROVE ScreenInv'
  <2>1. machine' = [machine EXCEPT !.text = @ + 1, !.pending = TRUE] /\ UNCHANGED <<presented, frame, slice, wholes>>
    BY <1>1 DEF Prints, StoryDoes, screenVars, ghostVars
  <2>2. frame = "slice" /\ machine.state = "run" /\ machine.revision = slice
    BY <1>1 DEF Prints, StoryDoes, MayRun
  <2> HIDE DEF G
  <2>3. machine' \in [story : Nat, state : States, revision : Nat, pending : BOOLEAN, selects : BOOLEAN,
                      text : Nat, graphics : G]
    <3>1. PICK t \in Nat : t = machine.text + 1
      BY <1>0
    <3>2. machine' = [machine EXCEPT !.text = t, !.pending = TRUE]
      BY <2>1, <3>1
    <3> QED BY <1>0, <3>2
  <2>4. machine'.story = machine.story /\ machine'.state = "run" /\ machine'.revision = machine.revision
    BY <1>0, <2>1, <2>2
  <2>5. machine' \in Machine
    BY <2>3 DEF Machine, G
  <2> QED BY <2>1, <2>2, <2>4, <2>5 DEF ScreenInv, WholeInv
<1>2. ASSUME NEW q \in Requests, Draws(q) PROVE ScreenInv'
  <2>1. machine' = [machine EXCEPT !.graphics = Append(@, q), !.pending = TRUE]
          /\ UNCHANGED <<presented, frame, slice, wholes>>
    BY <1>2 DEF Draws, StoryDoes, screenVars, ghostVars
  <2>2. frame = "slice" /\ machine.state = "run" /\ machine.revision = slice
    BY <1>2 DEF Draws, StoryDoes, MayRun
  <2>3. Append(machine.graphics, q) \in G
    <3>1. q \in GraphicsRequest
      BY <1>0 DEF Requests, GraphicsRequest, Drawn
    <3> QED BY <1>0, <3>1
  <2> HIDE DEF G
  <2>4. machine' \in [story : Nat, state : States, revision : Nat, pending : BOOLEAN, selects : BOOLEAN,
                      text : Nat, graphics : G]
    BY <1>0, <2>1, <2>3
  <2>5. /\ machine'.story = machine.story /\ machine'.state = "run" /\ machine'.revision = machine.revision
        /\ machine'.text = machine.text
    BY <1>0, <2>1, <2>2
  <2>6. machine' \in Machine
    BY <2>4 DEF Machine, G
  <2> QED BY <2>1, <2>2, <2>5, <2>6 DEF ScreenInv, WholeInv
\* At a boundary the text is whole, and the machine is at none that was shown.
<1>3. ASSUME UNCHANGED <<presented, frame, slice>>, wholes' = wholes \cup {machine.text},
             frame = "slice", machine.revision = slice, machine' \in Machine, machine'.story = machine.story,
             machine'.text = machine.text, machine'.revision # machine.revision \/ machine'.state # "wait"
      PROVE  ScreenInv'
  BY <1>3 DEF ScreenInv, WholeInv
<1>4. ASSUME Selects PROVE ScreenInv'
  <2>1. PICK waits \in BOOLEAN :
          machine' = [machine EXCEPT !.revision = @ + 1, !.pending = FALSE, !.selects = waits,
                                     !.state = IF waits THEN "wait" ELSE "run"]
    BY <1>4 DEF Selects, StoryDoes
  <2>2. /\ UNCHANGED <<presented, frame, slice>> /\ wholes' = wholes \cup {machine.text}
        /\ frame = "slice" /\ machine.revision = slice
    BY <1>4 DEF Selects, StoryDoes, MayRun, Boundary, screenVars
  <2> HIDE DEF G
  <2>3. machine' \in [story : Nat, state : States, revision : Nat, pending : BOOLEAN, selects : BOOLEAN,
                      text : Nat, graphics : G]
    <3>1. PICK r \in Nat : r = machine.revision + 1
      BY <1>0
    <3>2. PICK z \in States : z = IF waits THEN "wait" ELSE "run"
      BY <1>0
    <3>3. machine' = [machine EXCEPT !.revision = r, !.pending = FALSE, !.selects = waits, !.state = z]
      BY <2>1, <3>1, <3>2
    <3> QED BY <1>0, <3>3
  <2>4. machine'.story = machine.story /\ machine'.text = machine.text /\ machine'.revision # machine.revision
    BY <1>0, <2>1
  <2>5. machine' \in Machine
    BY <2>3 DEF Machine, G
  <2> QED BY <1>3, <2>2, <2>4, <2>5
<1>5. ASSUME Polls PROVE ScreenInv'
  <2>1. machine' = [machine EXCEPT !.revision = @ + 1, !.pending = FALSE]
    BY <1>5 DEF Polls, StoryDoes
  <2>2. /\ UNCHANGED <<presented, frame, slice>> /\ wholes' = wholes \cup {machine.text}
        /\ frame = "slice" /\ machine.revision = slice
    BY <1>5 DEF Polls, StoryDoes, MayRun, Boundary, screenVars
  <2> HIDE DEF G
  <2>3. machine' \in [story : Nat, state : States, revision : Nat, pending : BOOLEAN, selects : BOOLEAN,
                      text : Nat, graphics : G]
    <3>1. PICK r \in Nat : r = machine.revision + 1
      BY <1>0
    <3>2. machine' = [machine EXCEPT !.revision = r, !.pending = FALSE]
      BY <2>1, <3>1
    <3> QED BY <1>0, <3>2
  <2>4. machine'.story = machine.story /\ machine'.text = machine.text /\ machine'.revision # machine.revision
    BY <1>0, <2>1
  <2>5. machine' \in Machine
    BY <2>3 DEF Machine, G
  <2> QED BY <1>3, <2>2, <2>4, <2>5
<1>6. ASSUME Prompts \/ Quits \/ RestartsItself PROVE ScreenInv'
  <2>1. \/ machine' = [machine EXCEPT !.state = "file", !.pending = TRUE]
        \/ machine' = [machine EXCEPT !.state = "halt"]
        \/ machine' = [machine EXCEPT !.state = "run", !.revision = 0, !.pending = TRUE, !.selects = FALSE]
    BY <1>6 DEF Prompts, Quits, RestartsItself, StoryDoes, Stopped, Restarted
  <2>2. /\ UNCHANGED <<presented, frame, slice>> /\ wholes' = wholes \cup {machine.text}
        /\ frame = "slice" /\ machine.revision = slice
    BY <1>6 DEF Prompts, Quits, RestartsItself, StoryDoes, MayRun, Boundary, screenVars
  <2> HIDE DEF G
  <2>3. machine' \in [story : Nat, state : States, revision : Nat, pending : BOOLEAN, selects : BOOLEAN,
                      text : Nat, graphics : G]
    <3>1. CASE machine' = [machine EXCEPT !.state = "file", !.pending = TRUE]
      BY <1>0, <3>1
    <3>2. CASE machine' = [machine EXCEPT !.state = "halt"]
      BY <1>0, <3>2
    <3>3. CASE machine' = [machine EXCEPT !.state = "run", !.revision = 0, !.pending = TRUE, !.selects = FALSE]
      BY <1>0, <3>3
    <3> QED BY <2>1, <3>1, <3>2, <3>3
  <2>4. machine'.story = machine.story /\ machine'.text = machine.text /\ machine'.state # "wait"
    BY <1>0, <2>1
  <2>5. machine' \in Machine
    BY <2>3 DEF Machine, G
  <2> QED BY <1>3, <2>2, <2>4, <2>5
<1> QED BY <1>1, <1>2, <1>4, <1>5, <1>6 DEF Story


\* What a frame starts with was asked for last, or runs already.
LEMMA PollInstalls ==
  ASSUME LoadInv, frame = "poll", machine.story \in Nat,
         NEW s, s = AllInstalled([pending |-> pending_story, story |-> machine.story], loaded)
  PROVE  s.pending \subseteq {latest} /\ s.story \in {machine.story, latest} /\ s.story \in Nat /\ submitting = {}
<1>1. submitting = {} /\ pending_story \subseteq {latest} /\ latest \in Nat /\ IsSeq(loaded)
  BY DEF LoadInv
<1> DEFINE b == [pending |-> pending_story, story |-> machine.story]
<1>2. b \in Installing(latest, machine.story)
  BY <1>1 DEF Installing
<1> HIDE DEF b
<1>3. AllInstalled(b, loaded) \in Installing(latest, machine.story)
  BY <1>1, <1>2, NewestInstalled
<1>4. s \in Installing(latest, machine.story)
  BY <1>3 DEF b
<1> QED BY <1>1, <1>4 DEF Installing

LEMMA NewMachineTyped ==
  ASSUME NEW s \in Nat
  PROVE  /\ NewMachine(s) \in Machine /\ NewMachine(s).story = s /\ NewMachine(s).state = "run"
         /\ NewMachine(s).revision = 0 /\ NewMachine(s).text = 0 /\ NewMachine(s).graphics = <<>>
<1>1. <<>> \in Seq(GraphicsRequest)
  OBVIOUS
<1> QED BY <1>1 DEF NewMachine, Machine, States

LEMMA ScreenFrames ==
  ASSUME DesktopAssumption, ScreenInv, LoadInv,
         Enqueue \/ PollLoader \/ BeginSlice \/ EndSlice \/ Looks \/ Closes \/ Answers \/ RestartStory \/ View
  PROVE  ScreenInv'
<1> DEFINE G == Seq(GraphicsRequest)
           T == [story : Nat, state : States, revision : Nat, pending : BOOLEAN, selects : BOOLEAN,
                 text : Nat, graphics : G]
<1>0. /\ machine \in T
      /\ {"run", "wait", "file", "halt"} \subseteq States
  BY DEF ScreenInv, WholeInv, Machine, States
<1>T. T = Machine
  BY DEF Machine
<1> HIDE DEF G
<1>1. ASSUME Enqueue PROVE ScreenInv'
  <2>1. /\ frame = "input" /\ UNCHANGED <<presented, frame, slice>> /\ wholes' = wholes \cup {machine.text}
        /\ machine.story # NoStory => machine' = [machine EXCEPT !.state = "halt"]
        /\ machine.story = NoStory => machine' = machine
    BY <1>1 DEF Enqueue, LoadInv, Stopped, screenVars
  <2>2. CASE machine.story = NoStory
    BY <2>1, <2>2 DEF ScreenInv, WholeInv
  <2>3. CASE machine.story # NoStory
    <3>1. machine' \in T
      BY <1>0, <2>1, <2>3
    <3>2. /\ machine'.story = machine.story /\ machine'.state = "halt"
          /\ machine'.revision = machine.revision /\ machine'.text = machine.text
      BY <1>0, <2>1, <2>3
    <3> HIDE DEF T
    <3> QED BY <1>T, <2>1, <2>3, <3>1, <3>2 DEF ScreenInv, WholeInv
  <2> QED BY <2>2, <2>3
<1>2. ASSUME PollLoader PROVE ScreenInv'
  <2> DEFINE s == AllInstalled([pending |-> pending_story, story |-> machine.story], loaded)
  <2>1. /\ frame = "poll" /\ frame' = "run" /\ UNCHANGED slice
        /\ IF s.story = machine.story THEN UNCHANGED <<machine, presented, wholes>>
           ELSE /\ machine' = NewMachine(s.story) /\ presented' = NothingShown /\ wholes' = {}
    BY <1>2 DEF PollLoader, screenVars, ghostVars
  <2>2. s.story \in Nat
    BY <1>0, <2>1, PollInstalls
  <2> HIDE DEF s
  <2>3. CASE s.story = machine.story
    BY <2>1, <2>3 DEF ScreenInv, WholeInv
  <2>4. CASE s.story # machine.story
    <3>1. /\ machine' \in Machine /\ machine'.state = "run" /\ machine'.revision = 0
      BY <2>1, <2>2, <2>4, NewMachineTyped
    <3>2. presented'.revision = 0 /\ presented'.state = "run" /\ presented'.text = -1
      BY <2>1, <2>4 DEF NothingShown
    <3> QED BY <2>1, <2>4, <3>1, <3>2 DEF ScreenInv, WholeInv
  <2> QED BY <2>3, <2>4
<1>3. ASSUME BeginSlice PROVE ScreenInv'
  <2>1. frame = "run" /\ UNCHANGED <<presented, wholes>>
    BY <1>3 DEF BeginSlice, screenVars, ghostVars
  <2>2. CASE machine.story = NoStory
    <3>1. frame' = "input" /\ UNCHANGED <<machine, slice>>
      BY <1>3, <2>2 DEF BeginSlice
    <3> QED BY <2>1, <2>2, <3>1 DEF ScreenInv, WholeInv
  <2>3. CASE machine.story # NoStory
    <3>0. PICK restyled \in {FALSE, Restyles}, woken \in {FALSE, machine.selects} :
            LET revision == machine.revision + (IF restyled THEN 1 ELSE 0) IN
            /\ slice' = revision /\ frame' = "slice"
            /\ machine' = [machine EXCEPT !.revision = revision, !.selects = @ /\ ~ woken,
                                          !.state = IF woken THEN "run" ELSE @]
      BY <1>3, <2>3 DEF BeginSlice
    <3>1. PICK r \in Nat : /\ slice' = r /\ frame' = "slice" /\ (Restyles \/ r = machine.revision)
                           /\ machine' = [machine EXCEPT !.revision = r, !.selects = @ /\ ~ woken,
                                                         !.state = IF woken THEN "run" ELSE @]
      <4>1. PICK r : r = machine.revision + (IF restyled THEN 1 ELSE 0)
        OBVIOUS
      <4>2. r \in Nat /\ (Restyles \/ r = machine.revision)
        <5>1. CASE restyled
          <6>1. Restyles
            BY <5>1
          <6>2. r = machine.revision + 1
            BY <4>1, <5>1
          <6> QED BY <1>0, <6>1, <6>2
        <5>2. CASE ~ restyled
          BY <1>0, <4>1, <5>2
        <5> QED BY <5>1, <5>2
      <4> QED BY <3>0, <4>1, <4>2
    <3>2. PICK st \in States : st = (IF woken THEN "run" ELSE machine.state)
      BY <1>0
    <3>3. PICK se \in BOOLEAN : se = (machine.selects /\ ~ woken)
      BY Zenon
    <3>4. machine' = [machine EXCEPT !.revision = r, !.selects = se, !.state = st]
      BY <3>1, <3>2, <3>3
    <3>5. machine' \in T
      BY <1>0, <3>4
    <3>6. /\ machine'.story = machine.story /\ machine'.state \in {"run", machine.state}
          /\ machine'.revision = r /\ machine'.text = machine.text
      BY <1>0, <3>2, <3>4
    <3> HIDE DEF T
    <3> QED BY <1>T, <2>1, <2>3, <3>1, <3>5, <3>6 DEF ScreenInv, WholeInv
  <2> QED BY <2>2, <2>3
<1>4. ASSUME EndSlice \/ Looks \/ Closes PROVE ScreenInv'
  <2>1. /\ UNCHANGED <<machine, presented, wholes, slice>>
        /\ (frame = "slice" /\ frame' = "input") \/ (frame = "input" /\ frame' \in {"view", "closed"})
    BY <1>4 DEF EndSlice, Looks, Closes, screenVars, ghostVars
  <2> QED BY <2>1 DEF ScreenInv, WholeInv
<1>5. ASSUME Answers PROVE ScreenInv'
  <2>1. /\ frame = "input" /\ machine.state \in {"wait", "file"} /\ UNCHANGED <<presented, frame, slice, wholes>>
        /\ machine' = [machine EXCEPT !.state = "run", !.selects = FALSE]
    BY <1>5 DEF Answers, screenVars, ghostVars
  <2>2. machine' \in T
    BY <1>0, <2>1
  <2>3. /\ machine'.story = machine.story /\ machine'.state = "run"
        /\ machine'.revision = machine.revision /\ machine'.text = machine.text
    BY <1>0, <2>1
  <2> HIDE DEF T
  <2> QED BY <1>T, <2>1, <2>2, <2>3 DEF ScreenInv, WholeInv
<1>6. ASSUME RestartStory PROVE ScreenInv'
  <2>1. /\ frame = "input" /\ machine.story # NoStory /\ UNCHANGED <<frame, slice, wholes>>
        /\ machine' = [machine EXCEPT !.state = "run", !.revision = 0, !.pending = TRUE, !.selects = FALSE]
        /\ presented' = NothingShown
    BY <1>6 DEF RestartStory, Restarted
  <2>2. machine' \in T
    BY <1>0, <2>1
  <2>3. machine'.story = machine.story /\ machine'.state = "run" /\ machine'.revision = 0
    BY <1>0, <2>1
  <2>4. presented'.revision = 0 /\ presented'.state = "run" /\ presented'.text = -1
    BY <2>1 DEF NothingShown
  <2> HIDE DEF T
  <2> QED BY <1>T, <2>1, <2>2, <2>3, <2>4 DEF ScreenInv, WholeInv
<1>7. ASSUME View PROVE ScreenInv'
  <2>1. frame = "view" /\ frame' = "poll" /\ UNCHANGED <<slice, wholes>>
    BY <1>7 DEF View, ghostVars
  <2>2. CASE machine.story = NoStory
    <3>1. UNCHANGED <<machine, presented>>
      BY <1>7, <2>2 DEF View, screenVars
    <3> QED BY <2>1, <2>2, <3>1 DEF ScreenInv, WholeInv
  <2>3. CASE machine.story # NoStory
    <3>1. /\ machine' = [machine EXCEPT !.graphics = <<>>]
          /\ \/ Stale /\ \E m : presented' = Published(m)
             \/ ~ Stale /\ presented' = presented
      BY <1>7, <2>3 DEF View
    <3>2. <<>> \in G
      BY DEF G
    <3>3. machine' \in T
      BY <1>0, <3>1, <3>2
    <3>4. /\ machine'.story = machine.story /\ machine'.state = machine.state
          /\ machine'.revision = machine.revision /\ machine'.text = machine.text
          /\ machine.revision \in Nat
      BY <1>0, <3>1
    <3> HIDE DEF T
    <3>5. CASE Stale
      <4>1. /\ presented'.revision = machine.revision /\ presented'.state = machine.state
            /\ presented'.text = machine.text
        BY <3>1, <3>5 DEF Published
      <4>2. Restyles \/ machine.text \in wholes
        BY <3>5 DEF ScreenInv, WholeInv, Stale
      <4> QED BY <1>T, <2>1, <2>3, <3>3, <3>4, <4>1, <4>2 DEF ScreenInv, WholeInv
    <3>6. CASE ~ Stale
      <4>1. /\ machine.revision = presented.revision /\ presented' = presented
            /\ machine.state = "run" \/ machine.state = presented.state
        BY <3>1, <3>6 DEF Stale
      <4> QED BY <1>T, <2>1, <2>3, <3>3, <3>4, <4>1 DEF ScreenInv, WholeInv
    <3> QED BY <3>5, <3>6
  <2> QED BY <2>2, <2>3
<1> QED BY <1>1, <1>2, <1>3, <1>4, <1>5, <1>6, <1>7


-----------------------------------------------------------------------------
(* The request that is under way *)

LEMMA LoadInvInit == DesktopInit => LoadInv
<1> SUFFICES ASSUME DesktopInit PROVE LoadInv
  OBVIOUS
<1>1. IsSeq(<<>>)
  <2>1. <<>> \in Seq({})
    OBVIOUS
  <2> QED BY <2>1 DEF IsSeq
<1> QED BY <1>1 DEF DesktopInit, LoaderInit, LoadInv

LEMMA LoadInvStep ==
  ASSUME ScreenInv, LoadInv, DesktopNext
  PROVE  LoadInv'
<1>0. machine.story \in Nat
  BY DEF ScreenInv, Machine
<1>1. ASSUME UNCHANGED <<latest, submitting, pending_story, loaded>>, frame' = frame \/ frame # "input" \/ submitting = {}
      PROVE  LoadInv'
  BY <1>1 DEF LoadInv
<1>2. ASSUME Submit PROVE LoadInv'
  BY <1>2 DEF Submit, LoadInv
<1>3. ASSUME Enqueue PROVE LoadInv'
  BY <1>3 DEF Enqueue, Mailed, LoadInv
<1>4. ASSUME Loader PROVE LoadInv'
  <2>1. UNCHANGED <<latest, submitting, pending_story, frame>>
    BY <1>4 DEF Loader, LoaderTakes, LoaderLeaves, LoaderOpens, LoaderCompares, LoaderSends, LoaderGoes
  <2>2. loaded' = loaded \/ \E e : loaded' = Append(loaded, e)
    BY <1>4 DEF Loader, LoaderTakes, LoaderLeaves, LoaderOpens, LoaderCompares, LoaderSends, LoaderGoes
  <2>3. IsSeq(loaded)
    BY DEF LoadInv
  <2>4. IsSeq(loaded')
    <3>1. CASE loaded' = loaded
      BY <2>3, <3>1
    <3>2. CASE \E e : loaded' = Append(loaded, e)
      <4>1. PICK e : loaded' = Append(loaded, e)
        BY <3>2
      <4>2. IsSeq(Append(loaded, e))
        BY <2>3, AppendIsSeq
      <4> QED BY <4>1, <4>2
    <3> QED BY <2>2, <3>1, <3>2
  <2> QED BY <2>1, <2>4 DEF LoadInv, IsSeq
<1>5. ASSUME PollLoader PROVE LoadInv'
  <2> DEFINE s == AllInstalled([pending |-> pending_story, story |-> machine.story], loaded)
  <2>1. frame = "poll" /\ pending_story' = s.pending /\ loaded' = <<>> /\ UNCHANGED <<latest, submitting>>
    BY <1>5 DEF PollLoader
  <2>2. s.pending \subseteq {latest} /\ submitting = {}
    BY <1>0, <2>1, PollInstalls
  <2> HIDE DEF s
  <2>3. IsSeq(loaded')
    <3>1. <<>> \in Seq({})
      OBVIOUS
    <3> QED BY <2>1, <3>1 DEF IsSeq
  <2> QED BY <2>1, <2>2, <2>3 DEF LoadInv, IsSeq
<1>6. ASSUME BeginSlice \/ EndSlice \/ Looks \/ View \/ Answers \/ RestartStory \/ Closes PROVE LoadInv'
  <2>1. /\ UNCHANGED <<latest, submitting, pending_story, loaded>>
        /\ frame' = frame \/ frame # "input" \/ submitting = {}
    BY <1>6 DEF BeginSlice, EndSlice, Looks, View, Answers, RestartStory, Closes, loadVars
  <2> QED BY <1>1, <2>1
<1>7. ASSUME Story PROVE LoadInv'
  <2>1. UNCHANGED <<latest, submitting, pending_story, loaded, frame>>
    BY <1>7 DEF Story, Prints, Draws, Selects, Polls, Prompts, Quits, RestartsItself, StoryDoes, loadVars
  <2> QED BY <1>1, <2>1
<1>8. ASSUME ImageTakes \/ ImageSends PROVE LoadInv'
  <2>1. UNCHANGED <<latest, submitting, pending_story, loaded, frame>>
    BY <1>8 DEF ImageTakes, ImageSends, loadVars
  <2> QED BY <1>1, <2>1
<1> QED BY <1>2, <1>3, <1>4, <1>5, <1>6, <1>7, <1>8 DEF DesktopNext, Loads, Frames

\* Only a frame that starts installs a story, and only the newest.
LEMMA NewestStep ==
  ASSUME ScreenInv, LoadInv, DesktopNext, machine'.story # machine.story
  PROVE  machine'.story = latest /\ submitting = {}
<1> DEFINE G == Seq(GraphicsRequest)
<1>0. machine \in [story : Nat, state : States, revision : Nat, pending : BOOLEAN, selects : BOOLEAN,
                   text : Nat, graphics : G]
  BY DEF ScreenInv, Machine
<1> HIDE DEF G
<1>1. CASE PollLoader
  <2> DEFINE s == AllInstalled([pending |-> pending_story, story |-> machine.story], loaded)
  <2>1. frame = "poll" /\ (s.story = machine.story => machine' = machine) /\ (s.story # machine.story => machine' = NewMachine(s.story))
    BY <1>1 DEF PollLoader
  <2>2. s.story \in {machine.story, latest} /\ submitting = {}
    BY <1>0, <2>1, PollInstalls
  <2> HIDE DEF s
  <2>3. machine'.story = s.story
    BY <2>1 DEF NewMachine
  <2> QED BY <2>2, <2>3
<1>2. CASE ~ PollLoader
  <2>1. CASE Loads \/ Frames \/ Closes \/ ImageTakes \/ ImageSends
    <3>1. CASE Enqueue \/ BeginSlice \/ View
      BY <1>0, <1>2, <3>1 DEF Enqueue, BeginSlice, View, Stopped
    <3>2. CASE ~ (Enqueue \/ BeginSlice \/ View)
      <4>1. machine' = machine
        BY <1>2, <2>1, <3>2 DEF Loads, Frames, Submit, Loader, LoaderTakes, LoaderLeaves, LoaderOpens, LoaderCompares,
              LoaderSends, LoaderGoes, EndSlice, Looks, Closes, ImageTakes, ImageSends
      <4> QED BY <4>1
    <3> QED BY <3>1, <3>2
  <2>2. CASE Story \/ Answers \/ RestartStory
    <3>1. CASE Prints \/ Answers \/ RestartStory
      BY <1>0, <3>1 DEF Prints, Answers, RestartStory, StoryDoes, Restarted
    <3>2. CASE \E q \in Requests : Draws(q)
      BY <1>0, <3>2 DEF Draws, StoryDoes
    <3>3. CASE Selects \/ Polls \/ Prompts
      BY <1>0, <3>3 DEF Selects, Polls, Prompts, StoryDoes
    <3>4. CASE Quits \/ RestartsItself
      BY <1>0, <3>4 DEF Quits, RestartsItself, StoryDoes, Stopped, Restarted
    <3> QED BY <2>2, <3>1, <3>2, <3>3, <3>4 DEF Story
  <2> QED BY <2>1, <2>2 DEF DesktopNext
<1> QED BY <1>1, <1>2


-----------------------------------------------------------------------------
(* What is drawn *)

\* Pictures that are decoded, of which the application has seen nothing.
Decoded == Range(image_tasks) \cup Range(image_held) \cup Range(image_done)

LEMMA NoMedia ==
  ASSUME NEW s \in Nat
  PROVE  /\ NewMedia \in Media(s) /\ NewMedia.image = {} /\ NewMedia.requests = <<>>
         /\ NewMedia.results = {} /\ WithImage(NewMedia) = NoCanvas /\ NoCanvas \in Canvases
<1>1. NoCanvas \in Canvases
  BY DEF NoCanvas, Canvases
<1>2. <<>> \in Seq(AskedBy(s)) /\ <<>> \in Seq(Kept(s))
  OBVIOUS
<1>3. NewMedia \in Media(s)
  BY <1>1, <1>2 DEF NewMedia, Media
<1>4. NewMedia.image = {} /\ NewMedia.requests = <<>> /\ NewMedia.results = {} /\ NewMedia.canvas = NoCanvas
  BY DEF NewMedia
<1> QED BY <1>1, <1>3, <1>4 DEF WithImage

LEMMA DrawInvInit ==
  ASSUME DesktopInit
  PROVE  DrawInv
<1>1. machine.story = NoStory /\ machine.graphics = <<>>
  BY DEF DesktopInit, NewMachine
<1>2. media \in Media(machine.story) /\ media.image = {} /\ media.results = {}
  BY <1>1, NoMedia DEF DesktopInit, NoStory
<1>3. IsFiniteSet({})
  BY FS_EmptySet
<1>4. <<>> \in Seq(AskedBy(machine.story)) /\ <<>> \in Seq(Task)
  OBVIOUS
<1>5. meant \in Canvases
  BY DEF DesktopInit, NoCanvas, Canvases
<1> QED BY <1>1, <1>2, <1>3, <1>4, <1>5 DEF DesktopInit, DrawInv, DrawnInOrder

\* The media are the story's, and the worker has nothing more for them.
LEMMA DrawStays ==
  ASSUME DrawInv, UNCHANGED <<media, meant>>,
         machine'.story = machine.story, machine'.graphics = machine.graphics,
         image_tasks' \in Seq(Task), image_held' \in Seq(Task), image_done' \in Seq(Task),
         Decoded' \subseteq Decoded
  PROVE  DrawInv'
<1>1. /\ machine.graphics \in Seq(AskedBy(machine.story))
      /\ media \in Media(machine.story) /\ IsFiniteSet(media.results)
      /\ \A p, r \in media.image : p = r
      /\ \A p \in media.image : \A t \in media.results \cup Decoded : Answering(p, t)
      /\ meant \in Canvases
      /\ machine.story # NoStory => meant = AllMean(WithImage(media), media.requests \o machine.graphics)
  BY DEF DrawInv, DrawnInOrder, Decoded
<1>2. \A p \in media'.image : \A t \in media'.results \cup Decoded' : Answering(p, t)
  BY <1>1
<1>3. machine'.story # NoStory => meant' = AllMean(WithImage(media'), media'.requests \o machine'.graphics)
  BY <1>1
<1>4. /\ machine'.graphics \in Seq(AskedBy(machine'.story))
      /\ media' \in Media(machine'.story) /\ IsFiniteSet(media'.results)
      /\ \A p, r \in media'.image : p = r
      /\ meant' \in Canvases
  BY <1>1
<1> QED BY <1>2, <1>3, <1>4 DEF DrawInv, DrawnInOrder, Decoded

\* The canvas begins anew.
LEMMA DrawAnew ==
  ASSUME DrawInv, media' = NewMedia, UNCHANGED imageVars, machine'.story \in Nat,
         machine'.graphics \in Seq(AskedBy(machine'.story)),
         meant' = AllMean(NoCanvas, machine'.graphics)
  PROVE  DrawInv'
<1>1. /\ media' \in Media(machine'.story) /\ media'.image = {} /\ media'.requests = <<>>
      /\ media'.results = {} /\ WithImage(media') = NoCanvas /\ NoCanvas \in Canvases
  BY NoMedia
<1>2. meant' \in Canvases
  BY <1>1, AskedByTyped, AllMeanTyped
<1>3. <<>> \o machine'.graphics = machine'.graphics
  OBVIOUS
<1>4. IsFiniteSet({})
  BY FS_EmptySet
<1>5. image_tasks' \in Seq(Task) /\ image_held' \in Seq(Task) /\ image_done' \in Seq(Task)
  BY DEF DrawInv, imageVars
<1> QED BY <1>1, <1>2, <1>3, <1>4, <1>5 DEF DrawInv, DrawnInOrder

LEMMA ConcatAppend ==
  ASSUME NEW S, NEW p \in Seq(S), NEW q \in Seq(S), NEW e \in S
  PROVE  p \o Append(q, e) = Append(p \o q, e)
<1> DEFINE l == p \o Append(q, e)
           r == Append(p \o q, e)
<1>1. /\ l \in Seq(S) /\ r \in Seq(S) /\ Len(p) \in Nat /\ Len(q) \in Nat
      /\ Len(l) = Len(p) + Len(q) + 1 /\ Len(r) = Len(p) + Len(q) + 1
  OBVIOUS
<1>2. ASSUME NEW i \in 1 .. Len(p) + Len(q) + 1 PROVE l[i] = r[i]
  <2>1. CASE i <= Len(p)
    BY <2>1
  <2>2. CASE i > Len(p) /\ i <= Len(p) + Len(q)
    BY <2>2
  <2>3. CASE i = Len(p) + Len(q) + 1
    BY <2>3
  <2> QED BY <1>1, <2>1, <2>2, <2>3
<1> HIDE DEF l, r
<1>3. l = r
  BY <1>1, <1>2
<1> QED BY <1>3 DEF l, r

LEMMA DrawDraws ==
  ASSUME ScreenInv, DrawInv, NEW q \in Requests, Draws(q)
  PROVE  DrawInv'
<1> DEFINE s == machine.story
           g == machine.graphics
           h == Append(g, q)
           c == WithImage(media)
           l == media.requests \o g
<1>0. machine \in Machine /\ s \in Nat
  BY DEF ScreenInv, Machine
<1>1. /\ UNCHANGED <<media, image_tasks, image_held, image_done>>
      /\ machine' = [machine EXCEPT !.graphics = h, !.pending = TRUE]
      /\ meant' = Meaning(meant, q)
  BY DEF Draws, StoryDoes, screenVars, imageVars
<1>2. /\ g \in Seq(AskedBy(s)) /\ media \in Media(s) /\ IsFiniteSet(media.results)
      /\ image_tasks \in Seq(Task) /\ image_held \in Seq(Task) /\ image_done \in Seq(Task)
      /\ \A p, r \in media.image : p = r
      /\ \A p \in media.image :
           \A t \in media.results \cup Range(image_tasks) \cup Range(image_held) \cup Range(image_done) :
              Answering(p, t)
      /\ meant \in Canvases
      /\ s # NoStory => meant = AllMean(c, l)
  BY DEF DrawInv, DrawnInOrder
<1>3. q \in AskedBy(s)
  BY DEF Requests, AskedBy
<1>4. h \in Seq(AskedBy(s))
  BY <1>2, <1>3
<1>5. machine'.story = s /\ machine'.graphics = h
  <2> HIDE DEF h
  <2> QED BY <1>0, <1>1 DEF Machine
<1>6. media.requests \in Seq(AskedBy(s)) /\ c \in Canvases
  BY <1>0, <1>2, MediaFields, WithImageTyped
<1>7. l \in Seq(AskedBy(s)) /\ media.requests \o h = Append(l, q)
  <2>1. l \in Seq(AskedBy(s))
    BY <1>2, <1>6
  <2>2. media.requests \o Append(g, q) = Append(media.requests \o g, q)
    <3> DEFINE S == AskedBy(s)
               p == media.requests
    <3>1. p \in Seq(S) /\ g \in Seq(S) /\ q \in S
      BY <1>2, <1>3, <1>6
    <3> HIDE DEF S, p, g
    <3>2. p \o Append(g, q) = Append(p \o g, q)
      BY <3>1, ConcatAppend
    <3> QED BY <3>2 DEF p
  <2> QED BY <2>1, <2>2
<1> HIDE DEF h, l, c, g
<1>8. q \in GraphicsRequest /\ l \in Seq(GraphicsRequest)
  BY <1>0, <1>3, <1>7, AskedByTyped
<1>9. AllMean(c, Append(l, q)) = Meaning(AllMean(c, l), q)
  BY <1>6, <1>8, AllMeanAppend
<1>10. meant' \in Canvases
  BY <1>1, <1>2, <1>8, MeaningTyped
<1>11. WithImage(media') = c
  BY <1>1 DEF c
<1>12. machine'.story # NoStory => meant' = AllMean(WithImage(media'), media'.requests \o machine'.graphics)
  BY <1>1, <1>2, <1>5, <1>7, <1>9, <1>11
<1> HIDE DEF s
<1> QED BY <1>1, <1>2, <1>4, <1>5, <1>10, <1>12 DEF DrawInv, DrawnInOrder


LEMMA ConcatNone ==
  ASSUME NEW S, NEW q \in Seq(S)
  PROVE  q \o <<>> = q
OBVIOUS

\* What was due is due.
LEMMA DrawView ==
  ASSUME ScreenInv, DrawInv, View
  PROVE  DrawInv'
<1> DEFINE s == machine.story
<1>0. machine \in Machine /\ s \in Nat
  BY DEF ScreenInv, Machine
<1>1. CASE s = NoStory
  <2>1. UNCHANGED <<machine, imageVars, media, meant>>
    BY <1>1 DEF View, screenVars, ghostVars
  <2> QED BY <2>1, DrawStays DEF imageVars, Decoded, DrawInv
<1>2. CASE s # NoStory
  <2>1. PICK arrived \in {image_done, image_done \o image_held} :
          /\ Collecting(arrived)
          /\ \E g \in {Graphics(arrived)} :
               /\ image_tasks' = g.tasks
               /\ machine' = [machine EXCEPT !.graphics = <<>>]
               /\ media' = [g.media EXCEPT !.dirty = FALSE] \/ media' = g.media
          /\ meant' = meant
    BY <1>2 DEF View, ghostVars
  <2>2. PICK g : g = Graphics(arrived)
    OBVIOUS
  <2>3. /\ image_tasks' = g.tasks /\ machine' = [machine EXCEPT !.graphics = <<>>]
        /\ media' = [g.media EXCEPT !.dirty = FALSE] \/ media' = g.media
        /\ meant' = meant
    BY <2>1, <2>2
  <2>4. /\ image_tasks \in Seq(Task) /\ image_held \in Seq(Task) /\ image_done \in Seq(Task)
        /\ media \in Media(s) /\ machine.graphics \in Seq(AskedBy(s)) /\ meant \in Canvases
        /\ meant = AllMean(WithImage(media), media.requests \o machine.graphics)
    BY <1>2 DEF DrawInv, DrawnInOrder
  <2>5. arrived \in Seq(Task) /\ Range(arrived) \subseteq Range(image_done) \cup Range(image_held)
    <3>1. CASE arrived = image_done
      BY <2>4, <3>1
    <3>2. CASE arrived = image_done \o image_held
      <4>1. arrived \in Seq(Task)
        BY <2>4, <3>2
      <4>2. ASSUME NEW i \in 1 .. Len(arrived) PROVE arrived[i] \in Range(image_done) \cup Range(image_held)
        <5>1. CASE i <= Len(image_done)
          BY <2>4, <3>2, <5>1 DEF Range
        <5>2. CASE ~ (i <= Len(image_done))
          <6>1. /\ i - Len(image_done) \in 1 .. Len(image_held)
                /\ arrived[i] = image_held[i - Len(image_done)]
            BY <2>4, <3>2, <5>2
          <6> QED BY <2>4, <6>1 DEF Range
        <5> QED BY <5>1, <5>2
      <4> QED BY <4>1, <4>2 DEF Range
    <3> QED BY <2>1, <3>1, <3>2
  <2>6. image_done' = <<>> /\ image_held' \in {image_held, <<>>}
    BY <2>1 DEF Collecting
  <2> HIDE DEF s
  <2>7. /\ g.media \in Media(s) /\ IsFiniteSet(g.media.results) /\ g.tasks \in Seq(Task)
        /\ Due(g.media) = AllMean(WithImage(media), media.requests \o machine.graphics)
        /\ \A p, r \in g.media.image : p = r
        /\ \A p \in g.media.image : \A t \in g.media.results \cup Range(g.tasks) \cup Range(image_held) :
             Answering(p, t)
    BY <1>0, <2>2, <2>5, GraphicsDue DEF s
  <2>8. machine'.story = s /\ machine'.graphics = <<>>
    BY <1>0, <2>3 DEF Machine, s
  <2>9. /\ media' \in Media(s) /\ media'.image = g.media.image /\ media'.results = g.media.results
        /\ media'.requests = g.media.requests /\ media'.canvas = g.media.canvas
    <3> DEFINE A == Seq(AskedBy(s))
               B == SUBSET Images(s)
               C == SUBSET Task
               D == Seq(Kept(s))
    <3>1. g.media \in [requests : A, image : B, results : C, cache : D, canvas : Canvases, dirty : BOOLEAN]
      BY <2>7 DEF Media
    <3> HIDE DEF A, B, C, D
    <3>2. media' \in [requests : A, image : B, results : C, cache : D, canvas : Canvases, dirty : BOOLEAN]
      BY <2>3, <3>1
    <3>3. /\ media'.image = g.media.image /\ media'.results = g.media.results
          /\ media'.requests = g.media.requests /\ media'.canvas = g.media.canvas
      BY <2>3, <3>1
    <3> QED BY <3>2, <3>3 DEF Media, A, B, C, D
  <2>10. Range(image_held') \subseteq Range(image_held) /\ Range(image_done') = {}
    BY <2>6 DEF Range
  <2>11. \A p \in media'.image :
           \A t \in media'.results \cup Range(image_tasks') \cup Range(image_held') \cup Range(image_done') :
              Answering(p, t)
    BY <2>3, <2>7, <2>9, <2>10
  <2>12. WithImage(media') = WithImage(g.media)
    BY <2>9 DEF WithImage
  <2>13. media'.requests \o <<>> = media'.requests
    <3>1. media'.requests \in Seq(AskedBy(s))
      BY <2>9, MediaFields
    <3> QED BY <3>1, ConcatNone
  <2>14. meant' = AllMean(WithImage(media'), media'.requests \o machine'.graphics)
    BY <2>3, <2>4, <2>7, <2>8, <2>9, <2>12, <2>13 DEF Due
  <2>15. /\ image_tasks' \in Seq(Task) /\ image_held' \in Seq(Task) /\ image_done' \in Seq(Task)
         /\ machine'.graphics \in Seq(AskedBy(machine'.story))
         /\ meant' \in Canvases
    <3>1. <<>> \in Seq(Task) /\ <<>> \in Seq(AskedBy(s))
      OBVIOUS
    <3> QED BY <2>3, <2>4, <2>6, <2>7, <2>8, <3>1
  <2>16. /\ media' \in Media(machine'.story) /\ IsFiniteSet(media'.results)
         /\ \A p, r \in media'.image : p = r
    BY <2>7, <2>8, <2>9
  <2> QED BY <2>11, <2>14, <2>15, <2>16 DEF DrawInv, DrawnInOrder
<1> QED BY <1>1, <1>2

LEMMA DrawWorker ==
  ASSUME DrawInv, ImageTakes \/ ImageSends
  PROVE  DrawInv'
<1>1. image_tasks \in Seq(Task) /\ image_held \in Seq(Task) /\ image_done \in Seq(Task)
  BY DEF DrawInv
<1>2. CASE ImageTakes
  <2>1. /\ image_tasks # <<>> /\ image_held' = <<Head(image_tasks)>> /\ image_tasks' = Tail(image_tasks)
        /\ UNCHANGED <<machine, media, meant, image_done>>
    BY <1>2 DEF ImageTakes, screenVars, ghostVars
  <2>2. /\ image_tasks' \in Seq(Task) /\ image_held' \in Seq(Task)
        /\ Range(image_tasks') \subseteq Range(image_tasks) /\ Range(image_held') \subseteq Range(image_tasks)
    <3>1. /\ Tail(image_tasks) \in Seq(Task) /\ Len(Tail(image_tasks)) = Len(image_tasks) - 1
          /\ Len(image_tasks) \in Nat \ {0} /\ Head(image_tasks) = image_tasks[1] /\ image_tasks[1] \in Task
          /\ \A i \in 1 .. Len(image_tasks) - 1 : Tail(image_tasks)[i] = image_tasks[i + 1]
      BY <1>1, <2>1
    <3>2. ASSUME NEW i \in 1 .. Len(image_tasks) - 1 PROVE Tail(image_tasks)[i] \in Range(image_tasks)
      <4>1. PICK j : j = i + 1
        OBVIOUS
      <4>2. j \in 1 .. Len(image_tasks) /\ Tail(image_tasks)[i] = image_tasks[j]
        BY <3>1, <4>1
      <4> QED BY <1>1, <4>2 DEF Range
    <3>3. image_tasks[1] \in Range(image_tasks)
      BY <1>1, <3>1 DEF Range
    <3>4. Range(Tail(image_tasks)) \subseteq Range(image_tasks)
      BY <3>1, <3>2 DEF Range
    <3>5. <<image_tasks[1]>> \in Seq(Task) /\ Range(<<image_tasks[1]>>) = {image_tasks[1]}
      BY <3>1 DEF Range
    <3> QED BY <2>1, <3>1, <3>3, <3>4, <3>5
  <2>3. Decoded' \subseteq Decoded
    BY <2>1, <2>2 DEF Decoded
  <2> QED BY <1>1, <2>1, <2>2, <2>3, DrawStays
<1>3. CASE ImageSends
  <2>1. /\ image_done' = image_done \o image_held /\ image_held' = <<>>
        /\ UNCHANGED <<machine, media, meant, image_tasks>>
    BY <1>3 DEF ImageSends, screenVars, ghostVars
  <2>2. image_done' \in Seq(Task) /\ image_held' \in Seq(Task)
    BY <1>1, <2>1
  <2>3. ASSUME NEW i \in 1 .. Len(image_done') PROVE image_done'[i] \in Range(image_done) \cup Range(image_held)
    <3>1. CASE i <= Len(image_done)
      BY <1>1, <2>1, <3>1 DEF Range
    <3>2. CASE ~ (i <= Len(image_done))
      <4>1. /\ i - Len(image_done) \in 1 .. Len(image_held)
            /\ image_done'[i] = image_held[i - Len(image_done)]
        BY <1>1, <2>1, <3>2
      <4> QED BY <1>1, <4>1 DEF Range
    <3> QED BY <3>1, <3>2
  <2>4. Range(image_done') \subseteq Range(image_done) \cup Range(image_held) /\ Range(image_held') = {}
    BY <2>1, <2>2, <2>3 DEF Range
  <2>5. Decoded' \subseteq Decoded
    BY <2>1, <2>4 DEF Decoded
  <2> QED BY <1>1, <2>1, <2>2, <2>5, DrawStays
<1> QED BY <1>2, <1>3

LEMMA DrawInvStep ==
  ASSUME ScreenInv, LoadInv, DrawInv, DesktopNext
  PROVE  DrawInv'
<1> DEFINE G == Seq(GraphicsRequest)
<1>0. /\ machine \in [story : Nat, state : States, revision : Nat, pending : BOOLEAN, selects : BOOLEAN,
                      text : Nat, graphics : G]
      /\ machine.graphics \in Seq(AskedBy(machine.story))
  BY DEF ScreenInv, DrawInv, Machine
<1> HIDE DEF G
<1>1. ASSUME UNCHANGED <<media, meant, imageVars>>, machine'.story = machine.story, machine'.graphics = machine.graphics
      PROVE  DrawInv'
  <2>1. UNCHANGED <<image_tasks, image_held, image_done>>
    BY <1>1 DEF imageVars
  <2>2. Decoded' \subseteq Decoded
    BY <2>1 DEF Decoded
  <2>3. image_tasks' \in Seq(Task) /\ image_held' \in Seq(Task) /\ image_done' \in Seq(Task)
    BY <2>1 DEF DrawInv
  <2> QED BY <1>1, <2>2, <2>3, DrawStays
<1>2. CASE Submit \/ Loader \/ EndSlice \/ Looks \/ Closes
  <2>1. UNCHANGED <<machine, media, meant, imageVars>>
    BY <1>2 DEF Submit, Loader, LoaderTakes, LoaderLeaves, LoaderOpens, LoaderCompares, LoaderSends, LoaderGoes,
          EndSlice, Looks, Closes, screenVars, ghostVars
  <2> QED BY <1>1, <2>1
<1>3. CASE Enqueue \/ BeginSlice \/ Answers
  <2>1. UNCHANGED <<media, meant, imageVars>>
    BY <1>3 DEF Enqueue, BeginSlice, Answers, screenVars, ghostVars
  <2>2. machine'.story = machine.story /\ machine'.graphics = machine.graphics
    BY <1>0, <1>3 DEF Enqueue, BeginSlice, Answers, Stopped
  <2> QED BY <1>1, <2>1, <2>2
<1>4. CASE Prints \/ Selects \/ Polls \/ Prompts
  <2>1. UNCHANGED <<media, meant, imageVars>>
    BY <1>4 DEF Prints, Selects, Polls, Prompts, StoryDoes, screenVars, ghostVars
  <2>2. machine'.story = machine.story /\ machine'.graphics = machine.graphics
    BY <1>0, <1>4 DEF Prints, Selects, Polls, Prompts, StoryDoes
  <2> QED BY <1>1, <2>1, <2>2
<1>5. CASE Quits \/ RestartsItself
  <2>1. UNCHANGED <<media, meant, imageVars>>
    BY <1>5 DEF Quits, RestartsItself, StoryDoes, screenVars
  <2>2. machine'.story = machine.story /\ machine'.graphics = machine.graphics
    BY <1>0, <1>5 DEF Quits, RestartsItself, StoryDoes, Stopped, Restarted
  <2> QED BY <1>1, <2>1, <2>2
<1>6. CASE \E q \in Requests : Draws(q)
  BY <1>6, DrawDraws
<1>7. CASE PollLoader
  <2> DEFINE s == AllInstalled([pending |-> pending_story, story |-> machine.story], loaded)
  <2>1. /\ frame = "poll" /\ UNCHANGED imageVars
        /\ IF s.story = machine.story THEN UNCHANGED <<machine, media, meant>>
           ELSE machine' = NewMachine(s.story) /\ media' = NewMedia /\ meant' = NoCanvas
    BY <1>7 DEF PollLoader, screenVars, ghostVars
  <2>2. s.story \in Nat
    BY <1>0, <2>1, PollInstalls
  <2> HIDE DEF s
  <2>3. CASE s.story = machine.story
    BY <1>1, <2>1, <2>3
  <2>4. CASE s.story # machine.story
    <3>1. machine'.story = s.story /\ machine'.graphics = <<>>
      BY <2>1, <2>2, <2>4, NewMachineTyped
    <3>2. <<>> \in Seq(AskedBy(s.story))
      OBVIOUS
    <3>3. AllMean(NoCanvas, <<>>) = NoCanvas
      <4>1. NoCanvas \in Canvases
        BY DEF NoCanvas, Canvases
      <4> QED BY <4>1, AllMeanNone
    <3> QED BY <2>1, <2>2, <2>4, <3>1, <3>2, <3>3, DrawAnew
  <2> QED BY <2>3, <2>4
<1>8. CASE RestartStory
  <2>1. /\ UNCHANGED imageVars /\ media' = NewMedia /\ meant' = AllMean(NoCanvas, machine.graphics)
        /\ machine' = [machine EXCEPT !.state = "run", !.revision = 0, !.pending = TRUE, !.selects = FALSE]
    BY <1>8 DEF RestartStory, Cleared, Restarted
  <2>2. machine'.story = machine.story /\ machine'.graphics = machine.graphics
    BY <1>0, <2>1
  <2>3. machine.story \in Nat
    BY <1>0
  <2> QED BY <1>0, <2>1, <2>2, <2>3, DrawAnew
<1>9. CASE View
  BY <1>9, DrawView
<1>10. CASE ImageTakes \/ ImageSends
  BY <1>10, DrawWorker
<1> QED BY <1>2, <1>3, <1>4, <1>5, <1>6, <1>7, <1>8, <1>9, <1>10 DEF DesktopNext, Loads, Frames, Story

-----------------------------------------------------------------------------
LEMMA ScreenInvStep ==
  ASSUME DesktopAssumption, ScreenInv, LoadInv, DesktopNext
  PROVE  ScreenInv'
<1>1. CASE Submit \/ Loader \/ ImageTakes \/ ImageSends
  <2>1. UNCHANGED screen
    BY <1>1 DEF Submit, Loader, LoaderTakes, LoaderLeaves, LoaderOpens, LoaderCompares, LoaderSends, LoaderGoes,
          ImageTakes, ImageSends, screen, screenVars, ghostVars
  <2> QED BY <2>1, ScreenStays
<1>2. CASE Story
  BY <1>2, ScreenStory
<1>3. CASE Enqueue \/ PollLoader \/ BeginSlice \/ EndSlice \/ Looks \/ Closes \/ Answers \/ RestartStory \/ View
  BY <1>3, ScreenFrames
<1> QED BY <1>1, <1>2, <1>3 DEF DesktopNext, Loads, Frames

LEMMA DeskStutters == DeskInv /\ UNCHANGED deskVars => DeskInv'
<1> SUFFICES ASSUME DeskInv, UNCHANGED deskVars PROVE DeskInv'
  OBVIOUS
<1>1. ScreenInv'
  BY ScreenStays DEF DeskInv, deskVars, screen, screenVars, ghostVars
<1>2. LoadInv'
  BY DEF DeskInv, LoadInv, IsSeq, deskVars, loadVars
<1>3. DrawInv'
  BY DrawStays DEF DeskInv, deskVars, screenVars, ghostVars, imageVars, Decoded, DrawInv
<1> QED BY <1>1, <1>2, <1>3 DEF DeskInv

LEMMA DeskInvHolds == DesktopSpec => []DeskInv
<1>1. DesktopInit => DeskInv
  BY ScreenInvInit, LoadInvInit, DrawInvInit DEF DeskInv
<1>2. DeskInv /\ [DesktopNext]_deskVars => DeskInv'
  BY DesktopAssumption, ScreenInvStep, LoadInvStep, DrawInvStep, DeskStutters DEF DeskInv
<1> QED BY <1>1, <1>2, PTL DEF DesktopSpec

\* What was drawn, is being decoded and waits to be drawn is, in this order, what
\* the story drew since its canvas was made.
THEOREM DrawingsStayInOrder == DesktopSpec => []DrawnInOrder
<1>1. DeskInv => DrawnInOrder
  BY DEF DeskInv, DrawInv
<1> QED BY <1>1, DeskInvHolds, PTL

\* And the screen shows whole texts of the story only: as long as the user changes no
\* fonts and no colours while the story runs, which publishes what it is in the middle of.
THEOREM FramesStayTrue == ASSUME ~ Restyles PROVE DesktopSpec => []FramesAreTrue
<1>1. DeskInv => FramesAreTrue
  BY DEF DeskInv, ScreenInv, WholeInv, DrawInv, FramesAreTrue, WholeFrames
<1> QED BY <1>1, DeskInvHolds, PTL

\* The story that is installed is the newest that was asked for, with no request
\* under way: however requests, the loader's looks at the newest and its results cross.
THEOREM NewestIsInstalled == DesktopSpec => NewestStory
<1>1. DeskInv /\ [DesktopNext]_deskVars
        => [machine'.story # machine.story => machine'.story = latest /\ submitting = {}]_deskVars
  BY NewestStep DEF DeskInv
<1> QED BY <1>1, DeskInvHolds, PTL DEF DesktopSpec, NewestStory
=============================================================================
