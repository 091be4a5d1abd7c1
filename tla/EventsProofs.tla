------------------------------ MODULE EventsProofs ------------------------------
(***************************************************************************)
(* Proofs about Events: for any number of windows and any bound on clicks  *)
(* and sounds, the queue, the requests and the state the host shows agree, *)
(* and no request or event is left over or lost.  And about SoundChannels: *)
(* the story is told once of every end of a sound it was promised.         *)
(*                                                                         *)
(* The argument about events has two parts.  What a queue may hold whatever*)
(* the machine does (Orderly) is kept by adding what a poll finds and by   *)
(* taking events out, at either end or in the middle.  Then each call is   *)
(* looked at, with one lemma for poll_events, which half of the calls end  *)
(* with.                                                                   *)
(*                                                                         *)
(* The argument about sounds: a channel has a sound, a request or neither; *)
(* the numbers of requests are used once in a session, so that a result    *)
(* finds the channel that asked for it or none.                            *)
(***************************************************************************)
EXTENDS Events, SoundChannels, CollectionLemmas

-----------------------------------------------------------------------------
(* The inductive invariant *)

Types == Key \cup {"timer", "mouse", "arrange", "sound", "volume", "hyperlink"}
Slow == {"sound", "volume", "mouse", "hyperlink"}

\* How many events of some types are queued.
Count(q, types) == Cardinality({i \in DOMAIN q : q[i].type \in types})

\* What holds of the queue by itself.  The bound on clicks and sounds, one above
\* MaxQueue since one poll may find two of them, is what bounds its length.
Orderly(q) ==
  /\ q \in Seq(Event)
  /\ Count(q, Slow) <= MaxQueue + 1
  /\ Count(q, {"timer"}) <= 1 /\ Count(q, {"arrange"}) <= 1 /\ Count(q, Key) <= 1

Typed ==
  /\ state \in {"running", "line", "char", "event", "file", "halted"}
  /\ pending_select \in BOOLEAN /\ timer \in BOOLEAN /\ file_request \in BOOLEAN
  /\ requests \in [DOMAIN requests -> Key]
  /\ input_window \in Window \cup {0}
  /\ windows \in [DOMAIN windows -> Kinds] /\ DOMAIN windows \subseteq 1 .. next_window - 1
  /\ next_window \in 1 .. MaxWindows + 1

\* The select, the state and the window that is typed into.
Agreed ==
  /\ state # "halted" => Valid
  /\ pending_select => state \in {"line", "char", "event", "halted"}
  /\ state \in Key => input_window \in DOMAIN requests /\ requests[input_window] = state
  /\ pending_select => \A i \in DOMAIN events : events[i].type \in {"arrange", "sound"}

\* Requests and events are of open windows, ticks of a timer that is set.
Open(q) == \A i \in DOMAIN q : q[i].window \in DOMAIN windows \cup {0}
AsksOpen == DOMAIN requests \cup mouse_requests \cup hyperlink_requests \subseteq DOMAIN windows
Ticks(q) == \A i \in DOMAIN q : q[i].type = "timer" => timer

\* A line or key for window w is on its way to the story.
OnItsWay(q, w) == \E i \in DOMAIN q : q[i].type \in Key /\ q[i].window = w
Awaited == \A w \in asked : w \in DOMAIN requests \/ OnItsWay(events, w)

IInv == Orderly(events) /\ Typed /\ Agreed /\ Open(events) /\ AsksOpen /\ Ticks(events) /\ Awaited

-----------------------------------------------------------------------------
(* Queues *)

OfTypes(types) == {e \in Event : e.type \in types}

LEMMA CountIsPlaces ==
  ASSUME NEW q \in Seq(Event), NEW types
  PROVE  Count(q, types) = Cardinality(Places(q, OfTypes(types)))
<1>1. \A i \in DOMAIN q : q[i] \in Event
  OBVIOUS
<1>2. \A i \in DOMAIN q : q[i].type \in types <=> q[i] \in OfTypes(types)
  BY <1>1 DEF OfTypes
<1>3. {i \in DOMAIN q : q[i].type \in types} = Places(q, OfTypes(types))
  BY <1>2 DEF Places
<1> QED BY <1>3 DEF Count

LEMMA EventFields ==
  /\ \A e \in Event : e.type \in Types /\ e.window \in Window \cup {0}
  /\ \A type \in Types, w \in Window \cup {0} :
       Of(type, w) \in Event /\ Of(type, w).type = type /\ Of(type, w).window = w
BY DEF Event, Types, Of

LEMMA CountNat ==
  ASSUME NEW q \in Seq(Event), NEW types
  PROVE  /\ Count(q, types) \in Nat
         /\ (\A i \in DOMAIN q : q[i].type \notin types) => Count(q, types) = 0
         /\ Count(q, types) = 0 => \A i \in DOMAIN q : q[i].type \notin types
<1> DEFINE A == {i \in DOMAIN q : q[i].type \in types}
<1>1. A = Places(q, OfTypes(types)) /\ IsFiniteSet(A)
  <2>1. \A i \in DOMAIN q : q[i] \in Event
    OBVIOUS
  <2>2. \A i \in DOMAIN q : q[i].type \in types <=> q[i] \in OfTypes(types)
    BY <2>1 DEF OfTypes
  <2>3. A = Places(q, OfTypes(types))
    BY <2>2 DEF Places
  <2> QED BY <2>3, PlacesFinite
<1>2. Count(q, types) = Cardinality(A)
  BY DEF Count
<1>3. (\A i \in DOMAIN q : q[i].type \notin types) <=> A = {}
  OBVIOUS
<1> HIDE DEF A
<1> QED BY <1>1, <1>2, <1>3, FS_CardinalityType, FS_EmptySet

\* Every event is a click or a sound, a tick, a new arrangement, or a line or key.
LEMMA LengthCounted ==
  ASSUME NEW q \in Seq(Event)
  PROVE  Len(q) <= Count(q, Slow) + Count(q, {"timer"}) + Count(q, {"arrange"}) + Count(q, Key)
<1> DEFINE a == OfTypes(Slow)
           b == OfTypes({"timer"})
           c == OfTypes({"arrange"})
           d == OfTypes(Key)
           N(P) == Cardinality(Places(q, P))
<1>1. Event \subseteq (a \cup b) \cup (c \cup d)
  BY EventFields DEF OfTypes, Types, Slow
<1>2. /\ Count(q, Slow) = N(a) /\ Count(q, {"timer"}) = N(b)
      /\ Count(q, {"arrange"}) = N(c) /\ Count(q, Key) = N(d)
  BY CountIsPlaces
<1> HIDE DEF a, b, c, d
<1>3. N((a \cup b) \cup (c \cup d)) = Len(q)
  BY <1>1, PlacesFinite
<1>4. /\ N((a \cup b) \cup (c \cup d)) <= N(a \cup b) + N(c \cup d)
      /\ N(a \cup b) <= N(a) + N(b) /\ N(c \cup d) <= N(c) + N(d)
  BY PlacesUnion
<1>5. /\ N(a) \in Nat /\ N(b) \in Nat /\ N(c) \in Nat /\ N(d) \in Nat
      /\ N(a \cup b) \in Nat /\ N(c \cup d) \in Nat
  BY PlacesFinite
<1> HIDE DEF N
<1> QED BY <1>2, <1>3, <1>4, <1>5

LEMMA OrderlyLength ==
  ASSUME NEW q, Orderly(q) PROVE Len(q) \in Nat /\ Len(q) <= MaxQueue + 4
<1>1. q \in Seq(Event) /\ MaxQueue \in Nat
  BY EventsAssumption DEF Orderly
<1>2. /\ Count(q, Slow) \in Nat /\ Count(q, {"timer"}) \in Nat
      /\ Count(q, {"arrange"}) \in Nat /\ Count(q, Key) \in Nat
  BY <1>1, CountNat
<1> QED BY <1>1, <1>2, LengthCounted DEF Orderly

\* Adding an event adds one to the count of its type only.
LEMMA CountAppend ==
  ASSUME NEW q \in Seq(Event), NEW e \in Event, NEW types
  PROVE  Count(Append(q, e), types) = Count(q, types) + IF e.type \in types THEN 1 ELSE 0
<1>1. Append(q, e) \in Seq(Event)
  OBVIOUS
<1>2. e \in OfTypes(types) <=> e.type \in types
  BY DEF OfTypes
<1>3. /\ Count(q, types) = Cardinality(Places(q, OfTypes(types)))
      /\ Count(Append(q, e), types) = Cardinality(Places(Append(q, e), OfTypes(types)))
  BY <1>1, CountIsPlaces
<1> QED BY <1>2, <1>3, PlacesAppend

LEMMA AppendedElements ==
  ASSUME NEW q \in Seq(Event), NEW e \in Event
  PROVE  /\ Append(q, e) \in Seq(Event)
         /\ \A i \in DOMAIN Append(q, e) : (i \in DOMAIN q /\ Append(q, e)[i] = q[i]) \/ Append(q, e)[i] = e
         /\ \A i \in DOMAIN q : i \in DOMAIN Append(q, e) /\ Append(q, e)[i] = q[i]
         /\ \E i \in DOMAIN Append(q, e) : Append(q, e)[i] = e
<1>1. /\ Append(q, e) \in Seq(Event) /\ DOMAIN q = 1 .. Len(q) /\ Len(q) \in Nat
      /\ DOMAIN Append(q, e) = 1 .. Len(q) + 1 /\ Append(q, e)[Len(q) + 1] = e
      /\ \A i \in 1 .. Len(q) : Append(q, e)[i] = q[i]
  OBVIOUS
<1>2. \A i \in 1 .. Len(q) + 1 : i \in 1 .. Len(q) \/ i = Len(q) + 1
  BY <1>1
<1>3. \A i \in 1 .. Len(q) : i \in 1 .. Len(q) + 1
  BY <1>1
<1>4. Len(q) + 1 \in 1 .. Len(q) + 1
  BY <1>1
<1> QED BY <1>1, <1>2, <1>3, <1>4

\* Taking events out of an orderly queue leaves an orderly one, of some of its events.
LEMMA OrderlyRest ==
  ASSUME NEW q, Orderly(q), NEW kept, NEW r \in Seq(Event), IsRest(r, q, kept)
  PROVE  /\ Orderly(r)
         /\ \A i \in DOMAIN r : \E j \in DOMAIN q : j \in kept /\ r[i] = q[j]
         /\ \A j \in DOMAIN q : j \in kept => \E i \in DOMAIN r : r[i] = q[j]
<1>1. q \in Seq(Event) /\ MaxQueue \in Nat
  BY EventsAssumption DEF Orderly
<1>2. PICK h : /\ IsPart(r, q, h)
               /\ \A j \in 1 .. Len(q) : j \in kept <=> \E i \in 1 .. Len(r) : h[i] = j
  BY DEF IsRest
<1>3. \A types : Count(r, types) <= Count(q, types) /\ Count(r, types) \in Nat /\ Count(q, types) \in Nat
  <2> SUFFICES ASSUME NEW types PROVE Count(r, types) <= Count(q, types)
    BY <1>1, CountNat
  <2>1. /\ Count(q, types) = Cardinality(Places(q, OfTypes(types)))
        /\ Count(r, types) = Cardinality(Places(r, OfTypes(types)))
    BY <1>1, CountIsPlaces
  <2> QED BY <1>1, <1>2, <2>1, PlacesPart
<1>4. Orderly(r)
  BY <1>1, <1>3 DEF Orderly
<1>5. DOMAIN q = 1 .. Len(q) /\ DOMAIN r = 1 .. Len(r)
  BY <1>1
<1>6. \A i \in 1 .. Len(r) : h[i] \in 1 .. Len(q) /\ r[i] = q[h[i]]
  BY <1>2 DEF IsPart
<1>7. \A i \in DOMAIN r : \E j \in DOMAIN q : j \in kept /\ r[i] = q[j]
  <2> SUFFICES ASSUME NEW i \in 1 .. Len(r) PROVE \E j \in 1 .. Len(q) : j \in kept /\ r[i] = q[j]
    BY <1>5
  <2>1. h[i] \in 1 .. Len(q) /\ r[i] = q[h[i]] /\ h[i] \in kept
    BY <1>2, <1>6
  <2> QED BY <2>1
<1>8. \A j \in DOMAIN q : j \in kept => \E i \in DOMAIN r : r[i] = q[j]
  <2> SUFFICES ASSUME NEW j \in 1 .. Len(q), j \in kept PROVE \E i \in 1 .. Len(r) : r[i] = q[j]
    BY <1>5
  <2>1. PICK i \in 1 .. Len(r) : h[i] = j
    BY <1>2
  <2> QED BY <1>6, <2>1
<1> QED BY <1>4, <1>7, <1>8

\* The events that a poll may add: sounds and fades that ended, a tick of the timer.
Found == {e \in Event : e.window = 0 /\ e.type \in {"sound", "volume", "timer"}}

\* r is q with found events after it.
Extends(r, q) ==
  /\ \A i \in DOMAIN q : i \in DOMAIN r /\ r[i] = q[i]
  /\ \A i \in DOMAIN r : \/ i \in DOMAIN q /\ r[i] = q[i]
                         \/ r[i] \in Found /\ (r[i].type = "timer" => timer)

LEMMA ExtendsItself == ASSUME NEW q PROVE Extends(q, q)
BY DEF Extends

LEMMA ExtendsAppend ==
  ASSUME NEW q \in Seq(Event), NEW r \in Seq(Event), Extends(r, q), NEW e \in Found, e.type = "timer" => timer
  PROVE  Extends(Append(r, e), q)
<1>1. e \in Event
  BY DEF Found
<1> DEFINE s == Append(r, e)
<1>2. /\ \A i \in DOMAIN s : (i \in DOMAIN r /\ s[i] = r[i]) \/ s[i] = e
      /\ \A i \in DOMAIN r : i \in DOMAIN s /\ s[i] = r[i]
  BY <1>1, AppendedElements
<1> HIDE DEF s
<1>3. Extends(s, q)
  BY <1>2 DEF Extends
<1> QED BY <1>3 DEF s

\* What a poll finds leaves an orderly queue orderly.
LEMMA OrderlyPolled ==
  ASSUME NEW q, Orderly(q), NEW notes \in Notes(q), NEW due \in {FALSE, timer}
  PROVE  Orderly(Polled(q, notes, due)) /\ Extends(Polled(q, notes, due), q)
<1> DEFINE sound == Of("sound", 0)
           volume == Of("volume", 0)
           tick == Of("timer", 0)
           p == q \o notes
<1>1. q \in Seq(Event) /\ MaxQueue \in Nat /\ Len(q) \in Nat
  BY EventsAssumption DEF Orderly
<1>2. /\ sound \in Found /\ volume \in Found /\ tick \in Found /\ Found \subseteq Event
      /\ sound.type = "sound" /\ volume.type = "volume" /\ tick.type = "timer"
  BY EventFields DEF Found, Types
<1> HIDE DEF sound, volume, tick
<1>3. Extends(q, q)
  BY ExtendsItself
<1>4. \A types : Count(q, types) \in Nat
  BY <1>1, CountNat
<1>5. Len(q) < MaxQueue => Count(q, Slow) <= MaxQueue - 1
  <2>1. Count(q, Slow) = Cardinality(Places(q, OfTypes(Slow)))
    BY <1>1, CountIsPlaces
  <2>2. Count(q, Slow) <= Len(q)
    BY <1>1, <2>1, PlacesFinite
  <2> QED BY <1>1, <1>4, <2>2
<1>6. /\ p \in Seq(Event) /\ Extends(p, q)
      /\ Count(p, Slow) <= MaxQueue + 1
      /\ Count(p, {"timer"}) <= 1 /\ Count(p, {"arrange"}) <= 1 /\ Count(p, Key) <= 1
  <2>1. CASE notes = <<>>
    <3>1. p = q
      BY <1>1, <2>1
    <3> HIDE DEF p
    <3> QED BY <1>3, <3>1 DEF Orderly
  <2>2. CASE Len(q) < MaxQueue /\ notes \in {<<sound>>, <<volume>>}
    <3>1. PICK e \in {sound, volume} : notes = <<e>>
      BY <2>2
    <3>2. e \in Event /\ e \in Found /\ e.type \in {"sound", "volume"}
      BY <1>2
    <3>3. p = Append(q, e)
      BY <1>1, <1>2, <3>1
    <3> HIDE DEF p
    <3>4. p \in Seq(Event) /\ Extends(p, q)
      BY <1>1, <1>3, <3>2, <3>3, ExtendsAppend
    <3>5. \A types : Count(p, types) = Count(q, types) + IF e.type \in types THEN 1 ELSE 0
      BY <1>1, <3>2, <3>3, CountAppend
    <3>6. e.type \notin {"timer"} /\ e.type \notin {"arrange"} /\ e.type \notin Key /\ e.type \in Slow
      BY <3>2 DEF Key, Slow
    <3>7. /\ Count(p, {"timer"}) = Count(q, {"timer"}) + 0 /\ Count(p, {"arrange"}) = Count(q, {"arrange"}) + 0
          /\ Count(p, Key) = Count(q, Key) + 0 /\ Count(p, Slow) = Count(q, Slow) + 1
      BY <3>5, <3>6
    <3> QED BY <1>1, <1>4, <1>5, <2>2, <3>4, <3>7 DEF Orderly
  <2>3. CASE Len(q) < MaxQueue /\ notes = <<volume, sound>>
    <3> DEFINE o == Append(q, volume)
    <3>1. p = Append(o, sound)
      BY <1>1, <1>2, <2>3
    <3>2. o \in Seq(Event) /\ volume \in Event /\ sound \in Event
      BY <1>1, <1>2
    <3>3. Extends(o, q)
      BY <1>1, <1>2, <1>3, ExtendsAppend
    <3>4. \A types : Count(o, types) = Count(q, types) + IF volume.type \in types THEN 1 ELSE 0
      BY <1>1, <3>2, CountAppend
    <3> HIDE DEF o, p
    <3>5. p \in Seq(Event) /\ Extends(p, q)
      BY <1>1, <1>2, <3>1, <3>2, <3>3, ExtendsAppend
    <3>6. \A types : Count(p, types) = Count(o, types) + IF sound.type \in types THEN 1 ELSE 0
      BY <3>1, <3>2, CountAppend
    <3>7. \A e \in {sound, volume} :
            e.type \notin {"timer"} /\ e.type \notin {"arrange"} /\ e.type \notin Key /\ e.type \in Slow
      BY <1>2 DEF Key, Slow
    <3>8. /\ Count(p, {"timer"}) = Count(q, {"timer"}) + 0 + 0
          /\ Count(p, {"arrange"}) = Count(q, {"arrange"}) + 0 + 0
          /\ Count(p, Key) = Count(q, Key) + 0 + 0 /\ Count(p, Slow) = Count(q, Slow) + 1 + 1
      BY <3>4, <3>6, <3>7
    <3> QED BY <1>1, <1>4, <1>5, <2>3, <3>5, <3>8 DEF Orderly
  <2>4. \/ notes = <<>>
        \/ Len(q) < MaxQueue /\ notes \in {<<sound>>, <<volume>>, <<volume, sound>>}
    BY <1>1 DEF Notes, sound, volume
  <2> QED BY <2>1, <2>2, <2>3, <2>4
<1> HIDE DEF p
<1>7. Orderly(p)
  BY <1>6 DEF Orderly
<1>8. Polled(q, notes, due) = IF due /\ ~ Has(p, "timer") THEN Append(p, tick) ELSE p
  BY DEF Polled, p, tick
<1>9. CASE due /\ ~ Has(p, "timer")
  <2> DEFINE r == Append(p, tick)
  <2>1. r \in Seq(Event) /\ tick \in Event
    BY <1>2, <1>6
  <2>2. Extends(r, q)
    BY <1>1, <1>2, <1>6, <1>9, ExtendsAppend
  <2>3. \A types : Count(r, types) = Count(p, types) + IF tick.type \in types THEN 1 ELSE 0
    BY <1>6, <2>1, CountAppend
  <2>4. Count(p, {"timer"}) = 0
    BY <1>6, <1>9, CountNat DEF Has
  <2> HIDE DEF r
  <2>5. tick.type \notin {"arrange"} /\ tick.type \notin Key /\ tick.type \notin Slow /\ tick.type \in {"timer"}
    BY <1>2 DEF Key, Slow
  <2>6. /\ Count(r, {"timer"}) = 0 + 1 /\ Count(r, {"arrange"}) = Count(p, {"arrange"}) + 0
        /\ Count(r, Key) = Count(p, Key) + 0 /\ Count(r, Slow) = Count(p, Slow) + 0
    BY <2>3, <2>4, <2>5
  <2>7. \A types : Count(p, types) \in Nat
    BY <1>6, CountNat
  <2>8. Orderly(r)
    BY <1>1, <1>6, <2>1, <2>6, <2>7 DEF Orderly
  <2> QED BY <1>8, <1>9, <2>2, <2>8 DEF r
<1>10. CASE ~ (due /\ ~ Has(p, "timer"))
  BY <1>6, <1>7, <1>8, <1>10
<1> QED BY <1>9, <1>10

\* A poll leaves of the queue what it does not give to the story, with what it found
\* after it; and it sets the machine running or leaves it as it was, waiting only if
\* nothing is queued.
LEMMA PollKeeps ==
  ASSUME NEW q, Orderly(q), NEW waiting \in BOOLEAN, NEW before, PollFrom(q, waiting, before)
  PROVE  /\ Orderly(events')
         /\ \A i \in DOMAIN events' : \/ \E j \in DOMAIN q : events'[i] = q[j]
                                      \/ events'[i] \in Found /\ (events'[i].type = "timer" => timer)
         /\ asked' \subseteq asked
         /\ \A w \in asked' : OnItsWay(q, w) => OnItsWay(events', w)
         /\ \/ pending_select' = FALSE /\ state' = "running"
            \/ /\ pending_select' = waiting /\ state' = before
               /\ waiting => events' = <<>> /\ q = <<>>
<1>1. PICK notes \in Notes(q), due \in {FALSE, timer} : Give(Polled(q, notes, due), waiting, before)
  BY DEF PollFrom
<1> DEFINE p == Polled(q, notes, due)
<1>2. Orderly(p) /\ Extends(p, q) /\ Give(p, waiting, before)
  BY <1>1, OrderlyPolled
<1> HIDE DEF p
<1>3. /\ \A i \in DOMAIN p : \/ \E j \in DOMAIN q : p[i] = q[j]
                             \/ p[i] \in Found /\ (p[i].type = "timer" => timer)
      /\ \A w : OnItsWay(q, w) => OnItsWay(p, w)
  BY <1>2 DEF Extends, OnItsWay
<1>4. p \in Seq(Event) /\ (p = <<>> => q = <<>>)
  <2>1. p \in Seq(Event) /\ q \in Seq(Event)
    BY <1>2 DEF Orderly
  <2>2. q # <<>> => 1 \in DOMAIN q
    BY <2>1
  <2> QED BY <1>2, <2>1, <2>2 DEF Extends
<1>5. CASE waiting /\ p # <<>>
  <2>1. /\ events' = Tail(p) /\ pending_select' = FALSE /\ state' = "running"
        /\ asked' = IF Head(p).type \in Key THEN asked \ {Head(p).window} ELSE asked
    BY <1>2, <1>5 DEF Give
  <2>2. Tail(p) \in Seq(Event) /\ IsRest(Tail(p), p, 2 .. Len(p))
    BY <1>4, <1>5, TailIsRest
  <2> DEFINE r == Tail(p)
  <2> HIDE DEF r
  <2>3. /\ Orderly(r)
        /\ \A i \in DOMAIN r : \E j \in DOMAIN p : j \in 2 .. Len(p) /\ r[i] = p[j]
        /\ \A j \in DOMAIN p : j \in 2 .. Len(p) => \E i \in DOMAIN r : r[i] = p[j]
    BY <1>2, <2>2, OrderlyRest DEF r
  <2>4. \A j \in DOMAIN p : j = 1 \/ j \in 2 .. Len(p)
    BY <1>4
  <2>5. Head(p) = p[1]
    BY <1>4, <1>5
  <2>6. ASSUME NEW w \in asked', OnItsWay(q, w) PROVE OnItsWay(r, w)
    <3>1. PICK j \in DOMAIN p : p[j].type \in Key /\ p[j].window = w
      BY <1>3, <2>6 DEF OnItsWay
    <3>2. j # 1
      BY <2>1, <2>5, <2>6, <3>1
    <3> QED BY <2>3, <2>4, <3>1, <3>2 DEF OnItsWay
  <2>7. events' = r /\ asked' \subseteq asked
    BY <2>1 DEF r
  <2>8. \A i \in DOMAIN r : \/ \E j \in DOMAIN q : r[i] = q[j]
                            \/ r[i] \in Found /\ (r[i].type = "timer" => timer)
    <3> SUFFICES ASSUME NEW i \in DOMAIN r
                 PROVE  \/ \E j \in DOMAIN q : r[i] = q[j]
                        \/ r[i] \in Found /\ (r[i].type = "timer" => timer)
      OBVIOUS
    <3>1. PICK j \in DOMAIN p : r[i] = p[j]
      BY <2>3
    <3> QED BY <1>3, <3>1
  <2> QED BY <2>1, <2>3, <2>6, <2>7, <2>8
<1>6. CASE ~ (waiting /\ p # <<>>)
  <2>1. events' = p /\ pending_select' = waiting /\ state' = before /\ asked' = asked
    BY <1>2, <1>6 DEF Give
  <2> QED BY <1>2, <1>3, <1>4, <1>6, <2>1
<1> QED BY <1>5, <1>6

\* The parts of the invariant about the queue, after a call that ends with a poll.
LEMMA AfterPoll ==
  ASSUME NEW q, Orderly(q), Open(q), Ticks(q), NEW waiting \in BOOLEAN, NEW before,
         PollFrom(q, waiting, before), timer' = timer, windows' = windows
  PROVE  /\ Orderly(events') /\ Open(events)' /\ Ticks(events)'
         /\ asked' \subseteq asked
         /\ \A w \in asked' : OnItsWay(q, w) => OnItsWay(events', w)
         /\ pending_select' \in BOOLEAN /\ state' \in {before, "running"}
         /\ pending_select' => state' = before /\ waiting /\ events' = <<>> /\ q = <<>>
         /\ ~ pending_select' => state' = "running" \/ ~ waiting
<1>1. /\ Orderly(events')
      /\ \A i \in DOMAIN events' : \/ \E j \in DOMAIN q : events'[i] = q[j]
                                   \/ events'[i] \in Found /\ (events'[i].type = "timer" => timer)
      /\ asked' \subseteq asked
      /\ \A w \in asked' : OnItsWay(q, w) => OnItsWay(events', w)
      /\ \/ pending_select' = FALSE /\ state' = "running"
         \/ /\ pending_select' = waiting /\ state' = before
            /\ waiting => events' = <<>> /\ q = <<>>
  BY PollKeeps
<1>2. \A i \in DOMAIN events' : /\ events'[i].window \in DOMAIN windows \cup {0}
                                /\ events'[i].type = "timer" => timer
  <2> SUFFICES ASSUME NEW i \in DOMAIN events'
               PROVE  /\ events'[i].window \in DOMAIN windows \cup {0}
                      /\ events'[i].type = "timer" => timer
    OBVIOUS
  <2>1. CASE \E j \in DOMAIN q : events'[i] = q[j]
    BY <2>1 DEF Open, Ticks
  <2>2. CASE events'[i] \in Found /\ (events'[i].type = "timer" => timer)
    BY <2>2 DEF Found
  <2> QED BY <1>1, <2>1, <2>2
<1>3. Open(events)'
  BY <1>2 DEF Open
<1>4. Ticks(events)'
  BY <1>2, Zenon DEF Ticks
<1>5. /\ pending_select' \in BOOLEAN /\ state' \in {before, "running"}
      /\ pending_select' => state' = before /\ waiting /\ events' = <<>> /\ q = <<>>
      /\ ~ pending_select' => state' = "running" \/ ~ waiting
  <2>1. CASE pending_select' = FALSE /\ state' = "running"
    BY <2>1
  <2>2. CASE /\ pending_select' = waiting /\ state' = before
             /\ waiting => events' = <<>> /\ q = <<>>
    BY <2>2
  <2> QED BY <1>1, <2>1, <2>2
<1> QED BY <1>1, <1>3, <1>4, <1>5

-----------------------------------------------------------------------------
(* The invariant holds at first and is kept by every call *)

LEMMA InitIInv == Init => IInv
<1> SUFFICES ASSUME Init PROVE IInv
  OBVIOUS
<1> USE EventsAssumption DEF Init
<1>1. Orderly(events)
  <2>1. <<>> \in Seq(Event) /\ \A types : Count(<<>>, types) = 0
    <3>1. <<>> \in Seq(Event) /\ DOMAIN <<>> = {}
      OBVIOUS
    <3> QED BY <3>1, CountNat
  <2> QED BY <2>1 DEF Orderly
<1>2. Typed
  <2>1. DOMAIN Empty = {} /\ \A S : Empty \in [{} -> S]
    BY DEF Empty
  <2>2. 1 \in 1 .. MaxWindows + 1
    OBVIOUS
  <2> QED BY <2>1, <2>2 DEF Typed
<1>3. Agreed
  BY DEF Agreed, Valid, Key
<1>4. Open(events) /\ AsksOpen /\ Ticks(events) /\ Awaited
  BY DEF Open, AsksOpen, Ticks, Awaited, Empty
<1> QED BY <1>1, <1>2, <1>3, <1>4 DEF IInv

\* Open windows have numbers, so there is a first one that waits.
LEMMA LeastWindow ==
  ASSUME Typed, AsksOpen, DOMAIN requests # {}
  PROVE  Min(DOMAIN requests) \in DOMAIN requests
<1>1. DOMAIN requests \subseteq Nat
  BY DEF Typed, AsksOpen
<1> QED BY <1>1, LeastIsIn

\* What an open window's number is.
LEMMA OpenIsWindow ==
  ASSUME Typed PROVE DOMAIN windows \subseteq Window /\ 0 \notin DOMAIN windows /\ 0 \notin Window
BY EventsAssumption DEF Typed, Window

\* Calls that leave the queue, the windows and the timer alone.
LEMMA QueueUnchanged ==
  ASSUME IInv, events' = events, windows' = windows, timer' = timer
  PROVE  Orderly(events') /\ Open(events)' /\ Ticks(events)'
<1>1. Orderly(events) /\ Open(events) /\ Ticks(events)
  BY DEF IInv
<1>2. Orderly(events')
  BY <1>1
<1>3. Open(events)'
  BY <1>1 DEF Open
<1>4. Ticks(events)'
  BY <1>1 DEF Ticks
<1> QED BY <1>2, <1>3, <1>4

\* What is awaited stays awaited when no request ends but those no longer awaited.
LEMMA StillAwaited ==
  ASSUME Awaited, asked' \subseteq asked,
         \A w \in asked' : w \in DOMAIN requests => w \in DOMAIN requests',
         \A w \in asked' : OnItsWay(events, w) => OnItsWay(events', w)
  PROVE  Awaited'
BY DEF Awaited, OnItsWay

\* After a select or a poll: the select waits with the state it had, or is over.
LEMMA SelectIInv == ASSUME IInv, Select PROVE IInv'
<1> DEFINE first == Min(DOMAIN requests)
           before == IF DOMAIN requests = {} THEN "event" ELSE requests[first]
<1>1. /\ Orderly(events) /\ Typed /\ Open(events) /\ AsksOpen /\ Ticks(events) /\ Awaited /\ Agreed
      /\ state = "running"
  BY DEF IInv, Select, Story
<1>2. DOMAIN requests # {} => first \in DOMAIN requests /\ requests[first] \in Key
  BY <1>1, LeastWindow DEF Typed
<1>3. /\ requests' = requests /\ mouse_requests' = mouse_requests /\ hyperlink_requests' = hyperlink_requests
      /\ timer' = timer /\ file_request' = file_request /\ windows' = windows /\ next_window' = next_window
  BY DEF Select, windowVars
<1>4. /\ PollFrom(events, TRUE, before)
      /\ input_window' = IF DOMAIN requests = {} THEN input_window ELSE first
  BY DEF Select
<1> HIDE DEF before, first
<1>5. /\ Orderly(events') /\ Open(events)' /\ Ticks(events)'
      /\ asked' \subseteq asked
      /\ \A w \in asked' : OnItsWay(events, w) => OnItsWay(events', w)
      /\ pending_select' \in BOOLEAN /\ state' \in {before, "running"}
      /\ pending_select' => state' = before /\ TRUE /\ events' = <<>> /\ events = <<>>
      /\ ~ pending_select' => state' = "running" \/ ~ TRUE
  BY <1>1, <1>3, <1>4, AfterPoll
<1>6. before \in {"event", "line", "char"}
  BY <1>2 DEF before, first, Key
<1>7. Typed'
  <2>1. input_window' \in Window \cup {0}
    BY <1>1, <1>2, <1>4, OpenIsWindow DEF Typed, AsksOpen
  <2> QED BY <1>1, <1>3, <1>5, <1>6, <2>1 DEF Typed
<1>8. Agreed'
  <2>1. (state # "halted" => Valid)'
    BY <1>5, <1>6 DEF Valid
  <2>2. (state \in Key => input_window \in DOMAIN requests /\ requests[input_window] = state)'
    <3> SUFFICES ASSUME state' \in Key
                 PROVE  input_window' \in DOMAIN requests /\ requests[input_window'] = state'
      BY <1>3
    <3>1. state' = before /\ before \in Key
      BY <1>5 DEF Key
    <3>2. DOMAIN requests # {} /\ before = requests[first]
      BY <3>1 DEF before, Key
    <3> QED BY <1>2, <1>4, <3>1, <3>2
  <2>3. (pending_select => state \in {"line", "char", "event", "halted"})'
    BY <1>5, <1>6
  <2>4. pending_select' => \A i \in DOMAIN events' : events'[i].type \in {"arrange", "sound"}
    BY <1>5
  <2> QED BY <2>1, <2>2, <2>3, <2>4 DEF Agreed
<1>9. AsksOpen' /\ Awaited'
  <2>1. AsksOpen'
    BY <1>1, <1>3 DEF AsksOpen
  <2> QED BY <1>1, <1>3, <1>5, <2>1, StillAwaited
<1> QED BY <1>5, <1>7, <1>8, <1>9 DEF IInv

\* The calls of the host that end with a poll: nothing of what waits for them changes
\* but the request they answer.
LEMMA PolledIInv ==
  ASSUME IInv, NEW q, Orderly(q), Open(q), Ticks(q), PollFrom(q, pending_select, state),
         timer' = timer, input_window' = input_window, file_request' = file_request,
         windows' = windows, next_window' = next_window,
         requests' \in [DOMAIN requests' -> Key], AsksOpen',
         ~ pending_select \/ q = <<>> => requests' = requests,
         \A w \in asked : w \in DOMAIN requests \/ OnItsWay(events, w) => w \in DOMAIN requests' \/ OnItsWay(q, w)
  PROVE  IInv'
<1>1. Typed /\ Agreed /\ Awaited
  BY DEF IInv
<1>2. pending_select \in BOOLEAN
  BY <1>1 DEF Typed
<1>3. /\ Orderly(events') /\ Open(events)' /\ Ticks(events)'
      /\ asked' \subseteq asked
      /\ \A w \in asked' : OnItsWay(q, w) => OnItsWay(events', w)
      /\ pending_select' \in BOOLEAN /\ state' \in {state, "running"}
      /\ pending_select' => state' = state /\ pending_select /\ events' = <<>> /\ q = <<>>
      /\ ~ pending_select' => state' = "running" \/ ~ pending_select
  BY <1>2, AfterPoll
<1>4. Typed'
  BY <1>1, <1>3 DEF Typed
<1>5. Agreed'
  <2>1. CASE state' = "running"
    <3>1. ~ pending_select'
      BY <1>1, <1>3, <2>1 DEF Agreed
    <3> QED BY <2>1, <3>1 DEF Agreed, Valid, Key
  <2>2. CASE state' = state /\ state' # "running"
    <3>1. pending_select' = pending_select /\ (pending_select => events' = <<>> /\ q = <<>>)
      BY <1>2, <1>3, <2>2
    <3>2. requests' = requests
      BY <3>1
    <3>3. pending_select' => \A i \in DOMAIN events' : events'[i].type \in {"arrange", "sound"}
      BY <3>1
    <3>4. (state # "halted" => Valid)' /\ (pending_select => state \in {"line", "char", "event", "halted"})'
      BY <1>1, <2>2, <3>1 DEF Agreed, Valid
    <3>5. (state \in Key => input_window \in DOMAIN requests /\ requests[input_window] = state)'
      BY <1>1, <2>2, <3>2 DEF Agreed
    <3> QED BY <3>3, <3>4, <3>5 DEF Agreed
  <2> QED BY <1>3, <2>1, <2>2
<1>6. Awaited'
  <2> SUFFICES ASSUME NEW w \in asked' PROVE w \in DOMAIN requests' \/ OnItsWay(events', w)
    BY DEF Awaited, OnItsWay
  <2>1. w \in DOMAIN requests \/ OnItsWay(events, w)
    BY <1>1, <1>3 DEF Awaited
  <2> QED BY <1>3, <2>1
<1> QED BY <1>3, <1>4, <1>5, <1>6 DEF IInv

\* An event of the player is added before the poll.
LEMMA OrderlyAppend ==
  ASSUME IInv, NEW type \in Key \cup {"mouse", "hyperlink"}, NEW w \in DOMAIN windows,
         type \in Key => pending_select, type \notin Key => Len(events) < MaxQueue
  PROVE  LET q == Append(events, Of(type, w)) IN
         /\ Orderly(q) /\ Open(q) /\ Ticks(q) /\ q # <<>>
         /\ \A v : OnItsWay(events, v) => OnItsWay(q, v)
         /\ type \in Key => OnItsWay(q, w)
<1> DEFINE e == Of(type, w)
           q == Append(events, e)
<1>1. Orderly(events) /\ Typed /\ Agreed /\ Open(events) /\ Ticks(events) /\ MaxQueue \in Nat
  BY EventsAssumption DEF IInv
<1>2. events \in Seq(Event)
  BY <1>1 DEF Orderly
<1>3. e \in Event /\ e.type = type /\ e.window = w
  <2>1. w \in Window \cup {0} /\ type \in Types
    BY <1>1, OpenIsWindow DEF Types
  <2> QED BY <2>1, EventFields
<1> HIDE DEF e
<1>4. /\ q \in Seq(Event)
      /\ \A i \in DOMAIN q : (i \in DOMAIN events /\ q[i] = events[i]) \/ q[i] = e
      /\ \A i \in DOMAIN events : i \in DOMAIN q /\ q[i] = events[i]
      /\ \E i \in DOMAIN q : q[i] = e
  BY <1>2, <1>3, AppendedElements
<1>5. \A types : /\ Count(q, types) = Count(events, types) + IF type \in types THEN 1 ELSE 0
                 /\ Count(events, types) \in Nat
  BY <1>2, <1>3, CountAppend, CountNat
<1> HIDE DEF q
<1>6. CASE type \in Key
  <2>1. \A i \in DOMAIN events : events[i].type \notin Key
    BY <1>1, <1>6 DEF Agreed, Key
  <2>2. Count(events, Key) = 0
    BY <1>2, <2>1, CountNat
  <2>3. type \notin Slow /\ type \notin {"timer"} /\ type \notin {"arrange"}
    BY <1>6 DEF Key, Slow
  <2>4. /\ Count(q, Key) = 0 + 1 /\ Count(q, Slow) = Count(events, Slow) + 0
        /\ Count(q, {"timer"}) = Count(events, {"timer"}) + 0
        /\ Count(q, {"arrange"}) = Count(events, {"arrange"}) + 0
    BY <1>5, <1>6, <2>2, <2>3
  <2>5. Orderly(q)
    BY <1>1, <1>4, <1>5, <2>4 DEF Orderly
  <2>6. type # "timer"
    BY <1>6 DEF Key
  <2>7. Ticks(q)
    BY <1>1, <1>3, <1>4, <2>6 DEF Ticks
  <2>8. Open(q)
    BY <1>1, <1>3, <1>4 DEF Open
  <2>9. q # <<>> /\ (\A v : OnItsWay(events, v) => OnItsWay(q, v)) /\ OnItsWay(q, w)
    BY <1>3, <1>4, <1>6 DEF OnItsWay
  <2> QED BY <2>5, <2>7, <2>8, <2>9 DEF q, e
<1>7. CASE type \notin Key
  <2>1. Count(events, Slow) <= Len(events) /\ Len(events) \in Nat
    <3>1. Count(events, Slow) = Cardinality(Places(events, OfTypes(Slow)))
      BY <1>2, CountIsPlaces
    <3> QED BY <1>2, <3>1, PlacesFinite
  <2>2. type \in Slow /\ type \notin {"timer"} /\ type \notin {"arrange"}
    BY <1>7 DEF Key, Slow
  <2>3. /\ Count(q, Key) = Count(events, Key) + 0 /\ Count(q, Slow) = Count(events, Slow) + 1
        /\ Count(q, {"timer"}) = Count(events, {"timer"}) + 0
        /\ Count(q, {"arrange"}) = Count(events, {"arrange"}) + 0
    BY <1>5, <1>7, <2>2
  <2>4. Count(q, Slow) <= MaxQueue + 1
    BY <1>1, <1>5, <1>7, <2>1, <2>3
  <2>5. Orderly(q)
    BY <1>1, <1>4, <1>5, <2>3, <2>4 DEF Orderly
  <2>6. Ticks(q)
    BY <1>1, <1>3, <1>4, <2>2 DEF Ticks
  <2>7. Open(q)
    BY <1>1, <1>3, <1>4 DEF Open
  <2>8. q # <<>> /\ \A v : OnItsWay(events, v) => OnItsWay(q, v)
    BY <1>3, <1>4 DEF OnItsWay
  <2> QED BY <1>7, <2>5, <2>6, <2>7, <2>8 DEF q, e
<1> QED BY <1>6, <1>7

\* Removing a request, as the hash map does.
LEMMA WithoutRequest ==
  ASSUME Typed, AsksOpen, NEW w, requests' = Without(requests, w)
  PROVE  /\ requests' \in [DOMAIN requests' -> Key]
         /\ DOMAIN requests' = DOMAIN requests \ {w}
         /\ \A v \in DOMAIN requests' : requests'[v] = requests[v]
BY DEF Typed, Without

LEMMA HostPollsIInv ==
  ASSUME IInv, Poll \/ \E w \in Window : Provide(w) \/ MouseInput(w) \/ HyperlinkInput(w)
  PROVE  IInv'
<1>1. Orderly(events) /\ Typed /\ Agreed /\ Open(events) /\ Ticks(events) /\ AsksOpen /\ Awaited
  BY DEF IInv
<1>2. requests \in [DOMAIN requests -> Key]
  BY <1>1 DEF Typed
<1>3. CASE Poll
  <2>1. /\ PollFrom(events, pending_select, state)
        /\ requests' = requests /\ mouse_requests' = mouse_requests /\ hyperlink_requests' = hyperlink_requests
        /\ timer' = timer /\ input_window' = input_window /\ file_request' = file_request
        /\ windows' = windows /\ next_window' = next_window
    BY <1>3 DEF Poll, windowVars
  <2>2. AsksOpen'
    BY <1>1, <2>1 DEF AsksOpen
  <2> QED BY <1>1, <1>2, <2>1, <2>2, PolledIInv
<1>4. ASSUME NEW w \in Window, Provide(w) PROVE IInv'
  <2> DEFINE q == Append(events, Of(requests[w], w))
  <2>1. /\ pending_select /\ w \in DOMAIN requests /\ requests' = Without(requests, w)
        /\ PollFrom(q, pending_select, state)
        /\ mouse_requests' = mouse_requests /\ hyperlink_requests' = hyperlink_requests
        /\ timer' = timer /\ input_window' = input_window /\ file_request' = file_request
        /\ windows' = windows /\ next_window' = next_window
    BY <1>4 DEF Provide, windowVars
  <2>2. requests[w] \in Key /\ w \in DOMAIN windows
    BY <1>1, <1>2, <2>1 DEF AsksOpen
  <2> DEFINE type == requests[w]
  <2>3. /\ Orderly(q) /\ Open(q) /\ Ticks(q) /\ q # <<>> /\ OnItsWay(q, w)
        /\ \A v : OnItsWay(events, v) => OnItsWay(q, v)
    <3> HIDE DEF type
    <3>1. type \in Key \cup {"mouse", "hyperlink"} /\ type \in Key
      BY <2>2 DEF type
    <3>2. LET r == Append(events, Of(type, w)) IN
          /\ Orderly(r) /\ Open(r) /\ Ticks(r) /\ r # <<>>
          /\ \A v : OnItsWay(events, v) => OnItsWay(r, v)
          /\ type \in Key => OnItsWay(r, w)
      BY <2>1, <2>2, <3>1, OrderlyAppend
    <3> QED BY <3>1, <3>2 DEF type
  <2> HIDE DEF q
  <2>4. /\ requests' \in [DOMAIN requests' -> Key] /\ DOMAIN requests' = DOMAIN requests \ {w}
    BY <1>1, <2>1, WithoutRequest
  <2>5. AsksOpen'
    BY <1>1, <2>1, <2>4 DEF AsksOpen
  <2>6. \A v \in asked : v \in DOMAIN requests \/ OnItsWay(events, v) => v \in DOMAIN requests' \/ OnItsWay(q, v)
    BY <2>3, <2>4
  <2> QED BY <1>1, <2>1, <2>3, <2>4, <2>5, <2>6, PolledIInv
<1>5. ASSUME NEW w \in Window, MouseInput(w) \/ HyperlinkInput(w) PROVE IInv'
  <2> DEFINE type == IF MouseInput(w) THEN "mouse" ELSE "hyperlink"
             q == Append(events, Of(type, w))
  <2>1. /\ Len(events) < MaxQueue /\ PollFrom(q, pending_select, state)
        /\ w \in mouse_requests \cup hyperlink_requests
        /\ mouse_requests' \subseteq mouse_requests /\ hyperlink_requests' \subseteq hyperlink_requests
        /\ requests' = requests
        /\ timer' = timer /\ input_window' = input_window /\ file_request' = file_request
        /\ windows' = windows /\ next_window' = next_window
    BY <1>5 DEF MouseInput, HyperlinkInput, windowVars
  <2>2. w \in DOMAIN windows
    BY <1>1, <2>1 DEF AsksOpen
  <2>3. type \in Key \cup {"mouse", "hyperlink"} /\ type \notin Key
    BY DEF Key
  <2> HIDE DEF type
  <2>4. /\ Orderly(q) /\ Open(q) /\ Ticks(q) /\ q # <<>>
        /\ \A v : OnItsWay(events, v) => OnItsWay(q, v)
    BY <2>1, <2>2, <2>3, OrderlyAppend
  <2> HIDE DEF q
  <2>5. AsksOpen'
    BY <1>1, <2>1 DEF AsksOpen
  <2>6. \A v \in asked : v \in DOMAIN requests \/ OnItsWay(events, v) => v \in DOMAIN requests' \/ OnItsWay(q, v)
    BY <2>1, <2>4
  <2> QED BY <1>1, <1>2, <2>1, <2>4, <2>5, <2>6, PolledIInv
<1> QED BY <1>3, <1>4, <1>5

\* select_poll takes out the first tick, arrangement or end of a sound.
LEMMA SelectPollIInv == ASSUME IInv, SelectPoll PROVE IInv'
<1>1. Orderly(events) /\ Typed /\ Agreed /\ Open(events) /\ Ticks(events) /\ AsksOpen /\ Awaited
  BY DEF IInv
<1>2. /\ state = "running" /\ state' = state /\ pending_select' = pending_select
      /\ requests' = requests /\ mouse_requests' = mouse_requests /\ hyperlink_requests' = hyperlink_requests
      /\ asked' = asked /\ timer' = timer /\ input_window' = input_window /\ file_request' = file_request
      /\ windows' = windows /\ next_window' = next_window
  BY DEF SelectPoll, Story, inputVars, windowVars
<1>3. PICK notes \in Notes(events), due \in {FALSE, timer} :
        LET q == Polled(events, notes, due)
            internal == {i \in DOMAIN q : q[i].type \in {"timer", "arrange", "sound"}}
        IN events' = IF internal = {} THEN q ELSE RemoveAt(q, Min(internal))
  BY DEF SelectPoll
<1> DEFINE q == Polled(events, notes, due)
           internal == {i \in DOMAIN q : q[i].type \in {"timer", "arrange", "sound"}}
<1>4. Orderly(q) /\ Extends(q, events)
  BY <1>1, OrderlyPolled
<1>5. events' = IF internal = {} THEN q ELSE RemoveAt(q, Min(internal))
  BY <1>3
<1> HIDE DEF q
<1>6. q \in Seq(Event) /\ DOMAIN q = 1 .. Len(q) /\ Len(q) \in Nat
  <2>1. q \in Seq(Event)
    BY <1>4 DEF Orderly
  <2> QED BY <2>1
<1>7. Open(q) /\ Ticks(q)
  <2> SUFFICES ASSUME NEW i \in DOMAIN q
               PROVE  q[i].window \in DOMAIN windows \cup {0} /\ (q[i].type = "timer" => timer)
    BY DEF Open, Ticks
  <2>1. CASE i \in DOMAIN events /\ q[i] = events[i]
    BY <1>1, <2>1 DEF Open, Ticks
  <2>2. CASE q[i] \in Found /\ (q[i].type = "timer" => timer)
    BY <2>2 DEF Found
  <2> QED BY <1>4, <2>1, <2>2 DEF Extends
<1>8. \A v : OnItsWay(events, v) => OnItsWay(q, v)
  BY <1>4 DEF Extends, OnItsWay
<1>9. /\ Orderly(events')
      /\ \A i \in DOMAIN events' : \E j \in DOMAIN q : events'[i] = q[j]
      /\ \A v : OnItsWay(q, v) => OnItsWay(events', v)
  <2>1. CASE internal = {}
    <3>1. events' = q
      BY <1>5, <2>1
    <3> QED BY <1>4, <3>1
  <2>2. CASE internal # {}
    <3> DEFINE k == Min(internal)
    <3>1. k \in internal
      <4>1. internal \subseteq Nat
        BY <1>6
      <4> HIDE DEF internal
      <4> QED BY <2>2, <4>1, LeastIsIn
    <3>2. k \in 1 .. Len(q) /\ q[k].type \in {"timer", "arrange", "sound"}
      BY <1>6, <3>1
    <3>3. events' = RemoveAt(q, k)
      BY <1>5, <2>2
    <3> HIDE DEF k
    <3>4. events' \in Seq(Event) /\ IsRest(events', q, (1 .. Len(q)) \ {k})
      BY <1>6, <3>2, <3>3, RemoveAtIsRest
    <3> DEFINE r == events'
    <3> HIDE DEF r
    <3>5. r \in Seq(Event) /\ IsRest(r, q, (1 .. Len(q)) \ {k})
      BY <3>4 DEF r
    <3>6. /\ Orderly(r)
          /\ \A i \in DOMAIN r : \E j \in DOMAIN q : j \in (1 .. Len(q)) \ {k} /\ r[i] = q[j]
          /\ \A j \in DOMAIN q : j \in (1 .. Len(q)) \ {k} => \E i \in DOMAIN r : r[i] = q[j]
      BY <1>4, <3>5, OrderlyRest
    <3>7. ASSUME NEW v, OnItsWay(q, v) PROVE OnItsWay(r, v)
      <4>1. PICK j \in DOMAIN q : q[j].type \in Key /\ q[j].window = v
        BY <3>7 DEF OnItsWay
      <4>2. j # k /\ j \in (1 .. Len(q)) \ {k}
        BY <1>6, <3>2, <4>1 DEF Key
      <4> QED BY <3>6, <4>1, <4>2 DEF OnItsWay
    <3> QED BY <3>6, <3>7 DEF r
  <2> QED BY <2>1, <2>2
<1>10. Open(events)'
  BY <1>2, <1>7, <1>9 DEF Open
<1>11. Ticks(events)'
  BY <1>2, <1>7, <1>9 DEF Ticks
<1>12. Awaited'
  BY <1>1, <1>2, <1>8, <1>9 DEF Awaited, OnItsWay
<1>13. Typed' /\ AsksOpen'
  BY <1>1, <1>2 DEF Typed, AsksOpen
<1>14. Agreed'
  <2>1. ~ pending_select'
    BY <1>1, <1>2 DEF Agreed
  <2> QED BY <1>2, <2>1 DEF Agreed, Valid, Key
<1> QED BY <1>9, <1>10, <1>11, <1>12, <1>13, <1>14 DEF IInv

\* Events of a kind are taken out: the others stay, and what is told stays told.
LEMMA OrderlyRetain ==
  ASSUME NEW q, Orderly(q), NEW kept
  PROVE  /\ Orderly(Retain(q, kept))
         /\ \A i \in DOMAIN Retain(q, kept) : \E j \in DOMAIN q : j \in kept /\ Retain(q, kept)[i] = q[j]
         /\ \A j \in DOMAIN q : j \in kept => \E i \in DOMAIN Retain(q, kept) : Retain(q, kept)[i] = q[j]
<1> DEFINE r == Retain(q, kept)
<1>1. r \in Seq(Event) /\ IsRest(r, q, kept)
  BY RetainProperties DEF Orderly
<1> HIDE DEF r
<1>2. /\ Orderly(r)
      /\ \A i \in DOMAIN r : \E j \in DOMAIN q : j \in kept /\ r[i] = q[j]
      /\ \A j \in DOMAIN q : j \in kept => \E i \in DOMAIN r : r[i] = q[j]
  BY <1>1, OrderlyRest
<1> QED BY <1>2 DEF r

LEMMA TicksTakenOut ==
  ASSUME NEW q, Orderly(q)
  PROVE  /\ Orderly(WithoutTicks(q))
         /\ \A i \in DOMAIN WithoutTicks(q) : /\ WithoutTicks(q)[i].type # "timer"
                                              /\ \E j \in DOMAIN q : WithoutTicks(q)[i] = q[j]
         /\ \A v : OnItsWay(q, v) => OnItsWay(WithoutTicks(q), v)
<1> DEFINE kept == {i \in DOMAIN q : q[i].type # "timer"}
           r == Retain(q, kept)
<1>1. \A j : j \in kept <=> j \in DOMAIN q /\ q[j].type # "timer"
  OBVIOUS
<1> HIDE DEF kept
<1>2. /\ Orderly(r)
      /\ \A i \in DOMAIN r : \E j \in DOMAIN q : j \in kept /\ r[i] = q[j]
      /\ \A j \in DOMAIN q : j \in kept => \E i \in DOMAIN r : r[i] = q[j]
  BY OrderlyRetain
<1> HIDE DEF r
<1>3. \A i \in DOMAIN r : r[i].type # "timer" /\ \E j \in DOMAIN q : r[i] = q[j]
  BY <1>1, <1>2
<1>4. \A v : OnItsWay(q, v) => OnItsWay(r, v)
  BY <1>1, <1>2 DEF OnItsWay, Key
<1>5. WithoutTicks(q) = r
  BY DEF WithoutTicks, r, kept
<1> QED BY <1>2, <1>3, <1>4, <1>5

\* The other calls of the story: all of them find no select that waits.
LEMMA StoryIInv ==
  ASSUME IInv, StoryCall, ~ Select, ~ SelectPoll
  PROVE  IInv'
<1>1. Orderly(events) /\ Typed /\ Agreed /\ Open(events) /\ Ticks(events) /\ AsksOpen /\ Awaited
  BY DEF IInv
<1>2. state = "running" /\ ~ pending_select
  BY <1>1 DEF StoryCall, Story, Agreed, Prompt, RequestTimer, OpenWindow, RequestKey, CancelKey,
              RequestPointer, CancelPointer, CloseWindow
<1>3. CASE Prompt
  <2>1. /\ state' = "file" /\ file_request' = TRUE /\ pending_select' = pending_select
        /\ events' = events /\ requests' = requests /\ mouse_requests' = mouse_requests
        /\ hyperlink_requests' = hyperlink_requests /\ asked' = asked /\ timer' = timer
        /\ input_window' = input_window /\ windows' = windows /\ next_window' = next_window
    BY <1>3 DEF Prompt, inputVars, windowVars
  <2>2. Orderly(events') /\ Open(events)' /\ Ticks(events)'
    BY <2>1, QueueUnchanged
  <2>3. Typed' /\ AsksOpen' /\ Awaited'
    BY <1>1, <2>1 DEF Typed, AsksOpen, Awaited, OnItsWay
  <2>4. Agreed'
    BY <1>2, <2>1 DEF Agreed, Valid, Key
  <2> QED BY <2>2, <2>3, <2>4 DEF IInv
<1>4. ASSUME NEW on \in BOOLEAN, RequestTimer(on) PROVE IInv'
  <2>1. /\ state' = state /\ file_request' = file_request /\ pending_select' = pending_select
        /\ events' = WithoutTicks(events) /\ requests' = requests /\ mouse_requests' = mouse_requests
        /\ hyperlink_requests' = hyperlink_requests /\ asked' = asked /\ timer' = on
        /\ input_window' = input_window /\ windows' = windows /\ next_window' = next_window
    BY <1>4 DEF RequestTimer, inputVars, windowVars
  <2> DEFINE r == WithoutTicks(events)
  <2>2. /\ Orderly(r)
        /\ \A i \in DOMAIN r : r[i].type # "timer" /\ \E j \in DOMAIN events : r[i] = events[j]
        /\ \A v : OnItsWay(events, v) => OnItsWay(r, v)
    BY <1>1, TicksTakenOut
  <2> HIDE DEF r
  <2>3. events' = r
    BY <2>1 DEF r
  <2>4. Orderly(events') /\ \A v : OnItsWay(events, v) => OnItsWay(events', v)
    BY <2>2, <2>3
  <2>5. Open(events)'
    BY <1>1, <2>1, <2>2, <2>3 DEF Open
  <2>6. Ticks(events)'
    BY <2>2, <2>3 DEF Ticks
  <2>7. Awaited'
    BY <1>1, <2>1, <2>4, StillAwaited
  <2>8. Typed' /\ AsksOpen'
    BY <1>1, <2>1 DEF Typed, AsksOpen
  <2>9. Agreed'
    BY <1>2, <2>1 DEF Agreed, Valid, Key
  <2> QED BY <2>4, <2>5, <2>6, <2>7, <2>8, <2>9 DEF IInv
<1>5. ASSUME NEW kind \in Kinds, OpenWindow(kind) PROVE IInv'
  <2>1. /\ state' = state /\ file_request' = file_request /\ pending_select' = pending_select
        /\ events' = events /\ requests' = requests /\ mouse_requests' = mouse_requests
        /\ hyperlink_requests' = hyperlink_requests /\ asked' = asked /\ timer' = timer
        /\ input_window' = input_window
        /\ next_window <= MaxWindows /\ next_window' = next_window + 1
        /\ windows' = Put(windows, next_window, kind)
    BY <1>5 DEF OpenWindow, inputVars
  <2>2. MaxWindows \in Nat /\ next_window \in 1 .. MaxWindows + 1 /\ DOMAIN windows \subseteq 1 .. next_window - 1
    BY <1>1, EventsAssumption DEF Typed
  <2>3. /\ windows' \in [DOMAIN windows' -> Kinds] /\ DOMAIN windows' = DOMAIN windows \cup {next_window}
    BY <1>1, <2>1 DEF Typed, Put
  <2>4. next_window' \in 1 .. MaxWindows + 1 /\ DOMAIN windows' \subseteq 1 .. next_window' - 1
    BY <2>1, <2>2, <2>3
  <2>5. Typed'
    BY <1>1, <2>1, <2>3, <2>4 DEF Typed
  <2>6. Orderly(events')
    BY <1>1, <2>1
  <2>7. Open(events)' /\ AsksOpen'
    BY <1>1, <2>1, <2>3 DEF Open, AsksOpen
  <2>8. Ticks(events)'
    BY <1>1, <2>1 DEF Ticks
  <2>9. Awaited'
    BY <1>1, <2>1 DEF Awaited, OnItsWay
  <2>10. Agreed'
    BY <1>2, <2>1 DEF Agreed, Valid, Key
  <2> QED BY <2>5, <2>6, <2>7, <2>8, <2>9, <2>10 DEF IInv
<1>6. ASSUME NEW w \in Window, RequestPointer(w) \/ CancelPointer(w) PROVE IInv'
  <2>1. /\ state' = state /\ file_request' = file_request /\ pending_select' = pending_select
        /\ events' = events /\ requests' = requests /\ asked' = asked /\ timer' = timer
        /\ input_window' = input_window /\ windows' = windows /\ next_window' = next_window
    BY <1>6 DEF RequestPointer, CancelPointer, windowVars
  <2>2. mouse_requests' \cup hyperlink_requests' \subseteq mouse_requests \cup hyperlink_requests \cup DOMAIN windows
    BY <1>6 DEF RequestPointer, CancelPointer
  <2>3. Orderly(events') /\ Open(events)' /\ Ticks(events)'
    BY <2>1, QueueUnchanged
  <2>4. AsksOpen'
    BY <1>1, <2>1, <2>2 DEF AsksOpen
  <2>5. Typed' /\ Awaited'
    BY <1>1, <2>1 DEF Typed, Awaited, OnItsWay
  <2>6. Agreed'
    BY <1>2, <2>1 DEF Agreed, Valid, Key
  <2> QED BY <2>3, <2>4, <2>5, <2>6 DEF IInv
<1>7. ASSUME NEW w \in Window, (\E key \in Key : RequestKey(w, key)) \/ CancelKey(w) PROVE IInv'
  <2>1. /\ state' = state /\ file_request' = file_request /\ pending_select' = pending_select
        /\ events' = events /\ timer' = timer
        /\ mouse_requests' = mouse_requests /\ hyperlink_requests' = hyperlink_requests
        /\ input_window' = input_window /\ windows' = windows /\ next_window' = next_window
    BY <1>7 DEF RequestKey, CancelKey, windowVars
  <2>2. /\ requests' \in [DOMAIN requests' -> Key] /\ DOMAIN requests' \subseteq DOMAIN windows
        /\ \A v \in asked' : v \in DOMAIN requests' \/ (v \in asked /\ v \notin DOMAIN requests)
    <3>1. ASSUME NEW key \in Key, RequestKey(w, key)
          PROVE  /\ requests' \in [DOMAIN requests' -> Key] /\ DOMAIN requests' = DOMAIN requests \cup {w}
                 /\ w \in DOMAIN windows /\ asked' = asked \cup {w}
      BY <1>1, <3>1 DEF RequestKey, Put, Typed
    <3>2. ASSUME CancelKey(w)
          PROVE  /\ requests' \in [DOMAIN requests' -> Key] /\ DOMAIN requests' = DOMAIN requests \ {w}
                 /\ asked' = asked \ {w}
      BY <1>1, <3>2, WithoutRequest DEF CancelKey
    <3>3. DOMAIN requests \subseteq DOMAIN windows
      BY <1>1 DEF AsksOpen
    <3>4. CASE \E key \in Key : RequestKey(w, key)
      BY <3>1, <3>3, <3>4
    <3>5. CASE CancelKey(w)
      BY <3>2, <3>3, <3>5
    <3> QED BY <1>7, <3>4, <3>5
  <2>3. Orderly(events') /\ Open(events)' /\ Ticks(events)'
    BY <2>1, QueueUnchanged
  <2>4. AsksOpen' /\ Typed'
    BY <1>1, <2>1, <2>2 DEF AsksOpen, Typed
  <2>5. Awaited'
    BY <1>1, <2>1, <2>2 DEF Awaited, OnItsWay
  <2>6. Agreed'
    BY <1>2, <2>1 DEF Agreed, Valid, Key
  <2> QED BY <2>3, <2>4, <2>5, <2>6 DEF IInv
<1>8. ASSUME NEW w \in Window, CloseWindow(w) PROVE IInv'
  <2> DEFINE kept == {i \in DOMAIN events : events[i].window # w}
             r == Retain(events, kept)
  <2>1. /\ state' = state /\ file_request' = file_request /\ pending_select' = pending_select
        /\ events' = r /\ timer' = timer /\ w \in DOMAIN windows
        /\ requests' = Without(requests, w) /\ asked' = asked \ {w}
        /\ mouse_requests' = mouse_requests \ {w} /\ hyperlink_requests' = hyperlink_requests \ {w}
        /\ input_window' = input_window /\ windows' = Without(windows, w) /\ next_window' = next_window
    BY <1>8 DEF CloseWindow
  <2>2. \A j : j \in kept <=> j \in DOMAIN events /\ events[j].window # w
    OBVIOUS
  <2> HIDE DEF kept
  <2>3. /\ Orderly(r)
        /\ \A i \in DOMAIN r : \E j \in DOMAIN events : j \in kept /\ r[i] = events[j]
        /\ \A j \in DOMAIN events : j \in kept => \E i \in DOMAIN r : r[i] = events[j]
    BY <1>1, OrderlyRetain
  <2> HIDE DEF r
  <2>4. /\ requests' \in [DOMAIN requests' -> Key] /\ DOMAIN requests' = DOMAIN requests \ {w}
    BY <1>1, <2>1, WithoutRequest
  <2>5. /\ windows' \in [DOMAIN windows' -> Kinds] /\ DOMAIN windows' = DOMAIN windows \ {w}
    BY <1>1, <2>1 DEF Typed, Without
  <2>6. \A i \in DOMAIN events' : /\ events'[i].window \in DOMAIN windows' \cup {0}
                                  /\ events'[i].type = "timer" => timer
    <3> SUFFICES ASSUME NEW i \in DOMAIN r
                 PROVE  r[i].window \in DOMAIN windows' \cup {0} /\ (r[i].type = "timer" => timer)
      BY <2>1
    <3>1. PICK j \in DOMAIN events : j \in kept /\ r[i] = events[j]
      BY <2>3
    <3> QED BY <1>1, <2>2, <2>5, <3>1 DEF Open, Ticks
  <2>7. Orderly(events')
    BY <2>1, <2>3
  <2>8. Open(events)' /\ AsksOpen'
    BY <1>1, <2>1, <2>4, <2>5, <2>6 DEF Open, AsksOpen
  <2>9. Ticks(events)'
    BY <2>1, <2>6 DEF Ticks
  <2>10. Typed'
    BY <1>1, <2>1, <2>4, <2>5 DEF Typed
  <2>11. Awaited'
    <3> SUFFICES ASSUME NEW v \in asked' PROVE v \in DOMAIN requests' \/ OnItsWay(r, v)
      BY <2>1 DEF Awaited, OnItsWay
    <3>1. v \in asked /\ v # w
      BY <2>1
    <3>2. CASE v \in DOMAIN requests
      BY <2>4, <3>1, <3>2
    <3>3. CASE OnItsWay(events, v)
      BY <2>2, <2>3, <3>1, <3>3 DEF OnItsWay
    <3> QED BY <1>1, <3>1, <3>2, <3>3 DEF Awaited
  <2>12. Agreed'
    BY <1>2, <2>1 DEF Agreed, Valid, Key
  <2> QED BY <2>7, <2>8, <2>9, <2>10, <2>11, <2>12 DEF IInv
<1> QED BY <1>3, <1>4, <1>5, <1>6, <1>7, <1>8 DEF StoryCall

\* What the host does without a poll, and a machine that ends, starts again or is
\* resumed.
LEMMA HostIInv ==
  ASSUME IInv, Resize \/ ProvideFile \/ Stop \/ Restart \/ Resume \/ \E w \in Window : SelectInputWindow(w)
  PROVE  IInv'
<1>1. Orderly(events) /\ Typed /\ Agreed /\ Open(events) /\ Ticks(events) /\ AsksOpen /\ Awaited
  BY DEF IInv
<1>2. events \in Seq(Event) /\ MaxQueue \in Nat
  BY <1>1, EventsAssumption DEF Orderly
<1>3. CASE Resize
  <2> DEFINE e == Of("arrange", 0)
             r == Append(events, e)
  <2>1. /\ state' = state /\ file_request' = file_request /\ pending_select' = pending_select
        /\ events' = r /\ requests' = requests /\ mouse_requests' = mouse_requests
        /\ hyperlink_requests' = hyperlink_requests /\ asked' = asked /\ timer' = timer
        /\ input_window' = input_window /\ windows' = windows /\ next_window' = next_window
        /\ ~ Has(events, "arrange")
    BY <1>3 DEF Resize, inputVars, windowVars
  <2>2. e \in Event /\ e.type = "arrange" /\ e.window = 0
    BY EventFields DEF Types
  <2> HIDE DEF e
  <2>3. /\ r \in Seq(Event)
        /\ \A i \in DOMAIN r : (i \in DOMAIN events /\ r[i] = events[i]) \/ r[i] = e
        /\ \A i \in DOMAIN events : i \in DOMAIN r /\ r[i] = events[i]
    BY <1>2, <2>2, AppendedElements
  <2>4. \A types : /\ Count(r, types) = Count(events, types) + IF e.type \in types THEN 1 ELSE 0
                   /\ Count(events, types) \in Nat
    BY <1>2, <2>2, CountAppend, CountNat
  <2> HIDE DEF r
  <2>5. Count(events, {"arrange"}) = 0
    BY <1>2, <2>1, CountNat DEF Has
  <2>6. e.type \notin Key /\ e.type \notin Slow /\ e.type \notin {"timer"} /\ e.type \in {"arrange"}
    BY <2>2 DEF Key, Slow
  <2>7. /\ Count(r, Key) = Count(events, Key) + 0 /\ Count(r, Slow) = Count(events, Slow) + 0
        /\ Count(r, {"timer"}) = Count(events, {"timer"}) + 0 /\ Count(r, {"arrange"}) = 0 + 1
    BY <2>4, <2>5, <2>6
  <2>8. Orderly(r)
    BY <1>1, <2>3, <2>4, <2>7 DEF Orderly
  <2>9. Orderly(events')
    BY <2>1, <2>8
  <2>10. Open(events)'
    BY <1>1, <2>1, <2>2, <2>3 DEF Open
  <2>11. Ticks(events)'
    BY <1>1, <2>1, <2>2, <2>3 DEF Ticks
  <2>12. Typed' /\ AsksOpen'
    BY <1>1, <2>1 DEF Typed, AsksOpen
  <2>13. \A v : OnItsWay(events, v) => OnItsWay(events', v)
    BY <2>1, <2>3 DEF OnItsWay
  <2>14. Awaited'
    BY <1>1, <2>1, <2>13, StillAwaited
  <2>15. pending_select => \A i \in DOMAIN r : r[i].type \in {"arrange", "sound"}
    BY <1>1, <2>2, <2>3 DEF Agreed
  <2>16. Agreed'
    <3>1. (state # "halted" => Valid)' /\ (pending_select => state \in {"line", "char", "event", "halted"})'
      BY <1>1, <2>1 DEF Agreed, Valid
    <3>2. (state \in Key => input_window \in DOMAIN requests /\ requests[input_window] = state)'
      BY <1>1, <2>1 DEF Agreed
    <3>3. (pending_select => \A i \in DOMAIN events : events[i].type \in {"arrange", "sound"})'
      BY <2>1, <2>15
    <3> QED BY <3>1, <3>2, <3>3 DEF Agreed
  <2> QED BY <2>9, <2>10, <2>11, <2>12, <2>14, <2>16 DEF IInv
<1>4. CASE \E w \in Window : SelectInputWindow(w)
  <2>1. PICK w \in Window : SelectInputWindow(w)
    BY <1>4
  <2>2. /\ pending_select /\ w \in DOMAIN requests /\ input_window' = w /\ state' = requests[w]
        /\ pending_select' = pending_select
        /\ events' = events /\ requests' = requests /\ mouse_requests' = mouse_requests
        /\ hyperlink_requests' = hyperlink_requests /\ asked' = asked /\ timer' = timer
        /\ file_request' = file_request /\ windows' = windows /\ next_window' = next_window
    BY <2>1 DEF SelectInputWindow, inputVars, windowVars
  <2>3. requests[w] \in Key
    BY <1>1, <2>2 DEF Typed
  <2>4. Orderly(events') /\ Open(events)' /\ Ticks(events)'
    BY <2>2, QueueUnchanged
  <2>5. Typed' /\ AsksOpen' /\ Awaited'
    BY <1>1, <2>2, <2>3 DEF Typed, AsksOpen, Awaited, OnItsWay, Key
  <2>6. Agreed'
    BY <1>1, <2>2, <2>3 DEF Agreed, Valid, Key
  <2> QED BY <2>4, <2>5, <2>6 DEF IInv
<1>5. CASE ProvideFile
  <2>1. /\ state = "file" /\ state' = "running" /\ file_request' = FALSE /\ pending_select' = pending_select
        /\ events' = events /\ requests' = requests /\ mouse_requests' = mouse_requests
        /\ hyperlink_requests' = hyperlink_requests /\ asked' = asked /\ timer' = timer
        /\ input_window' = input_window /\ windows' = windows /\ next_window' = next_window
    BY <1>5 DEF ProvideFile, inputVars, windowVars
  <2>2. Orderly(events') /\ Open(events)' /\ Ticks(events)'
    BY <2>1, QueueUnchanged
  <2>3. Typed' /\ AsksOpen' /\ Awaited'
    BY <1>1, <2>1 DEF Typed, AsksOpen, Awaited, OnItsWay
  <2>4. ~ pending_select
    BY <1>1, <2>1 DEF Agreed
  <2>5. Agreed'
    BY <2>1, <2>4 DEF Agreed, Valid, Key
  <2> QED BY <2>2, <2>3, <2>5 DEF IInv
<1>6. CASE Stop
  <2>1. /\ state' = "halted" /\ file_request' = file_request /\ pending_select' = pending_select
        /\ events' = events /\ requests' = requests /\ mouse_requests' = mouse_requests
        /\ hyperlink_requests' = hyperlink_requests /\ asked' = asked /\ timer' = timer
        /\ input_window' = input_window /\ windows' = windows /\ next_window' = next_window
    BY <1>6 DEF Stop, inputVars, windowVars
  <2>2. Orderly(events') /\ Open(events)' /\ Ticks(events)'
    BY <2>1, QueueUnchanged
  <2>3. Typed' /\ AsksOpen' /\ Awaited'
    BY <1>1, <2>1 DEF Typed, AsksOpen, Awaited, OnItsWay
  <2>4. Agreed'
    BY <1>1, <2>1 DEF Agreed, Valid, Key
  <2> QED BY <2>2, <2>3, <2>4 DEF IInv
<1>7. CASE Restart
  <2>1. /\ state' = "running" /\ file_request' = file_request /\ pending_select' = FALSE
        /\ events' = events /\ requests' = requests /\ mouse_requests' = mouse_requests
        /\ hyperlink_requests' = hyperlink_requests /\ asked' = asked /\ timer' = timer
        /\ input_window' = 0 /\ windows' = windows /\ next_window' = next_window
    BY <1>7 DEF Restart, inputVars, windowVars
  <2>2. Orderly(events') /\ Open(events)' /\ Ticks(events)'
    BY <2>1, QueueUnchanged
  <2>3. Typed' /\ AsksOpen' /\ Awaited'
    BY <1>1, <2>1 DEF Typed, AsksOpen, Awaited, OnItsWay
  <2>4. Agreed'
    BY <2>1 DEF Agreed, Valid, Key
  <2> QED BY <2>2, <2>3, <2>4 DEF IInv
<1>8. CASE Resume
  <2>1. /\ state' = state /\ file_request' = file_request /\ pending_select' = pending_select
        /\ requests' = requests /\ mouse_requests' = mouse_requests
        /\ hyperlink_requests' = hyperlink_requests /\ asked' = asked /\ timer' = timer
        /\ input_window' = input_window /\ windows' = windows /\ next_window' = next_window
    BY <1>8 DEF Resume, inputVars, windowVars
  <2>2. PICK notes \in {<<>>, <<Of("sound", 0)>>} :
          /\ Len(events \o notes) <= MaxQueue \/ notes = <<>>
          /\ events' = IF timer THEN WithoutTicks(events \o notes) ELSE events \o notes
    BY <1>8 DEF Resume
  <2> DEFINE q == events \o notes
             e == Of("sound", 0)
  <2>3. e \in Event /\ e.type = "sound" /\ e.window = 0
    BY EventFields DEF Types
  <2> HIDE DEF e
  <2>4. /\ Orderly(q) /\ \A v : OnItsWay(events, v) => OnItsWay(q, v)
        /\ \A i \in DOMAIN q : (\E j \in DOMAIN events : q[i] = events[j]) \/ q[i] = e
    <3>1. CASE notes = <<>>
      <4>1. q = events
        BY <1>2, <3>1
      <4> HIDE DEF q
      <4> QED BY <1>1, <4>1
    <3>2. CASE notes # <<>>
      <4>1. q = Append(events, e) /\ Len(q) = Len(events) + 1 /\ Len(q) <= MaxQueue
        <5>1. notes = <<e>> /\ Len(events \o notes) <= MaxQueue
          BY <2>2, <3>2 DEF e
        <5>2. events \o <<e>> = Append(events, e) /\ Len(Append(events, e)) = Len(events) + 1
          BY <1>2, <2>3
        <5> QED BY <5>1, <5>2
      <4> HIDE DEF q
      <4>2. /\ q \in Seq(Event)
            /\ \A i \in DOMAIN q : (i \in DOMAIN events /\ q[i] = events[i]) \/ q[i] = e
            /\ \A i \in DOMAIN events : i \in DOMAIN q /\ q[i] = events[i]
        BY <1>2, <2>3, <4>1, AppendedElements
      <4>3. \A types : /\ Count(q, types) = Count(events, types) + IF e.type \in types THEN 1 ELSE 0
                       /\ Count(events, types) \in Nat
        BY <1>2, <2>3, <4>1, CountAppend, CountNat
      <4>4. Count(events, Slow) <= Len(events) /\ Len(events) \in Nat
        <5>1. Count(events, Slow) = Cardinality(Places(events, OfTypes(Slow)))
          BY <1>2, CountIsPlaces
        <5> QED BY <1>2, <5>1, PlacesFinite
      <4>5. e.type \notin Key /\ e.type \in Slow /\ e.type \notin {"timer"} /\ e.type \notin {"arrange"}
        BY <2>3 DEF Key, Slow
      <4>6. /\ Count(q, Key) = Count(events, Key) + 0 /\ Count(q, Slow) = Count(events, Slow) + 1
            /\ Count(q, {"timer"}) = Count(events, {"timer"}) + 0
            /\ Count(q, {"arrange"}) = Count(events, {"arrange"}) + 0
        BY <4>3, <4>5
      <4>7. Count(q, Slow) <= MaxQueue + 1
        BY <1>2, <4>1, <4>3, <4>4, <4>6
      <4>8. Orderly(q)
        BY <1>1, <4>2, <4>3, <4>6, <4>7 DEF Orderly
      <4>9. \A v : OnItsWay(events, v) => OnItsWay(q, v)
        BY <4>2 DEF OnItsWay
      <4> QED BY <4>2, <4>8, <4>9
    <3> QED BY <3>1, <3>2
  <2> HIDE DEF q
  <2>5. /\ Orderly(events') /\ \A v : OnItsWay(events, v) => OnItsWay(events', v)
        /\ \A i \in DOMAIN events' : (\E j \in DOMAIN events : events'[i] = events[j]) \/ events'[i] = e
    <3>1. CASE timer
      <4> DEFINE r == WithoutTicks(q)
      <4>1. events' = r
        BY <2>2, <3>1 DEF q
      <4>2. /\ Orderly(r)
            /\ \A i \in DOMAIN r : r[i].type # "timer" /\ \E j \in DOMAIN q : r[i] = q[j]
            /\ \A v : OnItsWay(q, v) => OnItsWay(r, v)
        BY <2>4, TicksTakenOut
      <4> HIDE DEF r
      <4>3. \A i \in DOMAIN r : (\E j \in DOMAIN events : r[i] = events[j]) \/ r[i] = e
        BY <2>4, <4>2
      <4> QED BY <2>4, <4>1, <4>2, <4>3
    <3>2. CASE ~ timer
      <4>1. events' = q
        BY <2>2, <3>2 DEF q
      <4> QED BY <2>4, <4>1
    <3> QED BY <3>1, <3>2
  <2>6. Open(events)'
    BY <1>1, <2>1, <2>3, <2>5 DEF Open
  <2>7. Ticks(events)'
    BY <1>1, <2>1, <2>3, <2>5 DEF Ticks
  <2>8. Awaited'
    BY <1>1, <2>1, <2>5, StillAwaited
  <2>9. Typed' /\ AsksOpen'
    BY <1>1, <2>1 DEF Typed, AsksOpen
  <2>10. Agreed'
    <3>1. (state # "halted" => Valid)' /\ (pending_select => state \in {"line", "char", "event", "halted"})'
      BY <1>1, <2>1 DEF Agreed, Valid
    <3>2. (state \in Key => input_window \in DOMAIN requests /\ requests[input_window] = state)'
      BY <1>1, <2>1 DEF Agreed
    <3>3. (pending_select => \A i \in DOMAIN events : events[i].type \in {"arrange", "sound"})'
      BY <1>1, <2>1, <2>3, <2>5 DEF Agreed
    <3> QED BY <3>1, <3>2, <3>3 DEF Agreed
  <2> QED BY <2>5, <2>6, <2>7, <2>8, <2>9, <2>10 DEF IInv
<1> QED BY <1>3, <1>4, <1>5, <1>6, <1>7, <1>8

LEMMA NextIInv == IInv /\ [Next]_vars => IInv'
<1> SUFFICES ASSUME IInv, [Next]_vars PROVE IInv'
  OBVIOUS
<1>1. CASE StoryCall
  BY <1>1, SelectIInv, SelectPollIInv, StoryIInv
<1>2. CASE HostCall
  BY <1>2, HostPollsIInv, HostIInv DEF HostCall
<1>3. CASE UNCHANGED vars
  BY <1>3 DEF vars, inputVars, windowVars, IInv, Orderly, Typed, Agreed, Valid, Open, AsksOpen, Ticks, Awaited,
              OnItsWay, Count
<1> QED BY <1>1, <1>2, <1>3 DEF Next

LEMMA Invariance == Spec => []IInv
BY InitIInv, NextIInv, PTL DEF Spec

-----------------------------------------------------------------------------
(* What follows *)

\* The queue is bounded whatever the story and the host do, at most one line or key,
\* one tick and one arrangement wait in it, and the state that the host shows agrees
\* with the select, the requests and what validate_session asks of a stored session.
THEOREM QueueAndStateAgree == Spec => []Coherent
<1>1. IInv => Coherent
  <2> SUFFICES ASSUME IInv PROVE Coherent
    OBVIOUS
  <2>1. Orderly(events) /\ Typed /\ Agreed
    BY DEF IInv
  <2>2. events \in Seq(Event) /\ Len(events) <= MaxQueue + 4
    BY <2>1, OrderlyLength DEF Orderly
  <2>3. TypeOK
    BY <2>1, <2>2 DEF TypeOK, Typed
  <2>4. Ordered
    <3>1. \A types \in {{"timer"}, {"arrange"}, Key} : Count(events, types) <= 1
      BY <2>1 DEF Orderly
    <3>2. pending_select => \A i \in DOMAIN events : events[i].type \in {"arrange", "sound"}
      BY <2>1 DEF Agreed
    <3> QED BY <3>1, <3>2 DEF Ordered, Count
  <2> QED BY <2>1, <2>3, <2>4 DEF Coherent, Agreed
<1> QED BY <1>1, Invariance, PTL

\* No request and no queued event names a closed window, no tick outlives its timer,
\* and what the story asked for stays asked for or is on its way.
THEOREM NothingIsStaleOrLost == Spec => []NothingStaleOrLost
<1>1. IInv => NothingStaleOrLost
  <2> SUFFICES ASSUME IInv PROVE NothingStaleOrLost
    OBVIOUS
  <2>1. Open(events) /\ AsksOpen /\ Ticks(events) /\ Awaited
    BY DEF IInv
  <2>2. Has(events, "timer") => timer
    BY <2>1 DEF Has, Ticks
  <2>3. NothingLost
    BY <2>1 DEF NothingLost, Awaited, OnItsWay
  <2> QED BY <2>1, <2>2, <2>3 DEF NothingStaleOrLost, NothingStale, Open, AsksOpen
<1> QED BY <1>1, Invariance, PTL

-----------------------------------------------------------------------------
(* Sound channels: the inductive invariant *)

Sounds == Resources \cup {CHOOSE r \in Resources : TRUE}
Repeats == {0, 1, Forever}
Sink == [volume : Nat, paused : BOOLEAN, empty : BOOLEAN]
Going == [from : Nat, to : Nat, notify : Nat]
StoredFade == [to : Nat, notify : Nat]

Channel ==
  [volume : Nat, paused : BOOLEAN, active : BOOLEAN, resource : Sounds, notify : Nat,
   repeats : Repeats, sink : SUBSET Sink, fade : SUBSET Going, fade_resume : SUBSET StoredFade,
   pending : Nat \cup {NoRequest}]

Expectation == [sound : Nat, fade : Nat]
SoundTask == [id : Nat, resource : Sounds]
SoundRequest == [channel : Nat, resource : Sounds, repeats : Repeats, notify : Nat]

\* A channel, and what the story expects of its sound; `again` when a resumed
\* session has yet to play it.
PlaysTrue(ch, e, again) ==
  /\ ch.active <=> again \/ ch.sink # {} \/ ch.pending # NoRequest
  /\ ch.sink = {} \/ ch.pending = NoRequest
  /\ again => ch.sink = {} /\ ch.pending = NoRequest
  /\ \A x \in ch.sink : x.volume = ch.volume /\ x.paused = ch.paused
  /\ ch.notify = e.sound
  /\ e.sound # 0 => ch.active
  /\ ch.repeats = Forever => ch.notify = 0

\* And of its fade; `later` while a session is being resumed.
FadesTrue(ch, e, later) ==
  LET fade == IF later THEN ch.fade_resume ELSE ch.fade
  IN  /\ fade = {} => e.fade = 0
      /\ \A f \in fade : e.fade = f.notify
      /\ \A f, g \in ch.fade : f = g
      /\ \A f, g \in ch.fade_resume : f = g
      /\ later => ch.fade = {}
      /\ ~ later => \A g \in ch.fade_resume : \E f \in ch.fade : g.notify = f.notify

True(ch, e, again, later) ==
  ch \in Channel /\ e \in Expectation /\ PlaysTrue(ch, e, again) /\ FadesTrue(ch, e, later)

\* What the device awaits is what the channels wait for.
AwaitsTrue(chs, aw, n) ==
  /\ \A c \in DOMAIN chs : chs[c].pending # NoRequest =>
       chs[c].pending \in DOMAIN aw /\ aw[chs[c].pending].channel = c
  /\ \A id \in DOMAIN aw :
       /\ id \in Nat /\ id < n /\ aw[id] \in SoundRequest
       /\ aw[id].channel \in DOMAIN chs /\ chs[aw[id].channel].pending = id
       /\ chs[aw[id].channel].notify = IF aw[id].repeats = Forever THEN 0 ELSE aw[id].notify

Matched(chs, aw, ex, n, waiting, later) ==
  /\ DOMAIN ex = DOMAIN chs /\ n \in Nat
  /\ chs = [c \in DOMAIN chs |-> chs[c]] /\ ex = [c \in DOMAIN ex |-> ex[c]]
  /\ aw = [id \in DOMAIN aw |-> aw[id]]
  /\ \A c \in DOMAIN chs : True(chs[c], ex[c], c \in waiting, later)
  /\ AwaitsTrue(chs, aw, n)

InHand == Range(tasks) \cup Range(decoding) \cup Range(results)

\* The worker has each task once, and all that is awaited.
TasksTrue ==
  /\ tasks \in Seq(SoundTask) /\ decoding \in Seq(SoundTask) /\ results \in Seq(SoundTask)
  /\ IsInjective(tasks \o decoding \o results)
  /\ \A t \in InHand : t.id < next_id
  /\ DOMAIN awaited \subseteq {t.id : t \in InHand}

\* The channels to be played again, then the fades.
ResumingTrue ==
  /\ resuming \in Seq(DOMAIN channels \cup {Fade}) /\ IsInjective(resuming)
  /\ resuming # <<>> => resuming[Len(resuming)] = Fade

SoundInv ==
  /\ stream \in BOOLEAN
  /\ next_channel \in Nat \ {0} /\ DOMAIN channels \subseteq 1 .. next_channel - 1
  /\ Matched(channels, awaited, expected, next_id, Range(resuming), resuming # <<>>)
  /\ TasksTrue /\ ResumingTrue

-----------------------------------------------------------------------------
(* Channels one at a time *)

\* What the story expects of the sound of channel c changes.
Expecting(ex, c, v) == [d \in DOMAIN ex |-> IF d = c THEN [sound |-> v, fade |-> ex[c].fade] ELSE ex[d]]

LEMMA ExpectingIs ==
  ASSUME NEW ex, ex = [c \in DOMAIN ex |-> ex[c]], NEW c \in DOMAIN ex, ex[c] \in Expectation, NEW v
  PROVE  [ex EXCEPT ![c].sound = v] = Expecting(ex, c, v)
<1>1. [ex[c] EXCEPT !.sound = v] = [sound |-> v, fade |-> ex[c].fade]
  BY DEF Expectation
<1> QED BY <1>1 DEF Expecting

\* Channels that wait for what they waited for.
LEMMA AwaitsSame ==
  ASSUME NEW chs, NEW aw, NEW n, AwaitsTrue(chs, aw, n),
         NEW new, DOMAIN new = DOMAIN chs,
         \A c \in DOMAIN chs : /\ new[c].pending = chs[c].pending
                               /\ chs[c].pending # NoRequest => new[c].notify = chs[c].notify
  PROVE  AwaitsTrue(new, aw, n)
<1>1. \A id \in DOMAIN aw : aw[id].channel \in DOMAIN chs /\ chs[aw[id].channel].pending # NoRequest
  BY DEF AwaitsTrue, NoRequest
<1> QED BY <1>1 DEF AwaitsTrue

\* One channel that stops waiting.
LEMMA AwaitsLess ==
  ASSUME NEW chs, NEW aw, NEW n, AwaitsTrue(chs, aw, n),
         NEW c \in DOMAIN chs, NEW new, DOMAIN new = DOMAIN chs, new[c].pending = NoRequest,
         \A d \in DOMAIN chs \ {c} : new[d] = chs[d]
  PROVE  AwaitsTrue(new, Restrict(aw, DOMAIN aw \ {chs[c].pending}), n)
<1> DEFINE less == Restrict(aw, DOMAIN aw \ {chs[c].pending})
<1>1. /\ DOMAIN less = DOMAIN aw \ {chs[c].pending}
      /\ \A id \in DOMAIN less : less[id] = aw[id]
  BY DEF Restrict
<1>2. \A id \in DOMAIN less : aw[id].channel # c
  BY <1>1 DEF AwaitsTrue
<1>3. \A d \in DOMAIN chs \ {c} : chs[d].pending # NoRequest => chs[d].pending # chs[c].pending
  BY DEF AwaitsTrue
<1> HIDE DEF less
<1>4. \A d \in DOMAIN new : new[d].pending # NoRequest =>
        new[d].pending \in DOMAIN less /\ less[new[d].pending].channel = d
  BY <1>1, <1>3 DEF AwaitsTrue
<1>5. \A id \in DOMAIN less : new[aw[id].channel] = chs[aw[id].channel]
  BY <1>1, <1>2 DEF AwaitsTrue
<1>6. \A id \in DOMAIN less : /\ id \in Nat /\ id < n /\ less[id] \in SoundRequest
                              /\ less[id].channel \in DOMAIN new /\ new[less[id].channel].pending = id
                              /\ new[less[id].channel].notify = IF less[id].repeats = Forever THEN 0 ELSE less[id].notify
  BY <1>1, <1>5 DEF AwaitsTrue
<1> QED BY <1>4, <1>6 DEF AwaitsTrue, less

\* stop_sound: the channel is silent and nothing is expected of it.
LEMMA StopKeeps ==
  ASSUME NEW s, NEW ex, NEW n, NEW waiting, NEW later, Matched(s.channels, s.awaited, ex, n, waiting, later),
         NEW c \in DOMAIN s.channels
  PROVE  /\ Matched(Stopped(s, c).channels, Stopped(s, c).awaited, Expecting(ex, c, 0), n,
                    waiting \ {c}, later)
         /\ DOMAIN Stopped(s, c).channels = DOMAIN s.channels
         /\ Stopped(s, c).channels[c].sink = {} /\ Stopped(s, c).channels[c].pending = NoRequest
         /\ DOMAIN Stopped(s, c).awaited \subseteq DOMAIN s.awaited
<1> DEFINE chs == s.channels
           aw == s.awaited
           ch == [chs[c] EXCEPT !.sink = {}, !.active = FALSE, !.notify = 0, !.pending = NoRequest]
           new == [chs EXCEPT ![c] = ch]
           less == Restrict(aw, DOMAIN aw \ {chs[c].pending})
           told == Expecting(ex, c, 0)
<1>1. Stopped(s, c).channels = new /\ Stopped(s, c).awaited = less
  BY DEF Stopped
<1>2. /\ Matched(chs, aw, ex, n, waiting, later) /\ True(chs[c], ex[c], c \in waiting, later)
      /\ DOMAIN ex = DOMAIN chs /\ AwaitsTrue(chs, aw, n) /\ n \in Nat
      /\ \A d \in DOMAIN chs : True(chs[d], ex[d], d \in waiting, later)
  BY DEF Matched
<1>3. /\ DOMAIN told = DOMAIN ex /\ told[c] = [sound |-> 0, fade |-> ex[c].fade]
      /\ \A d \in DOMAIN ex \ {c} : told[d] = ex[d]
      /\ told = [d \in DOMAIN told |-> told[d]]
  BY <1>2 DEF Expecting
<1>4. /\ ch \in Channel /\ ch.sink = {} /\ ch.active = FALSE /\ ch.notify = 0 /\ ch.pending = NoRequest
      /\ ch.fade = chs[c].fade /\ ch.fade_resume = chs[c].fade_resume
  BY <1>2 DEF True, Channel
<1>5. /\ DOMAIN new = DOMAIN chs /\ new[c] = ch /\ \A d \in DOMAIN chs \ {c} : new[d] = chs[d]
      /\ new = [d \in DOMAIN new |-> new[d]]
  OBVIOUS
<1>6. less = [id \in DOMAIN less |-> less[id]] /\ DOMAIN less \subseteq DOMAIN aw
  BY DEF Restrict
<1>7. AwaitsTrue(new, less, n)
  BY <1>2, <1>4, <1>5, AwaitsLess
<1> HIDE DEF ch, new, told, less
<1>8. True(ch, told[c], FALSE, later)
  <2>1. told[c] \in Expectation
    BY <1>2, <1>3 DEF True, Expectation
  <2>2. PlaysTrue(ch, told[c], FALSE)
    BY <1>3, <1>4 DEF PlaysTrue
  <2>3. FadesTrue(ch, told[c], later)
    BY <1>2, <1>3, <1>4 DEF True, FadesTrue
  <2> QED BY <1>4, <2>1, <2>2, <2>3 DEF True
<1>9. \A d \in DOMAIN new : True(new[d], told[d], d \in waiting \ {c}, later)
  <2> SUFFICES ASSUME NEW d \in DOMAIN new PROVE True(new[d], told[d], d \in waiting \ {c}, later)
    OBVIOUS
  <2>1. CASE d = c
    <3>1. (d \in waiting \ {c}) = FALSE
      BY <2>1
    <3> QED BY <1>5, <1>8, <2>1, <3>1
  <2>2. CASE d # c
    <3>1. (d \in waiting \ {c}) = (d \in waiting)
      BY <2>2
    <3> QED BY <1>2, <1>3, <1>5, <2>2, <3>1
  <2> QED BY <2>1, <2>2
<1>10. Matched(new, less, told, n, waiting \ {c}, later)
  BY <1>2, <1>3, <1>5, <1>6, <1>7, <1>9 DEF Matched
<1> QED BY <1>1, <1>4, <1>5, <1>6, <1>10 DEF told

\* The machine when the sound is queued, which the story is to be told of by `told`.
IsQueued(s, ex, waiting, later, c, resource, repeats, notify, told) ==
  LET t == Queued(s, c, resource, repeats, notify)
  IN  /\ Matched(t.channels, t.awaited, Expecting(ex, c, told), next_id + 1, waiting \ {c}, later)
      /\ DOMAIN t.channels = DOMAIN s.channels
      /\ DOMAIN t.awaited = DOMAIN s.awaited \cup {next_id}

\* queue_sound_at, of a channel that is silent.
LEMMA QueueKeeps ==
  ASSUME NEW s, NEW ex, NEW waiting, NEW later,
         Matched(s.channels, s.awaited, ex, next_id, waiting, later),
         NEW c \in DOMAIN s.channels, s.channels[c].sink = {}, s.channels[c].pending = NoRequest, c \in Nat,
         NEW resource \in Sounds, NEW repeats \in Repeats, NEW notify \in Nat,
         NEW told, told = IF repeats = Forever THEN 0 ELSE notify
  PROVE  IsQueued(s, ex, waiting, later, c, resource, repeats, notify, told)
<1> DEFINE chs == s.channels
           aw == s.awaited
           begun == Begun(chs[c], resource, repeats, notify)
           ch == [begun EXCEPT !.pending = next_id]
           request == [channel |-> c, resource |-> resource, repeats |-> repeats, notify |-> notify]
           new == [chs EXCEPT ![c] = ch]
           more == [id \in DOMAIN aw \cup {next_id} |-> IF id = next_id THEN request ELSE aw[id]]
           tell == Expecting(ex, c, told)
<1>1. Queued(s, c, resource, repeats, notify).channels = new /\ Queued(s, c, resource, repeats, notify).awaited = more
  BY DEF Queued
<1>2. /\ True(chs[c], ex[c], c \in waiting, later) /\ next_id \in Nat
      /\ DOMAIN ex = DOMAIN chs /\ AwaitsTrue(chs, aw, next_id)
      /\ \A d \in DOMAIN chs : True(chs[d], ex[d], d \in waiting, later)
  BY DEF Matched
<1>3. /\ DOMAIN tell = DOMAIN ex /\ tell[c] = [sound |-> told, fade |-> ex[c].fade]
      /\ \A d \in DOMAIN ex \ {c} : tell[d] = ex[d]
      /\ tell = [d \in DOMAIN tell |-> tell[d]]
  BY <1>2 DEF Expecting
<1>4. told \in Nat
  OBVIOUS
<1>5. /\ ch \in Channel /\ ch.sink = {} /\ ch.active = TRUE /\ ch.notify = told /\ ch.pending = next_id
      /\ ch.fade = chs[c].fade /\ ch.fade_resume = chs[c].fade_resume /\ ch.repeats = repeats
  BY <1>2, <1>4 DEF True, Channel, Begun
<1>6. /\ DOMAIN new = DOMAIN chs /\ new[c] = ch /\ \A d \in DOMAIN chs \ {c} : new[d] = chs[d]
      /\ new = [d \in DOMAIN new |-> new[d]]
  OBVIOUS
<1>7. /\ DOMAIN more = DOMAIN aw \cup {next_id} /\ more[next_id] = request
      /\ \A id \in DOMAIN aw : id # next_id => more[id] = aw[id]
      /\ more = [id \in DOMAIN more |-> more[id]]
  OBVIOUS
<1>8. /\ request.channel = c /\ request.repeats = repeats /\ request.notify = notify
      /\ request \in SoundRequest
  BY DEF SoundRequest
<1> HIDE DEF ch, begun, new, more, tell, request
<1>9. AwaitsTrue(new, more, next_id + 1)
  <2>1. \A id \in DOMAIN aw : id # next_id /\ id \in Nat /\ id < next_id + 1 /\ aw[id].channel # c
    BY <1>2 DEF AwaitsTrue, NoRequest
  <2>2. \A id \in DOMAIN aw : more[id] = aw[id] /\ new[aw[id].channel] = chs[aw[id].channel]
    BY <1>2, <1>6, <1>7, <2>1 DEF AwaitsTrue
  <2>3. \A d \in DOMAIN new : new[d].pending # NoRequest =>
          new[d].pending \in DOMAIN more /\ more[new[d].pending].channel = d
    BY <1>2, <1>5, <1>6, <1>7, <1>8, <2>2 DEF AwaitsTrue
  <2>4. \A id \in DOMAIN aw :
          /\ id \in Nat /\ id < next_id + 1 /\ more[id] \in SoundRequest
          /\ more[id].channel \in DOMAIN new /\ new[more[id].channel].pending = id
          /\ new[more[id].channel].notify = IF more[id].repeats = Forever THEN 0 ELSE more[id].notify
    BY <1>2, <1>6, <2>1, <2>2 DEF AwaitsTrue
  <2>5. /\ more[next_id] \in SoundRequest /\ more[next_id].channel = c
        /\ new[c].pending = next_id
        /\ new[c].notify = IF more[next_id].repeats = Forever THEN 0 ELSE more[next_id].notify
    BY <1>5, <1>6, <1>7, <1>8
  <2> QED BY <1>2, <1>6, <1>7, <2>3, <2>4, <2>5 DEF AwaitsTrue
<1>10. True(ch, tell[c], FALSE, later)
  <2>1. tell[c] \in Expectation
    BY <1>2, <1>3, <1>4 DEF True, Expectation
  <2>2. PlaysTrue(ch, tell[c], FALSE)
    BY <1>2, <1>3, <1>5 DEF PlaysTrue, NoRequest
  <2>3. FadesTrue(ch, tell[c], later)
    BY <1>2, <1>3, <1>5 DEF True, FadesTrue
  <2> QED BY <1>5, <2>1, <2>2, <2>3 DEF True
<1>11. \A d \in DOMAIN new : True(new[d], tell[d], d \in waiting \ {c}, later)
  <2> SUFFICES ASSUME NEW d \in DOMAIN new PROVE True(new[d], tell[d], d \in waiting \ {c}, later)
    OBVIOUS
  <2>1. CASE d = c
    <3>1. (d \in waiting \ {c}) = FALSE
      BY <2>1
    <3> QED BY <1>6, <1>10, <2>1, <3>1
  <2>2. CASE d # c
    <3>1. (d \in waiting \ {c}) = (d \in waiting)
      BY <2>2
    <3> QED BY <1>2, <1>3, <1>6, <2>2, <3>1
  <2> QED BY <2>1, <2>2
<1>12. Matched(new, more, tell, next_id + 1, waiting \ {c}, later)
  BY <1>2, <1>3, <1>6, <1>7, <1>9, <1>11 DEF Matched
<1> QED BY <1>1, <1>6, <1>7, <1>12 DEF tell, IsQueued

\* The machine when a sound has begun at once, which the story is to be told of by `told`.
IsPrepared(s, ex, n, later, c, resource, notify, told) ==
  LET t == Prepared(s, c, resource, notify)
  IN  /\ Matched(t.channels, t.awaited, Expecting(ex, c, told), n, {}, later)
      /\ DOMAIN t.channels = DOMAIN s.channels
      /\ DOMAIN t.awaited \subseteq DOMAIN s.awaited
      /\ t = [channels |-> t.channels, awaited |-> t.awaited]

\* A sound begins at once on a channel that is silent.
LEMMA PreparedKeeps ==
  ASSUME NEW s, NEW ex, NEW n, NEW later, Matched(s.channels, s.awaited, ex, n, {}, later),
         NEW c \in DOMAIN s.channels, NEW resource \in Sounds, NEW notify \in Nat,
         NEW told, told = IF Prepares(resource) THEN notify ELSE 0
  PROVE  IsPrepared(s, ex, n, later, c, resource, notify, told)
<1> DEFINE quiet == Stopped(s, c)
           chs == quiet.channels
           aw == quiet.awaited
           silent == Expecting(ex, c, 0)
           begun == Begun(chs[c], resource, 1, notify)
           x == NewSink(begun)
           ch == [begun EXCEPT !.sink = {x}]
           t == [quiet EXCEPT !.channels[c] = ch]
           new == [chs EXCEPT ![c] = ch]
           tell == Expecting(ex, c, notify)
<1>1. /\ Matched(chs, aw, silent, n, {}, later) /\ DOMAIN chs = DOMAIN s.channels
      /\ chs[c].sink = {} /\ chs[c].pending = NoRequest /\ DOMAIN aw \subseteq DOMAIN s.awaited
  <2>1. /\ Matched(chs, aw, silent, n, {} \ {c}, later) /\ DOMAIN chs = DOMAIN s.channels
        /\ chs[c].sink = {} /\ chs[c].pending = NoRequest /\ DOMAIN aw \subseteq DOMAIN s.awaited
    BY StopKeeps
  <2> HIDE DEF quiet, silent
  <2>2. {} \ {c} = {}
    OBVIOUS
  <2> QED BY <2>1, <2>2
<1>7. quiet = [channels |-> chs, awaited |-> aw]
  BY DEF Stopped
<1> HIDE DEF quiet
<1>2. /\ True(chs[c], silent[c], FALSE, later) /\ n \in Nat
      /\ DOMAIN silent = DOMAIN chs /\ AwaitsTrue(chs, aw, n)
      /\ \A d \in DOMAIN chs : True(chs[d], silent[d], FALSE, later)
      /\ chs = [d \in DOMAIN chs |-> chs[d]] /\ aw = [id \in DOMAIN aw |-> aw[id]]
  <2>2. \A d \in DOMAIN chs : True(chs[d], silent[d], d \in {}, later)
    BY <1>1 DEF Matched
  <2>3. ASSUME NEW d \in DOMAIN chs PROVE True(chs[d], silent[d], FALSE, later)
    <3>1. (d \in {}) = FALSE
      OBVIOUS
    <3> QED BY <2>2, <3>1
  <2> QED BY <1>1, <2>3 DEF Matched
<1>3. /\ DOMAIN tell = DOMAIN silent /\ tell[c] = [sound |-> notify, fade |-> silent[c].fade]
      /\ \A d \in DOMAIN silent \ {c} : tell[d] = silent[d]
      /\ tell = [d \in DOMAIN tell |-> tell[d]]
  BY <1>1, <1>2 DEF Expecting, Matched
<1>4. /\ begun \in Channel /\ begun.volume = chs[c].volume /\ begun.paused = chs[c].paused
      /\ begun.active = TRUE /\ begun.notify = notify /\ begun.pending = NoRequest /\ begun.repeats # Forever
      /\ begun.fade = chs[c].fade /\ begun.fade_resume = chs[c].fade_resume
  <2>1. chs[c] \in Channel /\ 1 \in Repeats /\ 1 # Forever
    BY <1>2 DEF True, Repeats, Forever
  <2> QED BY <1>1, <2>1 DEF Channel, Begun
<1> HIDE DEF begun
<1>5. x \in Sink /\ x.volume = begun.volume /\ x.paused = begun.paused
  BY <1>4 DEF NewSink, Sink, Channel
<1> HIDE DEF x
<1>6. /\ ch \in Channel /\ ch.sink = {x} /\ ch.active = TRUE /\ ch.notify = notify /\ ch.pending = NoRequest
      /\ ch.fade = chs[c].fade /\ ch.fade_resume = chs[c].fade_resume /\ ch.repeats # Forever
      /\ ch.volume = x.volume /\ ch.paused = x.paused
  BY <1>4, <1>5 DEF Channel
<1> HIDE DEF ch
<1>8. CASE Prepares(resource)
  <2>1. Prepared(s, c, resource, notify) = t
    BY <1>8, Zenon DEF Prepared, t, ch, x, begun, quiet
  <2>2. t.channels = new /\ t.awaited = aw /\ t = [channels |-> t.channels, awaited |-> t.awaited]
    BY <1>7
  <2>3. /\ DOMAIN new = DOMAIN chs /\ new[c] = ch /\ \A d \in DOMAIN chs \ {c} : new[d] = chs[d]
        /\ new = [d \in DOMAIN new |-> new[d]]
    BY <1>1
  <2> HIDE DEF new, tell, silent
  <2>4. AwaitsTrue(new, aw, n)
    <3>1. \A d \in DOMAIN chs : /\ new[d].pending = chs[d].pending
                                /\ chs[d].pending # NoRequest => new[d].notify = chs[d].notify
      BY <1>1, <1>6, <2>3
    <3> QED BY <1>2, <2>3, <3>1, AwaitsSame
  <2>5. True(ch, tell[c], FALSE, later)
    <3>1. tell[c] \in Expectation
      BY <1>2, <1>3 DEF True, Expectation
    <3>2. PlaysTrue(ch, tell[c], FALSE)
      BY <1>3, <1>6 DEF PlaysTrue
    <3>3. FadesTrue(ch, tell[c], later)
      BY <1>2, <1>3, <1>6 DEF True, FadesTrue
    <3> QED BY <1>6, <3>1, <3>2, <3>3 DEF True
  <2>6. \A d \in DOMAIN new : True(new[d], tell[d], d \in {}, later)
    <3>1. \A d \in DOMAIN new : True(new[d], tell[d], FALSE, later)
      BY <1>2, <1>3, <2>3, <2>5
    <3>2. ASSUME NEW d \in DOMAIN new PROVE True(new[d], tell[d], d \in {}, later)
      <4>1. (d \in {}) = FALSE
        OBVIOUS
      <4> QED BY <3>1, <4>1
    <3> QED BY <3>2
  <2>7. Matched(new, aw, tell, n, {}, later)
    BY <1>2, <1>3, <2>3, <2>4, <2>6 DEF Matched
  <2>8. told = notify
    BY <1>8
  <2> HIDE DEF t
  <2> QED BY <1>1, <2>1, <2>2, <2>3, <2>7, <2>8 DEF tell, IsPrepared
<1>9. CASE ~ Prepares(resource)
  <2>1. Prepared(s, c, resource, notify) = quiet
    BY <1>9, Zenon DEF Prepared, quiet
  <2>2. told = 0
    BY <1>9
  <2>3. quiet = [channels |-> quiet.channels, awaited |-> quiet.awaited]
    BY <1>7
  <2> QED BY <1>1, <2>1, <2>2, <2>3 DEF IsPrepared, silent
<1> QED BY <1>8, <1>9

-----------------------------------------------------------------------------
(* poll_sound *)

\* The machine as poll_sound changes it.
IsPoll(s) == s = [channels |-> s.channels, awaited |-> s.awaited, expected |-> s.expected]

PollTrue(s) ==
  IsPoll(s) /\ Matched(s.channels, s.awaited, s.expected, next_id, {}, FALSE)

\* Fades are as they were.
SameFades(s, t) ==
  /\ DOMAIN t.channels = DOMAIN s.channels
  /\ \A c \in DOMAIN s.channels : t.channels[c].fade = s.channels[c].fade

LEMMA MatchedEach ==
  ASSUME NEW s, PollTrue(s)
  PROVE  /\ DOMAIN s.expected = DOMAIN s.channels
         /\ \A c \in DOMAIN s.channels : True(s.channels[c], s.expected[c], FALSE, FALSE)
<1> SUFFICES ASSUME NEW c \in DOMAIN s.channels PROVE True(s.channels[c], s.expected[c], FALSE, FALSE)
  BY DEF PollTrue, Matched
<1>1. (c \in {}) = FALSE
  OBVIOUS
<1>2. True(s.channels[c], s.expected[c], c \in {}, FALSE)
  BY DEF PollTrue, Matched
<1> QED BY <1>1, <1>2

LEMMA EachMatched ==
  ASSUME NEW chs, NEW aw, NEW ex, DOMAIN ex = DOMAIN chs, next_id \in Nat,
         chs = [c \in DOMAIN chs |-> chs[c]], ex = [c \in DOMAIN ex |-> ex[c]],
         aw = [id \in DOMAIN aw |-> aw[id]], AwaitsTrue(chs, aw, next_id),
         \A c \in DOMAIN chs : True(chs[c], ex[c], FALSE, FALSE)
  PROVE  Matched(chs, aw, ex, next_id, {}, FALSE)
<1>1. ASSUME NEW c \in DOMAIN chs PROVE True(chs[c], ex[c], c \in {}, FALSE)
  <2>1. (c \in {}) = FALSE
    OBVIOUS
  <2> QED BY <2>1
<1> QED BY <1>1 DEF Matched

LEMMA TellAll ==
  ASSUME NEW e \in Expectation
  PROVE  Tell(e, e.sound) = [sound |-> 0, fade |-> e.fade]
<1>1. e.sound - e.sound = 0
  BY DEF Expectation
<1> QED BY <1>1 DEF Expectation, Tell

\* One result: what awaited it plays or fails, and nothing awaits it any more.
LEMMA CollectedKeeps ==
  ASSUME NEW s, PollTrue(s), NEW result \in SoundTask
  PROVE  LET t == Collected(s, result)
         IN  /\ PollTrue(t) /\ SameFades(s, t)
             /\ DOMAIN t.awaited \subseteq DOMAIN s.awaited \ {result.id}
<1> DEFINE chs == s.channels
           aw == s.awaited
           ex == s.expected
           request == aw[result.id]
           c == request.channel
           less == Restrict(aw, DOMAIN aw \ {result.id})
           rest == [s EXCEPT !.awaited = less]
           free == [rest EXCEPT !.channels[c].pending = NoRequest]
           quiet == [chs[c] EXCEPT !.pending = NoRequest]
<1>1. s = [channels |-> chs, awaited |-> aw, expected |-> ex]
  BY DEF PollTrue, IsPoll
<1>2. /\ AwaitsTrue(chs, aw, next_id) /\ next_id \in Nat /\ DOMAIN ex = DOMAIN chs
      /\ chs = [d \in DOMAIN chs |-> chs[d]] /\ aw = [id \in DOMAIN aw |-> aw[id]]
      /\ ex = [d \in DOMAIN ex |-> ex[d]]
      /\ \A d \in DOMAIN chs : True(chs[d], ex[d], FALSE, FALSE)
  BY MatchedEach DEF PollTrue, Matched
<1>3. CASE result.id \notin DOMAIN aw
  <2>1. Collected(s, result) = s
    BY <1>3, Zenon DEF Collected
  <2> QED BY <1>3, <2>1 DEF SameFades
<1>4. CASE result.id \in DOMAIN aw
  <2>1. /\ c \in DOMAIN chs /\ chs[c].pending = result.id /\ request \in SoundRequest
        /\ chs[c].notify = IF request.repeats = Forever THEN 0 ELSE request.notify
        /\ chs[c].pending # NoRequest
    BY <1>2, <1>4 DEF AwaitsTrue, NoRequest
  <2>2. less = [id \in DOMAIN less |-> less[id]] /\ DOMAIN less \subseteq DOMAIN aw \ {result.id}
    BY DEF Restrict
  <2>3. ASSUME NEW new, DOMAIN new = DOMAIN chs, new[c].pending = NoRequest,
               \A d \in DOMAIN chs \ {c} : new[d] = chs[d]
        PROVE  AwaitsTrue(new, less, next_id)
    <3>1. AwaitsTrue(new, Restrict(aw, DOMAIN aw \ {chs[c].pending}), next_id)
      BY <1>2, <2>1, <2>3, AwaitsLess
    <3> QED BY <2>1, <3>1
  <2>4. /\ True(chs[c], ex[c], FALSE, FALSE) /\ chs[c] \in Channel /\ ex[c] \in Expectation
        /\ chs[c].sink = {}
    BY <1>2, <2>1 DEF True, PlaysTrue
  <2>6. /\ quiet \in Channel /\ quiet.pending = NoRequest /\ quiet.volume = chs[c].volume
        /\ quiet.paused = chs[c].paused /\ quiet.notify = chs[c].notify /\ quiet.sink = {}
        /\ quiet.fade = chs[c].fade /\ quiet.fade_resume = chs[c].fade_resume
    BY <2>4 DEF Channel
  <2> HIDE DEF quiet
  \* What is left is to say what becomes of the channel and of the expectation.
  <2>7. ASSUME NEW ch, ch \in Channel, ch.pending = NoRequest, ch.fade = chs[c].fade,
               ch.fade_resume = chs[c].fade_resume, NEW e, e \in Expectation, e.fade = ex[c].fade,
               PlaysTrue(ch, e, FALSE), NEW t,
               t = [channels |-> [chs EXCEPT ![c] = ch], awaited |-> less, expected |-> [ex EXCEPT ![c] = e]]
        PROVE  PollTrue(t) /\ SameFades(s, t) /\ DOMAIN t.awaited \subseteq DOMAIN aw \ {result.id}
    <3> DEFINE new == [chs EXCEPT ![c] = ch]
               told == [ex EXCEPT ![c] = e]
    <3>1. /\ DOMAIN new = DOMAIN chs /\ new[c] = ch /\ \A d \in DOMAIN chs \ {c} : new[d] = chs[d]
          /\ new = [d \in DOMAIN new |-> new[d]]
      BY <2>1
    <3>2. /\ DOMAIN told = DOMAIN ex /\ told[c] = e /\ \A d \in DOMAIN ex \ {c} : told[d] = ex[d]
          /\ told = [d \in DOMAIN told |-> told[d]]
      BY <1>2, <2>1
    <3>3. t.channels = new /\ t.awaited = less /\ t.expected = told /\ IsPoll(t)
      BY <2>7 DEF IsPoll
    <3> HIDE DEF new, told, less
    <3>4. AwaitsTrue(new, less, next_id)
      BY <2>3, <2>7, <3>1
    <3>5. True(ch, e, FALSE, FALSE)
      <4>1. FadesTrue(ch, e, FALSE)
        BY <2>4, <2>7 DEF True, FadesTrue
      <4> QED BY <2>7, <4>1 DEF True
    <3>6. \A d \in DOMAIN new : True(new[d], told[d], FALSE, FALSE)
      BY <1>2, <3>1, <3>2, <3>5
    <3>7. Matched(new, less, told, next_id, {}, FALSE)
      BY <1>2, <2>2, <3>1, <3>2, <3>4, <3>6, EachMatched
    <3>8. SameFades(s, t)
      BY <2>7, <3>1, <3>3 DEF SameFades
    <3> QED BY <2>2, <3>3, <3>7, <3>8 DEF PollTrue
  <2>8. CASE result.resource \notin Decodable
    <3> DEFINE ch == Failing(quiet)
               e == Tell(ex[c], quiet.notify)
               t == [channels |-> [chs EXCEPT ![c] = ch], awaited |-> less, expected |-> [ex EXCEPT ![c] = e]]
    <3>1. Collected(s, result) = t
      BY <1>4, <2>1, <2>8, Zenon DEF Collected, quiet
    <3>4. /\ ch \in Channel /\ ch.pending = NoRequest /\ ch.notify = 0 /\ ch.active = FALSE /\ ch.sink = {}
          /\ ch.fade = chs[c].fade /\ ch.fade_resume = chs[c].fade_resume
      BY <2>6 DEF Channel, Failing
    <3>5. e \in Expectation /\ e.sound = 0 /\ e.fade = ex[c].fade
      <4>1. ex[c].sound = quiet.notify /\ ex[c].sound \in Nat
        BY <2>4, <2>6 DEF True, PlaysTrue, Expectation
      <4>2. e = [sound |-> 0, fade |-> ex[c].fade]
        BY <2>4, <4>1, TellAll
      <4> HIDE DEF e
      <4> QED BY <2>4, <4>2 DEF Expectation
    <3> HIDE DEF ch, e
    <3>6. PlaysTrue(ch, e, FALSE)
      BY <3>4, <3>5 DEF PlaysTrue
    <3>7. PollTrue(t) /\ SameFades(s, t) /\ DOMAIN t.awaited \subseteq DOMAIN aw \ {result.id}
      BY <2>7, <3>4, <3>5, <3>6
    <3> HIDE DEF t
    <3> QED BY <3>1, <3>7
  <2>9. CASE result.resource \in Decodable
    <3> DEFINE begun == Begun(quiet, request.resource, request.repeats, request.notify)
               x == NewSink(begun)
               ch == [begun EXCEPT !.sink = {x}]
               t == [channels |-> [chs EXCEPT ![c] = ch], awaited |-> less, expected |-> ex]
    <3>1. Collected(s, result) = t
      BY <1>4, <2>1, <2>9, Zenon DEF Collected, Playing, quiet
    <3>2. ex = [ex EXCEPT ![c] = ex[c]]
      BY <1>2
    <3>3. request.resource \in Sounds /\ request.repeats \in Repeats /\ request.notify \in Nat
      BY <2>1 DEF SoundRequest
    <3>4. /\ begun \in Channel /\ begun.volume = quiet.volume /\ begun.paused = quiet.paused
          /\ begun.active = TRUE /\ begun.notify = chs[c].notify /\ begun.pending = NoRequest
          /\ begun.repeats = Forever => begun.notify = 0
          /\ begun.fade = chs[c].fade /\ begun.fade_resume = chs[c].fade_resume
      <4> DEFINE m == IF request.repeats = Forever THEN 0 ELSE request.notify
      <4>1. m \in Nat /\ m = chs[c].notify /\ (request.repeats = Forever => m = 0)
        BY <2>1, <3>3
      <4>2. begun = [quiet EXCEPT !.resource = request.resource, !.repeats = request.repeats,
                                  !.active = TRUE, !.notify = m]
        BY DEF Begun
      <4> HIDE DEF m
      <4> QED BY <2>6, <3>3, <4>1, <4>2 DEF Channel
    <3> HIDE DEF begun
    <3>5. x \in Sink /\ x.volume = begun.volume /\ x.paused = begun.paused
      BY <3>4 DEF NewSink, Sink, Channel
    <3> HIDE DEF x
    <3>6. /\ ch \in Channel /\ ch.sink = {x} /\ ch.active = TRUE /\ ch.notify = chs[c].notify
          /\ ch.pending = NoRequest /\ ch.fade = chs[c].fade /\ ch.fade_resume = chs[c].fade_resume
          /\ ch.volume = x.volume /\ ch.paused = x.paused
          /\ ch.repeats = Forever => ch.notify = 0
      BY <3>4, <3>5 DEF Channel
    <3> HIDE DEF ch
    <3>7. PlaysTrue(ch, ex[c], FALSE)
      BY <2>4, <3>6 DEF True, PlaysTrue
    <3>8. PollTrue(t) /\ SameFades(s, t) /\ DOMAIN t.awaited \subseteq DOMAIN aw \ {result.id}
      BY <2>4, <2>7, <3>2, <3>6, <3>7
    <3> HIDE DEF t
    <3> QED BY <3>1, <3>8
  <2> QED BY <2>8, <2>9
<1> QED BY <1>3, <1>4

\* Machines with the channels of D.
PollsOf(D) ==
  [channels : [D -> Channel], awaited : UNION {[A -> SoundRequest] : A \in SUBSET Nat},
   expected : [D -> Expectation]]

LEMMA PollTyped ==
  ASSUME NEW s, PollTrue(s)
  PROVE  s \in PollsOf(DOMAIN s.channels)
<1> DEFINE D == DOMAIN s.channels
           A == DOMAIN s.awaited
<1>1. \A c \in D : s.channels[c] \in Channel /\ s.expected[c] \in Expectation
  BY MatchedEach DEF True
<1>2. /\ s.channels = [c \in D |-> s.channels[c]] /\ DOMAIN s.expected = D
      /\ s.expected = [c \in DOMAIN s.expected |-> s.expected[c]]
      /\ s.awaited = [id \in A |-> s.awaited[id]] /\ AwaitsTrue(s.channels, s.awaited, next_id)
  BY DEF PollTrue, Matched
<1>3. s.channels \in [D -> Channel]
  BY <1>1, <1>2
<1>4. s.expected \in [D -> Expectation]
  BY <1>1, <1>2
<1>5. A \in SUBSET Nat /\ \A id \in A : s.awaited[id] \in SoundRequest
  BY <1>2 DEF AwaitsTrue
<1>6. s.awaited \in [A -> SoundRequest]
  BY <1>2, <1>5
<1>7. s.awaited \in UNION {[B -> SoundRequest] : B \in SUBSET Nat}
  BY <1>5, <1>6
<1> QED BY <1>3, <1>4, <1>7 DEF PollTrue, IsPoll, PollsOf

IsDraining(f, s, q) ==
  f = [n \in 0 .. Len(q) |-> IF n = 0 THEN s ELSE Collected(f[n - 1], q[n])]

\* All results that have arrived.
LEMMA DrainedKeeps ==
  ASSUME NEW s, PollTrue(s), NEW q \in Seq(SoundTask)
  PROVE  LET t == Drained(s, q)
         IN  /\ PollTrue(t) /\ SameFades(s, t)
             /\ DOMAIN t.awaited \subseteq DOMAIN s.awaited
             /\ \A i \in DOMAIN q : q[i].id \notin DOMAIN t.awaited
<1> DEFINE N == Len(q)
           V == {v \in PollsOf(DOMAIN s.channels) :
                   PollTrue(v) /\ SameFades(s, v) /\ DOMAIN v.awaited \subseteq DOMAIN s.awaited}
           g == [k \in 1 .. N |-> [v \in V |-> Collected(v, q[k])]]
           f == CHOOSE f : IsDraining(f, s, q)
<1>1. N \in Nat /\ DOMAIN q = 1 .. N /\ \A k \in 1 .. N : q[k] \in SoundTask
  OBVIOUS
<1>2. ASSUME NEW v \in V, NEW k \in 1 .. N
      PROVE  Collected(v, q[k]) \in V /\ DOMAIN Collected(v, q[k]).awaited \subseteq DOMAIN v.awaited \ {q[k].id}
  <2> DEFINE t == Collected(v, q[k])
  <2>1. /\ PollTrue(t) /\ SameFades(v, t) /\ DOMAIN t.awaited \subseteq DOMAIN v.awaited \ {q[k].id}
    BY <1>1, CollectedKeeps
  <2> HIDE DEF t
  <2>2. SameFades(s, t) /\ DOMAIN t.channels = DOMAIN s.channels
    BY <2>1 DEF SameFades
  <2>3. t \in PollsOf(DOMAIN s.channels)
    BY <2>1, <2>2, PollTyped
  <2> QED BY <2>1, <2>2, <2>3 DEF t
<1>3. g \in [1 .. N -> [V -> V]]
  BY <1>2
<1>4. s \in V
  BY PollTyped DEF SameFades
<1>5. PICK h \in [0 .. N -> V] : IsSteps(h, N, s, g)
  <2> HIDE DEF N, V, g
  <2> QED BY <1>1, <1>3, <1>4, StepsExist
<1>6. IsDraining(h, s, q)
  <2> SUFFICES ASSUME NEW k \in 0 .. N
               PROVE  h[k] = IF k = 0 THEN s ELSE Collected(h[k - 1], q[k])
    BY DEF IsDraining
  <2>1. CASE k = 0
    BY <1>5, <2>1 DEF IsSteps
  <2>2. CASE k # 0
    <3>1. k \in 1 .. N /\ k - 1 \in 0 .. N
      BY <1>1, <2>2
    <3>2. h[k] = g[k][h[k - 1]] /\ h[k - 1] \in V
      BY <1>5, <2>2, <3>1 DEF IsSteps
    <3> HIDE DEF V
    <3> QED BY <2>2, <3>1, <3>2
  <2> QED BY <2>1, <2>2
<1>7. IsDraining(f, s, q)
  BY <1>6
<1>8. Drained(s, q) = f[N]
  BY Zenon DEF Drained, IsDraining
<1> HIDE DEF f
<1>9. f[0] = s /\ \A k \in 1 .. N : f[k] = Collected(f[k - 1], q[k])
  <2>1. \A k \in 0 .. N : f[k] = IF k = 0 THEN s ELSE Collected(f[k - 1], q[k])
    BY <1>7, Zenon DEF IsDraining
  <2>2. 0 \in 0 .. N /\ \A k \in 1 .. N : k \in 0 .. N /\ k # 0
    BY <1>1
  <2> HIDE DEF N
  <2> QED BY <2>1, <2>2
<1>10. \A k \in 0 .. N : f[k] \in V
  <2> HIDE DEF V, N
  <2>1. StaysIn(f, N, V)
    BY <1>2, <1>4, <1>9 DEF StaysIn
  <2> QED BY <1>1, <2>1, StepsStay
<1> DEFINE G == {n \in Nat : n <= N => \A i \in 1 .. n : q[i].id \notin DOMAIN f[n].awaited}
<1> HIDE DEF V, N
<1>11. 0 \in G
  OBVIOUS
<1>12. ASSUME NEW n \in G PROVE n + 1 \in G
  <2> SUFFICES ASSUME n + 1 <= N, NEW i \in 1 .. n + 1 PROVE q[i].id \notin DOMAIN f[n + 1].awaited
    OBVIOUS
  <2>1. n + 1 \in 1 .. N /\ n + 1 - 1 = n /\ n \in 0 .. N /\ n <= N
    BY <1>1
  <2>2. f[n] \in V /\ f[n + 1] = Collected(f[n], q[n + 1])
    BY <1>9, <1>10, <2>1
  <2>3. DOMAIN f[n + 1].awaited \subseteq DOMAIN f[n].awaited \ {q[n + 1].id}
    BY <1>2, <2>1, <2>2
  <2>4. i = n + 1 \/ q[i].id \notin DOMAIN f[n].awaited
    BY <2>1
  <2> QED BY <2>3, <2>4
<1>13. G = Nat
  <2>1. G \in SUBSET Nat
    OBVIOUS
  <2> HIDE DEF G
  <2> QED BY <1>11, <1>12, <2>1, SetInduction
<1>14. \A i \in 1 .. N : q[i].id \notin DOMAIN f[N].awaited
  BY <1>1, <1>13
<1>15. f[N] \in V
  BY <1>1, <1>10
<1> QED BY <1>1, <1>8, <1>14, <1>15 DEF V

\* The volume of a channel is that of what plays.
LEMMA AtVolumeKeeps ==
  ASSUME NEW ch \in Channel, NEW v \in Nat
  PROVE  LET new == AtVolume(ch, v)
         IN  /\ new \in Channel /\ new.volume = v /\ \A x \in new.sink : x.volume = v
             /\ (\A x \in ch.sink : x.paused = ch.paused) => \A x \in new.sink : x.paused = new.paused
             /\ new.sink = {} <=> ch.sink = {}
             /\ RanOut(new) <=> RanOut(ch)
             /\ new.paused = ch.paused /\ new.active = ch.active /\ new.notify = ch.notify
             /\ new.pending = ch.pending /\ new.fade = ch.fade /\ new.fade_resume = ch.fade_resume
             /\ new.repeats = ch.repeats
<1> DEFINE sink == {[x EXCEPT !.volume = v] : x \in ch.sink}
           new == [ch EXCEPT !.volume = v, !.sink = sink]
<1>1. AtVolume(ch, v) = new
  BY DEF AtVolume
<1>2. \A x \in ch.sink : /\ [x EXCEPT !.volume = v] \in Sink /\ [x EXCEPT !.volume = v].volume = v
                         /\ [x EXCEPT !.volume = v].paused = x.paused /\ [x EXCEPT !.volume = v].empty = x.empty
  BY DEF Channel, Sink
<1>3. sink \in SUBSET Sink
  BY <1>2
<1>4. /\ \A y \in sink : y.volume = v /\ \E x \in ch.sink : y.paused = x.paused /\ y.empty = x.empty
      /\ \A x \in ch.sink : \E y \in sink : y.empty = x.empty
  BY <1>2
<1> HIDE DEF sink
<1>5. /\ new \in Channel /\ new.volume = v /\ new.sink = sink
      /\ new.paused = ch.paused /\ new.active = ch.active /\ new.notify = ch.notify
      /\ new.pending = ch.pending /\ new.fade = ch.fade /\ new.fade_resume = ch.fade_resume
      /\ new.repeats = ch.repeats
  BY <1>3 DEF Channel
<1> HIDE DEF new
<1> QED BY <1>1, <1>4, <1>5 DEF RanOut

\* A fade goes on or ends; the story is told of its end.
LEMMA FadedKeeps ==
  ASSUME NEW ch, NEW e, True(ch, e, FALSE, FALSE), NEW over \in BOOLEAN, over => ch.fade # {}, NEW level \in Nat
  PROVE  LET new == Faded(ch, over, level)
             told == IF over THEN (CHOOSE f \in ch.fade : TRUE).notify ELSE 0
         IN  /\ True(new, [sound |-> e.sound, fade |-> e.fade - told], FALSE, FALSE)
             /\ RanOut(new) <=> RanOut(ch)
             /\ new.pending = ch.pending /\ new.notify = ch.notify
<1> DEFINE fade == CHOOSE f \in ch.fade : TRUE
           resume == [to |-> fade.to, notify |-> fade.notify]
           told == IF over THEN fade.notify ELSE 0
           e2 == [sound |-> e.sound, fade |-> e.fade - told]
<1>1. ch \in Channel /\ e \in Expectation /\ PlaysTrue(ch, e, FALSE) /\ FadesTrue(ch, e, FALSE)
  BY DEF True
<1>2. ch.fade # {} => fade \in ch.fade /\ fade \in Going /\ e.fade = fade.notify
  BY <1>1 DEF Channel, FadesTrue
<1>3. e2.sound = e.sound /\ e2.fade = e.fade - told
  OBVIOUS
\* Volume apart, what plays is as it was.
<1>4. ASSUME NEW new \in Channel, new.volume \in Nat,
             \A x \in new.sink : x.volume = new.volume /\ x.paused = new.paused,
             new.sink = {} <=> ch.sink = {}, new.active = ch.active, new.notify = ch.notify,
             new.pending = ch.pending, new.repeats = ch.repeats
      PROVE  PlaysTrue(new, e2, FALSE)
  BY <1>1, <1>3, <1>4 DEF PlaysTrue
<1> HIDE DEF fade, e2
<1>5. CASE ch.fade = {}
  <2>1. Faded(ch, over, level) = ch /\ ~ over
    BY <1>5 DEF Faded
  <2>2. e2 = e
    BY <1>1, <2>1 DEF e2, Expectation
  <2> QED BY <1>1, <2>1, <2>2 DEF True, e2, fade
<1>6. CASE ch.fade # {} /\ over
  <2> DEFINE at == AtVolume(ch, fade.to)
             new == [at EXCEPT !.fade = {}, !.fade_resume = {}]
  <2>1. Faded(ch, over, level) = new
    BY <1>6 DEF Faded, fade
  <2>2. fade.to \in Nat /\ fade.notify \in Nat /\ e.fade = fade.notify
    BY <1>2, <1>6 DEF Going
  <2>3. /\ at \in Channel /\ at.volume = fade.to
        /\ \A x \in at.sink : x.volume = at.volume /\ x.paused = at.paused
        /\ at.sink = {} <=> ch.sink = {}
        /\ RanOut(at) <=> RanOut(ch)
        /\ at.active = ch.active /\ at.repeats = ch.repeats
        /\ at.notify = ch.notify /\ at.pending = ch.pending
    <3>1. \A x \in ch.sink : x.paused = ch.paused
      BY <1>1 DEF PlaysTrue
    <3>2. at \in Channel /\ at.volume = fade.to /\ \A x \in at.sink : x.volume = fade.to
      BY <1>1, <2>2, AtVolumeKeeps
    <3>3. \A x \in at.sink : x.paused = at.paused
      BY <1>1, <2>2, <3>1, AtVolumeKeeps
    <3>4. /\ at.sink = {} <=> ch.sink = {}
          /\ RanOut(at) <=> RanOut(ch)
          /\ at.active = ch.active /\ at.repeats = ch.repeats
          /\ at.notify = ch.notify /\ at.pending = ch.pending /\ at.fade = ch.fade
      BY <1>1, <2>2, AtVolumeKeeps
    <3> HIDE DEF at
    <3> QED BY <3>2, <3>3, <3>4
  <2> HIDE DEF at
  <2>4. /\ new \in Channel /\ new.volume = at.volume /\ new.sink = at.sink /\ new.paused = at.paused
        /\ new.active = at.active /\ new.repeats = at.repeats
        /\ new.notify = at.notify /\ new.pending = at.pending
        /\ new.fade = {} /\ new.fade_resume = {}
    BY <2>3 DEF Channel
  <2> HIDE DEF new
  <2>5. PlaysTrue(new, e2, FALSE)
    BY <1>4, <2>2, <2>3, <2>4
  <2>6. e2.fade = 0 /\ e2 \in Expectation
    BY <1>1, <1>6, <2>2 DEF e2, Expectation
  <2>7. FadesTrue(new, e2, FALSE)
    BY <2>4, <2>6 DEF FadesTrue
  <2>8. RanOut(new) <=> RanOut(ch)
    BY <2>3, <2>4 DEF RanOut
  <2> QED BY <2>1, <2>3, <2>4, <2>5, <2>6, <2>7, <2>8 DEF True, e2, fade
<1>7. CASE ch.fade # {} /\ ~ over
  <2> DEFINE at == AtVolume(ch, level)
             new == [at EXCEPT !.fade_resume = {resume}]
  <2>1. Faded(ch, over, level) = new
    BY <1>7 DEF Faded, fade
  <2>2. fade.to \in Nat /\ fade.notify \in Nat /\ resume \in StoredFade
    BY <1>2, <1>7 DEF Going, StoredFade
  <2>3. /\ at \in Channel /\ at.volume = level
        /\ \A x \in at.sink : x.volume = at.volume /\ x.paused = at.paused
        /\ at.sink = {} <=> ch.sink = {}
        /\ RanOut(at) <=> RanOut(ch)
        /\ at.active = ch.active /\ at.repeats = ch.repeats
        /\ at.notify = ch.notify /\ at.pending = ch.pending /\ at.fade = ch.fade
    <3>1. \A x \in ch.sink : x.paused = ch.paused
      BY <1>1 DEF PlaysTrue
    <3>2. at \in Channel /\ at.volume = level /\ \A x \in at.sink : x.volume = level
      BY <1>1, <2>2, AtVolumeKeeps
    <3>3. \A x \in at.sink : x.paused = at.paused
      BY <1>1, <2>2, <3>1, AtVolumeKeeps
    <3>4. /\ at.sink = {} <=> ch.sink = {}
          /\ RanOut(at) <=> RanOut(ch)
          /\ at.active = ch.active /\ at.repeats = ch.repeats
          /\ at.notify = ch.notify /\ at.pending = ch.pending /\ at.fade = ch.fade
      BY <1>1, <2>2, AtVolumeKeeps
    <3> HIDE DEF at
    <3> QED BY <3>2, <3>3, <3>4
  <2> HIDE DEF at
  <2>4. /\ new \in Channel /\ new.volume = at.volume /\ new.sink = at.sink /\ new.paused = at.paused
        /\ new.active = at.active /\ new.repeats = at.repeats
        /\ new.notify = at.notify /\ new.pending = at.pending
        /\ new.fade = ch.fade /\ new.fade_resume = {resume}
    BY <2>2, <2>3 DEF Channel
  <2> HIDE DEF new
  <2>5. PlaysTrue(new, e2, FALSE)
    BY <1>4, <2>2, <2>3, <2>4
  <2>6. e2 = e
    BY <1>1, <1>7 DEF e2, Expectation
  <2>7. FadesTrue(new, e2, FALSE)
    <3>1. resume.notify = fade.notify
      OBVIOUS
    <3> QED BY <1>1, <1>2, <1>7, <2>4, <2>6, <3>1 DEF FadesTrue
  <2>8. RanOut(new) <=> RanOut(ch)
    BY <2>3, <2>4 DEF RanOut
  <2> QED BY <1>1, <2>1, <2>3, <2>4, <2>5, <2>6, <2>7, <2>8 DEF True, e2, fade
<1> QED BY <1>5, <1>6, <1>7

\* A sound that ran out leaves its channel, and the story is told.
LEMMA SettledKeeps ==
  ASSUME NEW ch, NEW e, True(ch, e, FALSE, FALSE)
  PROVE  LET new == Settled(ch)
             told == IF RanOut(ch) THEN ch.notify ELSE 0
         IN  /\ True(new, [sound |-> e.sound - told, fade |-> e.fade], FALSE, FALSE)
             /\ new.pending = ch.pending
             /\ ch.pending # NoRequest => new.notify = ch.notify
<1> DEFINE new == [ch EXCEPT !.sink = {}, !.active = FALSE, !.notify = 0]
           e2 == [sound |-> 0, fade |-> e.fade]
<1>1. ch \in Channel /\ e \in Expectation /\ PlaysTrue(ch, e, FALSE) /\ FadesTrue(ch, e, FALSE)
  BY DEF True
<1>2. CASE RanOut(ch)
  <2>1. Settled(ch) = new /\ ch.pending = NoRequest
    BY <1>1, <1>2 DEF Settled, RanOut, PlaysTrue
  <2>2. /\ new \in Channel /\ new.sink = {} /\ new.active = FALSE /\ new.notify = 0
        /\ new.pending = ch.pending /\ new.fade = ch.fade /\ new.fade_resume = ch.fade_resume
        /\ new.repeats = ch.repeats
    BY <1>1 DEF Channel
  <2>3. e2 = [sound |-> e.sound - ch.notify, fade |-> e.fade] /\ e2 \in Expectation /\ e2.sound = 0
        /\ e2.fade = e.fade
    BY <1>1 DEF PlaysTrue, Expectation
  <2> HIDE DEF new, e2
  <2>4. PlaysTrue(new, e2, FALSE) /\ FadesTrue(new, e2, FALSE)
    BY <1>1, <2>1, <2>2, <2>3 DEF PlaysTrue, FadesTrue
  <2> QED BY <1>2, <2>1, <2>2, <2>3, <2>4 DEF True
<1>3. CASE ~ RanOut(ch)
  <2>1. Settled(ch) = ch
    BY <1>3 DEF Settled
  <2>2. e = [sound |-> e.sound - 0, fade |-> e.fade]
    BY <1>1 DEF Expectation
  <2> QED BY <1>3, <2>1, <2>2
<1> QED BY <1>2, <1>3

\* poll_sound: results, fades and sounds that ran out.
LEMMA PolledKeeps ==
  ASSUME Matched(channels, awaited, expected, next_id, {}, FALSE),
         NEW arrived \in Seq(SoundTask), NEW over \in SUBSET {c \in DOMAIN channels : channels[c].fade # {}},
         NEW level \in [DOMAIN channels -> Nat]
  PROVE  LET s == PolledSounds(arrived, over, level)
         IN  /\ PollTrue(s) /\ DOMAIN s.channels = DOMAIN channels
             /\ DOMAIN s.awaited \subseteq DOMAIN awaited
             /\ \A i \in DOMAIN arrived : arrived[i].id \notin DOMAIN s.awaited
<1> DEFINE now == [channels |-> channels, awaited |-> awaited, expected |-> expected]
           d == Drained(now, arrived)
           f(c) == CHOOSE f \in d.channels[c].fade : TRUE
           Told(c) == [sound |-> IF RanOut(d.channels[c]) THEN d.channels[c].notify ELSE 0,
                       fade  |-> IF c \in over THEN f(c).notify ELSE 0]
           chs == [c \in DOMAIN channels |-> Settled(Faded(d.channels[c], c \in over, level[c]))]
           ex == [c \in DOMAIN channels |-> [sound |-> d.expected[c].sound - Told(c).sound,
                                            fade  |-> d.expected[c].fade - Told(c).fade]]
           s == [channels |-> chs, awaited |-> d.awaited, expected |-> ex]
<1>1. PolledSounds(arrived, over, level) = s
  BY Zenon DEF PolledSounds
<1>2. PollTrue(now) /\ now.channels = channels /\ now.awaited = awaited
  BY DEF PollTrue, IsPoll
<1> HIDE DEF now
<1>3. /\ PollTrue(d) /\ SameFades(now, d) /\ DOMAIN d.awaited \subseteq DOMAIN awaited
      /\ \A i \in DOMAIN arrived : arrived[i].id \notin DOMAIN d.awaited
  BY <1>2, DrainedKeeps
<1> HIDE DEF d
<1>4. /\ DOMAIN d.channels = DOMAIN channels /\ DOMAIN d.expected = DOMAIN channels
      /\ \A c \in over : d.channels[c].fade # {}
  BY <1>2, <1>3, MatchedEach DEF SameFades
<1>5. ASSUME NEW c \in DOMAIN channels
      PROVE  /\ True(chs[c], ex[c], FALSE, FALSE)
             /\ chs[c].pending = d.channels[c].pending
             /\ d.channels[c].pending # NoRequest => chs[c].notify = d.channels[c].notify
  <2> DEFINE ch == d.channels[c]
             e == d.expected[c]
             over_ == c \in over
             fade == IF over_ THEN f(c).notify ELSE 0
             mid == Faded(ch, over_, level[c])
             e2 == [sound |-> e.sound, fade |-> e.fade - fade]
             told == IF RanOut(mid) THEN mid.notify ELSE 0
  <2>1. True(ch, e, FALSE, FALSE)
    BY <1>3, <1>4, MatchedEach
  <2>2. over_ \in BOOLEAN /\ level[c] \in Nat /\ (over_ => ch.fade # {})
    BY <1>4
  <2>3. /\ True(mid, e2, FALSE, FALSE) /\ (RanOut(mid) <=> RanOut(ch))
        /\ mid.pending = ch.pending /\ mid.notify = ch.notify
    <3> HIDE DEF over_, ch, e
    <3>1. fade = IF over_ THEN (CHOOSE x \in ch.fade : TRUE).notify ELSE 0
      BY DEF ch
    <3> HIDE DEF fade
    <3>2. /\ True(Faded(ch, over_, level[c]),
                  [sound |-> e.sound, fade |-> e.fade - IF over_ THEN (CHOOSE x \in ch.fade : TRUE).notify ELSE 0],
                  FALSE, FALSE)
          /\ RanOut(Faded(ch, over_, level[c])) <=> RanOut(ch)
          /\ Faded(ch, over_, level[c]).pending = ch.pending /\ Faded(ch, over_, level[c]).notify = ch.notify
      BY <2>1, <2>2, FadedKeeps
    <3> QED BY <3>1, <3>2
  <2>4. chs[c] = Settled(mid)
    OBVIOUS
  <2>5. e2.sound = e.sound /\ e2.fade = e.fade - fade
    OBVIOUS
  <2>6. ex[c] = [sound |-> e.sound - (IF RanOut(ch) THEN ch.notify ELSE 0), fade |-> e.fade - fade]
    OBVIOUS
  <2> HIDE DEF mid, e2, ch, e, fade, chs, ex
  <2>7. ex[c] = [sound |-> e2.sound - told, fade |-> e2.fade]
    <3>1. told = IF RanOut(ch) THEN ch.notify ELSE 0
      BY <2>3
    <3> HIDE DEF told
    <3> QED BY <3>1, <2>5, <2>6
  <2>8. /\ True(Settled(mid), [sound |-> e2.sound - told, fade |-> e2.fade], FALSE, FALSE)
        /\ Settled(mid).pending = mid.pending
        /\ mid.pending # NoRequest => Settled(mid).notify = mid.notify
    BY <2>3, SettledKeeps
  <2> HIDE DEF told
  <2> QED BY <2>3, <2>4, <2>7, <2>8 DEF ch
<1>6. DOMAIN chs = DOMAIN channels /\ DOMAIN ex = DOMAIN channels /\ IsPoll(s)
      /\ chs = [c \in DOMAIN chs |-> chs[c]] /\ ex = [c \in DOMAIN ex |-> ex[c]]
      /\ s.channels = chs /\ s.awaited = d.awaited /\ s.expected = ex
  BY DEF IsPoll
<1> HIDE DEF chs, ex, s
<1>7. /\ AwaitsTrue(d.channels, d.awaited, next_id) /\ next_id \in Nat
      /\ d.awaited = [id \in DOMAIN d.awaited |-> d.awaited[id]]
  BY <1>3 DEF PollTrue, Matched
<1>8. AwaitsTrue(chs, d.awaited, next_id)
  <2> DEFINE old == d.channels
  <2>1. AwaitsTrue(old, d.awaited, next_id) /\ DOMAIN chs = DOMAIN old
    BY <1>4, <1>6, <1>7
  <2>2. \A c \in DOMAIN old : /\ chs[c].pending = old[c].pending
                              /\ old[c].pending # NoRequest => chs[c].notify = old[c].notify
    BY <1>4, <1>5
  <2> HIDE DEF old
  <2> QED BY <2>1, <2>2, AwaitsSame
<1>9. Matched(chs, d.awaited, ex, next_id, {}, FALSE)
  BY <1>5, <1>6, <1>7, <1>8, EachMatched
<1> QED BY <1>1, <1>3, <1>6, <1>9 DEF PollTrue

-----------------------------------------------------------------------------
(* The worker *)

\* Three sequences after each other, each element once.
LEMMA ThreeApart ==
  ASSUME NEW S, NEW a \in Seq(S), NEW b \in Seq(S), NEW r \in Seq(S)
  PROVE  IsInjective(a \o b \o r) <=>
           /\ IsInjective(a) /\ IsInjective(b) /\ IsInjective(r)
           /\ Range(a) \cap Range(b) = {} /\ Range(a) \cap Range(r) = {} /\ Range(b) \cap Range(r) = {}
<1>1. /\ a \o b \in Seq(S) /\ Range(a \o b) = Range(a) \cup Range(b)
      /\ IsInjective(a \o b) <=> IsInjective(a) /\ IsInjective(b) /\ Range(a) \cap Range(b) = {}
  BY ConcatElements
<1>2. IsInjective(a \o b \o r) <=> /\ IsInjective(a \o b) /\ IsInjective(r)
                                   /\ Range(a \o b) \cap Range(r) = {}
  BY <1>1, ConcatElements
<1> QED BY <1>1, <1>2

TasksOf(a, b, r, n, ids) ==
  /\ a \in Seq(SoundTask) /\ b \in Seq(SoundTask) /\ r \in Seq(SoundTask)
  /\ IsInjective(a) /\ IsInjective(b) /\ IsInjective(r)
  /\ Range(a) \cap Range(b) = {} /\ Range(a) \cap Range(r) = {} /\ Range(b) \cap Range(r) = {}
  /\ \A t \in Range(a) \cup Range(b) \cup Range(r) : t.id < n
  /\ ids \subseteq {t.id : t \in Range(a) \cup Range(b) \cup Range(r)}

LEMMA TasksAre == TasksTrue <=> TasksOf(tasks, decoding, results, next_id, DOMAIN awaited)
BY ThreeApart DEF TasksTrue, TasksOf, InHand

LEMMA TasksWillBe == TasksTrue' <=> TasksOf(tasks', decoding', results', next_id', DOMAIN awaited')
<1>1. ASSUME NEW a \in Seq(SoundTask), NEW b \in Seq(SoundTask), NEW r \in Seq(SoundTask)
      PROVE  IsInjective(a \o b \o r) <=>
               /\ IsInjective(a) /\ IsInjective(b) /\ IsInjective(r)
               /\ Range(a) \cap Range(b) = {} /\ Range(a) \cap Range(r) = {} /\ Range(b) \cap Range(r) = {}
  BY ThreeApart
<1> QED BY <1>1 DEF TasksTrue, TasksOf, InHand

\* Requests that are dropped leave the worker what it has.
LEMMA TasksSame ==
  ASSUME TasksTrue, UNCHANGED <<tasks, decoding, results, next_id>>, DOMAIN awaited' \subseteq DOMAIN awaited
  PROVE  TasksTrue'
BY TasksAre, TasksWillBe DEF TasksOf

\* A new task.
LEMMA TasksMore ==
  ASSUME TasksTrue, next_id \in Nat, NEW resource \in Sounds,
         tasks' = Append(tasks, [id |-> next_id, resource |-> resource]),
         next_id' = next_id + 1, UNCHANGED <<decoding, results>>,
         DOMAIN awaited' \subseteq DOMAIN awaited \cup {next_id}
  PROVE  TasksTrue'
<1> DEFINE new == [id |-> next_id, resource |-> resource]
<1>1. new \in SoundTask /\ new.id = next_id
  BY DEF SoundTask
<1>2. TasksOf(tasks, decoding, results, next_id, DOMAIN awaited)
  BY TasksAre
<1> HIDE DEF new
<1>3. new \notin Range(tasks) \cup Range(decoding) \cup Range(results)
  BY <1>1, <1>2 DEF TasksOf
<1>4. /\ tasks' \in Seq(SoundTask) /\ Range(tasks') = Range(tasks) \cup {new}
      /\ IsInjective(tasks') <=> IsInjective(tasks) /\ new \notin Range(tasks)
  BY <1>1, <1>2, AppendElements DEF TasksOf, new
<1>5. \A t \in Range(tasks) \cup Range(decoding) \cup Range(results) : t \in SoundTask
  BY <1>2 DEF TasksOf, Range
<1>6. \A t \in Range(tasks') \cup Range(decoding) \cup Range(results) : t.id < next_id + 1
  <2>1. \A t \in Range(tasks) \cup Range(decoding) \cup Range(results) : t.id \in Nat /\ t.id < next_id
    BY <1>2, <1>5 DEF TasksOf, SoundTask
  <2>2. \A k \in Nat : k < next_id => k < next_id + 1
    OBVIOUS
  <2>3. \A t \in Range(tasks) \cup Range(decoding) \cup Range(results) : t.id < next_id + 1
    BY <2>1, <2>2
  <2>4. new.id < next_id + 1
    BY <1>1
  <2> QED BY <1>4, <2>3, <2>4
<1>7. DOMAIN awaited' \subseteq {t.id : t \in Range(tasks') \cup Range(decoding) \cup Range(results)}
  BY <1>1, <1>2, <1>4 DEF TasksOf
<1> QED BY <1>2, <1>3, <1>4, <1>6, <1>7, TasksWillBe DEF TasksOf

\* A number that is used up without a task.
LEMMA TasksSkip ==
  ASSUME TasksTrue, next_id \in Nat, next_id' \in {next_id, next_id + 1},
         UNCHANGED <<tasks, decoding, results>>, DOMAIN awaited' \subseteq DOMAIN awaited
  PROVE  TasksTrue'
<1>1. TasksOf(tasks, decoding, results, next_id, DOMAIN awaited)
  BY TasksAre
<1>2. \A t \in Range(tasks) \cup Range(decoding) \cup Range(results) : t.id \in Nat /\ t.id < next_id'
  <2>1. \A t \in Range(tasks) \cup Range(decoding) \cup Range(results) : t \in SoundTask /\ t.id < next_id
    BY <1>1 DEF TasksOf, Range
  <2>2. \A t \in SoundTask : t.id \in Nat
    BY DEF SoundTask
  <2>3. \A k \in Nat : k < next_id => k < next_id'
    OBVIOUS
  <2> QED BY <2>1, <2>2, <2>3
<1> QED BY <1>1, <1>2, TasksWillBe DEF TasksOf

LEMMA TakeKeeps ==
  ASSUME TasksTrue, Take
  PROVE  TasksTrue'
<1>1. TasksOf(tasks, decoding, results, next_id, DOMAIN awaited) /\ tasks # <<>> /\ decoding = <<>>
  BY TasksAre DEF Take
<1>2. /\ Head(tasks) \in SoundTask /\ Tail(tasks) \in Seq(SoundTask)
      /\ Range(tasks) = {Head(tasks)} \cup Range(Tail(tasks))
      /\ IsInjective(tasks) <=> IsInjective(Tail(tasks)) /\ Head(tasks) \notin Range(Tail(tasks))
  BY <1>1, HeadAndTail DEF TasksOf
<1>3. /\ Range(<<Head(tasks)>>) = {Head(tasks)} /\ IsInjective(<<Head(tasks)>>) /\ Range(<<>>) = {}
  BY SmallSequences
<1>4. <<Head(tasks)>> \in Seq(SoundTask)
  BY <1>2
<1>5. /\ tasks' = Tail(tasks) /\ decoding' = <<Head(tasks)>> /\ results' = results
      /\ next_id' = next_id /\ awaited' = awaited
  BY DEF Take
<1>6. Range(tasks') \cup Range(decoding') = Range(tasks) \cup Range(decoding)
  BY <1>1, <1>2, <1>3, <1>5
<1> QED BY <1>1, <1>2, <1>3, <1>4, <1>5, <1>6, TasksWillBe DEF TasksOf

LEMMA SendKeeps ==
  ASSUME TasksTrue, Send
  PROVE  TasksTrue'
<1>1. TasksOf(tasks, decoding, results, next_id, DOMAIN awaited)
  BY TasksAre
<1>2. /\ results' = results \o decoding /\ decoding' = <<>> /\ tasks' = tasks
      /\ next_id' = next_id /\ awaited' = awaited
  BY DEF Send
<1>3. /\ results' \in Seq(SoundTask) /\ Range(results') = Range(results) \cup Range(decoding)
      /\ IsInjective(results') <=> /\ IsInjective(results) /\ IsInjective(decoding)
                                  /\ Range(results) \cap Range(decoding) = {}
  BY <1>1, <1>2, ConcatElements DEF TasksOf
<1>4. Range(<<>>) = {} /\ IsInjective(<<>>) /\ <<>> \in Seq(SoundTask)
  BY SmallSequences
<1> QED BY <1>1, <1>2, <1>3, <1>4, TasksWillBe DEF TasksOf

\* What a poll collects is gone from the worker.
LEMMA CollectKeeps ==
  ASSUME TasksTrue, NEW arrived, Collecting(arrived), UNCHANGED <<tasks, next_id>>,
         DOMAIN awaited' \subseteq DOMAIN awaited,
         \A i \in DOMAIN arrived : arrived[i].id \notin DOMAIN awaited'
  PROVE  arrived \in Seq(SoundTask) /\ TasksTrue'
<1>1. TasksOf(tasks, decoding, results, next_id, DOMAIN awaited)
  BY TasksAre
<1>2. \/ arrived = results /\ decoding' = decoding
      \/ arrived = results \o decoding /\ decoding' = <<>>
  BY DEF Collecting
<1>3. /\ results \o decoding \in Seq(SoundTask)
      /\ Range(results \o decoding) = Range(results) \cup Range(decoding)
  BY <1>1, ConcatElements DEF TasksOf
<1>4. Range(<<>>) = {} /\ IsInjective(<<>>) /\ <<>> \in Seq(SoundTask)
  BY SmallSequences
<1>5. \A t \in Range(arrived) : t.id \notin DOMAIN awaited'
  BY DEF Range
<1>6. results' = <<>>
  BY DEF Collecting
<1>7. /\ Range(tasks) \cup Range(decoding) \cup Range(results)
            = Range(tasks') \cup Range(decoding') \cup Range(results') \cup Range(arrived)
      /\ decoding' \in Seq(SoundTask) /\ IsInjective(decoding') /\ Range(decoding') \subseteq Range(decoding)
  BY <1>1, <1>2, <1>3, <1>4, <1>6 DEF TasksOf
<1>8. DOMAIN awaited' \subseteq {t.id : t \in Range(tasks') \cup Range(decoding') \cup Range(results')}
  BY <1>1, <1>5, <1>7 DEF TasksOf
<1> QED BY <1>1, <1>2, <1>3, <1>4, <1>6, <1>7, <1>8, TasksWillBe DEF TasksOf

-----------------------------------------------------------------------------
(* The steps keep the invariant *)

\* Nothing is being resumed.
LEMMA QuietNow ==
  ASSUME SoundInv, resuming = <<>>
  PROVE  Matched(channels, awaited, expected, next_id, {}, FALSE)
<1>1. Range(resuming) = {} /\ (resuming # <<>>) = FALSE
  BY SmallSequences
<1>2. Matched(channels, awaited, expected, next_id, Range(resuming), resuming # <<>>)
  BY DEF SoundInv
<1> QED BY <1>1, <1>2

LEMMA QuietThen ==
  ASSUME stream' \in BOOLEAN, next_channel' \in Nat \ {0}, DOMAIN channels' \subseteq 1 .. next_channel' - 1,
         Matched(channels', awaited', expected', next_id', {}, FALSE), resuming' = <<>>, TasksTrue'
  PROVE  SoundInv'
<1>1. Range(resuming') = {} /\ (resuming' # <<>>) = FALSE
  BY SmallSequences
<1>2. Matched(channels', awaited', expected', next_id', Range(resuming'), resuming' # <<>>)
  BY <1>1
<1>3. ResumingTrue'
  BY SmallSequences DEF ResumingTrue
<1>4. Matched(channels, awaited, expected, next_id, Range(resuming), resuming # <<>>)'
  BY <1>2
<1> QED BY <1>3, <1>4 DEF SoundInv

LEMMA LaterRequests ==
  ASSUME NEW chs, NEW aw, NEW ex, NEW n, NEW waiting, NEW later, Matched(chs, aw, ex, n, waiting, later)
  PROVE  Matched(chs, aw, ex, n + 1, waiting, later)
<1>1. n \in Nat /\ AwaitsTrue(chs, aw, n)
  BY DEF Matched
<1>2. \A k \in Nat : k < n => k < n + 1
  BY <1>1
<1>3. AwaitsTrue(chs, aw, n + 1)
  BY <1>1, <1>2 DEF AwaitsTrue
<1> QED BY <1>1, <1>3 DEF Matched

\* play_sound_at, for a story and for a resumed session.
LEMMA PlayKeeps ==
  ASSUME NEW waiting, NEW later, Matched(channels, awaited, expected, next_id, waiting, later), TasksTrue,
         NEW c \in DOMAIN channels, c \in Nat, NEW resource \in Sounds, NEW repeats \in Repeats, NEW notify \in Nat,
         PlaySoundAt(c, resource, repeats, notify), UNCHANGED <<decoding, results>>
  PROVE  /\ Matched(channels', awaited',
                    Expecting(expected, c, IF Queues(resource, repeats) /\ repeats # Forever THEN notify ELSE 0),
                    next_id', waiting \ {c}, later)
         /\ DOMAIN channels' = DOMAIN channels /\ TasksTrue'
<1> DEFINE quiet == Stopped(Now, c)
           silent == Expecting(expected, c, 0)
<1>1. Now.channels = channels /\ Now.awaited = awaited /\ next_id \in Nat
  BY DEF Now, Matched
<1>2. /\ Matched(quiet.channels, quiet.awaited, silent, next_id, waiting \ {c}, later)
      /\ DOMAIN quiet.channels = DOMAIN channels
      /\ quiet.channels[c].sink = {} /\ quiet.channels[c].pending = NoRequest
      /\ DOMAIN quiet.awaited \subseteq DOMAIN awaited
  <2> HIDE DEF quiet, silent
  <2>1. Matched(Now.channels, Now.awaited, expected, next_id, waiting, later) /\ c \in DOMAIN Now.channels
    BY <1>1
  <2> QED BY <1>1, <2>1, StopKeeps DEF quiet, silent
<1>3. DOMAIN expected = DOMAIN channels
  BY DEF Matched
<1>4. \A v : Expecting(silent, c, v) = Expecting(expected, c, v)
  BY <1>3 DEF Expecting
<1> HIDE DEF quiet, silent
<1>5. CASE Queues(resource, repeats)
  <2> DEFINE t == Queued(quiet, c, resource, repeats, notify)
             told == IF repeats = Forever THEN 0 ELSE notify
  <2>1. /\ channels' = t.channels /\ awaited' = t.awaited /\ next_id' = next_id + 1
        /\ tasks' = Append(tasks, [id |-> next_id, resource |-> resource])
    BY <1>5 DEF PlaySoundAt, Become, Queues, quiet
  <2>2. /\ Matched(t.channels, t.awaited, Expecting(silent, c, told), next_id + 1, (waiting \ {c}) \ {c}, later)
        /\ DOMAIN t.channels = DOMAIN quiet.channels
        /\ DOMAIN t.awaited = DOMAIN quiet.awaited \cup {next_id}
    <3> DEFINE rest == waiting \ {c}
    <3>1. /\ Matched(quiet.channels, quiet.awaited, silent, next_id, rest, later) /\ c \in DOMAIN quiet.channels
          /\ quiet.channels[c].sink = {} /\ quiet.channels[c].pending = NoRequest
          /\ told = IF repeats = Forever THEN 0 ELSE notify
      BY <1>2
    <3> HIDE DEF rest, told
    <3>2. IsQueued(quiet, silent, rest, later, c, resource, repeats, notify, told)
      BY <3>1, QueueKeeps
    <3> QED BY <3>2 DEF rest, IsQueued
  <2> HIDE DEF t
  <2>3. (waiting \ {c}) \ {c} = waiting \ {c}
    OBVIOUS
  <2>4. told = IF Queues(resource, repeats) /\ repeats # Forever THEN notify ELSE 0
    BY <1>5
  <2> HIDE DEF told
  <2>5. Matched(channels', awaited', Expecting(expected, c, told), next_id', waiting \ {c}, later)
    BY <1>4, <2>1, <2>2, <2>3
  <2>6. TasksTrue'
    BY <1>1, <1>2, <2>1, <2>2, TasksMore
  <2> QED BY <1>2, <2>1, <2>2, <2>4, <2>5, <2>6
<1>6. CASE ~ Queues(resource, repeats)
  <2> DEFINE told == IF Queues(resource, repeats) /\ repeats # Forever THEN notify ELSE 0
  <2>1. /\ channels' = quiet.channels /\ awaited' = quiet.awaited /\ next_id' \in {next_id, next_id + 1}
        /\ tasks' = tasks
    BY <1>6 DEF PlaySoundAt, Become, quiet
  <2>2. told = 0
    BY <1>6
  <2> HIDE DEF told
  <2>3. Matched(channels', awaited', silent, next_id', waiting \ {c}, later)
    BY <1>2, <2>1, LaterRequests
  <2>4. TasksTrue'
    BY <1>1, <1>2, <2>1, TasksSkip
  <2>5. silent = Expecting(expected, c, told)
    BY <2>2 DEF silent
  <2> QED BY <1>2, <2>1, <2>3, <2>4, <2>5 DEF told
<1> QED BY <1>5, <1>6

\* Channels are numbered.
LEMMA Numbered ==
  ASSUME SoundInv, NEW c \in DOMAIN channels
  PROVE  /\ c \in Nat /\ c # 0 /\ DOMAIN expected = DOMAIN channels /\ expected[c] \in Expectation
         /\ channels[c] \in Channel /\ expected = [d \in DOMAIN expected |-> expected[d]]
         /\ True(channels[c], expected[c], c \in Range(resuming), resuming # <<>>)
<1>1. c \in Nat /\ c # 0
  BY DEF SoundInv
<1>2. True(channels[c], expected[c], c \in Range(resuming), resuming # <<>>)
  BY DEF SoundInv, Matched
<1> QED BY <1>1, <1>2 DEF SoundInv, Matched, True

LEMMA NothingWaits ==
  ASSUME SoundInv, resuming = <<>>, NEW c \in DOMAIN channels
  PROVE  True(channels[c], expected[c], FALSE, FALSE)
<1>1. (c \in Range(resuming)) = FALSE /\ (resuming # <<>>) = FALSE
  BY SmallSequences
<1> QED BY <1>1, Numbered

LEMMA PlayStep ==
  ASSUME SoundInv, NEW c \in DOMAIN channels, NEW r \in Resources, NEW repeats \in Repeats, NEW n \in Nat,
         Play(c, r, repeats, n)
  PROVE  SoundInv'
<1> DEFINE told == IF Queues(r, repeats) /\ repeats # Forever THEN n ELSE 0
<1>1. resuming = <<>> /\ PlaySoundAt(c, r, repeats, n) /\ expected' = [expected EXCEPT ![c].sound = told]
  BY DEF Play
<1>2. UNCHANGED <<next_channel, stream, decoding, results, resuming>>
  BY DEF Play
<1> HIDE DEF told
<1>3. expected' = Expecting(expected, c, told)
  BY <1>1, Numbered, ExpectingIs
<1>4. Matched(channels, awaited, expected, next_id, {}, FALSE) /\ TasksTrue /\ r \in Sounds /\ c \in Nat
  BY <1>1, QuietNow, Numbered DEF SoundInv, Sounds
<1>5. Matched(channels', awaited', Expecting(expected, c, told), next_id', {} \ {c}, FALSE)
  BY <1>1, <1>2, <1>4, PlayKeeps DEF told
<1>6. DOMAIN channels' = DOMAIN channels /\ TasksTrue'
  BY <1>1, <1>2, <1>4, PlayKeeps
<1>7. {} \ {c} = {}
  OBVIOUS
<1>8. Matched(channels', awaited', expected', next_id', {}, FALSE)
  BY <1>3, <1>5, <1>7
<1> QED BY <1>1, <1>2, <1>6, <1>8, QuietThen DEF SoundInv

LEMMA StopStep ==
  ASSUME SoundInv, NEW c \in DOMAIN channels, StopSound(c)
  PROVE  SoundInv'
<1> DEFINE quiet == Stopped(Now, c)
<1>1. /\ resuming = <<>> /\ channels' = quiet.channels /\ awaited' = quiet.awaited
      /\ expected' = [expected EXCEPT ![c].sound = 0]
      /\ UNCHANGED <<next_channel, stream, next_id, tasks, decoding, results, resuming>>
  BY DEF StopSound, Become, soundWorker
<1>2. expected' = Expecting(expected, c, 0)
  BY <1>1, Numbered, ExpectingIs
<1>3. Now.channels = channels /\ Now.awaited = awaited
  BY DEF Now
<1>4. Matched(Now.channels, Now.awaited, expected, next_id, {}, FALSE) /\ c \in DOMAIN Now.channels
  BY <1>1, <1>3, QuietNow
<1>5. /\ Matched(quiet.channels, quiet.awaited, Expecting(expected, c, 0), next_id, {} \ {c}, FALSE)
      /\ DOMAIN quiet.channels = DOMAIN Now.channels /\ DOMAIN quiet.awaited \subseteq DOMAIN Now.awaited
  <2> HIDE DEF quiet
  <2> QED BY <1>4, StopKeeps DEF quiet
<1>6. {} \ {c} = {}
  OBVIOUS
<1> HIDE DEF quiet
<1>7. Matched(channels', awaited', expected', next_id', {}, FALSE)
  BY <1>1, <1>2, <1>5, <1>6
<1>8. TasksTrue'
  BY <1>1, <1>3, <1>5, TasksSame DEF SoundInv
<1> QED BY <1>1, <1>3, <1>5, <1>7, <1>8, QuietThen DEF SoundInv

\* One channel changes, and what it waits for and tells does not.
LEMMA ChangeStep ==
  ASSUME SoundInv, NEW c \in DOMAIN channels, NEW ch, channels' = [channels EXCEPT ![c] = ch],
         ch.pending = channels[c].pending, ch.notify = channels[c].notify,
         True(ch, expected[c], c \in Range(resuming), resuming # <<>>),
         UNCHANGED <<next_channel, stream, awaited, next_id, soundWorker, resuming, expected>>
  PROVE  SoundInv'
<1> DEFINE new == [channels EXCEPT ![c] = ch]
           again == Range(resuming)
           later == resuming # <<>>
<1>1. Matched(channels, awaited, expected, next_id, again, later) /\ TasksTrue /\ ResumingTrue
  BY DEF SoundInv
<1>2. /\ DOMAIN new = DOMAIN channels /\ new[c] = ch /\ \A d \in DOMAIN channels \ {c} : new[d] = channels[d]
      /\ new = [d \in DOMAIN new |-> new[d]]
  OBVIOUS
<1>3. channels' = new
  OBVIOUS
<1> HIDE DEF new
<1>4. AwaitsTrue(new, awaited, next_id)
  <2>1. AwaitsTrue(channels, awaited, next_id)
    BY <1>1 DEF Matched
  <2>2. \A d \in DOMAIN channels : /\ new[d].pending = channels[d].pending
                                   /\ channels[d].pending # NoRequest => new[d].notify = channels[d].notify
    BY <1>2
  <2> QED BY <1>2, <2>1, <2>2, AwaitsSame
<1>5. True(new[c], expected[c], c \in again, later)
  BY <1>2
<1>6. Matched(new, awaited, expected, next_id, again, later)
  <2>1. \A d \in DOMAIN channels \ {c} : new[d] = channels[d] /\ True(channels[d], expected[d], d \in again, later)
    BY <1>1, <1>2 DEF Matched
  <2> HIDE DEF again, later
  <2>2. \A d \in DOMAIN new : True(new[d], expected[d], d \in again, later)
    <3> SUFFICES ASSUME NEW d \in DOMAIN new PROVE True(new[d], expected[d], d \in again, later)
      OBVIOUS
    <3>1. CASE d = c
      BY <1>5, <3>1
    <3>2. CASE d # c
      <4>1. d \in DOMAIN channels \ {c}
        BY <1>2, <3>2
      <4>2. new[d] = channels[d] /\ True(channels[d], expected[d], d \in again, later)
        BY <2>1, <4>1
      <4> QED BY <4>2
    <3> QED BY <3>1, <3>2
  <2> QED BY <1>1, <1>2, <1>4, <2>2 DEF Matched
<1>7. TasksTrue'
  BY <1>1, TasksSame DEF soundWorker
<1>8. ResumingTrue'
  BY <1>1, <1>2, <1>3 DEF ResumingTrue
<1>9. Matched(channels, awaited, expected, next_id, Range(resuming), resuming # <<>>)'
  BY <1>3, <1>6
<1> QED BY <1>2, <1>3, <1>7, <1>8, <1>9 DEF SoundInv

LEMMA PauseStep ==
  ASSUME SoundInv, NEW c \in DOMAIN channels, NEW paused \in BOOLEAN, SetPaused(c, paused)
  PROVE  SoundInv'
<1> DEFINE sink == {[x EXCEPT !.paused = paused] : x \in channels[c].sink}
           ch == [channels[c] EXCEPT !.paused = paused, !.sink = sink]
<1>1. /\ True(channels[c], expected[c], c \in Range(resuming), resuming # <<>>)
      /\ channels[c] \in Channel
  BY Numbered
<1>2. /\ channels' = [channels EXCEPT ![c] = ch]
      /\ UNCHANGED <<next_channel, stream, awaited, next_id, soundWorker, resuming, expected>>
  BY <1>1 DEF SetPaused, Channel
<1>3. /\ sink \in SUBSET Sink /\ (sink = {} <=> channels[c].sink = {})
      /\ \A y \in sink : y.paused = paused /\ \E x \in channels[c].sink : y.volume = x.volume
  <2>1. \A x \in channels[c].sink : x \in Sink
    BY <1>1 DEF Channel
  <2>2. \A x \in Sink : /\ [x EXCEPT !.paused = paused] \in Sink /\ [x EXCEPT !.paused = paused].paused = paused
                        /\ [x EXCEPT !.paused = paused].volume = x.volume
    BY DEF Sink
  <2>3. sink \in SUBSET Sink
    BY <2>1, <2>2
  <2> QED BY <2>1, <2>2, <2>3
<1> HIDE DEF sink
<1>4. /\ ch \in Channel /\ ch.sink = sink /\ ch.paused = paused /\ ch.volume = channels[c].volume
      /\ ch.active = channels[c].active /\ ch.notify = channels[c].notify /\ ch.repeats = channels[c].repeats
      /\ ch.pending = channels[c].pending /\ ch.fade = channels[c].fade /\ ch.fade_resume = channels[c].fade_resume
  BY <1>1, <1>3 DEF Channel
<1> HIDE DEF ch
<1>5. True(ch, expected[c], c \in Range(resuming), resuming # <<>>)
  <2> DEFINE again == c \in Range(resuming)
             later == resuming # <<>>
             e == expected[c]
  <2>1. e \in Expectation /\ PlaysTrue(channels[c], e, again) /\ FadesTrue(channels[c], e, later)
    BY <1>1 DEF True
  <2> HIDE DEF again, later, e
  <2>2. PlaysTrue(ch, e, again)
    BY <1>3, <1>4, <2>1 DEF PlaysTrue
  <2>3. FadesTrue(ch, e, later)
    BY <1>4, <2>1 DEF FadesTrue
  <2>4. True(ch, e, again, later)
    BY <1>4, <2>1, <2>2, <2>3 DEF True
  <2> QED BY <2>4 DEF again, later, e
<1> QED BY <1>2, <1>4, <1>5, ChangeStep

LEMMA RunOutStep ==
  ASSUME SoundInv, NEW c \in DOMAIN channels, RunsOut(c)
  PROVE  SoundInv'
<1> DEFINE sink == {[x EXCEPT !.empty = TRUE] : x \in channels[c].sink}
           ch == [channels[c] EXCEPT !.sink = sink]
<1>1. /\ True(channels[c], expected[c], c \in Range(resuming), resuming # <<>>)
      /\ channels[c] \in Channel
  BY Numbered
<1>2. /\ channels' = [channels EXCEPT ![c] = ch]
      /\ UNCHANGED <<next_channel, stream, awaited, next_id, soundWorker, resuming, expected>>
  BY <1>1 DEF RunsOut, Channel
<1>3. /\ sink \in SUBSET Sink /\ (sink = {} <=> channels[c].sink = {})
      /\ \A y \in sink : \E x \in channels[c].sink : y.volume = x.volume /\ y.paused = x.paused
  <2>1. \A x \in channels[c].sink : x \in Sink
    BY <1>1 DEF Channel
  <2>2. \A x \in Sink : /\ [x EXCEPT !.empty = TRUE] \in Sink /\ [x EXCEPT !.empty = TRUE].paused = x.paused
                        /\ [x EXCEPT !.empty = TRUE].volume = x.volume
    BY DEF Sink
  <2>3. sink \in SUBSET Sink
    BY <2>1, <2>2
  <2> QED BY <2>1, <2>2, <2>3
<1> HIDE DEF sink
<1>4. /\ ch \in Channel /\ ch.sink = sink /\ ch.paused = channels[c].paused /\ ch.volume = channels[c].volume
      /\ ch.active = channels[c].active /\ ch.notify = channels[c].notify /\ ch.repeats = channels[c].repeats
      /\ ch.pending = channels[c].pending /\ ch.fade = channels[c].fade /\ ch.fade_resume = channels[c].fade_resume
  BY <1>1, <1>3 DEF Channel
<1> HIDE DEF ch
<1>5. True(ch, expected[c], c \in Range(resuming), resuming # <<>>)
  <2> DEFINE again == c \in Range(resuming)
             later == resuming # <<>>
             e == expected[c]
  <2>1. e \in Expectation /\ PlaysTrue(channels[c], e, again) /\ FadesTrue(channels[c], e, later)
    BY <1>1 DEF True
  <2> HIDE DEF again, later, e
  <2>2. PlaysTrue(ch, e, again)
    BY <1>3, <1>4, <2>1 DEF PlaysTrue
  <2>3. FadesTrue(ch, e, later)
    BY <1>4, <2>1 DEF FadesTrue
  <2>4. True(ch, e, again, later)
    BY <1>4, <2>1, <2>2, <2>3 DEF True
  <2> QED BY <2>4 DEF again, later, e
<1> QED BY <1>2, <1>4, <1>5, ChangeStep

LEMMA CreateStep ==
  ASSUME SoundInv, Create(FullVolume)
  PROVE  SoundInv'
<1> DEFINE nc == next_channel
           ch == NewChannel(FullVolume)
           chs == [c \in DOMAIN channels \cup {nc} |-> IF c = nc THEN ch ELSE channels[c]]
           ex == [c \in DOMAIN expected \cup {nc} |-> IF c = nc THEN Unexpected ELSE expected[c]]
<1>1. /\ resuming = <<>> /\ channels' = chs /\ expected' = ex /\ next_channel' = nc + 1
      /\ UNCHANGED <<stream, awaited, next_id, tasks, decoding, results, resuming>>
  BY DEF Create, soundWorker
<1>2. /\ nc \in Nat \ {0} /\ DOMAIN channels \subseteq 1 .. nc - 1 /\ stream \in BOOLEAN /\ TasksTrue
      /\ DOMAIN expected = DOMAIN channels /\ AwaitsTrue(channels, awaited, next_id) /\ next_id \in Nat
      /\ awaited = [id \in DOMAIN awaited |-> awaited[id]]
  BY DEF SoundInv, Matched
<1>3. nc \notin DOMAIN channels
  BY <1>2
<1>4. /\ ch \in Channel /\ ch.sink = {} /\ ch.active = FALSE /\ ch.notify = 0 /\ ch.pending = NoRequest
      /\ ch.fade = {} /\ ch.fade_resume = {}
  BY SoundAssumption DEF NewChannel, Channel, Sounds, Repeats
<1>5. Unexpected \in Expectation /\ Unexpected.sound = 0 /\ Unexpected.fade = 0
  BY DEF Unexpected, Expectation
<1>6. /\ DOMAIN chs = DOMAIN channels \cup {nc} /\ chs[nc] = ch /\ \A c \in DOMAIN channels : chs[c] = channels[c]
      /\ chs = [c \in DOMAIN chs |-> chs[c]]
      /\ DOMAIN ex = DOMAIN chs /\ ex[nc] = Unexpected /\ \A c \in DOMAIN channels : ex[c] = expected[c]
      /\ ex = [c \in DOMAIN ex |-> ex[c]]
  BY <1>2, <1>3
<1> HIDE DEF ch, chs, ex, nc
<1>7. True(ch, Unexpected, FALSE, FALSE)
  <2>1. PlaysTrue(ch, Unexpected, FALSE) /\ FadesTrue(ch, Unexpected, FALSE)
    BY <1>4, <1>5 DEF PlaysTrue, FadesTrue
  <2> QED BY <1>4, <1>5, <2>1 DEF True
<1>8. \A c \in DOMAIN channels : True(channels[c], expected[c], FALSE, FALSE)
  BY <1>1, NothingWaits
<1>9. AwaitsTrue(chs, awaited, next_id)
  BY <1>2, <1>3, <1>4, <1>6 DEF AwaitsTrue
<1>10. Matched(chs, awaited, ex, next_id, {}, FALSE)
  <2>1. \A c \in DOMAIN chs : True(chs[c], ex[c], FALSE, FALSE)
    BY <1>6, <1>7, <1>8
  <2> QED BY <1>2, <1>6, <1>9, <2>1, EachMatched
<1>11. DOMAIN chs \subseteq 1 .. next_channel' - 1 /\ next_channel' \in Nat \ {0}
  BY <1>1, <1>2, <1>6
<1>12. TasksTrue'
  BY <1>1, <1>2, TasksSame
<1>13. Matched(channels', awaited', expected', next_id', {}, FALSE)
  BY <1>1, <1>10
<1> QED BY <1>1, <1>2, <1>11, <1>12, <1>13, QuietThen

\* A channel that is silent goes.
LEMMA WithoutKeeps ==
  ASSUME NEW chs, NEW aw, NEW ex, Matched(chs, aw, ex, next_id, {}, FALSE),
         NEW c \in DOMAIN chs, chs[c].pending = NoRequest
  PROVE  Matched(Restrict(chs, DOMAIN chs \ {c}), aw, Restrict(ex, DOMAIN chs \ {c}), next_id, {}, FALSE)
<1> DEFINE D == DOMAIN chs \ {c}
           left == Restrict(chs, D)
           still == Restrict(ex, D)
<1>1. /\ DOMAIN left = D /\ left = [d \in DOMAIN left |-> left[d]] /\ \A d \in D : left[d] = chs[d]
      /\ DOMAIN still = D /\ still = [d \in DOMAIN still |-> still[d]] /\ \A d \in D : still[d] = ex[d]
  BY DEF Restrict
<1>2. /\ AwaitsTrue(chs, aw, next_id) /\ next_id \in Nat /\ aw = [id \in DOMAIN aw |-> aw[id]]
  BY DEF Matched
<1>3. ASSUME NEW d \in D PROVE True(chs[d], ex[d], FALSE, FALSE)
  <2>1. (d \in {}) = FALSE
    OBVIOUS
  <2>2. True(chs[d], ex[d], d \in {}, FALSE)
    BY DEF Matched
  <2> QED BY <2>1, <2>2
<1> HIDE DEF left, still
<1>4. \A d \in DOMAIN left : True(left[d], still[d], FALSE, FALSE)
  BY <1>1, <1>3
<1>5. \A id \in DOMAIN aw : aw[id].channel # c
  BY <1>2 DEF AwaitsTrue, NoRequest
<1>6. AwaitsTrue(left, aw, next_id)
  BY <1>1, <1>2, <1>5 DEF AwaitsTrue
<1>7. Matched(left, aw, still, next_id, {}, FALSE)
  BY <1>1, <1>2, <1>4, <1>6, EachMatched
<1> QED BY <1>7 DEF left, still

LEMMA DestroyStep ==
  ASSUME SoundInv, NEW c \in DOMAIN channels, Destroy(c)
  PROVE  SoundInv'
<1> DEFINE quiet == Stopped(Now, c)
           D == DOMAIN channels \ {c}
           silent == Expecting(expected, c, 0)
<1>1. /\ resuming = <<>> /\ channels' = Restrict(channels, D) /\ awaited' = quiet.awaited
      /\ expected' = Restrict(expected, D)
      /\ UNCHANGED <<next_channel, stream, next_id, tasks, decoding, results, resuming>>
  BY Numbered DEF Destroy, soundWorker
<1>2. Now.channels = channels /\ Now.awaited = awaited
  BY DEF Now
<1>3. Matched(Now.channels, Now.awaited, expected, next_id, {}, FALSE) /\ c \in DOMAIN Now.channels
  BY <1>1, <1>2, QuietNow
<1>4. /\ Matched(quiet.channels, quiet.awaited, silent, next_id, {} \ {c}, FALSE)
      /\ DOMAIN quiet.channels = DOMAIN Now.channels /\ DOMAIN quiet.awaited \subseteq DOMAIN Now.awaited
      /\ quiet.channels[c].pending = NoRequest
  <2> HIDE DEF quiet
  <2> QED BY <1>3, StopKeeps DEF quiet
<1>5. {} \ {c} = {}
  OBVIOUS
<1>6. \A d \in D : quiet.channels[d] = channels[d] /\ silent[d] = expected[d]
  BY Numbered DEF Stopped, Now, Expecting
<1> HIDE DEF quiet, silent
<1>7. Restrict(quiet.channels, D) = channels' /\ Restrict(silent, D) = expected'
  BY <1>1, <1>6 DEF Restrict
<1>8. Matched(quiet.channels, quiet.awaited, silent, next_id, {}, FALSE) /\ c \in DOMAIN quiet.channels
      /\ D = DOMAIN quiet.channels \ {c}
  BY <1>2, <1>4, <1>5
<1>9. Matched(channels', awaited', expected', next_id', {}, FALSE)
  <2>1. Matched(Restrict(quiet.channels, D), quiet.awaited, Restrict(silent, D), next_id, {}, FALSE)
    BY <1>4, <1>8, WithoutKeeps
  <2> QED BY <1>1, <1>7, <2>1
<1>10. TasksTrue'
  BY <1>1, <1>2, <1>4, TasksSame DEF SoundInv
<1>11. DOMAIN channels' \subseteq DOMAIN channels
  BY <1>1 DEF Restrict
<1> QED BY <1>1, <1>9, <1>10, <1>11, QuietThen DEF SoundInv

\* A channel is changed after the poll.
LEMMA ChangePolled ==
  ASSUME NEW s, PollTrue(s), NEW c \in DOMAIN s.channels, NEW ch, NEW e, True(ch, e, FALSE, FALSE),
         ch.pending = s.channels[c].pending, ch.notify = s.channels[c].notify
  PROVE  /\ Matched([s.channels EXCEPT ![c] = ch], s.awaited, [s.expected EXCEPT ![c] = e], next_id, {}, FALSE)
         /\ DOMAIN [s.channels EXCEPT ![c] = ch] = DOMAIN s.channels
<1> DEFINE chs == s.channels
           ex == s.expected
           new == [chs EXCEPT ![c] = ch]
           told == [ex EXCEPT ![c] = e]
<1>1. /\ AwaitsTrue(chs, s.awaited, next_id) /\ next_id \in Nat /\ DOMAIN ex = DOMAIN chs
      /\ s.awaited = [id \in DOMAIN s.awaited |-> s.awaited[id]]
      /\ \A d \in DOMAIN chs : True(chs[d], ex[d], FALSE, FALSE)
  BY MatchedEach DEF PollTrue, Matched
<1>2. /\ DOMAIN new = DOMAIN chs /\ new[c] = ch /\ \A d \in DOMAIN chs \ {c} : new[d] = chs[d]
      /\ new = [d \in DOMAIN new |-> new[d]]
  OBVIOUS
<1>3. /\ DOMAIN told = DOMAIN ex /\ told[c] = e /\ \A d \in DOMAIN ex \ {c} : told[d] = ex[d]
      /\ told = [d \in DOMAIN told |-> told[d]]
  BY <1>1
<1> HIDE DEF new, told
<1>4. AwaitsTrue(new, s.awaited, next_id)
  <2>1. \A d \in DOMAIN chs : /\ new[d].pending = chs[d].pending
                              /\ chs[d].pending # NoRequest => new[d].notify = chs[d].notify
    BY <1>2
  <2> HIDE DEF chs
  <2> QED BY <1>1, <1>2, <2>1, AwaitsSame
<1>5. \A d \in DOMAIN new : True(new[d], told[d], FALSE, FALSE)
  BY <1>1, <1>2, <1>3
<1>6. Matched(new, s.awaited, told, next_id, {}, FALSE)
  BY <1>1, <1>2, <1>3, <1>4, <1>5, EachMatched
<1> QED BY <1>2, <1>6 DEF new, told

\* What a poll finds.
IsPolled(s, arrived, over, way) ==
  /\ Collecting(arrived) /\ s = PolledSounds(arrived, over, way)
  /\ arrived \in {results, results \o decoding}
  /\ over \in SUBSET {c \in DOMAIN channels : channels[c].fade # {}} /\ way \in Ways

LEMMA PolledNow ==
  ASSUME SoundInv, resuming = <<>>, NEW s, NEW arrived, NEW over, NEW way, IsPolled(s, arrived, over, way)
  PROVE  /\ PollTrue(s) /\ DOMAIN s.channels = DOMAIN channels
         /\ DOMAIN s.awaited \subseteq DOMAIN awaited
         /\ \A i \in DOMAIN arrived : arrived[i].id \notin DOMAIN s.awaited
<1>1. Matched(channels, awaited, expected, next_id, {}, FALSE)
  BY QuietNow
<1>2. arrived \in Seq(SoundTask)
  <2>1. results \in Seq(SoundTask) /\ decoding \in Seq(SoundTask)
    BY DEF SoundInv, TasksTrue
  <2>2. results \o decoding \in Seq(SoundTask)
    BY <2>1, ConcatElements
  <2> QED BY <2>1, <2>2 DEF IsPolled
<1>3. way \in [DOMAIN channels -> Nat]
  <2>1. way \in [DOMAIN channels -> 0 .. FullVolume] /\ 0 .. FullVolume \subseteq Nat
    BY SoundAssumption DEF IsPolled, Ways
  <2> QED BY <2>1
<1>4. over \in SUBSET {c \in DOMAIN channels : channels[c].fade # {}} /\ s = PolledSounds(arrived, over, way)
  BY DEF IsPolled
<1> QED BY <1>1, <1>2, <1>3, <1>4, PolledKeeps

\* What follows from a poll.
LEMMA PollThen ==
  ASSUME SoundInv, resuming = <<>>, NEW s, NEW arrived, NEW over, NEW way, IsPolled(s, arrived, over, way),
         UNCHANGED <<next_channel, stream, next_id, tasks, resuming>>,
         awaited' = s.awaited, DOMAIN channels' = DOMAIN channels,
         Matched(channels', s.awaited, expected', next_id, {}, FALSE)
  PROVE  SoundInv'
<1>1. /\ DOMAIN awaited' \subseteq DOMAIN awaited
      /\ \A i \in DOMAIN arrived : arrived[i].id \notin DOMAIN awaited'
  BY PolledNow
<1>2. TasksTrue'
  <2>1. TasksTrue /\ Collecting(arrived)
    BY DEF SoundInv, IsPolled
  <2> QED BY <1>1, <2>1, CollectKeeps
<1>3. Matched(channels', awaited', expected', next_id', {}, FALSE)
  OBVIOUS
<1> QED BY <1>2, <1>3, QuietThen DEF SoundInv

LEMMA PollStep ==
  ASSUME SoundInv, PollSound
  PROVE  SoundInv'
<1>1. PICK arrived, over, way, s :
        /\ IsPolled(s, arrived, over, way) /\ Become(s) /\ expected' = s.expected
        /\ resuming = <<>> /\ UNCHANGED <<next_channel, stream, next_id, tasks, resuming>>
  BY DEF PollSound, PollAnd, IsPolled
<1>2. PollTrue(s) /\ DOMAIN s.channels = DOMAIN channels
  BY <1>1, PolledNow
<1>3. /\ channels' = s.channels /\ awaited' = s.awaited
      /\ Matched(channels', s.awaited, expected', next_id, {}, FALSE)
  BY <1>1, <1>2 DEF Become, PollTrue
<1> QED BY <1>1, <1>2, <1>3, PollThen

LEMMA VolumeStep ==
  ASSUME SoundInv, NEW c \in DOMAIN channels, NEW volume \in Nat, SetVolume(c, volume)
  PROVE  SoundInv'
<1> DEFINE New(s) == [AtVolume(s.channels[c], volume) EXCEPT !.fade = {}, !.fade_resume = {}]
           Told(s) == [s.expected[c] EXCEPT !.fade = 0]
<1> DEFINE Changed(s) == [s EXCEPT !.channels[c] = [AtVolume(@, volume) EXCEPT !.fade = {}, !.fade_resume = {}],
                               !.expected[c].fade = 0]
<1>1. PICK arrived, over, way, s :
        /\ IsPolled(s, arrived, over, way) /\ Become(Changed(s)) /\ expected' = Changed(s).expected
        /\ resuming = <<>> /\ UNCHANGED <<next_channel, stream, next_id, tasks, resuming>>
  <2>1. /\ resuming = <<>> /\ UNCHANGED <<next_channel, stream, next_id, tasks, resuming>>
        /\ \E arrived \in {results, results \o decoding} : Collecting(arrived) /\
             \E over \in SUBSET {d \in DOMAIN channels : channels[d].fade # {}}, way \in Ways :
               \E t \in {Changed(PolledSounds(arrived, over, way))} : Become(t) /\ expected' = t.expected
    BY DEF SetVolume, PollAnd
  <2> HIDE DEF Changed
  <2>2. PICK arrived \in {results, results \o decoding},
             over \in SUBSET {d \in DOMAIN channels : channels[d].fade # {}}, way \in Ways :
          /\ Collecting(arrived) /\ Become(Changed(PolledSounds(arrived, over, way)))
          /\ expected' = Changed(PolledSounds(arrived, over, way)).expected
    BY <2>1
  <2>3. IsPolled(PolledSounds(arrived, over, way), arrived, over, way)
    BY <2>2 DEF IsPolled
  <2> QED BY <2>1, <2>2, <2>3
<1> DEFINE ch == New(s)
           e == Told(s)
           at == AtVolume(s.channels[c], volume)
<1>2. PollTrue(s) /\ DOMAIN s.channels = DOMAIN channels
  BY <1>1, PolledNow
<1>3. /\ channels' = [s.channels EXCEPT ![c] = ch] /\ awaited' = s.awaited
      /\ expected' = [s.expected EXCEPT ![c] = e]
  BY <1>1, <1>2 DEF Become, PollTrue, IsPoll
<1>4. True(s.channels[c], s.expected[c], FALSE, FALSE)
  BY <1>2, MatchedEach
<1>5. /\ s.channels[c] \in Channel /\ s.expected[c] \in Expectation
      /\ PlaysTrue(s.channels[c], s.expected[c], FALSE)
  BY <1>4 DEF True
<1>6. /\ at \in Channel /\ at.volume = volume /\ (at.sink = {} <=> s.channels[c].sink = {})
      /\ \A x \in at.sink : x.volume = volume /\ x.paused = at.paused
      /\ at.active = s.channels[c].active /\ at.notify = s.channels[c].notify
      /\ at.pending = s.channels[c].pending /\ at.repeats = s.channels[c].repeats
  <2>1. \A x \in s.channels[c].sink : x.paused = s.channels[c].paused
    BY <1>5 DEF PlaysTrue
  <2>2. \A x \in at.sink : x.paused = at.paused
    BY <1>5, <2>1, AtVolumeKeeps
  <2> HIDE DEF at
  <2> QED BY <1>5, <2>2, AtVolumeKeeps DEF at
<1> HIDE DEF at
<1>7. ch = [at EXCEPT !.fade = {}, !.fade_resume = {}]
  BY DEF at
<1>8. /\ ch \in Channel /\ ch.volume = volume /\ ch.sink = at.sink /\ ch.paused = at.paused
      /\ ch.active = at.active /\ ch.notify = at.notify /\ ch.pending = at.pending
      /\ ch.repeats = at.repeats /\ ch.fade = {} /\ ch.fade_resume = {}
  BY <1>6, <1>7 DEF Channel
<1>9. e \in Expectation /\ e.sound = s.expected[c].sound /\ e.fade = 0
  BY <1>5 DEF Expectation
<1> HIDE DEF ch, e
<1>10. True(ch, e, FALSE, FALSE)
  <2>1. PlaysTrue(ch, e, FALSE)
    BY <1>5, <1>6, <1>8, <1>9 DEF PlaysTrue
  <2>2. FadesTrue(ch, e, FALSE)
    BY <1>8, <1>9 DEF FadesTrue
  <2> QED BY <1>8, <1>9, <2>1, <2>2 DEF True
<1>11. /\ Matched(channels', s.awaited, expected', next_id, {}, FALSE)
       /\ DOMAIN channels' = DOMAIN channels
  BY <1>2, <1>3, <1>6, <1>8, <1>10, ChangePolled
<1> QED BY <1>1, <1>3, <1>11, PollThen

LEMMA SlowVolumeStep ==
  ASSUME SoundInv, NEW c \in DOMAIN channels, NEW volume \in Nat, NEW notify \in Nat,
         SetVolumeSlowly(c, volume, notify)
  PROVE  SoundInv'
<1> DEFINE Fades(s) == [from |-> s.channels[c].volume, to |-> volume, notify |-> notify]
           New(s) == [s.channels[c] EXCEPT !.fade = {Fades(s)}, !.fade_resume = {}]
           Told(s) == [s.expected[c] EXCEPT !.fade = notify]
<1> DEFINE Changed(s) == [s EXCEPT
    !.channels[c] = [@ EXCEPT !.fade = {[from |-> s.channels[c].volume, to |-> volume, notify |-> notify]},
                              !.fade_resume = {}],
    !.expected[c].fade = notify]
<1>1. PICK arrived, over, way, s :
        /\ IsPolled(s, arrived, over, way) /\ Become(Changed(s)) /\ expected' = Changed(s).expected
        /\ resuming = <<>> /\ UNCHANGED <<next_channel, stream, next_id, tasks, resuming>>
  <2>1. /\ resuming = <<>> /\ UNCHANGED <<next_channel, stream, next_id, tasks, resuming>>
        /\ \E arrived \in {results, results \o decoding} : Collecting(arrived) /\
             \E over \in SUBSET {d \in DOMAIN channels : channels[d].fade # {}}, way \in Ways :
               \E t \in {Changed(PolledSounds(arrived, over, way))} : Become(t) /\ expected' = t.expected
    BY DEF SetVolumeSlowly, PollAnd
  <2> HIDE DEF Changed
  <2>2. PICK arrived \in {results, results \o decoding},
             over \in SUBSET {d \in DOMAIN channels : channels[d].fade # {}}, way \in Ways :
          /\ Collecting(arrived) /\ Become(Changed(PolledSounds(arrived, over, way)))
          /\ expected' = Changed(PolledSounds(arrived, over, way)).expected
    BY <2>1
  <2>3. IsPolled(PolledSounds(arrived, over, way), arrived, over, way)
    BY <2>2 DEF IsPolled
  <2> QED BY <2>1, <2>2, <2>3
<1> DEFINE ch == New(s)
           e == Told(s)
           at == s.channels[c]
           fade == Fades(s)
<1>2. PollTrue(s) /\ DOMAIN s.channels = DOMAIN channels
  BY <1>1, PolledNow
<1>3. /\ channels' = [s.channels EXCEPT ![c] = ch] /\ awaited' = s.awaited
      /\ expected' = [s.expected EXCEPT ![c] = e]
  BY <1>1, <1>2 DEF Become, PollTrue, IsPoll
<1>4. True(at, s.expected[c], FALSE, FALSE)
  BY <1>2, MatchedEach
<1>5. at \in Channel /\ s.expected[c] \in Expectation /\ PlaysTrue(at, s.expected[c], FALSE)
  BY <1>4 DEF True
<1>6. fade \in Going /\ fade.notify = notify
  BY <1>5 DEF Going, Channel
<1>7. ch = [at EXCEPT !.fade = {fade}, !.fade_resume = {}]
  OBVIOUS
<1>8. e \in Expectation /\ e.sound = s.expected[c].sound /\ e.fade = notify
  BY <1>5 DEF Expectation
<1> HIDE DEF ch, e, fade
<1>9. /\ ch \in Channel /\ ch.volume = at.volume /\ ch.sink = at.sink /\ ch.paused = at.paused
      /\ ch.active = at.active /\ ch.notify = at.notify /\ ch.pending = at.pending
      /\ ch.repeats = at.repeats /\ ch.fade = {fade} /\ ch.fade_resume = {}
  BY <1>5, <1>6, <1>7 DEF Channel
<1>10. True(ch, e, FALSE, FALSE)
  <2>1. PlaysTrue(ch, e, FALSE)
    BY <1>5, <1>8, <1>9 DEF PlaysTrue
  <2>2. FadesTrue(ch, e, FALSE)
    BY <1>6, <1>8, <1>9 DEF FadesTrue
  <2> QED BY <1>8, <1>9, <2>1, <2>2 DEF True
<1>11. /\ Matched(channels', s.awaited, expected', next_id, {}, FALSE)
       /\ DOMAIN channels' = DOMAIN channels
  BY <1>2, <1>3, <1>9, <1>10, ChangePolled
<1> QED BY <1>1, <1>3, <1>11, PollThen

-----------------------------------------------------------------------------
(* A resumed session *)

\* A channel as it was stored.
LEMMA StoredIsTrue ==
  ASSUME NEW ch, NEW e, True(ch, e, FALSE, FALSE), NEW again \in BOOLEAN, again <=> ch.active
  PROVE  True([ch EXCEPT !.sink = {}, !.fade = {}, !.pending = NoRequest],
              IF ch.fade_resume = {} THEN [e EXCEPT !.fade = 0] ELSE e, again, TRUE)
<1> DEFINE new == [ch EXCEPT !.sink = {}, !.fade = {}, !.pending = NoRequest]
           told == IF ch.fade_resume = {} THEN [e EXCEPT !.fade = 0] ELSE e
<1>1. ch \in Channel /\ e \in Expectation /\ PlaysTrue(ch, e, FALSE) /\ FadesTrue(ch, e, FALSE)
  BY DEF True
<1>2. /\ new \in Channel /\ new.sink = {} /\ new.fade = {} /\ new.pending = NoRequest
      /\ new.active = ch.active /\ new.notify = ch.notify /\ new.repeats = ch.repeats
      /\ new.fade_resume = ch.fade_resume
  BY <1>1 DEF Channel
<1>3. /\ told \in Expectation /\ told.sound = e.sound
      /\ ch.fade_resume = {} => told.fade = 0
      /\ ch.fade_resume # {} => told.fade = e.fade
  BY <1>1 DEF Expectation
<1> HIDE DEF new, told
<1>4. PlaysTrue(new, told, again)
  BY <1>1, <1>2, <1>3 DEF PlaysTrue
<1>5. FadesTrue(new, told, TRUE)
  <2>1. \A g \in ch.fade_resume : e.fade = g.notify
    BY <1>1 DEF FadesTrue
  <2>2. \A f, g \in ch.fade_resume : f = g
    BY <1>1 DEF FadesTrue
  <2> QED BY <1>2, <1>3, <2>1, <2>2 DEF FadesTrue
<1>6. True(new, told, again, TRUE)
  BY <1>2, <1>3, <1>4, <1>5 DEF True
<1> QED BY <1>6 DEF new, told

LEMMA ResumeSessionStep ==
  ASSUME SoundInv, ResumeSession
  PROVE  SoundInv'
<1> DEFINE D == DOMAIN channels
           A == {c \in D : channels[c].active}
           q == Ascending(A)
           New(c) == [channels[c] EXCEPT !.sink = {}, !.fade = {}, !.pending = NoRequest]
           Told(c) == IF channels[c].fade_resume = {} THEN [expected[c] EXCEPT !.fade = 0] ELSE expected[c]
           chs == [c \in D |-> New(c)]
           ex == [c \in D |-> Told(c)]
<1>1. /\ resuming = <<>> /\ stream' \in BOOLEAN /\ channels' = chs /\ expected' = ex
      /\ awaited' = <<>> /\ next_id' = 0 /\ tasks' = <<>> /\ decoding' = <<>> /\ results' = <<>>
      /\ resuming' = q \o <<Fade>> /\ next_channel' = next_channel
  BY DEF ResumeSession
<1>2. IsFiniteSet(A) /\ A \subseteq Nat /\ A \subseteq D /\ 0 \notin D /\ D \subseteq 1 .. next_channel - 1
  <2>1. /\ next_channel \in Nat \ {0} /\ D \subseteq 1 .. next_channel - 1
    BY DEF SoundInv
  <2>2. IsFiniteSet(1 .. next_channel - 1)
    BY <2>1, FS_Interval
  <2>3. IsFiniteSet(D)
    BY <2>1, <2>2, FS_Subset
  <2>4. IsFiniteSet(A)
    BY <2>3, FS_Subset
  <2> QED BY <2>1, <2>4
<1>3. q \in Seq(A) /\ Range(q) = A /\ IsInjective(q)
  <2> HIDE DEF A
  <2> QED BY <1>2, AscendingElements
<1>4. /\ resuming' \in Seq(D \cup {Fade}) /\ Range(resuming') = A \cup {Fade} /\ IsInjective(resuming')
      /\ resuming' # <<>> /\ resuming'[Len(resuming')] = Fade
  <2> HIDE DEF q
  <2>1. q \in Seq(D \cup {Fade}) /\ <<Fade>> \in Seq(D \cup {Fade})
    BY <1>2, <1>3
  <2>2. Range(<<Fade>>) = {Fade} /\ IsInjective(<<Fade>>)
    BY SmallSequences
  <2>3. Fade \notin A
    BY <1>2 DEF Fade
  <2> HIDE DEF A, D
  <2>4. /\ q \o <<Fade>> \in Seq(D \cup {Fade}) /\ Range(q \o <<Fade>>) = A \cup {Fade}
        /\ IsInjective(q \o <<Fade>>)
    <3>1. Range(q) \cap Range(<<Fade>>) = {}
      BY <1>3, <2>2, <2>3
    <3> QED BY <1>3, <2>1, <2>2, <3>1, ConcatElements
  <2>5. Len(q \o <<Fade>>) = Len(q) + 1 /\ (q \o <<Fade>>)[Len(q) + 1] = Fade /\ q \o <<Fade>> # <<>>
    BY <2>1
  <2> QED BY <1>1, <2>4, <2>5
<1>5. DOMAIN chs = D /\ DOMAIN ex = D /\ chs = [c \in DOMAIN chs |-> chs[c]] /\ ex = [c \in DOMAIN ex |-> ex[c]]
  OBVIOUS
<1>6. ASSUME NEW c \in D PROVE True(chs[c], ex[c], c \in Range(resuming'), TRUE) /\ chs[c].pending = NoRequest
  <2> DEFINE again == c \in Range(resuming')
  <2>1. again <=> channels[c].active
    BY <1>2, <1>4 DEF Fade
  <2>2. True(channels[c], expected[c], FALSE, FALSE)
    BY <1>1, NothingWaits
  <2>3. again \in BOOLEAN
    OBVIOUS
  <2> HIDE DEF again
  <2>4. True(New(c), Told(c), again, TRUE)
    BY <2>1, <2>2, <2>3, StoredIsTrue
  <2>5. New(c).pending = NoRequest
    BY <2>2 DEF True, Channel
  <2> QED BY <2>4, <2>5 DEF again
<1> HIDE DEF chs, ex
<1>7. (resuming' # <<>>) = TRUE
  BY <1>4
<1>8. Matched(chs, <<>>, ex, 0, Range(resuming'), resuming' # <<>>)
  <2>1. AwaitsTrue(chs, <<>>, 0)
    <3>1. DOMAIN <<>> = {}
      OBVIOUS
    <3> QED BY <1>5, <1>6, <3>1 DEF AwaitsTrue
  <2>2. <<>> = [id \in DOMAIN <<>> |-> <<>>[id]]
    OBVIOUS
  <2> QED BY <1>5, <1>6, <1>7, <2>1, <2>2 DEF Matched
<1>9. Matched(channels, awaited, expected, next_id, Range(resuming), resuming # <<>>)'
  BY <1>1, <1>8
<1>10. TasksTrue'
  <2>1. /\ Range(<<>>) = {} /\ IsInjective(<<>>) /\ <<>> \in Seq(SoundTask) /\ DOMAIN <<>> = {}
    BY SmallSequences
  <2>2. TasksOf(<<>>, <<>>, <<>>, 0, DOMAIN <<>>)
    BY <2>1 DEF TasksOf
  <2> QED BY <1>1, <2>2, TasksWillBe
<1>11. ResumingTrue'
  BY <1>1, <1>4, <1>5 DEF ResumingTrue
<1>12. DOMAIN channels' = D /\ next_channel' \in Nat \ {0}
  BY <1>1, <1>5 DEF SoundInv
<1> QED BY <1>1, <1>2, <1>9, <1>10, <1>11, <1>12 DEF SoundInv

\* Fades go on from what was stored of them.
LEMMA FadeAgain ==
  ASSUME NEW ch, NEW e, True(ch, e, FALSE, TRUE)
  PROVE  True([ch EXCEPT !.fade_resume = {},
                         !.fade = {[from |-> ch.volume, to |-> f.to, notify |-> f.notify] : f \in ch.fade_resume}],
              e, FALSE, FALSE)
<1> DEFINE fade == {[from |-> ch.volume, to |-> f.to, notify |-> f.notify] : f \in ch.fade_resume}
           new == [ch EXCEPT !.fade_resume = {}, !.fade = fade]
<1>1. ch \in Channel /\ e \in Expectation /\ PlaysTrue(ch, e, FALSE) /\ FadesTrue(ch, e, TRUE)
  BY DEF True
<1>2. /\ \A f \in ch.fade_resume : f \in StoredFade /\ e.fade = f.notify
      /\ \A f, g \in ch.fade_resume : f = g
      /\ ch.fade_resume = {} => e.fade = 0
  BY <1>1 DEF Channel, FadesTrue
<1>3. fade \in SUBSET Going
  BY <1>1, <1>2 DEF Channel, StoredFade, Going
<1>4. /\ \A f \in fade : e.fade = f.notify
      /\ \A f, g \in fade : f = g
      /\ fade = {} => e.fade = 0
  <2> DEFINE Again(f) == [from |-> ch.volume, to |-> f.to, notify |-> f.notify]
  <2>1. \A f : Again(f).notify = f.notify
    OBVIOUS
  <2>2. fade = {Again(f) : f \in ch.fade_resume}
    OBVIOUS
  <2> HIDE DEF fade, Again
  <2> QED BY <1>2, <2>1, <2>2
<1> HIDE DEF fade
<1>5. /\ new \in Channel /\ new.sink = ch.sink /\ new.pending = ch.pending /\ new.volume = ch.volume
      /\ new.paused = ch.paused /\ new.active = ch.active /\ new.notify = ch.notify /\ new.repeats = ch.repeats
      /\ new.fade = fade /\ new.fade_resume = {}
  BY <1>1, <1>3 DEF Channel
<1> HIDE DEF new
<1>6. PlaysTrue(new, e, FALSE) /\ FadesTrue(new, e, FALSE)
  BY <1>1, <1>4, <1>5 DEF PlaysTrue, FadesTrue
<1>7. True(new, e, FALSE, FALSE)
  BY <1>1, <1>5, <1>6 DEF True
<1> QED BY <1>7 DEF new, fade

LEMMA ResumeFadesStep ==
  ASSUME SoundInv, ResumeFades
  PROVE  SoundInv'
<1> DEFINE New(c) == [channels[c] EXCEPT !.fade_resume = {},
                        !.fade = {[from |-> channels[c].volume, to |-> f.to, notify |-> f.notify] :
                                    f \in channels[c].fade_resume}]
           chs == [c \in DOMAIN channels |-> New(c)]
<1>1. /\ resuming = <<Fade>> /\ resuming' = <<>> /\ channels' = chs
      /\ UNCHANGED <<next_channel, stream, awaited, next_id, tasks, decoding, results, expected>>
  BY DEF ResumeFades, soundWorker
<1>2. /\ AwaitsTrue(channels, awaited, next_id) /\ next_id \in Nat /\ TasksTrue
      /\ awaited = [id \in DOMAIN awaited |-> awaited[id]] /\ DOMAIN expected = DOMAIN channels
      /\ expected = [d \in DOMAIN expected |-> expected[d]]
  BY DEF SoundInv, Matched
<1>3. DOMAIN chs = DOMAIN channels /\ chs = [c \in DOMAIN chs |-> chs[c]]
  OBVIOUS
<1>4. ASSUME NEW c \in DOMAIN channels
      PROVE  /\ True(chs[c], expected[c], FALSE, FALSE)
             /\ chs[c].pending = channels[c].pending /\ chs[c].notify = channels[c].notify
  <2>1. (c \in Range(resuming)) = FALSE /\ (resuming # <<>>) = TRUE
    <3>1. Range(resuming) = {Fade} /\ c # Fade
      BY <1>1, SmallSequences, Numbered DEF Fade
    <3>2. (resuming # <<>>) = TRUE
      BY <1>1
    <3>3. (c \in Range(resuming)) = FALSE
      BY <3>1
    <3> QED BY <3>2, <3>3
  <2>2. True(channels[c], expected[c], FALSE, TRUE)
    BY <2>1, Numbered
  <2>3. True(New(c), expected[c], FALSE, FALSE)
    BY <2>2, FadeAgain
  <2>4. New(c).pending = channels[c].pending /\ New(c).notify = channels[c].notify
    BY <2>2 DEF True, Channel
  <2> QED BY <2>3, <2>4
<1> HIDE DEF chs
<1>5. AwaitsTrue(chs, awaited, next_id)
  BY <1>2, <1>3, <1>4, AwaitsSame
<1>6. Matched(chs, awaited, expected, next_id, {}, FALSE)
  BY <1>2, <1>3, <1>4, <1>5, EachMatched
<1>7. Matched(channels', awaited', expected', next_id', {}, FALSE)
  BY <1>1, <1>6
<1>8. TasksTrue'
  BY <1>1, <1>2, TasksSame
<1> QED BY <1>1, <1>3, <1>7, <1>8, QuietThen DEF SoundInv

\* The next of the channels that were active is played again.
LEMMA ResumeSoundStep ==
  ASSUME SoundInv, ResumeSound
  PROVE  SoundInv'
<1> DEFINE c == Head(resuming)
           ch == channels[c]
           e == expected[c]
           rest == Tail(resuming)
           again == Range(resuming)
           told == IF Queues(ch.resource, ch.repeats) /\ ch.repeats # Forever THEN ch.notify ELSE 0
<1>1. /\ resuming # <<>> /\ c # Fade /\ PlaySoundAt(c, ch.resource, ch.repeats, ch.notify)
      /\ expected' = IF Queues(ch.resource, ch.repeats) THEN expected
                     ELSE [expected EXCEPT ![c].sound = @ - ch.notify]
      /\ resuming' = rest /\ UNCHANGED <<next_channel, stream, decoding, results>>
  BY DEF ResumeSound
<1>2. /\ resuming \in Seq(DOMAIN channels \cup {Fade}) /\ IsInjective(resuming) /\ resuming[Len(resuming)] = Fade
      /\ Matched(channels, awaited, expected, next_id, again, TRUE) /\ TasksTrue
  <2>1. (resuming # <<>>) = TRUE
    BY <1>1
  <2>2. Matched(channels, awaited, expected, next_id, Range(resuming), resuming # <<>>)
    BY DEF SoundInv
  <2> QED BY <1>1, <2>1, <2>2 DEF SoundInv, ResumingTrue
<1>3. /\ c \in DOMAIN channels /\ rest \in Seq(DOMAIN channels \cup {Fade}) /\ IsInjective(rest)
      /\ Range(rest) = again \ {c}
  <2> DEFINE S == DOMAIN channels \cup {Fade}
  <2>1. resuming \in Seq(S)
    BY <1>2
  <2>2. c \in S
    BY <1>1, <2>1
  <2>3. c \in DOMAIN channels
    BY <1>1, <2>2
  <2> HIDE DEF c, rest, S
  <2>4. /\ rest \in Seq(S) /\ Range(resuming) = {c} \cup Range(rest)
        /\ IsInjective(rest) /\ c \notin Range(rest)
    BY <1>1, <1>2, <2>1, HeadAndTail DEF c, rest
  <2> QED BY <2>3, <2>4 DEF S
<1>4. rest # <<>> /\ rest[Len(rest)] = Fade
  <2>1. Len(resuming) \in Nat \ {0} /\ c = resuming[1]
    BY <1>1, <1>2
  <2>2. Len(resuming) # 1
    BY <1>1, <1>2, <2>1
  <2>3. Len(rest) = Len(resuming) - 1 /\ \A i \in 1 .. Len(resuming) - 1 : rest[i] = resuming[i + 1]
    BY <1>1, <1>2
  <2> HIDE DEF rest, c
  <2>4. Len(rest) \in 1 .. Len(resuming) - 1 /\ Len(rest) + 1 = Len(resuming) /\ Len(rest) # 0
    BY <2>1, <2>2, <2>3
  <2>5. rest # <<>>
    BY <2>4
  <2> QED BY <1>2, <2>3, <2>4, <2>5
<1> HIDE DEF rest, c
<1>5. /\ ch \in Channel /\ e \in Expectation /\ c \in Nat /\ PlaysTrue(ch, e, c \in again)
      /\ DOMAIN expected = DOMAIN channels /\ expected = [d \in DOMAIN expected |-> expected[d]]
  BY <1>3, Numbered DEF True
<1>6. /\ ch.resource \in Sounds /\ ch.repeats \in Repeats /\ ch.notify \in Nat
      /\ ch.notify = e.sound /\ (ch.repeats = Forever => ch.notify = 0)
  BY <1>5 DEF Channel, PlaysTrue
<1> HIDE DEF ch, again
<1>7. expected' = Expecting(expected, c, told)
  <2>1. CASE Queues(ch.resource, ch.repeats)
    <3>1. told = e.sound /\ expected' = expected
      BY <1>1, <1>6, <2>1
    <3>2. e = [sound |-> e.sound, fade |-> e.fade]
      BY <1>5 DEF Expectation
    <3> HIDE DEF told
    <3> QED BY <1>5, <3>1, <3>2 DEF Expecting
  <2>2. CASE ~ Queues(ch.resource, ch.repeats)
    <3>1. told = 0 /\ expected' = [expected EXCEPT ![c].sound = @ - ch.notify]
      BY <1>1, <2>2
    <3>2. e.sound - ch.notify = 0
      BY <1>5, <1>6 DEF Expectation
    <3>3. expected' = [expected EXCEPT ![c].sound = 0]
      BY <3>1, <3>2
    <3> HIDE DEF told
    <3> QED BY <1>3, <1>5, <3>1, <3>3, ExpectingIs
  <2> QED BY <2>1, <2>2
<1> HIDE DEF told, e
<1>8. Matched(channels', awaited', Expecting(expected, c, told), next_id', again \ {c}, TRUE)
  BY <1>1, <1>2, <1>3, <1>5, <1>6, PlayKeeps DEF told
<1>9. DOMAIN channels' = DOMAIN channels /\ TasksTrue'
  BY <1>1, <1>2, <1>3, <1>5, <1>6, PlayKeeps
<1>10. Matched(channels, awaited, expected, next_id, Range(resuming), resuming # <<>>)'
  <2>1. (rest # <<>>) = TRUE
    BY <1>4
  <2>2. Matched(channels', awaited', expected', next_id', Range(rest), TRUE)
    BY <1>3, <1>7, <1>8
  <2> QED BY <1>1, <2>1, <2>2
<1>11. ResumingTrue'
  BY <1>1, <1>3, <1>4, <1>9 DEF ResumingTrue
<1> QED BY <1>1, <1>9, <1>10, <1>11 DEF SoundInv

LEMMA TakeStep == SoundInv /\ Take => SoundInv'
<1> SUFFICES ASSUME SoundInv, Take PROVE SoundInv'
  OBVIOUS
<1>1. UNCHANGED <<channels, next_channel, stream, awaited, next_id, resuming, expected>>
  BY DEF Take
<1>2. TasksTrue'
  BY TakeKeeps DEF SoundInv
<1> QED BY <1>1, <1>2 DEF SoundInv, ResumingTrue

LEMMA SendStep == SoundInv /\ Send => SoundInv'
<1> SUFFICES ASSUME SoundInv, Send PROVE SoundInv'
  OBVIOUS
<1>1. UNCHANGED <<channels, next_channel, stream, awaited, next_id, resuming, expected>>
  BY DEF Send
<1>2. TasksTrue'
  BY SendKeeps DEF SoundInv
<1> QED BY <1>1, <1>2 DEF SoundInv, ResumingTrue

LEMMA StutterStep == SoundInv /\ UNCHANGED soundVars => SoundInv'
<1> SUFFICES ASSUME SoundInv, UNCHANGED soundVars PROVE SoundInv'
  OBVIOUS
<1>1. UNCHANGED <<channels, next_channel, stream, awaited, next_id, tasks, decoding, results, resuming, expected>>
  BY DEF soundVars, soundWorker
<1>2. TasksTrue'
  BY <1>1, TasksSame DEF SoundInv
<1> QED BY <1>1, <1>2 DEF SoundInv, ResumingTrue

-----------------------------------------------------------------------------
(* play_multi *)

IsAfter(f, q, notify) ==
  f = [n \in 0 .. Len(q) |-> IF n = 0 THEN Now ELSE Prepared(f[n - 1], q[n][1], q[n][2], notify)]

IsTold(f, q, notify) ==
  f = [n \in 0 .. Len(q) |->
         IF n = 0 THEN expected
         ELSE [f[n - 1] EXCEPT ![q[n][1]].sound = IF Prepares(q[n][2]) THEN notify ELSE 0]]

\* The machine and what the story expects, when one more sound has begun.
OneMore(v, sound, notify) ==
  LET t == Prepared([channels |-> v.channels, awaited |-> v.awaited], sound[1], sound[2], notify)
  IN  [channels |-> t.channels, awaited |-> t.awaited,
       expected |-> Expecting(v.expected, sound[1], IF Prepares(sound[2]) THEN notify ELSE 0)]

\* Machines with the channels there are.
Begins ==
  {v \in PollsOf(DOMAIN channels) :
     PollTrue(v) /\ DOMAIN v.channels = DOMAIN channels /\ DOMAIN v.awaited \subseteq DOMAIN awaited}

IsOneMore(v, sound, notify) ==
  LET s == [channels |-> v.channels, awaited |-> v.awaited]
      w == OneMore(v, sound, notify)
  IN  /\ w \in Begins
      /\ Prepared(s, sound[1], sound[2], notify) = [channels |-> w.channels, awaited |-> w.awaited]
      /\ [v.expected EXCEPT ![sound[1]].sound = IF Prepares(sound[2]) THEN notify ELSE 0] = w.expected

LEMMA OneMoreKeeps ==
  ASSUME NEW v \in Begins, NEW sound \in (DOMAIN channels) \X Sounds, NEW notify \in Nat
  PROVE  IsOneMore(v, sound, notify)
<1> DEFINE c == sound[1]
           r == sound[2]
           s == [channels |-> v.channels, awaited |-> v.awaited]
           told == IF Prepares(r) THEN notify ELSE 0
           t == Prepared(s, c, r, notify)
           w == OneMore(v, sound, notify)
<1>1. /\ PollTrue(v) /\ DOMAIN v.channels = DOMAIN channels /\ DOMAIN v.awaited \subseteq DOMAIN awaited
      /\ c \in DOMAIN v.channels /\ r \in Sounds
  <2>1. c \in DOMAIN channels /\ r \in Sounds
    <3>1. PICK d \in DOMAIN channels, x \in Sounds : sound = <<d, x>>
      OBVIOUS
    <3> QED BY <3>1
  <2> HIDE DEF c, r
  <2> QED BY <2>1 DEF Begins
<1>2. s.channels = v.channels /\ s.awaited = v.awaited
  OBVIOUS
<1>3. w = [channels |-> t.channels, awaited |-> t.awaited, expected |-> Expecting(v.expected, c, told)]
  BY DEF OneMore
<1>4. IsPrepared(s, v.expected, next_id, FALSE, c, r, notify, told)
  <2>1. Matched(s.channels, s.awaited, v.expected, next_id, {}, FALSE) /\ c \in DOMAIN s.channels
    BY <1>1, <1>2 DEF PollTrue
  <2>2. told = IF Prepares(r) THEN notify ELSE 0
    OBVIOUS
  <2> HIDE DEF s, told, c, r
  <2> QED BY <1>1, <2>1, <2>2, PreparedKeeps
<1> HIDE DEF s
<1>5. /\ Matched(t.channels, t.awaited, Expecting(v.expected, c, told), next_id, {}, FALSE)
      /\ DOMAIN t.channels = DOMAIN s.channels /\ DOMAIN t.awaited \subseteq DOMAIN s.awaited
      /\ t = [channels |-> t.channels, awaited |-> t.awaited]
  BY <1>4 DEF IsPrepared
<1>6. /\ v.expected[c] \in Expectation /\ c \in DOMAIN v.expected
      /\ v.expected = [d \in DOMAIN v.expected |-> v.expected[d]]
  <2>1. True(v.channels[c], v.expected[c], FALSE, FALSE) /\ DOMAIN v.expected = DOMAIN v.channels
    BY <1>1, MatchedEach
  <2> QED BY <1>1, <2>1 DEF True, PollTrue, Matched
<1> HIDE DEF t, told, w
<1>7. w.channels = t.channels /\ w.awaited = t.awaited /\ w.expected = Expecting(v.expected, c, told) /\ IsPoll(w)
  BY <1>3 DEF IsPoll
<1>8. PollTrue(w) /\ DOMAIN w.channels = DOMAIN channels /\ DOMAIN w.awaited \subseteq DOMAIN awaited
  BY <1>1, <1>2, <1>5, <1>7 DEF PollTrue
<1>9. w \in Begins
  BY <1>8, PollTyped DEF Begins
<1>10. [v.expected EXCEPT ![c].sound = told] = w.expected
  BY <1>6, <1>7, ExpectingIs
<1>11. t = [channels |-> w.channels, awaited |-> w.awaited]
  BY <1>5, <1>7
<1> QED BY <1>9, <1>10, <1>11 DEF t, told, w, s, IsOneMore

LEMMA MultiStep ==
  ASSUME SoundInv, NEW sounds, sounds \in Seq((1 .. MaxChannels) \X Resources), NEW notify \in Nat,
         PlayMulti(sounds, notify)
  PROVE  SoundInv'
<1> DEFINE kept == {i \in DOMAIN sounds : sounds[i][1] \in DOMAIN channels}
           real == Retain(sounds, kept)
           N == Len(real)
           after == CHOOSE f : IsAfter(f, real, notify)
           told == CHOOSE f : IsTold(f, real, notify)
           now == [channels |-> channels, awaited |-> awaited, expected |-> expected]
           g == [k \in 1 .. N |-> [v \in Begins |-> OneMore(v, real[k], notify)]]
<1>1. /\ resuming = <<>> /\ UNCHANGED <<next_channel, stream, next_id, tasks, decoding, results, resuming>>
      /\ channels' = after[N].channels /\ awaited' = after[N].awaited /\ expected' = told[N]
  BY Zenon DEF PlayMulti, IsAfter, IsTold, Become, soundWorker
<1>2. N \in Nat /\ \A k \in 1 .. N : real[k] \in (DOMAIN channels) \X Sounds
  <2> DEFINE S == (1 .. MaxChannels) \X Resources
  <2>1. real \in Seq(S) /\ IsRest(real, sounds, kept)
    <3> HIDE DEF S, kept
    <3> QED BY RetainProperties DEF S
  <2> HIDE DEF real
  <2>2. PICK h : /\ IsPart(real, sounds, h)
                 /\ \A j \in 1 .. Len(sounds) : (j \in kept <=> \E i \in 1 .. Len(real) : h[i] = j)
    BY <2>1 DEF IsRest
  <2>3. ASSUME NEW k \in 1 .. N PROVE real[k] \in (DOMAIN channels) \X Sounds
    <3>1. h[k] \in 1 .. Len(sounds) /\ real[k] = sounds[h[k]] /\ h[k] \in kept
      BY <2>2 DEF IsPart
    <3>2. sounds[h[k]] \in S /\ sounds[h[k]][1] \in DOMAIN channels
      BY <3>1
    <3> DEFINE x == sounds[h[k]]
    <3>3. x = <<x[1], x[2]>> /\ x[2] \in Resources
      BY <3>2
    <3>4. x[2] \in Sounds
      BY <3>3 DEF Sounds
    <3>5. x \in (DOMAIN channels) \X Sounds
      <4> DEFINE d == x[1]
                 r == x[2]
      <4>1. d \in DOMAIN channels /\ r \in Sounds /\ x = <<d, r>>
        BY <3>2, <3>3, <3>4
      <4> HIDE DEF d, r, x
      <4>2. <<d, r>> \in (DOMAIN channels) \X Sounds
        BY <4>1
      <4> QED BY <4>1, <4>2
    <3> HIDE DEF x
    <3> QED BY <3>1, <3>5 DEF x
  <2>4. N \in Nat
    BY <2>1
  <2> QED BY <2>3, <2>4
<1>3. now \in Begins
  <2>1. PollTrue(now) /\ now.channels = channels /\ now.awaited = awaited
    BY <1>1, QuietNow DEF PollTrue, IsPoll
  <2> HIDE DEF now
  <2> QED BY <2>1, PollTyped DEF Begins
<1> HIDE DEF real, N
<1>4. ASSUME NEW k \in 1 .. N, NEW v \in Begins PROVE OneMore(v, real[k], notify) \in Begins
  BY <1>2, OneMoreKeeps DEF IsOneMore
<1>5. PICK h \in [0 .. N -> Begins] : IsSteps(h, N, now, g)
  <2>1. g \in [1 .. N -> [Begins -> Begins]]
    BY <1>4
  <2> HIDE DEF g, now
  <2> QED BY <1>2, <1>3, <2>1, StepsExist
<1>6. /\ h[0] = now
      /\ \A k \in 1 .. N : k - 1 \in 0 .. N /\ h[k - 1] \in Begins /\ h[k] = OneMore(h[k - 1], real[k], notify)
  <2>1. 0 \in 0 .. N /\ \A k \in 1 .. N : k \in 0 .. N /\ k # 0 /\ k - 1 \in 0 .. N
    BY <1>2
  <2>2. \A k \in 1 .. N : h[k] = g[k][h[k - 1]] /\ h[k - 1] \in Begins
    BY <1>5, <2>1 DEF IsSteps
  <2>3. h[0] = now
    BY <1>5, <2>1 DEF IsSteps
  <2> QED BY <2>1, <2>2, <2>3
<1> DEFINE a == [n \in 0 .. N |-> [channels |-> h[n].channels, awaited |-> h[n].awaited]]
           b == [n \in 0 .. N |-> h[n].expected]
<1> HIDE DEF g
<1>7. ASSUME NEW k \in 1 .. N
      PROVE  /\ a[k] = Prepared(a[k - 1], real[k][1], real[k][2], notify)
             /\ b[k] = [b[k - 1] EXCEPT ![real[k][1]].sound = IF Prepares(real[k][2]) THEN notify ELSE 0]
  <2> DEFINE v == h[k - 1]
  <2>1. v \in Begins /\ h[k] = OneMore(v, real[k], notify) /\ real[k] \in (DOMAIN channels) \X Sounds
    BY <1>2, <1>6
  <2>2. /\ k \in 0 .. N /\ a[k - 1] = [channels |-> v.channels, awaited |-> v.awaited] /\ b[k - 1] = v.expected
        /\ a[k] = [channels |-> h[k].channels, awaited |-> h[k].awaited] /\ b[k] = h[k].expected
    BY <1>2, <1>6
  <2> DEFINE s == [channels |-> v.channels, awaited |-> v.awaited]
             w == OneMore(v, real[k], notify)
             Tell1(x) == [x EXCEPT ![real[k][1]].sound = IF Prepares(real[k][2]) THEN notify ELSE 0]
  <2>3. /\ Prepared(s, real[k][1], real[k][2], notify) = [channels |-> w.channels, awaited |-> w.awaited]
        /\ Tell1(v.expected) = w.expected
    <3> HIDE DEF v
    <3>1. IsOneMore(v, real[k], notify)
      BY <2>1, OneMoreKeeps
    <3> QED BY <3>1 DEF IsOneMore
  <2> HIDE DEF v, a, b, s, w, Tell1
  <2>4. a[k - 1] = s /\ b[k - 1] = v.expected /\ h[k] = w
    BY <2>1, <2>2 DEF s, w
  <2>5. a[k] = Prepared(a[k - 1], real[k][1], real[k][2], notify) /\ b[k] = Tell1(b[k - 1])
    BY <2>2, <2>3, <2>4
  <2> QED BY <2>5 DEF Tell1
<1>8. a[0] = Now /\ b[0] = expected
  BY <1>2, <1>6 DEF Now
<1> HIDE DEF a, b
<1>9. IsAfter(after, real, notify)
  <2>1. a = [n \in 0 .. N |-> IF n = 0 THEN Now ELSE Prepared(a[n - 1], real[n][1], real[n][2], notify)]
    <3> DEFINE Forth(f, n) == Prepared(f[n - 1], real[n][1], real[n][2], notify)
    <3>1. \A n \in 1 .. N : a[n] = Forth(a, n)
      BY <1>7
    <3> HIDE DEF Forth
    <3>2. \A n \in 0 .. N : a[n] = IF n = 0 THEN Now ELSE Forth(a, n)
      BY <1>2, <1>8, <3>1
    <3>3. a = [n \in 0 .. N |-> IF n = 0 THEN Now ELSE Forth(a, n)]
      BY <3>2 DEF a
    <3> QED BY <3>3 DEF Forth
  <2>2. IsAfter(a, real, notify)
    BY <2>1 DEF IsAfter, N
  <2> QED BY <2>2
<1>10. IsTold(told, real, notify)
  <2> DEFINE Forth(f, n) == [f[n - 1] EXCEPT ![real[n][1]].sound = IF Prepares(real[n][2]) THEN notify ELSE 0]
  <2>1. b = [n \in 0 .. N |-> IF n = 0 THEN expected ELSE Forth(b, n)]
    <3>1. \A n \in 1 .. N : b[n] = Forth(b, n)
      BY <1>7
    <3> HIDE DEF Forth
    <3>2. \A n \in 0 .. N : b[n] = IF n = 0 THEN expected ELSE Forth(b, n)
      BY <1>2, <1>8, <3>1
    <3> QED BY <3>2 DEF b
  <2>2. IsTold(b, real, notify)
    BY <2>1, Zenon DEF IsTold, N
  <2> QED BY <2>2
<1> HIDE DEF after, told
<1>11. /\ after[0] = Now
       /\ \A k \in 1 .. N : after[k] = Prepared(after[k - 1], real[k][1], real[k][2], notify)
  <2>1. \A k \in 0 .. N : after[k] = IF k = 0 THEN Now ELSE Prepared(after[k - 1], real[k][1], real[k][2], notify)
    BY <1>9, Zenon DEF IsAfter, N
  <2>2. 0 \in 0 .. N /\ \A k \in 1 .. N : k \in 0 .. N /\ k # 0
    BY <1>2
  <2> QED BY <2>1, <2>2
<1>12. /\ told[0] = expected
       /\ \A k \in 1 .. N :
            told[k] = [told[k - 1] EXCEPT ![real[k][1]].sound = IF Prepares(real[k][2]) THEN notify ELSE 0]
  <2> DEFINE Forth(f, n) == [f[n - 1] EXCEPT ![real[n][1]].sound = IF Prepares(real[n][2]) THEN notify ELSE 0]
  <2>1. \A k \in 0 .. N : told[k] = IF k = 0 THEN expected ELSE Forth(told, k)
    BY <1>10, Zenon DEF IsTold, N
  <2> HIDE DEF Forth
  <2>2. 0 \in 0 .. N /\ \A k \in 1 .. N : k \in 0 .. N /\ k # 0
    BY <1>2
  <2>3. told[0] = expected /\ \A k \in 1 .. N : told[k] = Forth(told, k)
    BY <2>1, <2>2
  <2> QED BY <2>3 DEF Forth
<1> DEFINE G == {n \in Nat : n <= N => after[n] = a[n] /\ told[n] = b[n]}
<1>13. 0 \in G
  BY <1>8, <1>11, <1>12
<1>14. ASSUME NEW n \in G PROVE n + 1 \in G
  <2> SUFFICES ASSUME n + 1 <= N PROVE after[n + 1] = a[n + 1] /\ told[n + 1] = b[n + 1]
    OBVIOUS
  <2>1. n + 1 \in 1 .. N /\ (n + 1) - 1 = n /\ after[n] = a[n] /\ told[n] = b[n]
    BY <1>2
  <2> DEFINE k == n + 1
             Forth(x) == Prepared(x, real[k][1], real[k][2], notify)
             Tell1(x) == [x EXCEPT ![real[k][1]].sound = IF Prepares(real[k][2]) THEN notify ELSE 0]
  <2>2. k \in 1 .. N /\ k - 1 = n
    BY <2>1
  <2>3. a[k] = Forth(a[k - 1]) /\ b[k] = Tell1(b[k - 1])
    <3> HIDE DEF k
    <3> QED BY <1>7, <2>2
  <2>4. after[k] = Forth(after[k - 1])
    <3> HIDE DEF k
    <3> QED BY <1>11, <2>2
  <2>5. told[k] = Tell1(told[k - 1])
    <3> HIDE DEF k
    <3> QED BY <1>12, <2>2
  <2> HIDE DEF k, Forth, Tell1
  <2>6. after[k] = a[k] /\ told[k] = b[k]
    BY <2>1, <2>2, <2>3, <2>4, <2>5
  <2> QED BY <2>6 DEF k
<1>15. after[N] = a[N] /\ told[N] = b[N]
  <2>1. G \in SUBSET Nat
    OBVIOUS
  <2>2. G = Nat
    <3> HIDE DEF G
    <3> QED BY <1>13, <1>14, <2>1, SetInduction
  <2> QED BY <1>2, <2>2
<1> DEFINE v == h[N]
<1>16. v \in Begins /\ channels' = v.channels /\ awaited' = v.awaited /\ expected' = v.expected
  <2>1. N \in 0 .. N
    BY <1>2
  <2>2. a[N] = [channels |-> v.channels, awaited |-> v.awaited] /\ b[N] = v.expected
    BY <2>1 DEF a, b
  <2> QED BY <1>1, <1>5, <1>15, <2>1, <2>2
<1> HIDE DEF v
<1>17. /\ Matched(channels', awaited', expected', next_id', {}, FALSE)
       /\ DOMAIN channels' = DOMAIN channels /\ DOMAIN awaited' \subseteq DOMAIN awaited
  BY <1>1, <1>16 DEF Begins, PollTrue
<1>18. TasksTrue'
  BY <1>1, <1>17, TasksSame DEF SoundInv
<1> QED BY <1>1, <1>17, <1>18, QuietThen DEF SoundInv

-----------------------------------------------------------------------------
LEMMA SoundInitKeeps == SoundInit => SoundInv
<1> SUFFICES ASSUME SoundInit PROVE SoundInv
  OBVIOUS
<1>1. /\ channels = <<>> /\ next_channel = 1 /\ stream \in BOOLEAN /\ awaited = <<>> /\ next_id = 0
      /\ tasks = <<>> /\ decoding = <<>> /\ results = <<>> /\ resuming = <<>> /\ expected = <<>>
  BY DEF SoundInit
<1>2. DOMAIN <<>> = {} /\ <<>> = [c \in DOMAIN <<>> |-> <<>>[c]]
  OBVIOUS
<1>3. AwaitsTrue(channels, awaited, next_id)
  BY <1>1, <1>2 DEF AwaitsTrue
<1>4. Matched(channels, awaited, expected, next_id, Range(resuming), resuming # <<>>)
  BY <1>1, <1>2, <1>3 DEF Matched
<1>5. TasksTrue
  <2>1. Range(<<>>) = {} /\ IsInjective(<<>>) /\ <<>> \in Seq(SoundTask)
    BY SmallSequences
  <2>2. TasksOf(<<>>, <<>>, <<>>, 0, DOMAIN <<>>)
    BY <1>2, <2>1 DEF TasksOf
  <2> QED BY <1>1, <2>2, TasksAre
<1>6. ResumingTrue
  BY <1>1, SmallSequences DEF ResumingTrue
<1>7. DOMAIN channels \subseteq 1 .. next_channel - 1
  BY <1>1, <1>2
<1> QED BY <1>1, <1>4, <1>5, <1>6, <1>7 DEF SoundInv

LEMMA SoundNextKeeps == SoundInv /\ [SoundNext]_soundVars => SoundInv'
<1> SUFFICES ASSUME SoundInv, [SoundNext]_soundVars PROVE SoundInv'
  OBVIOUS
<1>1. Notify \subseteq Nat /\ FullVolume \in Nat /\ 0 \in Nat
  BY SoundAssumption
<1>2. CASE SoundPlays
  <2>1. CASE Create(FullVolume)
    BY <2>1, CreateStep
  <2>2. ASSUME NEW c \in DOMAIN channels, NEW r \in Resources, NEW repeats \in {0, 1, Forever}, NEW n \in Notify,
               Play(c, r, repeats, n)
        PROVE  SoundInv'
    BY <1>1, <2>2, PlayStep DEF Repeats
  <2>3. ASSUME NEW c \in DOMAIN channels, StopSound(c) PROVE SoundInv'
    BY <2>3, StopStep
  <2>4. ASSUME NEW c \in DOMAIN channels, Destroy(c) PROVE SoundInv'
    BY <2>4, DestroyStep
  <2>5. ASSUME NEW c \in DOMAIN channels, NEW paused \in BOOLEAN, SetPaused(c, paused) PROVE SoundInv'
    BY <2>5, PauseStep
  <2>6. ASSUME NEW n \in Notify, NEW sounds \in [1 .. 2 -> (1 .. MaxChannels) \X Resources], PlayMulti(sounds, n)
        PROVE  SoundInv'
    <3> DEFINE S == (1 .. MaxChannels) \X Resources
    <3> HIDE DEF S
    <3>1. sounds \in Seq(S) /\ n \in Nat
      <4>1. sounds \in [1 .. 2 -> S]
        BY DEF S
      <4>2. [1 .. 2 -> S] \in {[1 .. k -> S] : k \in Nat}
        OBVIOUS
      <4>3. Seq(S) = UNION {[1 .. k -> S] : k \in Nat}
        BY SeqDef
      <4> QED BY <1>1, <4>1, <4>2, <4>3
    <3> USE DEF S
    <3> QED BY <2>6, <3>1, MultiStep
  <2> QED BY <1>2, <2>1, <2>2, <2>3, <2>4, <2>5, <2>6 DEF SoundPlays
<1>3. CASE SoundVolumes
  <2>1. PICK c \in DOMAIN channels, v \in {0, FullVolume} :
          SetVolume(c, v) \/ \E n \in Notify : SetVolumeSlowly(c, v, n)
    BY <1>3 DEF SoundVolumes
  <2>2. v \in Nat
    BY <1>1
  <2>3. CASE SetVolume(c, v)
    BY <2>2, <2>3, VolumeStep
  <2>4. ASSUME NEW n \in Notify, SetVolumeSlowly(c, v, n) PROVE SoundInv'
    BY <1>1, <2>2, <2>4, SlowVolumeStep
  <2> QED BY <2>1, <2>3, <2>4
<1>4. CASE SoundHost
  BY <1>4, PollStep, ResumeSessionStep, ResumeSoundStep, ResumeFadesStep DEF SoundHost
<1>5. CASE SoundDevice
  BY <1>5, RunOutStep DEF SoundDevice
<1>6. CASE Take
  BY <1>6, TakeStep
<1>7. CASE Send
  BY <1>7, SendStep
<1>8. CASE UNCHANGED soundVars
  BY <1>8, StutterStep
<1> QED BY <1>2, <1>3, <1>4, <1>5, <1>6, <1>7, <1>8 DEF SoundNext

\* The invariant says what the property says, and more.
LEMMA SoundInvTells == SoundInv => SoundsAreTold
<1> SUFFICES ASSUME SoundInv PROVE SoundsAreTold
  OBVIOUS
<1>1. /\ AwaitsTrue(channels, awaited, next_id) /\ TasksTrue /\ DOMAIN expected = DOMAIN channels
      /\ \A c \in DOMAIN channels :
           /\ channels[c] \in Channel /\ PlaysTrue(channels[c], expected[c], c \in Range(resuming))
           /\ FadesTrue(channels[c], expected[c], resuming # <<>>)
  BY DEF SoundInv, Matched, True
<1>2. DOMAIN awaited = {channels[c].pending : c \in DOMAIN channels} \ {NoRequest}
  <2>1. \A id \in DOMAIN awaited : /\ id # NoRequest /\ awaited[id].channel \in DOMAIN channels
                                   /\ channels[awaited[id].channel].pending = id
    BY <1>1 DEF AwaitsTrue, NoRequest
  <2>2. \A c \in DOMAIN channels : channels[c].pending # NoRequest => channels[c].pending \in DOMAIN awaited
    BY <1>1 DEF AwaitsTrue
  <2> QED BY <2>1, <2>2
<1>3. \A id \in DOMAIN awaited : channels[awaited[id].channel].pending = id
  BY <1>1 DEF AwaitsTrue
<1>4. /\ DOMAIN awaited \subseteq RequestsOf(tasks) \cup RequestsOf(decoding) \cup RequestsOf(results)
      /\ IsInjective(tasks \o decoding \o results)
  BY <1>1 DEF TasksTrue, InHand, RequestsOf, Range
<1>5. ASSUME NEW c \in DOMAIN channels
      PROVE  LET ch == channels[c] IN
             /\ c \notin Range(resuming) => (ch.active <=> ch.sink # {} \/ ch.pending # NoRequest)
             /\ ch.sink = {} \/ ch.pending = NoRequest
             /\ \A x \in ch.sink : x.volume = ch.volume /\ x.paused = ch.paused
  BY <1>1 DEF PlaysTrue
<1>6. Sounding
  BY <1>2, <1>3, <1>4, <1>5 DEF Sounding
<1>7. ASSUME NEW c \in DOMAIN channels
      PROVE  LET fade == IF resuming = <<>> THEN channels[c].fade ELSE channels[c].fade_resume
             IN  /\ channels[c].notify = expected[c].sound
                 /\ expected[c].fade = IF fade = {} THEN 0 ELSE (CHOOSE f \in fade : TRUE).notify
                 /\ expected[c].sound # 0 => channels[c].active
  <2> DEFINE fade == IF resuming = <<>> THEN channels[c].fade ELSE channels[c].fade_resume
  <2>1. /\ fade = {} => expected[c].fade = 0
        /\ \A f \in fade : expected[c].fade = f.notify
    BY <1>1 DEF FadesTrue
  <2>2. channels[c].notify = expected[c].sound /\ (expected[c].sound # 0 => channels[c].active)
    BY <1>1 DEF PlaysTrue
  <2> HIDE DEF fade
  <2>3. expected[c].fade = IF fade = {} THEN 0 ELSE (CHOOSE f \in fade : TRUE).notify
    BY <2>1
  <2> QED BY <2>2, <2>3 DEF fade
<1>8. ToldOnce
  BY <1>7 DEF ToldOnce
<1> QED BY <1>6, <1>8 DEF SoundsAreTold

\* The story is told of each sound and each fade it asked to be told of, once,
\* over late results, failures and resumed sessions; and the channels, the
\* device and the worker agree (poll_sound, queue_sound_at and stop_sound of
\* sound.rs).
THEOREM SoundsStayTold == SoundSpec => []SoundsAreTold
<1>1. SoundInit => SoundInv
  BY SoundInitKeeps
<1>2. SoundInv /\ [SoundNext]_soundVars => SoundInv'
  BY SoundNextKeeps
<1>3. SoundInv => SoundsAreTold
  BY SoundInvTells
<1> QED BY <1>1, <1>2, <1>3, PTL DEF SoundSpec

=============================================================================
