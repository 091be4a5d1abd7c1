------------------------------ MODULE Translator ------------------------------
(***************************************************************************)
(* The translation of a story's turns (src/src/translation.rs and its use  *)
(* by the desktop application, src/src/app.rs).                            *)
(*                                                                         *)
(* Two threads.  The user interface records turns, submits them and polls  *)
(* for results; the worker takes one request at a time off a bounded queue,*)
(* asks an HTTP service and sends the answer through a bounded channel.    *)
(* A reset abandons what is under way without waiting for the worker: it   *)
(* relies on a generation the worker compares, and on request numbers that *)
(* are never used again for the answers that slip past that comparison.    *)
(*                                                                         *)
(* A key is a text with the settings it is translated with; the translation*)
(* of a key is written as the key itself, an error as NoText.              *)
(***************************************************************************)
EXTENDS Queues, FiniteSets, FiniteSetsExt, SequencesExt

CONSTANTS
  Keys, NoText,
  Oversized,        (* keys whose text exceeds MAX_REQUEST_BYTES            *)
  Bytes,            (* TranslationKey::byte_len of a key                    *)
  TextBytes,        (* size of a translation                                *)
  QueueCap,         (* REQUEST_QUEUE_CAPACITY: 32                           *)
  ChannelCap,       (* capacity of the result channel: 4                    *)
  MaxPendingTurns,  (* MAX_PENDING_TURNS: 128                               *)
  MaxPendingBytes,  (* MAX_PENDING_BYTES: 8 MiB                             *)
  MaxCacheEntries,  (* MAX_CACHE_ENTRIES: 256                               *)
  MaxCacheBytes,    (* MAX_CACHE_BYTES: 8 MiB                               *)
  MaxTurns,         (* bound of the model on the turns of one story         *)
  MaxIds,           (* bound of the model on next_id                        *)
  MaxGeneration     (* bound of the model on generation                     *)

ASSUME TranslatorAssumption ==
  /\ NoText \notin Keys
  /\ Oversized \subseteq Keys
  /\ Bytes \in [Keys -> Nat \ {0}]
  /\ TextBytes \in Nat
  /\ {QueueCap, ChannelCap, MaxPendingTurns, MaxPendingBytes} \subseteq Nat \ {0}
  /\ {MaxCacheEntries, MaxCacheBytes, MaxTurns, MaxIds, MaxGeneration} \subseteq Nat \ {0}

VARIABLES
  \* RequestQueue, shared by the two threads
  queue, closed, generation,
  \* the worker: what it does, and the request it holds, if any
  worker, job,
  \* the result channel
  channel,
  \* Translator, owned by the user interface
  cache, in_flight, pending, pending_turns, pending_bytes, next_id,
  \* the application: what it does, the results of the poll under way, its turns
  ui, ready, turns, pending_translations

queueVars   == <<queue, closed, generation>>
workerVars  == <<worker, job>>
requestVars == <<in_flight, pending, pending_turns, pending_bytes, next_id>>
appVars     == <<ready, turns, pending_translations>>

vars == <<queueVars, workerVars, channel, cache, requestVars, ui, appVars>>

\* A request, and in the end its answer in text.  (The code's result carries no
\* generation: nothing reads it once the result is in the channel.)
Request == [id : Nat, generation : Nat, key : Keys, text : Keys \cup {NoText}]
Turn == [key : Keys, status : {"not_requested", "pending", "complete"}, text : Keys \cup {NoText}]

\* Updates of the hash maps.
Put(f, k, v) == [x \in DOMAIN f \cup {k} |-> IF x = k THEN v ELSE f[x]]
Without(f, k) == [x \in DOMAIN f \ {k} |-> f[x]]
Empty == [x \in {} |-> {}]

-----------------------------------------------------------------------------
(* TranslationCache: the entries in the order of their last use *)

KeysOf(c) == {c[i].key : i \in DOMAIN c}
CachedKeys == KeysOf(cache)
CachedText(k) == (CHOOSE e \in {cache[i] : i \in DOMAIN cache} : e.key = k).text
EntryBytes(k) == Bytes[k] + TextBytes
CacheBytes(c) == MapThenSumSet(EntryBytes, KeysOf(c))
Others(k) == Retain(cache, {i \in DOMAIN cache : cache[i].key # k})

\* get: the entry becomes the most recently used.
Touched(k) == Append(Others(k), [key |-> k, text |-> CachedText(k)])

\* insert: the least recently used entries make room.
Inserted(k, text) ==
  LET rest == Others(k)
      fits(n) == LET kept == SubSeq(rest, n + 1, Len(rest)) IN
                 Len(kept) < MaxCacheEntries /\ CacheBytes(kept) + EntryBytes(k) <= MaxCacheBytes
      dropped == Min({n \in 0 .. Len(rest) : fits(n) \/ n = Len(rest)})
  IN IF EntryBytes(k) > MaxCacheBytes THEN cache
     ELSE Append(SubSeq(rest, dropped + 1, Len(rest)), [key |-> k, text |-> text])

-----------------------------------------------------------------------------
\* The worker thread may fail to start: the queue is closed then.
Init ==
  /\ queue = <<>> /\ generation = 0
  /\ \/ closed = FALSE /\ worker = "idle"
     \/ closed = TRUE /\ worker = "stopped"
  /\ job = <<>>
  /\ channel = <<>>
  /\ cache = <<>>
  /\ in_flight = Empty /\ pending = Empty
  /\ pending_turns = 0 /\ pending_bytes = 0
  /\ next_id = 1
  /\ ui = "free" /\ ready = <<>> /\ turns = <<>>
  /\ pending_translations = Empty

-----------------------------------------------------------------------------
(* finish_turn and submit: a turn is recorded with what became of it *)

PendingBytes(k) == 3 * Bytes[k]

Record(k, status, text) ==
  /\ ui = "free" /\ Len(turns) < MaxTurns
  /\ turns' = Append(turns, [key |-> k, status |-> status, text |-> text])
  /\ UNCHANGED <<workerVars, channel, closed, generation, ui, ready>>

\* Translation is switched off.
NotRequested(k) ==
  /\ Record(k, "not_requested", NoText)
  /\ UNCHANGED <<queue, cache, requestVars, pending_translations>>

FromCache(k) ==
  /\ k \notin Oversized /\ k \in CachedKeys
  /\ Record(k, "complete", CachedText(k))
  /\ cache' = Touched(k)
  /\ UNCHANGED <<queue, requestVars, pending_translations>>

\* Refused before the turn gets a number.
Refused(k) ==
  /\ k \in Oversized \/ (k \notin CachedKeys /\ pending_turns >= MaxPendingTurns)
  /\ Record(k, "complete", NoText)
  /\ UNCHANGED <<queue, cache, requestVars, pending_translations>>

\* The turn takes the next number, whatever becomes of it.
Numbered(k) ==
  /\ k \notin Oversized /\ k \notin CachedKeys /\ pending_turns < MaxPendingTurns
  /\ next_id <= MaxIds
  /\ next_id' = next_id + 1
  /\ UNCHANGED cache

Waiting(k) ==
  /\ Record(k, "pending", NoText)
  /\ pending_translations' = Put(pending_translations, next_id, Len(turns) + 1)
  /\ pending_turns' = pending_turns + 1

\* The turn waits for the request of an earlier one.
Merged(k) ==
  /\ Numbered(k)
  /\ k \in DOMAIN in_flight
  /\ Waiting(k)
  /\ in_flight' = Put(in_flight, k, Append(in_flight[k], next_id))
  /\ UNCHANGED <<queue, pending, pending_bytes>>

Admissible(k) ==
  /\ pending_bytes + PendingBytes(k) <= MaxPendingBytes
  /\ ~ closed
  /\ Len(queue) < QueueCap

Queued(k) ==
  /\ Numbered(k)
  /\ k \notin DOMAIN in_flight /\ Admissible(k)
  /\ Waiting(k)
  /\ queue' = Append(queue, [id |-> next_id, generation |-> generation, key |-> k, text |-> NoText])
  /\ in_flight' = Put(in_flight, k, <<next_id>>)
  /\ pending' = Put(pending, next_id, k)
  /\ pending_bytes' = pending_bytes + PendingBytes(k)

NotQueued(k) ==
  /\ Numbered(k)
  /\ k \notin DOMAIN in_flight /\ ~ Admissible(k)
  /\ Record(k, "complete", NoText)
  /\ UNCHANGED <<queue, in_flight, pending, pending_turns, pending_bytes, pending_translations>>

FinishTurn ==
  \E k \in Keys :
    NotRequested(k) \/ FromCache(k) \/ Refused(k) \/ Merged(k) \/ Queued(k) \/ NotQueued(k)

-----------------------------------------------------------------------------
(* poll, one result at a time, and what the application does with them *)

PollBegin ==
  /\ ui = "free"
  /\ ui' = "polling"
  /\ UNCHANGED <<queueVars, workerVars, channel, cache, requestVars, appVars>>

\* Mutant: a result counts for one turn, however many it settles.
PollOneTurn ==
  LET r == Head(channel) IN
  /\ ui = "polling" /\ channel # <<>>
  /\ channel' = Tail(channel)
  /\ IF r.id \notin DOMAIN pending
     THEN UNCHANGED <<cache, requestVars, ready>>
     ELSE LET k == pending[r.id] IN
          /\ pending' = Without(pending, r.id)
          /\ in_flight' = Without(in_flight, k)
          /\ pending_turns' = pending_turns - 1
          /\ pending_bytes' = pending_bytes - PendingBytes(k)
          /\ cache' = IF r.text = NoText THEN cache ELSE Inserted(k, r.text)
          /\ ready' = ready \o [i \in DOMAIN in_flight[k] |-> [id |-> in_flight[k][i], text |-> r.text]]
          /\ UNCHANGED next_id
  /\ UNCHANGED <<queueVars, workerVars, ui, turns, pending_translations>>

\* An answer nobody waits for is dropped; the others settle all their turns.
PollOne ==
  LET r == Head(channel) IN
  /\ ui = "polling" /\ channel # <<>>
  /\ channel' = Tail(channel)
  /\ IF r.id \notin DOMAIN pending
     THEN UNCHANGED <<cache, requestVars, ready>>
     ELSE LET k == pending[r.id]
              subscribers == IF k \in DOMAIN in_flight THEN in_flight[k] ELSE <<>>
          IN /\ pending' = Without(pending, r.id)
             /\ in_flight' = Without(in_flight, k)
             /\ pending_turns' = pending_turns - Len(subscribers)
             /\ pending_bytes' = pending_bytes - PendingBytes(k)
             /\ cache' = IF r.text = NoText THEN cache ELSE Inserted(k, r.text)
             /\ ready' = ready \o [i \in DOMAIN subscribers |-> [id |-> subscribers[i], text |-> r.text]]
             /\ UNCHANGED next_id
  /\ UNCHANGED <<queueVars, workerVars, ui, turns, pending_translations>>

\* The results the poll brought for turn i: one, or none.
Results(i) == {r.text : r \in {r \in ToSet(ready) : r.id \in DOMAIN pending_translations
                                                    /\ pending_translations[r.id] = i}}

PollEnd ==
  /\ ui = "polling" /\ channel = <<>>
  /\ ui' = "free"
  /\ turns' = [i \in DOMAIN turns |->
                 IF Results(i) = {} THEN turns[i]
                 ELSE [turns[i] EXCEPT !.status = "complete", !.text = CHOOSE t \in Results(i) : TRUE]]
  /\ pending_translations' =
       [id \in DOMAIN pending_translations \ {r.id : r \in ToSet(ready)} |->
          pending_translations[id]]
  /\ ready' = <<>>
  /\ UNCHANGED <<queueVars, workerVars, channel, cache, requestVars>>

-----------------------------------------------------------------------------
(* Opening or restarting a story, and closing the application *)

Abandon ==
  /\ generation < MaxGeneration
  /\ generation' = generation + 1
  /\ queue' = <<>>

\* Mutant: a new story counts its requests from 1 again.
ForgetIds ==
  /\ channel' = <<>>
  /\ cache' = <<>>
  /\ in_flight' = Empty /\ pending' = Empty
  /\ pending_turns' = 0 /\ pending_bytes' = 0
  /\ turns' = <<>> /\ pending_translations' = Empty
  /\ next_id' = 1
  /\ UNCHANGED ready

\* Mutant: the requests of the old story still look as if they were under way.
ForgetTurns ==
  /\ channel' = <<>>
  /\ cache' = <<>>
  /\ pending_turns' = 0 /\ pending_bytes' = 0
  /\ turns' = <<>> /\ pending_translations' = Empty
  /\ UNCHANGED <<in_flight, pending, next_id, ready>>

Forget ==
  /\ channel' = <<>>
  /\ cache' = <<>>
  /\ in_flight' = Empty /\ pending' = Empty
  /\ pending_turns' = 0 /\ pending_bytes' = 0
  /\ turns' = <<>> /\ pending_translations' = Empty
  /\ UNCHANGED <<next_id, ready>>

\* The worker keeps the request it has: its answer may come later.
Reset ==
  /\ ui = "free"
  /\ Abandon
  /\ Forget
  /\ UNCHANGED <<closed, workerVars, ui>>

\* Drop::drop of Translator, then the drop of its fields.
Close ==
  /\ ui = "free"
  /\ ui' = "closing"
  /\ generation' = generation + 1
  /\ queue' = <<>> /\ closed' = TRUE
  /\ UNCHANGED <<workerVars, channel, cache, requestVars, appVars>>

DropFields ==
  /\ ui = "closing"
  /\ ui' = "gone"
  /\ Forget
  /\ UNCHANGED <<queueVars, workerVars>>

-----------------------------------------------------------------------------
(* translation_worker *)

Goes(state) == worker' = state /\ UNCHANGED <<closed, generation, cache, requestVars, ui, appVars>>

IsCurrent(r) == r.generation = generation

Receive ==
  /\ worker = "idle"
  /\ ~ closed /\ queue # <<>>
  /\ job' = <<Head(queue)>>
  /\ queue' = Tail(queue)
  /\ Goes("taken")
  /\ UNCHANGED channel

StopReceiving ==
  /\ worker = "idle" /\ closed
  /\ Goes("stopped")
  /\ UNCHANGED <<queue, job, channel>>

\* The first comparison spares the service a request of an old generation.
Call ==
  /\ worker = "taken"
  /\ IF IsCurrent(job[1]) THEN Goes("calling") /\ UNCHANGED job
     ELSE Goes("idle") /\ job' = <<>>
  /\ UNCHANGED <<queue, channel>>

\* The service answers, refuses or is timed out.
Answer ==
  /\ worker = "calling"
  /\ \E text \in {job[1].key, NoText} : job' = <<[job[1] EXCEPT !.text = text]>>
  /\ Goes("answered")
  /\ UNCHANGED <<queue, channel>>

Compare ==
  /\ worker = "answered"
  /\ IF IsCurrent(job[1]) THEN Goes("sending") /\ UNCHANGED job
     ELSE Goes("idle") /\ job' = <<>>
  /\ UNCHANGED <<queue, channel>>

\* Waits while the channel is full.
Send ==
  /\ worker = "sending"
  /\ ui # "gone" /\ Len(channel) < ChannelCap
  /\ channel' = Append(channel, job[1])
  /\ job' = <<>>
  /\ Goes("idle")
  /\ UNCHANGED queue

SendFails ==
  /\ worker = "sending" /\ ui = "gone"
  /\ job' = <<>>
  /\ Goes("stopped")
  /\ UNCHANGED <<queue, channel>>

Worker == Receive \/ StopReceiving \/ Call \/ Answer \/ Compare \/ Send \/ SendFails

\* The application and its worker are over.
Terminated == ui = "gone" /\ worker = "stopped" /\ UNCHANGED vars

Next ==
  \/ FinishTurn \/ PollBegin \/ PollOne \/ PollEnd
  \/ Reset \/ Close \/ DropFields
  \/ Worker
  \/ Terminated

Spec == Init /\ [][Next]_vars

\* The operating system runs the worker, the service answers within its timeout,
\* and the application polls on every frame, hidden or not.
FairSpec ==
  /\ Spec
  /\ WF_vars(Worker)
  /\ WF_vars(PollBegin) /\ WF_vars(PollOne) /\ WF_vars(PollEnd) /\ WF_vars(DropFields)

-----------------------------------------------------------------------------
(* Properties *)

\* Every variable has a value the code can give it: the queue and the channel
\* are within their capacities, a worker that is busy holds one request.
TypeOK ==
  /\ queue \in Seq(Request) /\ Len(queue) <= QueueCap
  /\ closed \in BOOLEAN /\ generation \in 0 .. MaxGeneration + 1
  /\ worker \in {"idle", "taken", "calling", "answered", "sending", "stopped"}
  /\ job \in Seq(Request)
  /\ Len(job) = IF worker \in {"idle", "stopped"} THEN 0 ELSE 1
  /\ channel \in Seq(Request) /\ Len(channel) <= ChannelCap
  /\ cache \in Seq([key : Keys, text : Keys])
  /\ DOMAIN in_flight \subseteq Keys /\ \A k \in DOMAIN in_flight : in_flight[k] \in Seq(Nat)
  /\ DOMAIN pending \subseteq Nat /\ \A id \in DOMAIN pending : pending[id] \in Keys
  /\ pending_turns \in 0 .. MaxPendingTurns /\ pending_bytes \in 0 .. MaxPendingBytes
  /\ next_id \in 1 .. MaxIds + 1
  /\ ui \in {"free", "polling", "closing", "gone"}
  /\ ready \in Seq([id : Nat, text : Keys \cup {NoText}])
  /\ turns \in Seq(Turn) /\ Len(turns) <= MaxTurns
  /\ DOMAIN pending_translations \subseteq Nat
  /\ \A id \in DOMAIN pending_translations : pending_translations[id] \in DOMAIN turns

Subscribers == UNION {ToSet(in_flight[k]) : k \in DOMAIN in_flight}
ReadyIds == {r.id : r \in ToSet(ready)}

\* The counters that enforce the limits say what is retained: pending_turns is
\* the number of waiting subscribers over all merged requests, pending_bytes
\* what the distinct requests cost, and the turns shown as pending are exactly
\* those a subscriber, or a result of the poll under way, will settle.
Counted ==
  /\ TypeOK
  /\ pending_turns = MapThenSumSet(LAMBDA k : Len(in_flight[k]), DOMAIN in_flight)
  /\ pending_turns = Cardinality(Subscribers)
  /\ pending_bytes = MapThenSumSet(PendingBytes, DOMAIN in_flight)
  /\ DOMAIN pending_translations = Subscribers \cup ReadyIds
  /\ Subscribers \cap ReadyIds = {}
  /\ {pending_translations[id] : id \in DOMAIN pending_translations}
       = {i \in DOMAIN turns : turns[i].status = "pending"}

\* Requests in the order they reach the user interface.
Line == channel \o job \o queue

\* Every request the user interface waits for is under way exactly once, is the
\* only one for its key, and comes back in the order of submission; the worker
\* will not throw it away for its generation.
Outstanding ==
  /\ \A i, j \in DOMAIN Line : i < j => Line[i].id < Line[j].id
  /\ ui # "closing" => \A id \in DOMAIN pending :
       \E r \in ToSet(Line) : r.id = id /\ r.key = pending[id] /\ IsCurrent(r)
  /\ \A k \in DOMAIN in_flight : \E id \in DOMAIN pending : pending[id] = k /\ in_flight[k][1] = id
  /\ \A a, b \in DOMAIN pending : pending[a] = pending[b] => a = b

\* The cache answers a key with a translation of that key only.
CacheSound ==
  /\ \A i \in DOMAIN cache : cache[i].text = cache[i].key
  /\ \A i, j \in DOMAIN cache : cache[i].key = cache[j].key => i = j
  /\ Len(cache) <= MaxCacheEntries /\ CacheBytes(cache) <= MaxCacheBytes

\* What the translator retains and what is under way agree: Counted, Outstanding
\* and CacheSound.
Accounted == Counted /\ Outstanding /\ CacheSound

\* An answer that outlived its story is never taken for one of the new story,
\* wherever the reset caught it: not by its turns, not by the cache.  Together
\* with the order of a turn's life this is TurnHistory, which Translator
\* implements.
History == INSTANCE TurnHistory
KeepsHistory == History!ASpec

\* Every turn that waits is settled, or gone with its story: no request is
\* lost between the threads, whatever resets happen meanwhile.  And closing the
\* application ends the worker, even one blocked on a full channel or waiting
\* for a request.
PendingTurn(i) == i \in DOMAIN turns /\ turns[i].status = "pending"
Settles ==
  /\ \A i \in 1 .. MaxTurns : PendingTurn(i) ~> ~ PendingTurn(i)
  /\ (ui = "closing") ~> (worker = "stopped")
=============================================================================
