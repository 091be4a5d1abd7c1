------------------------------ MODULE CodeCache ------------------------------
(***************************************************************************)
(* Who compiles and who keeps native code: the trace cache of the machine  *)
(* and its compiler worker (src/src/vm/jit.rs), and the file that keeps the*)
(* code of a story from one run to the next (NativeCompiler in             *)
(* src/src/vm/native.rs).                                                  *)
(*                                                                         *)
(* An address of ROM that is executed often enough is sent to a worker; its*)
(* code arrives some time later and is kept until the cache is full.  The  *)
(* cache is dropped when the backend or the directory of the file changes; *)
(* the old worker is not waited for, so two of them may write the file.    *)
(*                                                                         *)
(* A story's ROM never changes, so an address stands for its trace, for its*)
(* code and for the key of its code.  What the code does is in Lowering.   *)
(***************************************************************************)
EXTENDS Queues, Functions, SequencesExt, FiniteSetsExt

CONSTANTS
  Addresses,             (* addresses in ROM the story executes, not zero       *)
  Traceless,             (* those where no trace begins                         *)
  Looping,               (* those it comes back to forever                      *)
  BlockBytes,            (* NativeBlock::byte_len, by address                   *)
  CompileQueueCapacity,  (* COMPILE_QUEUE_CAPACITY: 128                         *)
  HotBlockThreshold,     (* HOT_BLOCK_THRESHOLD: 8                              *)
  MaxBlocks,             (* MAX_BLOCKS: 4096                                    *)
  MaxTraceCacheBytes,    (* MAX_TRACE_CACHE_BYTES: 64 MiB                       *)
  AotFlushBlocks,        (* AOT_FLUSH_BLOCKS: 64                                *)
  MaxAotBlocks,          (* MAX_AOT_BLOCKS: 4096                                *)
  MaxAotBytes,           (* MAX_AOT_BYTES: 64 MiB                               *)
  MaxClears, MaxDeaths   (* bounds of the model                                 *)

ASSUME CodeCacheAssumption ==
  /\ Addresses \subseteq Nat \ {0} /\ Traceless \subseteq Addresses /\ Looping \subseteq Addresses
  /\ BlockBytes \in [Addresses -> Nat \ {0}]
  /\ {CompileQueueCapacity, HotBlockThreshold, MaxBlocks, AotFlushBlocks, MaxAotBlocks} \subseteq Nat \ {0}
  \* a block has 256 instructions at most, far fewer bytes than either limit
  /\ \A a \in Addresses : BlockBytes[a] <= MaxTraceCacheBytes /\ BlockBytes[a] <= MaxAotBytes
  /\ {MaxTraceCacheBytes, MaxAotBytes, MaxClears, MaxDeaths} \subseteq Nat

VARIABLES
  cache,      \* JitState: its fields, and worker as a number of workers, 0 for none
  aot,        \* aot_cache_dir is set
  workers,    \* the threads, two at most: the current one and one that is not waited for
  temporary,  \* the temporary file of the process
  file,       \* the file
  clears, deaths,  \* bounded
  lost        \* addresses in the hands of a worker when it died

cacheVars == <<cache, aot, workers, temporary, file, clears, deaths, lost>>
fileVars == <<temporary, file>>

Threads == {1, 2}

\* The code of a trace, which is the same whoever compiles it, and no code of the story.
Code(a) == a
Garbage == 0

\* A file may be written in part, or by two writers at once.
Absent == [kind |-> "absent", code |-> <<>>]
Torn == [kind |-> "torn", code |-> <<>>]
Whole(code) == [kind |-> "whole", code |-> code]

Empty == [blocks |-> <<>>, len |-> 0, bytes |-> 0, unavailable |-> {},
          hot_counts |-> [a \in Addresses |-> 0], pending |-> {}, current |-> 0]

\* A worker: what it does next and after writing the file, the request it works on,
\* its channels, the code it keeps and in which order it got it, how much of it is
\* not in the file, and the file it has open, if any, with another writer or alone.
NewWorker == [phase |-> "idle", after |-> "idle", job |-> <<>>, requests |-> <<>>, results |-> <<>>, aot |-> FALSE,
          code |-> <<>>, order |-> <<>>, dirty |-> 0, leaving |-> FALSE, open |-> "none", shared |-> FALSE]
Gone == [NewWorker EXCEPT !.phase = "gone"]

CacheInit ==
  /\ cache = Empty /\ aot \in BOOLEAN
  /\ workers = [i \in Threads |-> Gone]
  /\ temporary = Absent /\ file = Absent
  /\ clears = 0 /\ deaths = 0 /\ lost = {}

-----------------------------------------------------------------------------
(* TraceCache *)

SumBytes(S) == MapThenSumSet(LAMBDA a : BlockBytes[a], S)
Blocks(s) == DOMAIN s.cache.blocks

With(f, k, v) == [x \in DOMAIN f \cup {k} |-> IF x = k THEN v ELSE f[x]]

(* insert: what was there goes first, then everything if there is no room.   *)
Inserted(j, a, code) ==
  LET old == DOMAIN j.blocks \cap {a}
      without == [j EXCEPT !.blocks = Restrict(@, DOMAIN @ \ old), !.len = @ - Cardinality(old),
                           !.bytes = @ - SumBytes(old)]
      full == without.len >= MaxBlocks \/ without.bytes + BlockBytes[a] > MaxTraceCacheBytes
      room == IF full THEN [without EXCEPT !.blocks = <<>>, !.len = 0, !.bytes = 0] ELSE without
  IN  [room EXCEPT !.blocks = With(@, a, code), !.len = @ + 1, !.bytes = @ + BlockBytes[a]]

-----------------------------------------------------------------------------
(* JitState: what the machine does between two steps of the worker.  The     *)
(* state is the machine's and the worker's.                                  *)

Now == [cache |-> cache, workers |-> workers]
Become(s) == cache' = s.cache /\ workers' = s.workers

(* Mutant: an address the queue has no room for stays pending. *)
RequestedOnce(s, a) ==
  LET i == s.cache.current IN
  IF i = 0 \/ a \in Blocks(s) \cup s.cache.unavailable \cup s.cache.pending THEN s
  ELSE IF s.workers[i].phase = "gone" THEN [s EXCEPT !.cache.current = 0]
  ELSE IF Len(s.workers[i].requests) >= CompileQueueCapacity
       THEN [s EXCEPT !.cache.pending = @ \cup {a}]
  ELSE [s EXCEPT !.cache.pending = @ \cup {a}, !.workers[i].requests = Append(@, a)]

(* request: nothing is pending that the worker did not get. *)
Requested(s, a) ==
  LET i == s.cache.current IN
  IF i = 0 \/ a \in Blocks(s) \cup s.cache.unavailable \cup s.cache.pending THEN s
  ELSE IF s.workers[i].phase = "gone" THEN [s EXCEPT !.cache.current = 0]
  ELSE IF Len(s.workers[i].requests) >= CompileQueueCapacity THEN s
  ELSE [s EXCEPT !.cache.pending = @ \cup {a}, !.workers[i].requests = Append(@, a)]

Received(j, result) ==
  LET a == result.address
      got == [j EXCEPT !.pending = @ \ {a}, !.hot_counts[a] = 0]
  IN  IF result.found THEN Inserted(got, a, result.code)
      ELSE [got EXCEPT !.unavailable = @ \cup {a}]

(* poll: every result there is; a worker that is gone is noticed after them. *)
Polled(s) ==
  LET i == s.cache.current
      got == [s EXCEPT !.cache = FoldLeft(Received, @, s.workers[i].results), !.workers[i].results = <<>>]
  IN  IF i = 0 THEN s
      ELSE IF s.workers[i].phase = "gone" THEN [got EXCEPT !.cache.current = 0]
      ELSE got

(* block: an address is requested when it is hot.                            *)
Looked(s, a) ==
  LET seen == IF s.cache.pending = {} THEN s ELSE Polled(s)
      known == Blocks(seen) \cup seen.cache.unavailable \cup seen.cache.pending
      count == seen.cache.hot_counts[a] + 1
      counted == [seen EXCEPT !.cache.hot_counts[a] = IF count > HotBlockThreshold THEN @ ELSE count]
  IN  IF a \in known THEN seen
      ELSE IF count >= HotBlockThreshold THEN Requested(counted, a) ELSE counted

(* The dispatcher comes to an address.                                       *)
Execute(a) ==
  /\ Become(Looked(Now, a))
  /\ UNCHANGED <<aot, fileVars, clears, deaths, lost>>

(* start: at the beginning of a slice, which is to go on at a.               *)
Spawned(s) ==
  LET free == {i \in Threads : s.workers[i].phase = "gone"}
      i == Min(free)
  IN  IF s.cache.current # 0 THEN s
      ELSE [s EXCEPT !.cache.current = i,
                     !.workers[i] = [NewWorker EXCEPT !.aot = aot', !.phase = IF aot' THEN "load" ELSE "idle"]]

CanSpawn(s) == s.cache.current # 0 \/ \E i \in Threads : s.workers[i].phase = "gone"

Start(a) ==
  /\ CanSpawn(Now) /\ UNCHANGED aot
  /\ Become(Requested(Spawned(Now), a))
  /\ UNCHANGED <<fileVars, clears, deaths, lost>>

(* clear: everything is forgotten, and the worker may leave when it likes.   *)
Cleared(s) ==
  LET i == s.cache.current IN
  [cache |-> Empty,
   workers |-> IF i = 0 THEN s.workers
               ELSE [s.workers EXCEPT ![i] = [@ EXCEPT !.leaving = TRUE, !.results = <<>>]]]

(* Another directory or another backend, and back.                           *)
Clear(a) ==
  /\ clears < MaxClears /\ clears' = clears + 1
  /\ aot' \in BOOLEAN
  /\ CanSpawn(Cleared(Now))
  /\ Become(Requested(Spawned(Cleared(Now)), a))
  /\ lost' = {}
  /\ UNCHANGED <<fileVars, deaths>>

(* The program ends, at any point of what its threads do, and begins anew.   *)
(* The temporary file bears the number of the process.                       *)
Crash ==
  /\ clears < MaxClears /\ clears' = clears + 1
  /\ cache' = Empty /\ workers' = [i \in Threads |-> Gone]
  /\ temporary' = Absent /\ lost' = {}
  /\ UNCHANGED <<aot, file, deaths>>

-----------------------------------------------------------------------------
(* The worker *)

(* Retained code makes room for more, the oldest first.                      *)
Retained(w, a) ==
  LET fits(n) == LET kept == {w.order[i] : i \in n + 1 .. Len(w.order)} IN
                 Cardinality(kept) < MaxAotBlocks /\ SumBytes(kept) + BlockBytes[a] <= MaxAotBytes
      dropped == Min({n \in 0 .. Len(w.order) : fits(n)})
      kept == SubSeq(w.order, dropped + 1, Len(w.order))
  IN  [w EXCEPT !.code = With(Restrict(@, {kept[i] : i \in DOMAIN kept}), a, Code(a)),
                !.order = Append(kept, a), !.dirty = @ + 1]

Goes(i, w) == workers' = [workers EXCEPT ![i] = w]

(* Mutant: a file is read without its checksum. *)
LoadedUnchecked(f) ==
  IF f.kind = "torn" THEN [a \in Addresses \ Traceless |-> Garbage] ELSE f.code

(* load_aot: a file that was not written to its end by one writer fails its  *)
(* checksum, and is as good as none.                                         *)
Loaded(f) == IF f.kind = "whole" THEN f.code ELSE <<>>

(* prepare_aot; the file is written at once.                                 *)
Load(i) ==
  LET w == workers[i]
      code == Loaded(file)
  IN  /\ w.phase = "load"
      /\ Goes(i, [w EXCEPT !.code = code, !.order = Ascending(DOMAIN code),
                           !.phase = "open", !.after = "idle"])
      /\ UNCHANGED <<cache, aot, fileVars, clears, deaths, lost>>

Receive(i) ==
  LET w == workers[i] IN
  /\ w.phase = "idle"
  /\ IF w.requests # <<>>
     THEN Goes(i, [w EXCEPT !.requests = Tail(@), !.job = <<Head(w.requests)>>, !.phase = "compile"])
     ELSE w.leaving /\ Goes(i, [w EXCEPT !.phase = "finish"])
  /\ UNCHANGED <<cache, aot, fileVars, clears, deaths, lost>>

(* compile_trace and executor_trace: the code is looked up or made.          *)
Answer(w, a) ==
  [address |-> a, found |-> a \notin Traceless,
   code |-> IF a \in DOMAIN w.code THEN w.code[a] ELSE Code(a)]

Compile(i) ==
  LET w == workers[i]
      a == w.job[1]
      answered == [w EXCEPT !.job = <<Answer(w, a)>>, !.phase = "send"]
      retained == Retained(answered, a)
  IN  /\ w.phase = "compile"
      /\ Goes(i, IF a \in Traceless \cup DOMAIN w.code \/ ~ w.aot THEN answered
                 ELSE IF retained.dirty < AotFlushBlocks THEN retained
                 ELSE [retained EXCEPT !.phase = "open", !.after = "send"])
      /\ UNCHANGED <<cache, aot, fileVars, clears, deaths, lost>>

(* Nobody receives what a worker sends that is not waited for.               *)
Send(i) ==
  LET w == workers[i] IN
  /\ w.phase = "send"
  /\ Goes(i, IF w.leaving THEN [w EXCEPT !.job = <<>>, !.phase = "finish"]
             ELSE [w EXCEPT !.results = @ \o w.job, !.job = <<>>, !.phase = "idle"])
  /\ UNCHANGED <<cache, aot, fileVars, clears, deaths, lost>>

Finish(i) ==
  LET w == workers[i] IN
  /\ w.phase = "finish"
  /\ Goes(i, IF w.dirty = 0 THEN Gone ELSE [w EXCEPT !.phase = "open", !.after = "gone"])
  /\ UNCHANGED <<cache, aot, fileVars, clears, deaths, lost>>

InHand(w) ==
  w.requests \o [i \in DOMAIN w.job |-> IF w.phase = "compile" THEN w.job[i] ELSE w.job[i].address]
             \o [i \in DOMAIN w.results |-> w.results[i].address]

(* compile_trace panics.  What the worker has done is received still, unless *)
(* a request notices first that it is gone.                                  *)
Die(i) ==
  LET w == workers[i] IN
  /\ deaths < MaxDeaths /\ deaths' = deaths + 1
  /\ w.phase = "compile"
  /\ Goes(i, [Gone EXCEPT !.results = w.results])
  /\ lost' = IF i = cache.current THEN lost \cup Range(InHand(w)) ELSE lost
  /\ UNCHANGED <<cache, aot, fileVars, clears>>

-----------------------------------------------------------------------------
(* persist_aot: the temporary file is opened and written, then renamed.  Two *)
(* workers of a process open the same one.                                   *)
Other(i) == 3 - i

Opening(w, both) == [w EXCEPT !.phase = "write", !.open = "temporary", !.shared = both]
Joined(w, both) == [w EXCEPT !.shared = @ \/ both]

OpenFile(i) ==
  LET w == workers[i]
      both == workers[Other(i)].open = "temporary"
  IN  /\ w.phase = "open"
      /\ temporary' = Torn
      /\ workers' = [workers EXCEPT ![i] = Opening(@, both), ![Other(i)] = Joined(@, both)]
      /\ UNCHANGED <<cache, aot, file, clears, deaths, lost>>

(* Of two writers, either may have the last word on some part of the file.   *)
WriteFile(i) ==
  LET w == workers[i] IN
  /\ w.phase = "write"
  /\ \E text \in {Whole(w.code)} \cup (IF w.shared THEN {Torn} ELSE {}) :
       /\ temporary' = IF w.open = "temporary" THEN text ELSE temporary
       /\ file' = IF w.open = "file" THEN text ELSE file
  /\ Goes(i, [w EXCEPT !.phase = "rename", !.open = "none", !.shared = FALSE])
  /\ UNCHANGED <<cache, aot, clears, deaths, lost>>

(* The other writer's temporary file may be renamed under it, or be gone.    *)
Renamed(w) ==
  [w EXCEPT !.open = CASE w.open = "temporary" -> "file" [] w.open = "file" -> "unlinked" [] OTHER -> w.open]

RenameFile(i) ==
  LET w == workers[i]
      done == IF w.after = "gone" THEN Gone ELSE [w EXCEPT !.phase = w.after, !.dirty = 0]
  IN  /\ w.phase = "rename"
      /\ IF temporary = Absent
         THEN Goes(i, done) /\ UNCHANGED fileVars
         ELSE /\ file' = temporary /\ temporary' = Absent
              /\ workers' = [workers EXCEPT ![i] = done, ![Other(i)] = Renamed(@)]
      /\ UNCHANGED <<cache, aot, clears, deaths, lost>>

-----------------------------------------------------------------------------
Work(i) == Load(i) \/ Receive(i) \/ Compile(i) \/ Send(i) \/ Finish(i)
             \/ OpenFile(i) \/ WriteFile(i) \/ RenameFile(i)

CacheNext ==
  \/ \E a \in Addresses : Execute(a) \/ Start(a) \/ Clear(a)
  \/ Crash
  \/ \E i \in Threads : Work(i) \/ Die(i)

CacheSpec == CacheInit /\ [][CacheNext]_cacheVars

-----------------------------------------------------------------------------
(* Properties *)

(* An address is pending exactly while the worker has it, once, or went away *)
(* with it, and no result is for an address the machine does not await       *)
(* ("Every result belongs to a pending request", jit.rs:286); what is        *)
(* pending is neither cached nor given up; and what the cache counts is what *)
(* it holds, within its limits.                                              *)
Requests ==
  /\ cache.current # 0 =>
       /\ Range(InHand(workers[cache.current])) \subseteq cache.pending
       /\ cache.pending \ Range(InHand(workers[cache.current])) \subseteq lost
       /\ IsInjective(InHand(workers[cache.current]))
  /\ cache.pending \cap (DOMAIN cache.blocks \cup cache.unavailable) = {}
  /\ cache.unavailable \subseteq Traceless
  /\ cache.len = Cardinality(DOMAIN cache.blocks) /\ cache.len <= MaxBlocks
  /\ cache.bytes = SumBytes(DOMAIN cache.blocks) /\ cache.bytes <= MaxTraceCacheBytes

(* No machine ever runs code that is not the code of its trace, however      *)
(* workers and runs of the program crossed when they wrote the file; and a   *)
(* worker keeps no more than it may, and knows the order of all it keeps.    *)
CodeSound ==
  /\ \A a \in DOMAIN cache.blocks : cache.blocks[a] = Code(a)
  /\ \A i \in Threads :
       LET w == workers[i] IN
       /\ \A a \in DOMAIN w.code : w.code[a] = Code(a)
       /\ Range(w.order) = DOMAIN w.code /\ IsInjective(w.order)
       /\ Len(w.order) <= MaxAotBlocks /\ SumBytes(DOMAIN w.code) <= MaxAotBytes
       /\ w.dirty <= AotFlushBlocks

(* An address the story keeps coming back to is found compiled again and     *)
(* again, or known to have no trace, unless the cache keeps overflowing; only*)
(* one that was in the hands of a worker that died may be left out.          *)
Evicts == (DOMAIN cache.blocks) \ (DOMAIN cache'.blocks) # {}

KeepsCompiling ==
  \A a \in Looping :
    []<>(a \in DOMAIN cache.blocks \cup cache.unavailable \cup lost) \/ []<><<Evicts>>_cacheVars

(* The cache and its workers agree, and no code is taken for another.        *)
CacheIsSound == Requests /\ CodeSound
=============================================================================
