---------------------------- MODULE MCNativeMirror ----------------------------
(* Compiled code, its copy of the machine (NativeMirror) and its cache       *)
(* (CodeCache), for TLC.  The variable focus chooses: the copy; the cache,   *)
(* too small for the code of the story, with no file; a file two workers     *)
(* write, without the cache's counts; or a story that loops over code that   *)
(* fits.                                                                     *)
EXTENDS NativeMirror, CodeCache

VARIABLE focus

MCHalf == [v \in Value |-> 1 - v]
MCSame == [v \in Value |-> v]

At(cell) == [mode |-> "memory", cell |-> cell]
Is(value) == [mode |-> "constant", value |-> value]
Top == [mode |-> "stack"]
Locals == [mode |-> "local"]
Do(from, to, next) == [from |-> from, to |-> to, next |-> next]

\* Stores, pushes and pops, a local variable, a branch, conversions.
MCInstr ==
  {Do(Is(1), <<At(c)>>, 0) : c \in Cells(MaxPages)} \cup {Do(Is(0), <<At(0)>>, 0)}
    \cup {Do(At(0), <<Top>>, 0), Do(Top, <<At(0)>>, 0), Do(Is(1), <<Locals>>, 0), Do(Locals, <<>>, 1)}
    \cup {Do(Top, <<Top, Top>>, 0), Do(At(0), <<At(0), Top>>, 0)}

\* The blocks at 1 and 2 do not fit together.
MCBlockBytes == [a \in Addresses |-> IF a = 2 THEN 2 ELSE 1]

MCInit == /\ Init /\ CacheInit
          /\ focus \in {"copy", "cache", "file", "loop"} /\ aot = (focus = "file")

MCNext ==
  /\ \/ focus = "copy" /\ SingleNext /\ UNCHANGED cacheVars
     \/ focus = "cache" /\ CacheNext /\ UNCHANGED <<vars, aot>> /\ clears' + deaths' <= 1
     \/ /\ focus = "file" /\ UNCHANGED vars
        /\ \/ Crash
           \/ \E a \in Addresses \ Traceless : Start(a) \/ (Clear(a) /\ aot')
           \/ \E i \in Threads : Work(i)
     \/ /\ focus = "loop" /\ UNCHANGED vars
        /\ \/ \E a \in Looping : Execute(a) \/ Start(a) \/ (Clear(a) /\ ~ aot' /\ clears' = 1)
           \/ \E i \in Threads : Work(i) \/ Die(i)
  /\ UNCHANGED focus

(* Threads run, slices begin, and the story comes back to some addresses.  A *)
(* worker that is not waited for has one request left at most, so that it is *)
(* enough that one of the two goes on.                                       *)
Fairness ==
  /\ WF_cacheVars(focus = "loop" /\ \E i \in Threads : Work(i))
  /\ WF_cacheVars(focus = "loop" /\ \E a \in Looping : Start(a))
  /\ \A a \in Looping : WF_cacheVars(focus = "loop" /\ Execute(a))

MCSpec == MCInit /\ [][MCNext]_<<vars, cacheVars, focus>> /\ Fairness

\* See KeepsCompiling: the story that loops over code that fits.
Compiles == focus = "loop" => KeepsCompiling
=============================================================================
