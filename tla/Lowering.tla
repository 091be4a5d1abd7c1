------------------------------ MODULE Lowering ------------------------------
(***************************************************************************)
(* Compiled traces against the interpreter.  Translated from the trace     *)
(* compiler of src/src/vm/jit.rs, the code generator of                    *)
(* src/src/vm/native.rs and Vm::run_jit_steps.                             *)
(* A trace follows the program from one address: through jumps, backwards  *)
(* through conditional branches, and past the others.  Its code executes   *)
(* one instruction after the other as long as the slice lasts; a guard     *)
(* that fails puts stack, program counter and random numbers back and      *)
(* leaves the instruction to the interpreter.                              *)
(* Instructions are known by their operation.  Where the mirror of memory  *)
(* and stack comes from and goes to is in NativeMirror.                    *)
(***************************************************************************)
EXTENDS Instructions

CONSTANTS Programs,   \* address -> instruction
          Machines,
          Image,      \* memory as the story file has it: what the code reads below RamStart
          MaxTrace,   \* instructions of a trace
          Capacity,   \* bytes the copy of the stack has room for
          Budgets     \* lengths of slices

VARIABLES program,     \* address -> instruction
          compiled,    \* the machine that runs traces
          interpreted  \* the same machine, run by the interpreter alone

vars == <<program, compiled, interpreted>>

None == -1   \* no address

-----------------------------------------------------------------------------
(* Tracing.  Instructions lie in ROM. *)
HasCode(a) == a \in DOMAIN program /\ a < RamStart /\ program[a].next <= RamStart

StoresTo(i) == {i.operands[k] : k \in Sources(i.op) + 1 .. Len(i.operands)}

Interpreted == {"stkcopy", "fmod", "jfeq", "jdeq", "mzero", "mcopy"}

Direct(i) ==
  /\ i.op \notin Interpreted
  /\ i.op \notin Branches \cup {"aloadbit", "random", "jumpabs", "setrandom", "nop", "stkswap"}
       => \A o \in StoresTo(i) : o.mode # "constant"

(* The code generator refuses two instructions that have nowhere to store. *)
Generates(i) == i.op \in {"aloadbit", "random"} => \A o \in StoresTo(i) : o.mode # "constant"

StaticTarget(i) ==
  LET offset == Last(i.operands)
  IN  IF i.op \in Branches /\ offset.mode = "constant" /\ offset.value \notin {0, 1}
      THEN Wrap(i.next + offset.value - 2) ELSE None

Successor(a, seen) ==
  LET i         == program[a]
      target    == StaticTarget(i)
      candidate == IF target # None /\ (i.op = "jump" \/ target < a) THEN target ELSE i.next
  IN  IF /\ target # None
         /\ candidate \notin seen
         /\ HasCode(candidate)
         /\ Direct(program[candidate])
      THEN candidate ELSE None

Terminates(i) == i.op \in Branches \cup {"jumpabs"}

RECURSIVE TraceFrom(_, _, _)
TraceFrom(a, seen, room) ==
  IF room = 0 \/ a \in seen \/ ~ HasCode(a) \/ (HasCode(a) /\ ~ Direct(program[a])) THEN <<>>
  ELSE LET i    == program[a]
           next == Successor(a, seen \cup {a})
           rest == CASE next # None -> TraceFrom(next, seen \cup {a}, room - 1)
                     [] next = None /\ (Terminates(i) \/ i.next <= a) -> <<>>
                     [] OTHER -> TraceFrom(i.next, seen \cup {a}, room - 1)
       IN  <<[instruction |-> i, continuation |-> next, target |-> StaticTarget(i)]>> \o rest

Trace(a) == TraceFrom(a, {}, MaxTrace)

HasExecutor(a) ==
  LET t == Trace(a) IN t # <<>> /\ \A k \in DOMAIN t : Generates(t[k].instruction)

-----------------------------------------------------------------------------
(* Guards of the generated code, in words that wrap. *)
GuardMemory(address, size, write) ==
  /\ MemoryEnd >= size
  /\ address <= MemoryEnd - size
  /\ write => address >= RamStart

GuardLocal(offset, size) ==
  LET address == Wrap(LocalsBase + offset)
  IN  address >= LocalsBase /\ FrameEnd >= size /\ address <= FrameEnd - size

GuardStack(m, count) == FrameEnd <= Modulus - 1 - count /\ Len(m.stack) >= FrameEnd + count

GuardPush(m) == Len(m.stack) + 4 <= Capacity /\ Len(m.stack) + 4 <= StackMaximum

Guarded(m, o, size) ==
  CASE o.mode = "memory" -> GuardMemory(o.value, size, FALSE)
    [] o.mode = "stack"  -> GuardStack(m, 4)
    [] o.mode = "local"  -> GuardLocal(o.value, size)
    [] OTHER             -> TRUE

GuardedStore(m, o, size) ==
  CASE o.mode = "memory"   -> GuardMemory(o.value, size, TRUE)
    [] o.mode = "stack"    -> GuardPush(m)
    [] o.mode = "local"    -> GuardLocal(o.value, size)
    [] o.mode = "constant" -> FALSE
    [] o.mode = "zero"     -> TRUE

(* A read that starts in ROM reads the image to its end. *)
Pointed(m, address, size) ==
  IF address < RamStart THEN [k \in 1..size |-> Image[address + k - 1]] ELSE At(m, address, size)

Fetched(m, o, size) ==
  IF o.mode = "memory" THEN Decoded(Pointed(m, o.value, size)) ELSE Loaded(m, o, size)

Slow(m) == [m EXCEPT !.status = "slow"]

LoadOperand(r, o, size) ==
  IF ~ Runs(r.m) THEN r
  ELSE IF ~ Guarded(r.m, o, size) THEN [r EXCEPT !.m = Slow(@)]
  ELSE [m |-> IF o.mode = "stack" THEN Cut(r.m, 1) ELSE r.m,
        values |-> Append(r.values, Fetched(r.m, o, size))]

StoreOperand(m, o, size, w) ==
  IF ~ Runs(m) THEN m
  ELSE IF GuardedStore(m, o, size) THEN Stored(m, o, size, w) ELSE Slow(m)

-----------------------------------------------------------------------------
(* The code of one instruction: the machine after it, with the status      *)
(* "slow" when a guard failed and "done" when the trace is left.           *)
Done(m) == [m EXCEPT !.status = "done"]

DirectBranch(m, offset) ==
  IF offset \in {0, 1} THEN Slow(m) ELSE Done([m EXCEPT !.pc = Wrap(@ + offset - 2)])

\* Mutant: leaving a trace by a branch does not store where it goes.
TraceBranchStays(m, t, taken) ==
  CASE t.instruction.op = "jump"   -> [m EXCEPT !.pc = t.target]
    [] t.continuation = t.target   -> IF taken THEN m ELSE Done(m)
    [] OTHER                       -> IF taken THEN Done(m) ELSE m

(* The program counter already is the address of the next instruction. *)
TraceBranch(m, t, taken) ==
  LET follows == t.continuation = t.target
  IN  CASE t.instruction.op = "jump" -> [m EXCEPT !.pc = t.target]
        [] follows /\ t.target = t.instruction.next -> m
        [] follows /\ t.target # t.instruction.next -> IF taken THEN m ELSE Done(m)
        [] ~ follows -> IF taken THEN Done([m EXCEPT !.pc = t.target]) ELSE m

LowerBranch(m, t, v, condition) ==
  CASE t.continuation # None               -> TraceBranch(m, t, condition)
    [] condition /\ t.continuation = None   -> DirectBranch(m, Last(v))
    [] ~ condition /\ t.continuation = None -> Done(m)

Float32Condition(op, v) == Ordered(op, IF op = "jisnan" THEN <<v[1]>> ELSE <<v[1], v[2]>>)

Float64Condition(op, v) ==
  IF op = "jdisnan" THEN Ordered(op, <<v[1] * Modulus + v[2]>>)
  ELSE Ordered(op, <<v[1] * Modulus + v[2], v[3] * Modulus + v[4]>>)

LowerArray(m, i, v) ==
  LET a     == Element(i.op, v[1], v[2])
      size  == Scale(i.op)
      write == i.op \in Ternary
      w     == Decoded(Pointed(m, a, size))
  IN  CASE ~ GuardMemory(a, size, write)   -> Slow(m)
        [] i.op = "aloadbit"               -> StoreOperand(m, i.operands[3], 4, Bit(w, v[2]))
        [] i.op = "astorebit"              -> Put(m, a, 1, WithBit(w, v[2], v[3] # 0))
        [] write /\ i.op # "astorebit"     -> Put(m, a, size, v[3])
        [] ~ write /\ i.op # "aloadbit"    -> StoreOperand(m, i.operands[3], 4, w)

LowerPeek(m, i, v) ==
  IF v[1] > Modulus \div 4 - 2 \/ ~ GuardStack(m, Wrap((v[1] + 1) * 4)) THEN Slow(m)
  ELSE StoreOperand(m, i.operands[2], 4, Word(m, v[1]))

LowerSwap(m) ==
  IF GuardStack(m, 8) THEN Pushed(Pushed(Cut(m, 2), Word(m, 0)), Word(m, 1)) ELSE Slow(m)

(* The state of the random numbers moves before the result is stored. *)
LowerRandom(m, i, v) ==
  LET n == NextRandom(m) IN StoreOperand(n, i.operands[2], 4, Ranged(Mixed(n.random), v[1]))

Divides(op, a, b) ==
  op \in {"div", "mod"} => b # 0 /\ ~ (a = Modulus \div 2 /\ b = Modulus - 1)

LowerArithmetic(m, op, to, v) ==
  IF Len(v) = 2 /\ ~ Divides(op, v[1], v[2]) THEN Slow(m)
  ELSE StoreOperand(m, to[1], 4, Computed(op, v))

(* A shift by all bits or more is selected apart. *)
LowerShift(m, op, to, v) ==
  LET all == IF op = "sshiftr" /\ Signed(v[1]) < 0 THEN Modulus - 1 ELSE 0
  IN  StoreOperand(m, to[1], 4, IF v[2] >= Bits THEN all ELSE Shifted(op, v[1], v[2]))

(* The value stored has the width of the operand, the one pushed has not. *)
LowerCopy(m, op, to, v) == StoreOperand(m, to[1], Size(Width(op)), v[1])

(* A double is built from two operands and stored as two. *)
Pair(high, low) == high * Modulus + low

StorePair(m, to, double) ==
  StoreOperand(StoreOperand(m, to[1], 4, double % Modulus), to[2], 4, double \div Modulus)

LowerFloat32(m, op, to, v) == StoreOperand(m, to[1], 4, Real(op, v))

LowerFloat64(m, op, to, v) ==
  CASE op \in {"numtod", "ftod"} -> StorePair(m, to, Real(op, v))
    [] op = "dtof"   -> StoreOperand(m, to[1], 4, Real(op, <<Pair(v[1], v[2])>>))
    [] op = "dfloor" -> StorePair(m, to, Real(op, <<Pair(v[1], v[2])>>))
    [] op = "dadd"   -> StorePair(m, to, Real(op, <<Pair(v[1], v[2]), Pair(v[3], v[4])>>))

(* A branch the trace follows has a constant offset, which is not loaded. *)
LoadsOf(t) ==
  LET n == Sources(t.instruction.op)
  IN  SubSeq(t.instruction.operands, 1, IF t.continuation = None THEN n ELSE n - 1)

(* The code that follows the loads, for the operands v and the destinations `to`. *)
Lowered(m, v, to, t) ==
  LET i == t.instruction
  IN  CASE ~ Runs(m)           -> m
        [] i.op \in {"jflt", "jisnan"}  -> LowerBranch(m, t, v, Float32Condition(i.op, v))
        [] i.op \in {"jdlt", "jdisnan"} -> LowerBranch(m, t, v, Float64Condition(i.op, v))
        [] i.op \in Branches \ FloatBranches -> LowerBranch(m, t, v, Holds(i.op, v))
        [] i.op \in Arrays     -> LowerArray(m, i, v)
        [] i.op \in Floats \ Doubles -> LowerFloat32(m, i.op, to, v)
        [] i.op \in Doubles    -> LowerFloat64(m, i.op, to, v)
        [] i.op = "nop"        -> m
        [] i.op = "stkcount"   -> StoreOperand(m, to[1], 4, Depth(m))
        [] i.op = "stkpeek"    -> LowerPeek(m, i, v)
        [] i.op = "stkswap"    -> LowerSwap(m)
        [] i.op = "getmemsize" -> StoreOperand(m, to[1], 4, MemoryEnd)
        [] i.op = "random"     -> LowerRandom(m, i, v)
        [] i.op = "setrandom"  -> IF v[1] = 0 THEN Slow(m) ELSE [m EXCEPT !.random = v[1]]
        [] i.op = "jumpabs"    -> Done([m EXCEPT !.pc = v[1]])
        [] i.op \in {"copy", "copys", "copyb"} -> LowerCopy(m, i.op, to, v)
        [] i.op \in {"shiftl", "sshiftr", "ushiftr"} -> LowerShift(m, i.op, to, v)
        [] OTHER               -> LowerArithmetic(m, i.op, to, v)

Lower(before, t) ==
  LET i == t.instruction
      r == FoldLeft(LAMBDA q, o : LoadOperand(q, o, Size(Width(i.op))),
                    [m |-> [before EXCEPT !.pc = i.next], values |-> <<>>], LoadsOf(t))
  IN  Lowered(r.m, r.values, SubSeq(i.operands, Sources(i.op) + 1, Len(i.operands)), t)

(* Stack, program counter and random numbers are put back; words pushed    *)
(* over those that were popped stay.                                       *)
RolledBack(before, after) ==
  [after EXCEPT !.pc = before.pc, !.random = before.random,
                !.stack = [k \in DOMAIN before.stack |->
                             IF k \in DOMAIN @ THEN @[k] ELSE before.stack[k]]]

(* The code of a trace: the slice is looked at before every instruction. *)
RECURSIVE RunFrom(_, _, _, _), RunOn(_, _, _, _, _)
RunFrom(m, trace, k, budget) ==
  IF k > Len(trace) \/ k > budget
  THEN [m |-> m, count |-> k - 1, slow |-> FALSE]
  ELSE RunOn(m, Lower(m, trace[k]), trace, k, budget)

RunOn(m, after, trace, k, budget) ==
  CASE after.status = "slow" ->
         [m |-> [RolledBack(m, after) EXCEPT !.status = "running"], count |-> k - 1, slow |-> TRUE]
    [] after.status = "done" ->
         [m |-> [after EXCEPT !.status = "running"], count |-> k, slow |-> FALSE]
    [] OTHER -> RunFrom(after, trace, k + 1, budget)

-----------------------------------------------------------------------------
(* Both machines go on; the interpreter makes as many steps. *)
CanStep(m) == Runs(m) /\ m.pc \in DOMAIN program

Step(m) == IF CanStep(m) THEN Execute(m, program[m.pc]) ELSE m

RECURSIVE Steps(_, _)
Steps(m, n) == IF n = 0 THEN m ELSE Steps(Step(m), n - 1)

Init ==
  /\ program \in Programs
  /\ compiled \in Machines
  /\ interpreted = compiled

(* A block that has code runs, and the interpreter takes the instruction   *)
(* its code could not execute.                                             *)
RunBlock ==
  /\ Runs(compiled) /\ HasExecutor(compiled.pc)
  /\ \E trace \in {Trace(compiled.pc)} :
     \E budget \in {Min({Len(trace), b}) : b \in Budgets} :
     \E run \in {RunFrom(compiled, trace, 1, budget)} :
       LET last == run.slow /\ run.count < budget
       IN  /\ compiled' = IF last THEN Step(run.m) ELSE run.m
           /\ interpreted' = Steps(interpreted, IF last THEN run.count + 1 ELSE run.count)
  /\ UNCHANGED program

(* A block that is not known yet, or has no code, is interpreted. *)
Interpret ==
  /\ CanStep(compiled)
  /\ compiled' = Step(compiled)
  /\ interpreted' = Step(interpreted)
  /\ UNCHANGED program

Next == RunBlock \/ Interpret

Spec == Init /\ [][Next]_vars

-----------------------------------------------------------------------------
(* Traces are invisible: wherever a slice ends, in the middle of a trace   *)
(* or at an instruction whose guard failed, the machine that runs them is  *)
(* the machine of the interpreter - in its memory, stack, random numbers   *)
(* and in where it goes on (compile_native_trace, run_jit_steps).          *)
Agrees == \/ compiled = interpreted
          \/ compiled.status = "error" /\ interpreted.status = "error"
=============================================================================
