----------------------------- MODULE MCLowering -----------------------------
(***************************************************************************)
(* Programs and machines for Lowering.  Words have eight bits: -128 is the *)
(* smallest integer, and memory at its end and the stack at its limit are  *)
(* within reach of every operand.                                          *)
(***************************************************************************)
EXTENDS Lowering

CONSTANT Shapes   \* the programs: "single" instructions, "short" programs, "loops"

Mode(mode, value) == [mode |-> mode, value |-> value]
Constant(c) == Mode("constant", c)
Zero        == Mode("zero", 0)
Stack       == Mode("stack", 0)
Local(o)    == Mode("local", o)
Memory(a)   == Mode("memory", a)

MCMixed(w) == (w * 37 + 11) % 256
Scrambled(v, modulus) == FoldLeft(LAMBDA n, w : (3 * n + w + 1) % modulus, 0, v)
MCReal(op, v)    == Scrambled(v, IF op \in Doubles \ {"dtof"} THEN 256 * 256 ELSE 256)
MCOrdered(op, v) == Scrambled(v, 1009) % 2 = 0

MCImage == [a \in 0 .. MemoryEnd - 1 |-> (a * a + a \div 3) % 4]
Memory0 == [a \in 0 .. MemoryEnd - 1 |-> IF a < RamStart THEN MCImage[a] ELSE (MCImage[a] + 1 + (a % 2)) % 4]

Instruction(op, operands, a) == [op |-> op, operands |-> operands, next |-> a + 4]

Machine(pc, bytes, random) ==
  [pc |-> pc, stack |-> bytes, memory |-> Memory0, random |-> random, status |-> "running"]

Frame == <<0, 2, 0, 0, 3, 1, 2, 3>>
From  == {Constant(3), Constant(128), Constant(255), Memory(29), Stack, Local(4)}
Few   == {Constant(17), Memory(18), Stack}
To    == {Zero, Stack, Constant(1), Memory(28), Memory(12), Local(2)}

Tuples(n, set) == [1..n -> set]

Operands(op) ==
  LET n == Sources(op)
  IN  CASE op = "jdeq"          -> {v \o <<Constant(10)>> : v \in Tuples(6, {Constant(17), Stack})}
        [] op \in Branches \ {"jdeq"} -> {v \o <<o>> : v \in Tuples(n - 1, IF n > 3 THEN Few ELSE From),
                                                 o \in {Constant(0), Constant(10), Stack}}
        [] op \in {"astore", "astores", "astoreb", "astorebit"} ->
             {<<b, x, v>> : b \in Few, x \in {Constant(0), Constant(1), Constant(253), Stack}, v \in From}
        [] op \in Arrays \ Ternary ->
             {<<b, x, t>> : b \in Few, x \in {Constant(0), Constant(1), Constant(253), Stack}, t \in To}
        [] op = "mzero"         -> {<<n2, a>> : n2 \in From, a \in From}
        [] op = "mcopy"         -> {<<n2, a, t>> : n2 \in {Constant(3), Zero, Stack}, a \in From, t \in From}
        [] op = "fmod"          -> {v \o t : v \in Tuples(2, Few), t \in Tuples(2, To)}
        [] n > 3                -> {v \o t : v \in Tuples(n, Few), t \in Tuples(2, To)}
        [] op \in {"numtod", "ftod", "dfloor"} -> {v \o t : v \in Tuples(n, From), t \in Tuples(2, To)}
        [] op \in {"nop", "stkswap"} -> {<<>>}
        [] op \in {"setrandom", "jumpabs", "stkcopy"} -> Tuples(1, From)
        [] OTHER                -> {v \o t : v \in Tuples(n, From), t \in Tuples(1, To)}

Operations == Unary \cup Binary \cup Ternary
  \cup {"nop", "stkcount", "stkswap", "getmemsize", "dadd", "jfeq", "jdlt", "jdeq"}

(* Left out: a value too wide for its copy, which is pushed as it is, and  *)
(* two results where the second may find no room when the first has gone   *)
(* where an operand was.  No read here begins in ROM and ends in RAM.          *)
Exact(op, operands) ==
  /\ op \in {"copys", "copyb"} => operands[1].mode \notin {"constant", "stack"} \/ operands[2].mode # "stack"
  /\ op \in {"numtod", "ftod", "dfloor", "dadd"} /\ Last(operands) = Stack
       => operands[Len(operands) - 1] = Zero

Single(operations) ==
  UNION {{(0 :> Instruction(op, o, 0)) : o \in {x \in Operands(op) : Exact(op, x)}} : op \in operations}

To4(a, target) == Constant((target - a - 2) % 256)

(* One instruction at an address of a short program. *)
Shape(a, ends) ==
  {Instruction("copy", <<Constant(1), Stack>>, a),
   Instruction("copy", <<Stack, Local(0)>>, a),
   Instruction("sub", <<Local(0), Constant(1), Local(0)>>, a),
   Instruction("stkcopy", <<Constant(1)>>, a),
   Instruction("stkswap", <<>>, a),
   Instruction("jumpabs", <<Constant(0)>>, a)}
  \cup {Instruction("jump", <<To4(a, t)>>, a) : t \in ends}
  \cup {Instruction("jnz", <<o, To4(a, t)>>, a) : o \in {Stack, Local(0)}, t \in {e \in ends : e > a}}
  \cup {Instruction("jz", <<Local(0), Stack>>, a)}

Short(first) ==
  {(0 :> p[1] @@ 4 :> p[2] @@ 8 :> p[3]) :
     p \in Shape(first, {4, 8}) \X Shape(4, {0, 8}) \X Shape(8, {0, 4})}

(* A loop that is entered below its first instruction. *)
Loop == 0 :> Instruction("sub", <<Local(0), Constant(1), Local(0)>>, 0)
        @@ 4 :> Instruction("jnz", <<Local(0), To4(4, 0)>>, 4)

MCPrograms == CASE Shapes = "loops"  -> {Loop}
                [] Shapes = "single" -> Single(Operations)
                [] Shapes = "short"  -> Short(0)
                [] OTHER             -> Single(Operations) \cup Short(0)

MCMachines == IF Shapes = "loops" THEN {Machine(4, Frame, 5)}
              ELSE {Machine(0, Frame, 5),
                    Machine(0, Frame \o <<0, 0, 0, 2>>, 200),
                    Machine(0, Frame \o <<2, 0, 0, 0, 0, 0, 0, 1>>, 77)}
=============================================================================
