---------------------------- MODULE Instructions ----------------------------
(***************************************************************************)
(* What one instruction does to memory, stack and program counter, as the  *)
(* interpreter executes it.  Translated from Vm::execute_decoded, the      *)
(* operands of src/src/vm.rs and the stack and memory they reach.  Here    *)
(* are the instructions compiled code knows, and one it does not; calls    *)
(* are in CallStack.                                                       *)
(* A word has four bytes, as in the code, and a byte has ByteBits bits     *)
(* instead of eight: all arithmetic wraps, and addresses wrap with it.     *)
(* One frame is on the stack: its locals end at FrameEnd.  Floating point  *)
(* is a function of the bits it is given: a float is a word, a double is   *)
(* two.                                                                    *)
(***************************************************************************)
EXTENDS Integers, Sequences, FiniteSets, TLC, SequencesExt, Bitwise

CONSTANTS ByteBits,
          RamStart, MemoryEnd, \* memory is 0 .. MemoryEnd - 1; below RamStart it cannot be written
          LocalsBase, FrameEnd, StackMaximum,
          Mixed(_),            \* the bijection that mixes the state of the random numbers
          Weyl,                \* what is added to that state before
          Real(_, _),          \* the float or double an instruction computes
          Ordered(_, _)        \* whether a floating point comparison holds

Byte    == 2 ^ ByteBits
Bits    == 4 * ByteBits
Modulus == 2 ^ Bits

Wrap(n)   == n % Modulus
Signed(w) == IF w < Modulus \div 2 THEN w ELSE w - Modulus

(* Big-endian bytes; a value too wide loses its upper bytes. *)
Encoded(w, size) == [k \in 1..size |-> (w \div Byte ^ (size - k)) % Byte]
Decoded(bytes)   == FoldLeft(LAMBDA n, b : n * Byte + b, 0, bytes)

Size(width) == CASE width = "byte" -> 1 [] width = "short" -> 2 [] width = "word" -> 4

-----------------------------------------------------------------------------
(* Memory, stack and locals. *)
Readable(address, size) == address + size <= MemoryEnd
Writable(address, size) == RamStart <= address /\ Readable(address, size)
HasLocal(offset, size)  == LocalsBase + offset + size <= FrameEnd
HasWords(m, n)          == Len(m.stack) - 4 * n >= FrameEnd

At(m, address, size) == [k \in 1..size |-> m.memory[address + k - 1]]

LocalBytes(m, offset, size) ==
  SubSeq(m.stack, LocalsBase + offset + 1, LocalsBase + offset + size)

(* The word below n others, and the stack without the words on top. *)
Word(m, n) == Decoded(SubSeq(m.stack, Len(m.stack) - 4 * n - 3, Len(m.stack) - 4 * n))
Cut(m, n)  == [m EXCEPT !.stack = SubSeq(@, 1, Len(@) - 4 * n)]
Pushed(m, w) == [m EXCEPT !.stack = @ \o Encoded(w, 4)]

Put(m, address, size, w) ==
  [m EXCEPT !.memory = [a \in DOMAIN @ |->
                          IF a \in address .. address + size - 1
                          THEN Encoded(w, size)[a - address + 1] ELSE @[a]]]

PutLocal(m, offset, size, w) ==
  [m EXCEPT !.stack = [k \in DOMAIN @ |->
                         IF k - LocalsBase - offset \in 1..size
                         THEN Encoded(w, size)[k - LocalsBase - offset] ELSE @[k]]]

Failed(m) == [m EXCEPT !.status = "error"]
Runs(m)   == m.status = "running"

-----------------------------------------------------------------------------
(* Operands: r is a machine with the values loaded so far. *)
Loadable(m, o, size) ==
  CASE o.mode = "memory" -> Readable(o.value, size)
    [] o.mode = "stack"  -> HasWords(m, 1)
    [] o.mode = "local"  -> HasLocal(o.value, size)
    [] OTHER             -> TRUE

Loaded(m, o, size) ==
  CASE o.mode = "zero"     -> 0
    [] o.mode = "constant" -> o.value
    [] o.mode = "memory"   -> Decoded(At(m, o.value, size))
    [] o.mode = "stack"    -> Word(m, 0)
    [] o.mode = "local"    -> Decoded(LocalBytes(m, o.value, size))

Load(r, o, size) ==
  IF ~ Runs(r.m) THEN r
  ELSE IF ~ Loadable(r.m, o, size) THEN [r EXCEPT !.m = Failed(@)]
  ELSE [m      |-> IF o.mode = "stack" THEN Cut(r.m, 1) ELSE r.m,
        values |-> Append(r.values, Loaded(r.m, o, size))]

Loads(m, operands, size) ==
  FoldLeft(LAMBDA r, o : Load(r, o, size), [m |-> m, values |-> <<>>], operands)

Storable(m, o, size) ==
  CASE o.mode = "zero"     -> TRUE
    [] o.mode = "constant" -> FALSE
    [] o.mode = "memory"   -> Writable(o.value, size)
    [] o.mode = "stack"    -> Len(m.stack) + 4 <= StackMaximum
    [] o.mode = "local"    -> HasLocal(o.value, size)

Stored(m, o, size, w) ==
  CASE o.mode = "zero"   -> m
    [] o.mode = "memory" -> Put(m, o.value, size, w)
    [] o.mode = "stack"  -> Pushed(m, w)
    [] o.mode = "local"  -> PutLocal(m, o.value, size, w)

Store(m, o, size, w) ==
  IF ~ Runs(m) THEN m
  ELSE IF Storable(m, o, size) THEN Stored(m, o, size, w) ELSE Failed(m)

Stores(m, operands, words) ==
  FoldLeft(LAMBDA n, k : Store(n, operands[k], 4, words[k]), m, [k \in DOMAIN words |-> k])

-----------------------------------------------------------------------------
(* The instructions: how many operands are loaded before the others are    *)
(* stored, and what is computed from them.                                 *)
Unary    == {"neg", "bitnot", "copy", "copys", "copyb", "stkpeek", "random", "setrandom",
             "jumpabs", "stkcopy", "numtof", "ceil", "floor", "numtod", "ftod", "jump"}
Binary   == {"add", "sub", "mul", "div", "mod", "bitand", "bitor", "bitxor", "shiftl",
             "sshiftr", "ushiftr", "aload", "aloads", "aloadb", "aloadbit", "fadd",
             "dtof", "dfloor", "fmod", "mzero", "jz", "jnz", "jisnan"}
Ternary  == {"astore", "astores", "astoreb", "astorebit", "jeq", "jne", "jlt", "jge", "jgt",
             "jle", "jltu", "jgeu", "jgtu", "jleu", "jflt", "jdisnan", "mcopy"}
FloatBranches == {"jflt", "jfeq", "jisnan", "jdlt", "jdeq", "jdisnan"}
Doubles  == {"numtod", "ftod", "dtof", "dfloor", "dadd"}
Branches == {"jump", "jz", "jnz", "jeq", "jne", "jlt", "jge", "jgt", "jle", "jltu", "jgeu",
             "jgtu", "jleu"} \cup FloatBranches
Floats   == {"numtof", "ceil", "floor", "fadd", "fmod"} \cup Doubles
Arrays   == {"aload", "aloads", "aloadb", "aloadbit", "astore", "astores", "astoreb", "astorebit"}

Sources(op) ==
  CASE op \in Unary   -> 1
    [] op \in Binary  -> 2
    [] op \in Ternary -> 3
    [] op \in {"dadd", "jfeq"} -> 4
    [] op = "jdlt"    -> 5
    [] op = "jdeq"    -> 7
    [] OTHER          -> 0

Width(op) == CASE op = "copyb" -> "byte" [] op = "copys" -> "short" [] OTHER -> "word"

(* Signed division truncates. *)
Magnitude(n)   == IF n < 0 THEN - n ELSE n
Quotient(a, b) == LET q == Magnitude(a) \div Magnitude(b) IN IF (a < 0) = (b < 0) THEN q ELSE - q

Undefined(op, v) ==
  /\ op \in {"div", "mod"}
  /\ \/ v[2] = 0
     \/ Signed(v[1]) = - (Modulus \div 2) /\ Signed(v[2]) = -1

Shifted(op, a, n) ==
  CASE op = "shiftl"  -> IF n >= Bits THEN 0 ELSE Wrap(a * 2 ^ n)
    [] op = "ushiftr" -> IF n >= Bits THEN 0 ELSE a \div 2 ^ n
    [] op = "sshiftr" -> IF n >= Bits THEN IF Signed(a) < 0 THEN Modulus - 1 ELSE 0
                         ELSE Wrap(Signed(a) \div 2 ^ n)

Computed(op, v) ==
  CASE op = "add"    -> Wrap(v[1] + v[2])
    [] op = "sub"    -> Wrap(v[1] - v[2])
    [] op = "mul"    -> Wrap(v[1] * v[2])
    [] op = "div"    -> Wrap(Quotient(Signed(v[1]), Signed(v[2])))
    [] op = "mod"    -> Wrap(Signed(v[1]) - Signed(v[2]) * Quotient(Signed(v[1]), Signed(v[2])))
    [] op = "neg"    -> Wrap(- v[1])
    [] op = "bitnot" -> Modulus - 1 - v[1]
    [] op = "bitand" -> v[1] & v[2]
    [] op = "bitor"  -> v[1] | v[2]
    [] op = "bitxor" -> v[1] ^^ v[2]
    [] op = "copy"   -> v[1]
    [] op = "copys"  -> v[1] % Byte ^ 2
    [] op = "copyb"  -> v[1] % Byte
    [] OTHER         -> Shifted(op, v[1], v[2])

(* Two words that are a double, the high one first. *)
Double(v, k) == v[k] * Modulus + v[k + 1]

Holds(op, v) ==
  CASE op = "jump" -> TRUE
    [] op = "jz"   -> v[1] = 0
    [] op = "jnz"  -> v[1] # 0
    [] op = "jeq"  -> v[1] = v[2]
    [] op = "jne"  -> v[1] # v[2]
    [] op = "jlt"  -> Signed(v[1]) < Signed(v[2])
    [] op = "jge"  -> Signed(v[1]) >= Signed(v[2])
    [] op = "jgt"  -> Signed(v[1]) > Signed(v[2])
    [] op = "jle"  -> Signed(v[1]) <= Signed(v[2])
    [] op = "jltu" -> v[1] < v[2]
    [] op = "jgeu" -> v[1] >= v[2]
    [] op = "jgtu" -> v[1] > v[2]
    [] op = "jleu" -> v[1] <= v[2]

(* Floating point: jfeq, jdeq and fmod stand for the instructions with a   *)
(* tolerance and the one with two results, the others for all with as many *)
(* operands.                                                               *)
FloatHolds(op, v) == CASE op = "jfeq"   -> Ordered(op, <<v[1], v[2], v[3]>>)
                       [] op = "jflt"   -> Ordered(op, <<v[1], v[2]>>)
                       [] op = "jisnan" -> Ordered(op, <<v[1]>>)

DoubleHolds(op, v) ==
  CASE op = "jdeq"    -> Ordered(op, <<Double(v, 1), Double(v, 3), Double(v, 5)>>)
    [] op = "jdlt"    -> Ordered(op, <<Double(v, 1), Double(v, 3)>>)
    [] op = "jdisnan" -> Ordered(op, <<Double(v, 1)>>)

Taken(op, v) ==
  CASE op \in {"jflt", "jfeq", "jisnan"}  -> FloatHolds(op, v)
    [] op \in {"jdlt", "jdeq", "jdisnan"} -> DoubleHolds(op, v)
    [] OTHER                              -> Holds(op, v)

(* What a floating point instruction stores: a double low word first. *)
Halves(double) == <<double % Modulus, double \div Modulus>>

FloatResult(op, v) ==
  IF op = "fmod" THEN <<Real("remainder", v), Real("quotient", v)>> ELSE <<Real(op, v)>>

DoubleResult(op, v) ==
  CASE op = "dadd"              -> Halves(Real(op, <<Double(v, 1), Double(v, 3)>>))
    [] op = "dfloor"            -> Halves(Real(op, <<Double(v, 1)>>))
    [] op = "dtof"              -> <<Real(op, <<Double(v, 1)>>)>>
    [] op \in {"numtod", "ftod"} -> Halves(Real(op, v))

(* The result of a random number in a range of either sign. *)
Ranged(raw, range) ==
  CASE Signed(range) > 0 -> raw % range
    [] Signed(range) < 0 -> Wrap(- (raw % (- Signed(range))))
    [] OTHER             -> raw

(* The offsets 0 and 1 return from the function. *)
Branch(m, offset) ==
  IF offset \in {0, 1} THEN [m EXCEPT !.status = "returned"]
  ELSE [m EXCEPT !.pc = Wrap(@ + offset - 2)]

-----------------------------------------------------------------------------
(* Arrays: base and index wrap, a bit index is signed. *)
Scale(op) == CASE op \in {"aload", "astore"} -> 4 [] op \in {"aloads", "astores"} -> 2 [] OTHER -> 1

Element(op, base, index) ==
  IF op \in {"aloadbit", "astorebit"} THEN Wrap(base + Signed(index) \div ByteBits)
  ELSE Wrap(base + index * Scale(op))

Bit(old, index) == (old \div 2 ^ (index % ByteBits)) % 2

WithBit(old, index, set) ==
  IF (Bit(old, index) = 1) = set THEN old
  ELSE IF set THEN old + 2 ^ (index % ByteBits) ELSE old - 2 ^ (index % ByteBits)

ReadElement(m, i, v) ==
  LET a    == Element(i.op, v[1], v[2])
      size == Scale(i.op)
      w    == Decoded(At(m, a, size))
  IN  IF ~ Readable(a, size) THEN Failed(m)
      ELSE Store(m, i.operands[3], 4, IF i.op = "aloadbit" THEN Bit(w, v[2]) ELSE w)

WriteElement(m, i, v) ==
  LET a    == Element(i.op, v[1], v[2])
      size == Scale(i.op)
  IN  IF ~ Writable(a, size) THEN Failed(m)
      ELSE IF i.op = "astorebit" THEN Put(m, a, 1, WithBit(m.memory[a], v[2], v[3] # 0))
      ELSE Put(m, a, size, v[3])

-----------------------------------------------------------------------------
(* The stack as the interpreter sees it. *)
Depth(m) == (Len(m.stack) - FrameEnd) \div 4

Peek(m, i, v) ==
  IF HasWords(m, v[1] + 1) THEN Store(m, i.operands[2], 4, Word(m, v[1])) ELSE Failed(m)

Swap(m) ==
  IF HasWords(m, 2) THEN Pushed(Pushed(Cut(m, 2), Word(m, 0)), Word(m, 1)) ELSE Failed(m)

(* stkcopy, which compiled code leaves to the interpreter. *)
CopyWords(m, n) ==
  IF n > Depth(m) \/ Len(m.stack) + 4 * n > StackMaximum THEN Failed(m)
  ELSE [m EXCEPT !.stack = @ \o SubSeq(@, Len(@) - 4 * n + 1, Len(@))]

(* A seed of zero asks for an unpredictable one, with which a run ends here. *)
Seeded(m, seed) == IF seed = 0 THEN [m EXCEPT !.status = "unpredictable"] ELSE [m EXCEPT !.random = seed]

NextRandom(m) == [m EXCEPT !.random = Wrap(@ + Weyl)]

(* Blocks of memory; an empty one is nowhere. *)
Zeroed(m, length, address) ==
  IF length = 0 THEN m
  ELSE IF ~ Writable(address, length) THEN Failed(m)
  ELSE [m EXCEPT !.memory = [a \in DOMAIN @ |-> IF a \in address .. address + length - 1
                                                THEN 0 ELSE @[a]]]

Copied(m, length, source, target) ==
  IF length = 0 THEN m
  ELSE IF ~ (Readable(source, length) /\ Writable(target, length)) THEN Failed(m)
  ELSE [m EXCEPT !.memory = [a \in DOMAIN @ |-> IF a \in target .. target + length - 1
                                                THEN @[source + (a - target)] ELSE @[a]]]

(* What becomes of a machine that has loaded the operands v and stores to `to`. *)
Executed(m, v, to, i) ==
  CASE ~ Runs(m)            -> m
    [] i.op \in Branches    -> IF Taken(i.op, v) THEN Branch(m, Last(v)) ELSE m
    [] i.op \in Arrays      -> IF i.op \in Ternary THEN WriteElement(m, i, v) ELSE ReadElement(m, i, v)
    [] i.op \in Doubles     -> Stores(m, to, DoubleResult(i.op, v))
    [] i.op \in Floats \ Doubles -> Stores(m, to, FloatResult(i.op, v))
    [] i.op = "mzero"       -> Zeroed(m, v[1], v[2])
    [] i.op = "mcopy"       -> Copied(m, v[1], v[2], v[3])
    [] i.op = "nop"         -> m
    [] i.op = "stkcount"    -> Store(m, to[1], 4, Depth(m))
    [] i.op = "stkpeek"     -> Peek(m, i, v)
    [] i.op = "stkswap"     -> Swap(m)
    [] i.op = "stkcopy"     -> CopyWords(m, v[1])
    [] i.op = "getmemsize"  -> Store(m, to[1], 4, MemoryEnd)
    [] i.op = "random"      -> LET n == NextRandom(m) IN Store(n, to[1], 4, Ranged(Mixed(n.random), v[1]))
    [] i.op = "setrandom"   -> Seeded(m, v[1])
    [] i.op = "jumpabs"     -> [m EXCEPT !.pc = v[1]]
    [] OTHER                -> IF Undefined(i.op, v) THEN Failed(m)
                               ELSE Store(m, to[1], Size(Width(i.op)), Computed(i.op, v))

Execute(before, i) ==
  LET n == Sources(i.op)
      r == Loads([before EXCEPT !.pc = i.next], SubSeq(i.operands, 1, n), Size(Width(i.op)))
  IN  Executed(r.m, r.values, SubSeq(i.operands, n + 1, Len(i.operands)), i)
=============================================================================
