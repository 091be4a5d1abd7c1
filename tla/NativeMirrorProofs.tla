-------------------------- MODULE NativeMirrorProofs --------------------------
(* Proofs about NativeMirror, for every page size, memory size, stack limit  *)
(* and set of instructions. They are about SingleSpec: an instruction with   *)
(* two results can overwrite its operand before it is refused.               *)
EXTENDS NativeMirror, SequenceTheorems, TLAPS

-----------------------------------------------------------------------------
(* Pages and the range of written addresses *)

RangeOK(range) ==
  range = <<>> \/ \E lo, hi \in Nat : lo < hi /\ range = <<lo, hi>>

\* Cells in order lie in pages in order.
LEMMA PagesInOrder ==
  ASSUME NEW a \in Nat, NEW b \in Nat, a <= b
  PROVE  Page(a) \in Nat /\ Page(b) \in Nat /\ Page(a) <= Page(b)
<1> DEFINE qa == a \div PageSize
           qb == b \div PageSize
<1>1. PageSize \in Nat \ {0}
  BY NativeMirrorAssumption
<1>2. qa \in Nat /\ a = (PageSize * qa) + (a % PageSize) /\ a % PageSize \in 0 .. PageSize - 1
  BY <1>1
<1>3. qb \in Nat /\ b = (PageSize * qb) + (b % PageSize) /\ b % PageSize \in 0 .. PageSize - 1
  BY <1>1
<1>4. qa <= qb
  <2> HIDE DEF qa, qb
  <2> SUFFICES ASSUME ~ (qa <= qb) PROVE FALSE
    OBVIOUS
  <2>1. qa >= qb + 1 /\ qa - (qb + 1) \in Nat
    BY <1>2, <1>3
  <2>2. PageSize * qa = PageSize * (qb + 1) + PageSize * (qa - (qb + 1))
    BY <1>1, <1>2, <1>3, <2>1
  <2>3. PageSize * (qa - (qb + 1)) \in Nat
    BY <1>1, <2>1
  <2>4. PageSize * (qb + 1) = PageSize * qb + PageSize
    BY <1>1, <1>3
  <2> DEFINE x == PageSize * qa
             y == PageSize * qb
             z == PageSize * (qa - (qb + 1))
  <2>5. x \in Nat /\ y \in Nat /\ z \in Nat /\ x = y + PageSize + z
    BY <1>1, <1>2, <1>3, <2>2, <2>3, <2>4
  <2>6. a = x + (a % PageSize) /\ b = y + (b % PageSize)
    BY <1>2, <1>3
  <2> HIDE DEF x, y, z
  <2> QED BY <2>5, <2>6, <1>1, <1>2, <1>3
<1> QED BY <1>2, <1>3, <1>4 DEF Page

\* Every cell of the story's original memory is in one of its pages.
LEMMA CellPage ==
  ASSUME NEW pages \in Nat, NEW c \in Cells(pages)
  PROVE  c \in Nat /\ Page(c) \in 0 .. pages - 1
<1> DEFINE q == c \div PageSize
           all == pages * PageSize
<1>1. PageSize \in Nat \ {0}
  BY NativeMirrorAssumption
<1>2. all \in Nat /\ c \in 0 .. all - 1
  BY <1>1 DEF Cells
<1>3. c \in Nat
  BY <1>2
<1>4. q \in Nat /\ c = (PageSize * q) + (c % PageSize) /\ c % PageSize \in 0 .. PageSize - 1
  BY <1>1, <1>3
<1>5. q <= pages - 1
  <2> SUFFICES ASSUME ~ (q <= pages - 1) PROVE FALSE
    OBVIOUS
  <2> HIDE DEF q
  <2>1. q - pages \in Nat
    BY <1>4
  <2>2. PageSize * q = all + PageSize * (q - pages) /\ PageSize * (q - pages) \in Nat
    BY <1>1, <1>4, <2>1
  <2> DEFINE x == PageSize * q
             z == PageSize * (q - pages)
  <2>3. x \in Nat /\ z \in Nat /\ x = all + z /\ c = x + (c % PageSize)
    BY <1>1, <1>4, <2>2
  <2> HIDE DEF x, z, all
  <2> QED BY <2>3, <1>2, <1>4
<1> QED BY <1>3, <1>4, <1>5 DEF Page

\* The smaller and the larger of two numbers.
LEMMA OfTwo ==
  ASSUME NEW a \in Int, NEW b \in Int
  PROVE  /\ Min({a, b}) = IF a <= b THEN a ELSE b
         /\ Max({a, b}) = IF a >= b THEN a ELSE b
<1>1. ASSUME NEW x \in {a, b}, \A y \in {a, b} : x =< y
      PROVE  x = IF a <= b THEN a ELSE b
  BY <1>1
<1>2. \E x \in {a, b} : \A y \in {a, b} : x =< y
  BY a <= b \/ b <= a
<1>3. Min({a, b}) \in {a, b} /\ \A y \in {a, b} : Min({a, b}) =< y
  BY <1>2 DEF Min
<1>4. ASSUME NEW x \in {a, b}, \A y \in {a, b} : x >= y
      PROVE  x = IF a >= b THEN a ELSE b
  BY <1>4
<1>5. \E x \in {a, b} : \A y \in {a, b} : x >= y
  BY a >= b \/ b >= a
<1>6. Max({a, b}) \in {a, b} /\ \A y \in {a, b} : Max({a, b}) >= y
  BY <1>5 DEF Max
<1> QED BY <1>1, <1>3, <1>4, <1>6

LEMMA RangeIntroduction ==
  ASSUME NEW lo \in Nat, NEW hi \in Nat, lo < hi
  PROVE  RangeOK(<<lo, hi>>)
BY Zenon DEF RangeOK

\* A range that is extended covers the pages it covered, and that of the new cell.
LEMMA ExtendCovers ==
  ASSUME NEW range, RangeOK(range), NEW cells, cells = {} \/ \E c \in Nat : cells = {c}
  PROVE  /\ RangeOK(Extend(range, cells))
         /\ PagesOf(range) \subseteq PagesOf(Extend(range, cells))
         /\ \A c \in cells : Page(c) \in PagesOf(Extend(range, cells))
<1>1. CASE cells = {}
  BY <1>1 DEF Extend
<1>2. CASE cells # {}
  <2> PICK c \in Nat : cells = {c}
    BY <1>2
  <2>1. Min({c}) = c /\ Max({c}) = c
    <3>1. Min({c, c}) = c /\ Max({c, c}) = c
      BY OfTwo
    <3> QED BY <3>1, {c, c} = {c}
  <2>2. cells # {} /\ Min(cells) = c /\ Max(cells) + 1 = c + 1
    BY <2>1
  <2>3. CASE range = <<>>
    <3>1. Extend(range, cells) = <<c, c + 1>>
      BY <2>2, <2>3 DEF Extend
    <3>2. <<c, c + 1>> # <<>> /\ <<c, c + 1>>[1] = c /\ <<c, c + 1>>[2] - 1 = c
      OBVIOUS
    <3>3. PagesOf(Extend(range, cells)) = Page(c) .. Page(c) /\ PagesOf(range) = {}
      BY <3>1, <3>2, <2>3 DEF PagesOf
    <3>4. Page(c) \in Nat
      BY PagesInOrder
    <3>5. RangeOK(Extend(range, cells))
      BY <3>1, c < c + 1, c + 1 \in Nat, RangeIntroduction
    <3>6. PagesOf(range) \subseteq PagesOf(Extend(range, cells))
      BY <3>3
    <3>7. Page(c) \in PagesOf(Extend(range, cells))
      BY <3>3, <3>4
    <3> QED BY <3>5, <3>6, <3>7
  <2>4. CASE range # <<>>
    <3> PICK lo \in Nat, hi \in Nat : lo < hi /\ range = <<lo, hi>>
      BY <2>4, Zenon DEF RangeOK
    <3> DEFINE l == IF lo <= c THEN lo ELSE c
               h == IF hi >= c + 1 THEN hi ELSE c + 1
    <3>1. range # <<>> /\ range[1] = lo /\ range[2] = hi
      OBVIOUS
    <3>2. Min({lo, c}) = l /\ Max({hi, c + 1}) = h
      <4>1. lo \in Int /\ c \in Int /\ hi \in Int /\ c + 1 \in Int
        OBVIOUS
      <4>2. Min({lo, c}) = l
        BY <4>1, OfTwo, Zenon
      <4>3. Max({hi, c + 1}) = h
        BY <4>1, OfTwo, Zenon
      <4> QED BY <4>2, <4>3
    <3>3. Extend(range, cells) = <<l, h>>
      BY <2>2, <3>1, <3>2 DEF Extend
    <3>4. /\ l \in Nat /\ h \in Nat /\ h - 1 \in Nat /\ hi - 1 \in Nat
          /\ l < h /\ l <= lo /\ hi - 1 <= h - 1 /\ l <= c /\ c <= h - 1
      OBVIOUS
    <3> HIDE DEF l, h
    <3>5. RangeOK(Extend(range, cells))
      BY <3>3, <3>4, RangeIntroduction
    <3>6. <<l, h>> # <<>> /\ <<l, h>>[1] = l /\ <<l, h>>[2] = h
      OBVIOUS
    <3>7. PagesOf(Extend(range, cells)) = Page(l) .. Page(h - 1)
      BY <3>3, <3>6 DEF PagesOf
    <3>8. PagesOf(range) = Page(lo) .. Page(hi - 1)
      BY <3>1 DEF PagesOf
    <3>9. /\ Page(l) \in Nat /\ Page(h - 1) \in Nat /\ Page(lo) \in Nat /\ Page(hi - 1) \in Nat
          /\ Page(c) \in Nat
          /\ Page(l) <= Page(lo) /\ Page(hi - 1) <= Page(h - 1)
          /\ Page(l) <= Page(c) /\ Page(c) <= Page(h - 1)
      BY <3>4, PagesInOrder
    <3>10. PagesOf(range) \subseteq PagesOf(Extend(range, cells))
      BY <3>7, <3>8, <3>9
    <3>11. Page(c) \in PagesOf(Extend(range, cells))
      BY <3>7, <3>9
    <3> QED BY <3>5, <3>10, <3>11
  <2> QED BY <2>3, <2>4
<1> QED BY <1>1, <1>2

-----------------------------------------------------------------------------
(* Machines and instructions *)

\* A machine whose frame holds its local variables at least.
Sound(m) == m \in Machine /\ Len(m.stack) >= 1

LEMMA MachineParts ==
  ASSUME NEW m \in Machine
  PROVE  /\ m = [ram |-> m.ram, stack |-> m.stack, pc |-> m.pc]
         /\ m.stack \in Seq(Value) /\ m.pc \in Pc
         /\ \E pages \in OrigPages .. MaxPages :
              m.ram \in [Cells(pages) -> Value] /\ DOMAIN m.ram = Cells(pages)
BY DEF Machine, Memory

LEMMA MachineIntroduction ==
  ASSUME NEW pages \in OrigPages .. MaxPages, NEW ram \in [Cells(pages) -> Value],
         NEW stack \in Seq(Value), NEW pc \in Pc
  PROVE  [ram |-> ram, stack |-> stack, pc |-> pc] \in Machine
BY DEF Machine, Memory

LEMMA InstructionParts ==
  ASSUME NEW i \in Single
  PROVE  /\ i \in Instr /\ i.from \in Operand /\ i.next \in Pc
         /\ \/ Len(i.to) = 0 /\ DOMAIN i.to = {}
            \/ Len(i.to) = 1 /\ DOMAIN i.to = {1} /\ i.to[1] \in Destination
<1>1. /\ i \in Instr /\ i.from \in Operand /\ i.next \in Pc
      /\ i.to \in Seq(Destination) /\ Len(i.to) <= 1
  BY NativeMirrorAssumption DEF Single
<1>2. Len(i.to) \in Nat /\ DOMAIN i.to = 1 .. Len(i.to)
      /\ \A k \in 1 .. Len(i.to) : i.to[k] \in Destination
  BY <1>1
<1>3. CASE Len(i.to) = 0
  BY <1>1, <1>2, <1>3
<1>4. CASE Len(i.to) = 1
  BY <1>1, <1>2, <1>4
<1>5. Len(i.to) = 0 \/ Len(i.to) = 1
  <2> DEFINE n == Len(i.to)
  <2>1. n \in Nat /\ n <= 1
    BY <1>1, <1>2
  <2> HIDE DEF n
  <2>2. n = 0 \/ n = 1
    BY <2>1
  <2> QED BY <2>2 DEF n
<1> QED BY <1>1, <1>3, <1>4, <1>5

LEMMA OperandParts ==
  ASSUME NEW o \in Operand
  PROVE  /\ o.mode \in {"constant", "memory", "stack", "local"}
         /\ o.mode = "constant" => o.value \in Value
         /\ o.mode = "memory" => o.cell \in Nat
<1>1. \A c \in Cells(MaxPages) : c \in Nat
  BY NativeMirrorAssumption, CellPage
<1> QED BY <1>1 DEF Operand

\* Taking the operand leaves a sound machine and changes nothing else.
LEMMA PopProperties ==
  ASSUME NEW m, Sound(m), NEW from \in Operand, from.mode = "stack" => Len(m.stack) > 1
  PROVE  /\ Sound(Pop(m, from))
         /\ Pop(m, from).ram = m.ram /\ Len(Pop(m, from).stack) <= Len(m.stack)
         /\ from.mode # "stack" => Pop(m, from) = m
         /\ \A k \in 1 .. Len(Pop(m, from).stack) : Pop(m, from).stack[k] = m.stack[k]
<1>1. m \in Machine /\ m.stack \in Seq(Value) /\ Len(m.stack) \in Nat /\ Len(m.stack) >= 1
  BY MachineParts DEF Sound
<1>2. CASE from.mode # "stack"
  BY <1>1, <1>2 DEF Pop, Sound
<1>3. CASE from.mode = "stack"
  <2> DEFINE n == Len(m.stack) - 1
             s == SubSeq(m.stack, 1, n)
  <2>1. n \in Nat /\ n >= 1 /\ n <= Len(m.stack)
    BY <1>1, <1>3
  <2>2. \A k \in 1 .. n : m.stack[k] \in Value
    BY <1>1, <2>1
  <2>3. s \in Seq(Value) /\ Len(s) = n /\ \A k \in 1 .. n : s[k] = m.stack[k]
    <3>1. /\ s \in Seq(Value)
          /\ Len(s) = IF 1 <= n THEN n - 1 + 1 ELSE 0
          /\ \A k \in 1 .. n - 1 + 1 : s[k] = m.stack[1 + k - 1]
      BY <2>2, <2>1, SubSeqProperties
    <3> HIDE DEF s
    <3> QED BY <3>1, <2>1
  <2>4. Pop(m, from) = [m EXCEPT !.stack = s]
    BY <1>3 DEF Pop
  <2> HIDE DEF s, n
  <2>5. /\ Pop(m, from).ram = m.ram /\ Pop(m, from).stack = s /\ Pop(m, from) \in Machine
    BY <2>3, <2>4, <1>1 DEF Machine
  <2> QED BY <2>5, <2>3, <2>1, <1>3 DEF Sound
<1> QED BY <1>2, <1>3

\* A legal instruction finds a value.
LEMMA FetchProperties ==
  ASSUME NEW m, Sound(m), NEW from \in Operand,
         from.mode = "memory" => from.cell \in DOMAIN m.ram
  PROVE  Fetch(m, from) \in Value
<1>1. m.stack \in Seq(Value) /\ Len(m.stack) \in Nat /\ Len(m.stack) >= 1
      /\ \E pages \in OrigPages .. MaxPages :
           m.ram \in [Cells(pages) -> Value] /\ DOMAIN m.ram = Cells(pages)
  BY MachineParts DEF Sound
<1>2. m.stack[1] \in Value /\ m.stack[Len(m.stack)] \in Value
  BY <1>1
<1>3. from.mode \in {"constant", "memory", "stack", "local"}
      /\ (from.mode = "constant" => from.value \in Value)
  BY OperandParts
<1>4. from.mode = "memory" => m.ram[from.cell] \in Value
  BY <1>1
<1>5. CASE from.mode = "constant" BY <1>5, <1>3 DEF Fetch
<1>6. CASE from.mode = "memory" BY <1>6, <1>4 DEF Fetch
<1>7. CASE from.mode = "stack" BY <1>7, <1>2 DEF Fetch
<1>8. CASE from.mode = "local" BY <1>8, <1>2 DEF Fetch
<1> QED BY <1>3, <1>5, <1>6, <1>7, <1>8

\* Storing a result changes the cell or the stack, as its destination says.
LEMMA PutProperties ==
  ASSUME NEW m, Sound(m), NEW to \in Destination, NEW value \in Value,
         to.mode = "memory" => to.cell \in DOMAIN m.ram
  PROVE  /\ Sound(Put(m, to, value))
         /\ DOMAIN Put(m, to, value).ram = DOMAIN m.ram
         /\ \A c \in DOMAIN m.ram :
              ~ (to.mode = "memory" /\ to.cell = c) => Put(m, to, value).ram[c] = m.ram[c]
         /\ to.mode = "memory" => Put(m, to, value).stack = m.stack
         /\ to.mode # "stack" => Len(Put(m, to, value).stack) = Len(m.stack)
         /\ to.mode = "stack" => Len(Put(m, to, value).stack) = Len(m.stack) + 1
<1>1. m \in Machine /\ m.stack \in Seq(Value) /\ Len(m.stack) \in Nat /\ Len(m.stack) >= 1
  BY MachineParts DEF Sound
<1>2. PICK pages \in OrigPages .. MaxPages :
        m.ram \in [Cells(pages) -> Value] /\ DOMAIN m.ram = Cells(pages)
  BY <1>1, MachineParts
<1>3. to \in Operand /\ to.mode \in {"memory", "stack", "local"}
  BY OperandParts DEF Destination
<1>4. CASE to.mode = "memory"
  <2> DEFINE r == [m.ram EXCEPT ![to.cell] = value]
  <2>1. Put(m, to, value) = [m EXCEPT !.ram = r]
    BY <1>4 DEF Put
  <2>2. /\ r \in [Cells(pages) -> Value] /\ DOMAIN r = DOMAIN m.ram
        /\ \A c \in DOMAIN m.ram : to.cell # c => r[c] = m.ram[c]
    BY <1>2, <1>4
  <2> HIDE DEF r
  <2>3. [m EXCEPT !.ram = r] \in Machine /\ [m EXCEPT !.ram = r].ram = r
        /\ [m EXCEPT !.ram = r].stack = m.stack
    BY <1>1, <2>2 DEF Machine, Memory
  <2> QED BY <2>1, <2>2, <2>3, <1>1, <1>4 DEF Sound
<1>5. CASE to.mode = "stack"
  <2> DEFINE s == Append(m.stack, value)
  <2>1. Put(m, to, value) = [m EXCEPT !.stack = s]
    BY <1>5 DEF Put
  <2>2. s \in Seq(Value) /\ Len(s) = Len(m.stack) + 1
    BY <1>1
  <2> HIDE DEF s
  <2>3. [m EXCEPT !.stack = s] \in Machine /\ [m EXCEPT !.stack = s].stack = s
        /\ [m EXCEPT !.stack = s].ram = m.ram
    BY <1>1, <2>2 DEF Machine
  <2> QED BY <2>1, <2>2, <2>3, <1>1, <1>5 DEF Sound
<1>6. CASE to.mode = "local"
  <2> DEFINE s == [m.stack EXCEPT ![1] = value]
  <2>1. Put(m, to, value) = [m EXCEPT !.stack = s]
    BY <1>6 DEF Put
  <2>2. s \in Seq(Value) /\ Len(s) = Len(m.stack)
    BY <1>1
  <2> HIDE DEF s
  <2>3. [m EXCEPT !.stack = s] \in Machine /\ [m EXCEPT !.stack = s].stack = s
        /\ [m EXCEPT !.stack = s].ram = m.ram
    BY <1>1, <2>2 DEF Machine
  <2> QED BY <2>1, <2>2, <2>3, <1>1, <1>6 DEF Sound
<1> QED BY <1>3, <1>4, <1>5, <1>6

LEMMA JumpProperties ==
  ASSUME NEW m, Sound(m), NEW pc \in Pc
  PROVE  /\ Sound([m EXCEPT !.pc = pc])
         /\ [m EXCEPT !.pc = pc].ram = m.ram /\ [m EXCEPT !.pc = pc].stack = m.stack
BY DEF Sound, Machine

\* An instruction writes one cell at most.
LEMMA WrittenProperties ==
  ASSUME NEW i \in Single
  PROVE  /\ Written(i) = {} \/ \E c \in Nat : Written(i) = {c}
         /\ Len(i.to) = 1 /\ i.to[1].mode = "memory" => Written(i) = {i.to[1].cell}
<1>1. CASE DOMAIN i.to = {}
  <2>1. Written(i) = {}
    BY <1>1 DEF Written
  <2>2. Len(i.to) = 0
    BY <1>1, InstructionParts
  <2> QED BY <2>1, <2>2
<1>2. CASE DOMAIN i.to = {1} /\ i.to[1] \in Destination
  <2>1. i.to[1].mode = "memory" => i.to[1].cell \in Nat
    BY <1>2, OperandParts DEF Destination
  <2>2. CASE i.to[1].mode = "memory"
    <3>1. Written(i) = {i.to[1].cell}
      BY <1>2, <2>2 DEF Written
    <3> QED BY <3>1, <2>1, <2>2
  <2>3. CASE i.to[1].mode # "memory"
    <3>1. Written(i) = {}
      BY <1>2, <2>3 DEF Written
    <3> QED BY <3>1, <2>3
  <2> QED BY <2>2, <2>3
<1> QED BY <1>1, <1>2, InstructionParts

\* What a legal instruction does to a machine, whichever side executes it.
LEMMA AfterProperties ==
  ASSUME NEW m, Sound(m), NEW i \in Single, Legal(m, i)
  PROVE  /\ Sound(After(m, i))
         /\ DOMAIN After(m, i).ram = DOMAIN m.ram
         /\ \A c \in DOMAIN m.ram : c \notin Written(i) => After(m, i).ram[c] = m.ram[c]
         /\ ~ UsesStack(i) => After(m, i).stack = m.stack
         /\ \A size \in Nat :
              Len(m.stack) <= size /\ (\A k \in DOMAIN i.to : Room(m, i, k, size))
                => Len(After(m, i).stack) <= size
<1> DEFINE p == Pop(m, i.from)
<1>1. i.from \in Operand /\ i.next \in Pc
  BY InstructionParts
<1>2. /\ Sound(p) /\ p.ram = m.ram /\ Len(p.stack) <= Len(m.stack)
      /\ i.from.mode # "stack" => p = m
  BY <1>1, PopProperties DEF Legal
<1>3. Len(m.stack) \in Nat /\ Len(p.stack) \in Nat
  BY <1>2, MachineParts DEF Sound
<1>4. CASE Len(i.to) = 0 /\ DOMAIN i.to = {}
  <2>1. Stored(m, i, Len(i.to)) = p
    BY <1>4 DEF Stored
  <2>2. After(m, i) = [p EXCEPT !.pc = i.next]
    BY <2>1 DEF After
  <2>3. ~ UsesStack(i) => i.from.mode # "stack"
    BY DEF UsesStack
  <2> HIDE DEF p
  <2>4. Sound(After(m, i)) /\ After(m, i).ram = p.ram /\ After(m, i).stack = p.stack
    BY <2>2, <1>1, <1>2, JumpProperties
  <2> QED BY <2>4, <2>3, <1>2, <1>3
<1>5. CASE Len(i.to) = 1 /\ DOMAIN i.to = {1} /\ i.to[1] \in Destination
  <2> DEFINE to == i.to[1]
             value == Fetch(m, i.from)
             s == Put(p, to, value)
  <2>1. Stored(m, i, Len(i.to)) = s
    BY <1>5 DEF Stored
  <2>2. After(m, i) = [s EXCEPT !.pc = i.next]
    BY <2>1 DEF After
  <2>3. value \in Value
    BY <1>1, FetchProperties DEF Legal
  <2>4. to \in Destination /\ (to.mode = "memory" => to.cell \in DOMAIN p.ram)
    BY <1>2, <1>5 DEF Legal
  <2>5. ~ UsesStack(i) => i.from.mode # "stack" /\ to.mode = "memory"
    <3>1. to.mode \in {"memory", "stack", "local"}
      BY <1>5, OperandParts DEF Destination
    <3> QED BY <3>1, <1>5 DEF UsesStack
  <2>6. to.mode = "memory" => Written(i) = {to.cell}
    BY <1>5, WrittenProperties
  <2>7. \A size \in Nat : Room(m, i, 1, size) /\ to.mode = "stack" => Len(p.stack) < size
    <3>1. Stored(m, i, 1 - 1) = p
      BY DEF Stored
    <3> QED BY <3>1 DEF Room
  <2> HIDE DEF p, to, value
  <2>8. /\ Sound(s) /\ DOMAIN s.ram = DOMAIN m.ram
        /\ \A c \in DOMAIN m.ram : ~ (to.mode = "memory" /\ to.cell = c) => s.ram[c] = m.ram[c]
        /\ to.mode = "memory" => s.stack = p.stack
        /\ to.mode # "stack" => Len(s.stack) = Len(p.stack)
        /\ to.mode = "stack" => Len(s.stack) = Len(p.stack) + 1
    BY <1>2, <2>3, <2>4, PutProperties
  <2> HIDE DEF s
  <2>9. Sound(After(m, i)) /\ After(m, i).ram = s.ram /\ After(m, i).stack = s.stack
    BY <2>2, <2>8, <1>1, JumpProperties
  <2>10. ASSUME NEW c \in DOMAIN m.ram, c \notin Written(i) PROVE After(m, i).ram[c] = m.ram[c]
    BY <2>6, <2>8, <2>9, <2>10
  <2>11. ASSUME ~ UsesStack(i) PROVE After(m, i).stack = m.stack
    BY <2>5, <2>8, <2>9, <2>11, <1>2
  <2>12. ASSUME NEW size \in Nat, Len(m.stack) <= size, \A k \in DOMAIN i.to : Room(m, i, k, size)
         PROVE  Len(After(m, i).stack) <= size
    <3>1. Room(m, i, 1, size)
      BY <2>12, <1>5
    <3>2. CASE to.mode = "stack"
      <4>1. Len(p.stack) < size /\ Len(After(m, i).stack) = Len(p.stack) + 1
        BY <3>1, <3>2, <2>7, <2>8, <2>9
      <4> QED BY <4>1, <1>3
    <3>3. CASE to.mode # "stack"
      <4>1. Len(After(m, i).stack) = Len(p.stack)
        BY <3>3, <2>8, <2>9
      <4> QED BY <4>1, <1>2, <1>3, <2>12
    <3> QED BY <3>2, <3>3
  <2> QED BY <2>8, <2>9, <2>10, <2>11, <2>12
<1> QED BY <1>4, <1>5, InstructionParts
-----------------------------------------------------------------------------
(* The inductive invariant. That the two dirty sets know every difference is *)
(* what makes the refresh and the write-back exact; what each set is when    *)
(* the copy is valid, and the stack when it is not marked, is missing in the *)
(* properties.                                                               *)

CopyOK ==
  /\ Len(truth.stack) \in 1 .. MaxStack
  /\ capacity \in Nat /\ RangeOK(written) /\ stack_dirty \in BOOLEAN
  /\ native_state_valid =>
       native_dirty_pages = {} /\ (~ stack_dirty => native.stack = vm.stack)

Inv == TypeOK /\ Faithful /\ HostCurrent /\ Tracked /\ CopyOK

LEMMA TruthSound ==
  ASSUME Inv
  PROVE  /\ Sound(truth) /\ Len(truth.stack) <= MaxStack
         /\ native_state_valid => native = truth
         /\ ~ native_state_valid => vm = truth
BY NativeMirrorAssumption DEF Inv, TypeOK, Faithful, CopyOK, Sound

\* commit_native_state gives the interpreter the machine of compiled code, all of it.
LEMMA BackIsCopy ==
  ASSUME Inv, native_state_valid
  PROVE  Back(native, written, stack_dirty) = native
<1> DEFINE r == [c \in DOMAIN vm.ram |->
                   IF Page(c) \in PagesOf(written) THEN native.ram[c] ELSE vm.ram[c]]
           s == IF stack_dirty \/ Len(native.stack) # Len(vm.stack) THEN native.stack ELSE vm.stack
<1>1. /\ native \in Machine /\ DOMAIN native.ram = DOMAIN vm.ram
      /\ native_dirty_pages = {} /\ stack_dirty \in BOOLEAN
      /\ ~ stack_dirty => native.stack = vm.stack
  BY DEF Inv, TypeOK, CopyOK
<1>2. \A c \in DOMAIN vm.ram : native.ram[c] # vm.ram[c] => Page(c) \in PagesOf(written)
  BY <1>1 DEF Inv, Tracked
<1>3. native.ram = [c \in DOMAIN native.ram |-> native.ram[c]]
  BY <1>1, MachineParts
<1>4. r = native.ram
  BY <1>1, <1>2, <1>3
<1>5. s = native.stack
  BY <1>1
<1>6. Back(native, written, stack_dirty) = [ram |-> r, stack |-> s, pc |-> native.pc]
  BY DEF Back
<1> HIDE DEF r, s
<1> QED BY <1>1, <1>4, <1>5, <1>6, MachineParts

LEMMA CommittedIsTruth ==
  ASSUME Inv
  PROVE  Committed = truth
BY BackIsCopy, TruthSound DEF Committed

\* sync_from_vm brings the copy of memory up to date, by pages or as a whole.
LEMMA RefreshedIsMemory ==
  ASSUME Inv, ~ native_state_valid
  PROVE  Refreshed = vm.ram
<1>1. vm \in Machine
  BY DEF Inv, TypeOK
<1>2. vm.ram = [c \in DOMAIN vm.ram |-> vm.ram[c]]
  BY <1>1, MachineParts
<1>3. CASE DOMAIN native.ram # DOMAIN vm.ram
  BY <1>3 DEF Refreshed
<1>4. CASE DOMAIN native.ram = DOMAIN vm.ram
  <2>1. \A c \in DOMAIN vm.ram : native.ram[c] # vm.ram[c] => Page(c) \in native_dirty_pages
    BY <1>4 DEF Inv, Tracked
  <2> QED BY <2>1, <1>2, <1>4 DEF Refreshed
<1> QED BY <1>3, <1>4

\* Whatever the copy has wrong about the machine is in the set of dirty pages.
LEMMA TruthTracked ==
  ASSUME Inv
  PROVE  \A c \in DOMAIN truth.ram \cap DOMAIN native.ram :
           native.ram[c] # truth.ram[c] => Page(c) \in native_dirty_pages
<1>1. CASE native_state_valid
  BY <1>1, TruthSound
<1>2. CASE ~ native_state_valid
  BY <1>2, TruthSound DEF Inv, Tracked
<1> QED BY <1>1, <1>2

-----------------------------------------------------------------------------
(* Steps *)

\* The interpreter or the host changes the machine, and the copy is no longer used.
LEMMA InvalidatingStep ==
  ASSUME Inv,
         phase' \in {"host", "vm"}, jit' \in BOOLEAN, waiting' \in BOOLEAN,
         native' = native, capacity' = capacity, RangeOK(written'), stack_dirty' \in BOOLEAN,
         native_state_valid' = FALSE,
         vm' = truth', Sound(truth'), Len(truth'.stack) <= MaxStack,
         \A c \in DOMAIN truth'.ram \cap DOMAIN native.ram :
           native.ram[c] # truth'.ram[c] => Page(c) \in native_dirty_pages'
  PROVE  Inv'
<1>1. Len(truth'.stack) \in 1 .. MaxStack /\ truth' \in Machine
  <2>1. truth' \in Machine /\ Len(truth'.stack) >= 1
    BY DEF Sound
  <2>2. truth'.stack \in Seq(Value)
    BY <2>1, MachineParts
  <2>3. Len(truth'.stack) \in Nat
    BY <2>2
  <2> QED BY <2>1, <2>3, NativeMirrorAssumption
<1>2. TypeOK'
  BY <1>1 DEF TypeOK
<1>3. Faithful' /\ HostCurrent'
  BY DEF Faithful, HostCurrent
<1>4. Tracked'
  BY DEF Tracked
<1>5. CopyOK'
  BY <1>1 DEF CopyOK, Inv
<1> QED BY <1>2, <1>3, <1>4, <1>5 DEF Inv

\* What commit_native_state leaves of the copy is in order.
LEMMA CleanCopy ==
  ASSUME Inv, Clean
  PROVE  /\ native' = native /\ capacity' = capacity
         /\ RangeOK(written') /\ stack_dirty' \in BOOLEAN
BY DEF Clean, Inv, CopyOK, RangeOK

LEMMA HostIsTruth ==
  ASSUME Inv, phase = "host"
  PROVE  vm = truth
BY DEF Inv, HostCurrent

LEMMA FreshSound ==
  ASSUME NEW pc \in Pc
  PROVE  /\ Sound(Fresh(pc)) /\ Len(Fresh(pc).stack) = 1
         /\ Fresh(pc).ram = [c \in Cells(OrigPages) |-> Zero]
<1>1. OrigPages \in OrigPages .. MaxPages /\ Zero \in Value
  BY NativeMirrorAssumption
<1> DEFINE r == [c \in Cells(OrigPages) |-> Zero]
           s == <<Zero>>
<1>2. r \in [Cells(OrigPages) -> Value] /\ s \in Seq(Value) /\ Len(s) = 1
  BY <1>1
<1>3. Fresh(pc) = [ram |-> r, stack |-> s, pc |-> pc]
  BY DEF Fresh
<1> HIDE DEF r, s
<1>4. Fresh(pc) \in Machine
  BY <1>1, <1>2, <1>3, MachineIntroduction
<1>5. Fresh(pc).stack = s /\ Fresh(pc).ram = r
  BY <1>3
<1>6. Len(Fresh(pc).stack) = 1
  BY <1>2, <1>5, Zenon
<1>7. Fresh(pc).ram = [c \in Cells(OrigPages) |-> Zero]
  BY <1>5 DEF r
<1>8. Sound(Fresh(pc))
  <2>1. 1 >= 1
    OBVIOUS
  <2> QED BY <2>1, <1>4, <1>6, Zenon DEF Sound
<1> QED BY <1>6, <1>7, <1>8

LEMMA InitInv == Init => Inv
<1> SUFFICES ASSUME Init PROVE Inv
  OBVIOUS
<1>1. PICK pc \in Pc : vm = Fresh(pc)
  BY DEF Init
<1>2. Sound(vm) /\ Len(vm.stack) = 1 /\ 1 \in 1 .. MaxStack
  BY <1>1, FreshSound, NativeMirrorAssumption
<1>3. TypeOK
  BY <1>2 DEF Init, TypeOK, Sound
<1>4. Faithful /\ HostCurrent
  BY DEF Init, Faithful, HostCurrent
<1>5. DOMAIN native.ram = {}
  BY DEF Init
<1>6. Tracked
  BY <1>5 DEF Tracked
<1>7. CopyOK
  BY <1>2 DEF Init, CopyOK, RangeOK
<1> QED BY <1>3, <1>4, <1>6, <1>7 DEF Inv

LEMMA BeginKeeps == ASSUME Inv, Begin PROVE Inv'
<1>1. TypeOK' /\ Faithful' /\ HostCurrent'
  BY DEF Inv, TypeOK, Faithful, HostCurrent, Begin, copyVars
<1>2. Tracked' /\ CopyOK'
  BY DEF Inv, Tracked, CopyOK, Begin, copyVars
<1> QED BY <1>1, <1>2 DEF Inv

LEMMA LeaveKeeps == ASSUME Inv, Leave PROVE Inv'
<1>1. TypeOK' /\ Faithful' /\ HostCurrent'
  BY DEF Inv, TypeOK, Faithful, HostCurrent, Leave, copyVars
<1>2. Tracked' /\ CopyOK'
  BY DEF Inv, Tracked, CopyOK, Leave, copyVars
<1> QED BY <1>1, <1>2 DEF Inv

\* At the end of a slice both sides hold the same machine.
LEMMA EndKeeps == ASSUME Inv, End PROVE Inv'
<1>1. vm' = truth /\ truth' = truth /\ native' = native /\ capacity' = capacity
      /\ RangeOK(written') /\ stack_dirty' \in BOOLEAN
  BY CommittedIsTruth, CleanCopy DEF End
<1>2. Sound(truth) /\ Len(truth.stack) \in 1 .. MaxStack
  BY TruthSound DEF Inv, CopyOK
<1>3. TypeOK'
  <2>1. native_state_valid => native = truth
    BY TruthSound
  <2> QED BY <1>1, <1>2, <2>1 DEF End, Inv, TypeOK, Sound
<1>4. Faithful' /\ HostCurrent'
  BY <1>1, TruthSound DEF End, Faithful, HostCurrent
<1>5. Tracked'
  BY <1>1, TruthTracked DEF End, Tracked
<1>6. CopyOK'
  BY <1>1, <1>2, TruthSound DEF End, Inv, CopyOK
<1> QED BY <1>3, <1>4, <1>5, <1>6 DEF Inv

LEMMA EnterKeeps == ASSUME Inv, Enter PROVE Inv'
<1>1. CASE native_state_valid
  <2>1. UNCHANGED <<jit, waiting, vm, copyVars, native_state_valid, native_dirty_pages, refused, truth>>
        /\ phase' = "native"
    BY <1>1 DEF Enter, Prepare
  <2>2. TypeOK' /\ Faithful' /\ HostCurrent'
    BY <2>1, <1>1 DEF Inv, TypeOK, Faithful, HostCurrent, copyVars
  <2>3. Tracked' /\ CopyOK'
    BY <2>1 DEF Inv, Tracked, CopyOK, copyVars
  <2> QED BY <2>2, <2>3 DEF Inv
<1>2. CASE ~ native_state_valid
  <2> DEFINE size == Len(vm.stack)
             reserved == Grown(capacity, Max({0, Reserve - size}))
  <2>1. /\ native' = [ram |-> Refreshed, stack |-> vm.stack, pc |-> vm.pc]
        /\ capacity' = Grown(reserved, size)
        /\ written' = <<>> /\ stack_dirty' = FALSE
        /\ native_state_valid' = TRUE /\ native_dirty_pages' = {}
        /\ phase' = "native" /\ jit /\ jit' = jit /\ waiting' = waiting
        /\ vm' = vm /\ truth' = truth
    BY <1>2 DEF Enter, Prepare
  <2>2. vm = truth /\ vm \in Machine /\ size \in 1 .. MaxStack /\ capacity \in Nat
    BY <1>2, TruthSound DEF Inv, TypeOK, CopyOK
  <2>3. native' = vm
    BY <2>1, <2>2, <1>2, RefreshedIsMemory, MachineParts
  <2>4. capacity' \in Nat /\ size <= capacity'
    <3> HIDE DEF size
    <3>1. size \in Nat /\ Reserve - size \in Int
      BY <2>2, NativeMirrorAssumption
    <3>2. \A a \in Nat, b \in Nat : Grown(a, b) \in Nat /\ b <= Grown(a, b)
      <4> SUFFICES ASSUME NEW a \in Nat, NEW b \in Nat PROVE Grown(a, b) \in Nat /\ b <= Grown(a, b)
        OBVIOUS
      <4>1. 2 * a \in Int /\ b \in Int
        OBVIOUS
      <4>2. Max({2 * a, b}) = IF 2 * a >= b THEN 2 * a ELSE b
        BY <4>1, OfTwo, Zenon
      <4> QED BY <4>2 DEF Grown
    <3>3. Max({0, Reserve - size}) \in Nat
      <4>1. Max({0, Reserve - size}) = IF 0 >= Reserve - size THEN 0 ELSE Reserve - size
        BY <3>1, 0 \in Int, OfTwo, Zenon
      <4> QED BY <4>1, <3>1
    <3>4. reserved \in Nat
      BY <3>2, <3>3, <2>2
    <3> HIDE DEF reserved
    <3> QED BY <3>1, <3>2, <3>4, <2>1
  <2>5. TypeOK'
    BY <2>1, <2>2, <2>3, <2>4 DEF Inv, TypeOK
  <2>6. Faithful' /\ HostCurrent'
    BY <2>1, <2>2, <2>3 DEF Faithful, HostCurrent
  <2>7. Tracked'
    BY <2>1, <2>3 DEF Tracked
  <2>8. CopyOK'
    BY <2>1, <2>2, <2>3, <2>4 DEF CopyOK, RangeOK
  <2> QED BY <2>5, <2>6, <2>7, <2>8 DEF Inv
<1> QED BY <1>1, <1>2

\* Compiled code changes the copy; range and mark grow with what it writes.
LEMMA CompiledKeeps ==
  ASSUME NEW i \in Single, Inv, Compiled(i)
  PROVE  Inv'
<1>1. /\ phase = "native" /\ Legal(native, i) /\ Fits(i)
      /\ native' = After(native, i) /\ truth' = After(truth, i)
      /\ written' = Extend(written, Written(i))
      /\ stack_dirty' = (stack_dirty \/ UsesStack(i))
      /\ phase' = phase /\ jit' = jit /\ waiting' = waiting /\ vm' = vm
      /\ capacity' = capacity /\ native_state_valid' = native_state_valid
      /\ native_dirty_pages' = native_dirty_pages
  BY DEF Compiled
<1>2. native_state_valid /\ native = truth /\ Sound(native)
  BY <1>1, TruthSound DEF Inv, TypeOK
<1>3. /\ Len(native.stack) <= capacity /\ capacity \in Nat /\ MaxStack \in Nat
      /\ Len(native.stack) <= MaxStack /\ DOMAIN native.ram = DOMAIN vm.ram
  BY <1>2, NativeMirrorAssumption DEF Inv, TypeOK, CopyOK
<1> DEFINE a == After(native, i)
<1>4. /\ Sound(a) /\ DOMAIN a.ram = DOMAIN native.ram
      /\ \A c \in DOMAIN native.ram : c \notin Written(i) => a.ram[c] = native.ram[c]
      /\ ~ UsesStack(i) => a.stack = native.stack
      /\ \A size \in Nat :
           Len(native.stack) <= size /\ (\A k \in DOMAIN i.to : Room(native, i, k, size))
             => Len(a.stack) <= size
  BY <1>1, <1>2, AfterProperties
<1>5. Len(a.stack) <= capacity
  BY <1>1, <1>3, <1>4 DEF Fits
<1>6. Len(a.stack) <= MaxStack
  BY <1>1, <1>3, <1>4 DEF Legal
<1>7. a \in Machine /\ Len(a.stack) \in Nat /\ Len(a.stack) >= 1
  BY <1>4, MachineParts DEF Sound
<1>8. native' = a /\ truth' = a
  BY <1>1, <1>2
<1> HIDE DEF a
<1>9. /\ RangeOK(written') /\ PagesOf(written) \subseteq PagesOf(written')
      /\ \A c \in Written(i) : Page(c) \in PagesOf(written')
  BY <1>1, WrittenProperties, ExtendCovers DEF Inv, CopyOK
<1>10. TypeOK'
  BY <1>1, <1>2, <1>3, <1>4, <1>5, <1>6, <1>7, <1>8 DEF Inv, TypeOK
<1>11. Faithful' /\ HostCurrent'
  BY <1>1, <1>2, <1>8 DEF Faithful, HostCurrent
<1>12. Tracked'
  <2> SUFFICES ASSUME NEW c \in DOMAIN vm.ram \cap DOMAIN a.ram, a.ram[c] # vm.ram[c]
               PROVE  Page(c) \in PagesOf(written')
    BY <1>1, <1>2, <1>8 DEF Tracked
  <2>1. CASE c \in Written(i)
    BY <2>1, <1>9
  <2>2. CASE c \notin Written(i)
    <3>1. native.ram[c] # vm.ram[c]
      BY <2>2, <1>4
    <3>2. Page(c) \in native_dirty_pages \/ Page(c) \in PagesOf(written)
      BY <3>1, <1>4 DEF Inv, Tracked
    <3>3. native_dirty_pages = {}
      BY <1>2 DEF Inv, CopyOK
    <3> QED BY <3>2, <3>3, <1>9
  <2> QED BY <2>1, <2>2
<1>13. CopyOK'
  <2>1. stack_dirty' \in BOOLEAN /\ (~ stack_dirty' => ~ stack_dirty /\ ~ UsesStack(i))
    <3>1. stack_dirty \in BOOLEAN /\ UsesStack(i) \in BOOLEAN
      BY DEF Inv, CopyOK, UsesStack
    <3> QED BY <3>1, <1>1
  <2>2. ~ stack_dirty' => a.stack = vm.stack
    BY <2>1, <1>2, <1>4 DEF Inv, CopyOK
  <2>3. native_dirty_pages' = {}
    BY <1>1, <1>2 DEF Inv, CopyOK
  <2> QED BY <2>1, <2>2, <2>3, <1>1, <1>3, <1>6, <1>7, <1>8, <1>9 DEF CopyOK
<1> QED BY <1>10, <1>11, <1>12, <1>13 DEF Inv

\* With one result at most, a refused instruction has only taken its operand, and the
\* saved length brings that back.
LEMMA RollBackExact ==
  ASSUME NEW m, Sound(m), native = m, NEW from \in Operand,
         from.mode = "stack" => Len(m.stack) > 1
  PROVE  RolledBack(Pop(m, from)) = m
<1> DEFINE p == Pop(m, from)
           s == [k \in 1 .. Len(m.stack) |-> IF k <= Len(p.stack) THEN p.stack[k] ELSE m.stack[k]]
<1>1. /\ Sound(p) /\ p.ram = m.ram /\ Len(p.stack) <= Len(m.stack)
      /\ \A k \in 1 .. Len(p.stack) : p.stack[k] = m.stack[k]
  BY PopProperties
<1>2. m \in Machine /\ m.stack \in Seq(Value) /\ Len(m.stack) \in Nat
  BY MachineParts DEF Sound
<1>3. Len(p.stack) \in Nat
  BY <1>1, MachineParts DEF Sound
<1>4. RolledBack(p) = [ram |-> p.ram, stack |-> s, pc |-> m.pc]
  BY DEF RolledBack
<1> HIDE DEF p
<1>5. s = m.stack
  <2>1. \A k \in 1 .. Len(m.stack) : s[k] = m.stack[k]
    BY <1>1, <1>2, <1>3
  <2>2. m.stack = [k \in 1 .. Len(m.stack) |-> m.stack[k]]
    BY <1>2
  <2>3. s = [k \in 1 .. Len(m.stack) |-> m.stack[k]]
    BY <1>1, <1>2, <1>3
  <2> QED BY <2>2, <2>3
<1> HIDE DEF s
<1> QED BY <1>1, <1>2, <1>4, <1>5, MachineParts DEF p

LEMMA SlowKeeps ==
  ASSUME NEW i \in Single, Inv, Slow(i)
  PROVE  Inv'
<1> DEFINE Refusing == {j \in DOMAIN i.to : ~ Room(native, i, j, capacity)}
           left == RolledBack(Stored(native, i, Min(Refusing) - 1))
<1>1. /\ phase = "native" /\ Legal(native, i) /\ ~ Fits(i)
      /\ native' = left /\ vm' = Back(left, written, stack_dirty)
      /\ written' = <<>> /\ stack_dirty' = FALSE /\ native_state_valid' = FALSE
      /\ phase' = "vm" /\ jit' = jit /\ waiting' = waiting /\ capacity' = capacity
      /\ native_dirty_pages' = native_dirty_pages /\ truth' = truth
  BY DEF Slow
<1>2. native_state_valid /\ native = truth /\ Sound(truth) /\ Len(truth.stack) <= MaxStack
  BY <1>1, TruthSound DEF Inv, TypeOK
<1>3. Min(Refusing) = 1
  <2>1. Refusing # {} /\ Refusing \subseteq DOMAIN i.to
    BY <1>1 DEF Fits
  <2> HIDE DEF Refusing
  <2>2. Refusing = {1}
    BY <2>1, InstructionParts
  <2>3. Min({1, 1}) = 1
    BY OfTwo
  <2> QED BY <2>2, <2>3, {1, 1} = {1}
<1>4. left = RolledBack(Pop(native, i.from))
  <2> HIDE DEF Refusing
  <2>1. Stored(native, i, 1 - 1) = Pop(native, i.from)
    BY DEF Stored
  <2> QED BY <2>1, <1>3
<1>5. left = native
  <2>1. i.from \in Operand /\ (i.from.mode = "stack" => Len(native.stack) > 1)
    BY <1>1, InstructionParts DEF Legal
  <2> QED BY <2>1, <1>2, <1>4, RollBackExact
<1> HIDE DEF left
<1>6. vm' = truth' /\ native' = native
  BY <1>1, <1>2, <1>5, BackIsCopy
<1>7. jit' \in BOOLEAN /\ waiting' \in BOOLEAN /\ RangeOK(written')
  BY <1>1 DEF Inv, TypeOK, RangeOK
<1> QED BY <1>1, <1>2, <1>6, <1>7, TruthTracked, InvalidatingStep

\* The interpreter executes an instruction and marks what it writes.
LEMMA StepKeeps ==
  ASSUME NEW i \in Single, Inv, Step(i)
  PROVE  Inv'
<1>1. /\ phase' = "vm" /\ jit' = jit /\ waiting' = waiting
      /\ Legal(truth, i) /\ vm' = After(truth, i) /\ truth' = After(truth, i)
      /\ Clean /\ native_state_valid' = FALSE
      /\ native_dirty_pages' = native_dirty_pages \cup {Page(c) : c \in Written(i)}
  BY CommittedIsTruth DEF Step
<1>2. Sound(truth) /\ Len(truth.stack) <= MaxStack /\ MaxStack \in Nat
  BY TruthSound, NativeMirrorAssumption
<1> DEFINE a == After(truth, i)
<1>3. /\ Sound(a) /\ DOMAIN a.ram = DOMAIN truth.ram
      /\ \A c \in DOMAIN truth.ram : c \notin Written(i) => a.ram[c] = truth.ram[c]
      /\ \A size \in Nat :
           Len(truth.stack) <= size /\ (\A k \in DOMAIN i.to : Room(truth, i, k, size))
             => Len(a.stack) <= size
  BY <1>1, <1>2, AfterProperties
<1>4. Len(a.stack) <= MaxStack
  BY <1>1, <1>2, <1>3 DEF Legal
<1> HIDE DEF a
<1>5. ASSUME NEW c \in DOMAIN truth'.ram \cap DOMAIN native.ram, native.ram[c] # truth'.ram[c]
      PROVE  Page(c) \in native_dirty_pages'
  <2>1. c \in DOMAIN truth.ram /\ native.ram[c] # a.ram[c]
    BY <1>1, <1>3, <1>5 DEF a
  <2>2. CASE c \in Written(i)
    BY <2>2, <1>1
  <2>3. CASE c \notin Written(i)
    BY <2>1, <2>3, <1>1, <1>3, <1>5, TruthTracked
  <2> QED BY <2>2, <2>3
<1>6. jit' \in BOOLEAN /\ waiting' \in BOOLEAN
  BY <1>1 DEF Inv, TypeOK
<1>7. vm' = truth' /\ Sound(truth') /\ Len(truth'.stack) <= MaxStack
  BY <1>1, <1>3, <1>4 DEF a
<1> QED BY <1>1, <1>5, <1>6, <1>7, CleanCopy, InvalidatingStep

\* Memory that comes back is zero, and its pages are marked.
LEMMA ResizeKeeps ==
  ASSUME NEW pages \in OrigPages .. MaxPages, Inv, Resize(pages)
  PROVE  Inv'
<1> DEFINE r == Fill(truth.ram, pages)
<1>1. /\ phase' = "vm" /\ jit' = jit /\ waiting' = waiting
      /\ vm' = [truth EXCEPT !.ram = r] /\ truth' = [truth EXCEPT !.ram = r]
      /\ Clean /\ native_state_valid' = FALSE
      /\ native_dirty_pages' = native_dirty_pages
           \cup {Page(c) : c \in Cells(pages) \ DOMAIN truth.ram}
  BY CommittedIsTruth DEF Resize, Uncompiled
<1>2. Sound(truth) /\ Len(truth.stack) <= MaxStack /\ truth \in Machine
  BY TruthSound DEF Sound
<1>3. /\ r \in [Cells(pages) -> Value]
      /\ \A c \in Cells(pages) : c \in DOMAIN truth.ram => r[c] = truth.ram[c]
  <2>1. \A c \in DOMAIN truth.ram : truth.ram[c] \in Value
    BY <1>2, MachineParts
  <2> QED BY <2>1, NativeMirrorAssumption DEF Fill
<1> HIDE DEF r
<1>4. vm' = truth' /\ truth' \in Machine /\ truth'.ram = r /\ truth'.stack = truth.stack
  BY <1>1, <1>2, <1>3 DEF Machine, Memory
<1>5. Sound(truth') /\ Len(truth'.stack) <= MaxStack
  BY <1>2, <1>4 DEF Sound
<1>6. ASSUME NEW c \in DOMAIN truth'.ram \cap DOMAIN native.ram, native.ram[c] # truth'.ram[c]
      PROVE  Page(c) \in native_dirty_pages'
  <2>1. c \in Cells(pages)
    BY <1>3, <1>4
  <2>2. CASE c \in DOMAIN truth.ram
    BY <2>1, <2>2, <1>1, <1>3, <1>4, <1>6, TruthTracked
  <2>3. CASE c \notin DOMAIN truth.ram
    BY <2>1, <2>3, <1>1
  <2> QED BY <2>2, <2>3
<1>7. jit' \in BOOLEAN /\ waiting' \in BOOLEAN
  BY <1>1 DEF Inv, TypeOK
<1> QED BY <1>1, <1>4, <1>5, <1>6, <1>7, CleanCopy, InvalidatingStep

LEMMA RestoreKeeps ==
  ASSUME NEW m \in Saved, Inv, Restore(m)
  PROVE  Inv'
<1>1. PICK pages \in OrigPages .. MaxPages, v \in Value, pc \in Pc :
        m = [ram |-> [c \in Cells(pages) |-> v], stack |-> <<v>>, pc |-> pc]
  BY DEF Saved
<1>2. Sound(m) /\ Len(m.stack) <= MaxStack
  <2>1. [c \in Cells(pages) |-> v] \in [Cells(pages) -> Value] /\ <<v>> \in Seq(Value)
    OBVIOUS
  <2>2. m \in Machine
    BY <1>1, <2>1, MachineIntroduction
  <2>3. m.stack = <<v>> /\ Len(<<v>>) = 1
    BY <1>1
  <2> QED BY <2>2, <2>3, NativeMirrorAssumption DEF Sound
<1>3. /\ phase' = "vm" /\ jit' = jit /\ waiting' = waiting
      /\ vm' = m /\ truth' = m /\ Clean /\ native_state_valid' = FALSE
      /\ native_dirty_pages' = native_dirty_pages \cup {Page(c) : c \in DOMAIN m.ram}
  BY DEF Restore, Uncompiled
<1>4. jit' \in BOOLEAN /\ waiting' \in BOOLEAN
  BY <1>3 DEF Inv, TypeOK
<1> QED BY <1>2, <1>3, <1>4, CleanCopy, InvalidatingStep

LEMMA WaitKeeps == ASSUME Inv, Wait PROVE Inv'
<1>1. /\ phase' = "vm" /\ jit' = jit /\ waiting' = TRUE
      /\ vm' = truth /\ truth' = truth /\ Clean /\ native_state_valid' = FALSE
      /\ native_dirty_pages' = native_dirty_pages
  BY CommittedIsTruth DEF Wait, Uncompiled
<1>2. jit' \in BOOLEAN
  BY <1>1 DEF Inv, TypeOK
<1> QED BY <1>1, <1>2, TruthSound, TruthTracked, CleanCopy, InvalidatingStep

\* A result is delivered into the interpreter's machine alone: it is complete then.
LEMMA DeliverKeeps ==
  ASSUME NEW i \in Single, Inv, Deliver(i)
  PROVE  Inv'
<1>1. vm = truth
  BY HostIsTruth DEF Deliver
<1> DEFINE a == After(truth, i)
<1>2. /\ phase' = "host" /\ jit' = jit /\ waiting' = FALSE
      /\ Legal(truth, i)
      /\ vm' = [a EXCEPT !.pc = truth.pc] /\ truth' = [a EXCEPT !.pc = truth.pc]
      /\ native_state_valid' = FALSE
      /\ native_dirty_pages' = native_dirty_pages \cup {Page(c) : c \in Written(i)}
      /\ native' = native /\ capacity' = capacity /\ written' = written
      /\ stack_dirty' = stack_dirty
  BY <1>1 DEF Deliver, copyVars
<1>3. Sound(truth) /\ Len(truth.stack) <= MaxStack /\ MaxStack \in Nat
  BY TruthSound, NativeMirrorAssumption
<1>4. /\ Sound(a) /\ DOMAIN a.ram = DOMAIN truth.ram
      /\ \A c \in DOMAIN truth.ram : c \notin Written(i) => a.ram[c] = truth.ram[c]
      /\ \A size \in Nat :
           Len(truth.stack) <= size /\ (\A k \in DOMAIN i.to : Room(truth, i, k, size))
             => Len(a.stack) <= size
  BY <1>2, <1>3, AfterProperties
<1>5. Len(a.stack) <= MaxStack
  BY <1>2, <1>3, <1>4 DEF Legal
<1> HIDE DEF a
<1>6. truth.pc \in Pc
  BY <1>3, MachineParts DEF Sound
<1>7. Sound(truth') /\ truth'.ram = a.ram /\ truth'.stack = a.stack
  BY <1>2, <1>4, <1>6, JumpProperties
<1>8. ASSUME NEW c \in DOMAIN truth'.ram \cap DOMAIN native.ram, native.ram[c] # truth'.ram[c]
      PROVE  Page(c) \in native_dirty_pages'
  <2>1. c \in DOMAIN truth.ram /\ native.ram[c] # a.ram[c]
    BY <1>4, <1>7, <1>8
  <2>2. CASE c \in Written(i)
    BY <2>2, <1>2
  <2>3. CASE c \notin Written(i)
    BY <2>1, <2>3, <1>2, <1>4, <1>8, TruthTracked
  <2> QED BY <2>2, <2>3
<1>9. jit' \in BOOLEAN /\ waiting' \in BOOLEAN /\ RangeOK(written') /\ stack_dirty' \in BOOLEAN
  BY <1>2 DEF Inv, TypeOK, CopyOK
<1>10. vm' = truth' /\ Len(truth'.stack) <= MaxStack
  BY <1>2, <1>5, <1>7
<1> QED BY <1>2, <1>7, <1>8, <1>9, <1>10, InvalidatingStep

LEMMA RestartingKeeps ==
  ASSUME NEW pc \in Pc, Inv, Restart(pc)
  PROVE  Inv'
<1>1. /\ phase' \in {"host", "vm"} /\ jit' = jit /\ waiting' = FALSE
      /\ vm' = Fresh(pc) /\ truth' = Fresh(pc) /\ native_state_valid' = FALSE
      /\ native_dirty_pages' = native_dirty_pages \cup 0 .. OrigPages - 1
      /\ native' = native /\ capacity' = capacity /\ written' = written
      /\ stack_dirty' = stack_dirty
  BY DEF Restart, copyVars
<1>2. Sound(truth') /\ Len(truth'.stack) <= MaxStack /\ DOMAIN truth'.ram = Cells(OrigPages)
  <2>1. Sound(truth') /\ Len(truth'.stack) = 1 /\ truth'.ram = [c \in Cells(OrigPages) |-> Zero]
    BY <1>1, FreshSound
  <2>2. MaxStack \in Nat /\ 1 <= MaxStack
    BY NativeMirrorAssumption
  <2> QED BY <2>1, <2>2
<1>3. \A c \in Cells(OrigPages) : Page(c) \in 0 .. OrigPages - 1
  BY NativeMirrorAssumption, CellPage
<1>4. jit' \in BOOLEAN /\ waiting' \in BOOLEAN /\ RangeOK(written') /\ stack_dirty' \in BOOLEAN
  BY <1>1 DEF Inv, TypeOK, CopyOK
<1> QED BY <1>1, <1>2, <1>3, <1>4, InvalidatingStep

LEMMA SetBackendKeeps ==
  ASSUME NEW backend \in BOOLEAN, Inv, SetBackend(backend)
  PROVE  Inv'
<1>1. /\ phase' = "host" /\ jit' = backend /\ waiting' = waiting
      /\ vm' = truth /\ truth' = truth /\ native_state_valid' = FALSE
      /\ native_dirty_pages' = native_dirty_pages
      /\ native' = native /\ capacity' = capacity /\ written' = written
      /\ stack_dirty' = stack_dirty
  BY HostIsTruth DEF SetBackend, copyVars
<1>2. waiting' \in BOOLEAN /\ RangeOK(written') /\ stack_dirty' \in BOOLEAN
  BY <1>1 DEF Inv, TypeOK, CopyOK
<1> QED BY <1>1, <1>2, TruthSound, TruthTracked, InvalidatingStep

\* A resumed session starts without a copy, and with nothing dirty.
LEMMA ResumeKeeps == ASSUME Inv, Resume PROVE Inv'
<1>1. /\ vm = truth /\ phase' = "host" /\ vm' = vm /\ truth' = truth
      /\ jit' = jit /\ waiting' = waiting
      /\ native' = [ram |-> [c \in {} |-> Zero], stack |-> <<>>, pc |-> vm.pc]
      /\ capacity' = 0 /\ written' = <<>> /\ stack_dirty' = FALSE
      /\ native_state_valid' = FALSE /\ native_dirty_pages' = {}
  BY HostIsTruth DEF Resume
<1>2. TypeOK'
  BY <1>1 DEF Inv, TypeOK
<1>3. Faithful' /\ HostCurrent'
  BY <1>1 DEF Faithful, HostCurrent
<1>4. DOMAIN native'.ram = {}
  BY <1>1
<1>5. Tracked'
  BY <1>4 DEF Tracked
<1>6. CopyOK'
  BY <1>1 DEF Inv, CopyOK, RangeOK
<1> QED BY <1>2, <1>3, <1>5, <1>6 DEF Inv

LEMMA StepInv == Inv /\ [SingleNext]_vars => Inv'
<1> SUFFICES ASSUME Inv, [SingleNext]_vars PROVE Inv'
  OBVIOUS
<1>1. CASE UNCHANGED vars
  <2>1. TypeOK' /\ Faithful' /\ HostCurrent'
    BY <1>1 DEF Inv, TypeOK, Faithful, HostCurrent, vars, copyVars
  <2>2. Tracked' /\ CopyOK'
    BY <1>1 DEF Inv, Tracked, CopyOK, vars, copyVars
  <2> QED BY <2>1, <2>2 DEF Inv
<1>2. CASE Begin \/ End \/ Enter \/ Leave \/ Wait
  BY <1>2, BeginKeeps, EndKeeps, EnterKeeps, LeaveKeeps, WaitKeeps
<1>3. CASE \E i \in Single : Compiled(i) \/ Slow(i) \/ Step(i) \/ Deliver(i)
  BY <1>3, CompiledKeeps, SlowKeeps, StepKeeps, DeliverKeeps
<1>4. CASE \E pages \in OrigPages .. MaxPages : Resize(pages)
  BY <1>4, ResizeKeeps
<1>5. CASE \E m \in Saved : Restore(m)
  BY <1>5, RestoreKeeps
<1>6. CASE \E pc \in Pc : Restart(pc)
  BY <1>6, RestartingKeeps
<1>7. CASE \E backend \in BOOLEAN : SetBackend(backend)
  BY <1>7, SetBackendKeeps
<1>8. CASE Resume
  BY <1>8, ResumeKeeps
<1> QED BY <1>1, <1>2, <1>3, <1>4, <1>5, <1>6, <1>7, <1>8 DEF SingleNext, Run

LEMMA Inductive == SingleSpec => []Inv
BY InitInv, StepInv, PTL DEF SingleSpec

-----------------------------------------------------------------------------

\* Machines stay well formed, and compiled code that checks its pushes against the
\* storage of the copy never has a stack longer than it.
THEOREM CopyTypeCorrect == SingleSpec => []TypeOK
<1>1. Inv => TypeOK
  BY DEF Inv
<1> QED BY <1>1, Inductive, PTL

\* Two memories behave as one: run_jit_steps never gives an instruction, compiled or
\* interpreted, a machine other than the interpreter alone would have.
THEOREM OneMachine == SingleSpec => []Faithful
<1>1. Inv => Faithful
  BY DEF Inv
<1> QED BY <1>1, Inductive, PTL

\* Between slices the host can read, store and change the interpreter's machine.
THEOREM HostSeesTruth == SingleSpec => []HostCurrent
<1>1. Inv => HostCurrent
  BY DEF Inv
<1> QED BY <1>1, Inductive, PTL

\* No difference between copy and memory is unknown to both dirty sets.
THEOREM DifferencesTracked == SingleSpec => []Tracked
<1>1. Inv => Tracked
  BY DEF Inv
<1> QED BY <1>1, Inductive, PTL
=============================================================================
