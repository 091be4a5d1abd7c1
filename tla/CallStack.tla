------------------------------ MODULE CallStack ------------------------------
(***************************************************************************)
(* The stack of the machine (vm.rs, vm/strings.rs): call frames and the    *)
(* four-word stubs between them, which hold where a result goes, where the *)
(* caller goes on, or which text is suspended.  A word is four bytes of    *)
(* the code, positions and lengths are counted in words, all locals are    *)
(* words.  What the program does next is chosen freely among a set of      *)
(* instructions; it leaves the stubs of its catches alone and throws only  *)
(* to catches that are still there, as Glulx demands of it.                *)
(***************************************************************************)
EXTENDS Integers, Sequences, FiniteSets

CONSTANTS Maximum,        \* words of stack
          FunctionTable,  \* address -> [stacked |-> BOOLEAN, locals |-> Nat]
          Native,         \* accelerated functions
          StartFunction, IoSettings, Constants,
          Cells,          \* address -> what a text holds there
          Objects,        \* address -> function or text
          Digits,         \* number -> its digits
          Strings, Numbers,  \* what the program prints
          Alphabets       \* instructions, operands and steps, for each behaviour studied

VARIABLES vm,        \* the machine
          undo,      \* snapshots of saveundo, the newest
          file,      \* a saved game: the words of its stack, and its memory
          held,      \* where the stubs of live catches end
          alphabet, fuel

vars == <<vm, undo, file, held, alphabet, fuel>>

Discard == [kind |-> 0, address |-> 0]
Memory == [kind |-> 1, address |-> 0]
Local == [kind |-> 2, address |-> 0]
OnStack == [kind |-> 3, address |-> 0]
Destinations == {Discard, Memory, Local, OnStack}
Bits == 2       \* bits in a byte of compressed text
HeaderLength == 3
None == <<>>

Height(m) == Len(m.bytes)
Failed(m) == [m EXCEPT !.state = "faulted"]
Fine(m) == m.state # "faulted"
Word(m, address) == m.bytes[address + 1]

(***************************************************************************)
(* The stack.                                                              *)
(***************************************************************************)
Push(m, v) == IF Height(m) + 1 > Maximum THEN Failed(m)
              ELSE [m EXCEPT !.bytes = Append(@, v)]
PushAll(m, s) == IF Height(m) + Len(s) > Maximum THEN Failed(m)
                 ELSE [m EXCEPT !.bytes = @ \o s]
CanPop(m, n) == Height(m) - n >= m.frame_end
Cut(m, n) == [m EXCEPT !.bytes = SubSeq(@, 1, Len(@) - n)]
Truncate(m, length) == IF length > Height(m) THEN Failed(m)
                       ELSE Cut(m, Height(m) - length)
Popped(m, n) == [i \in 1..n |-> m.bytes[Height(m) - i + 1]]
Top(m, n) == SubSeq(m.bytes, Height(m) - n + 1, Height(m))

PushStub(m, kind, address, pc) == PushAll(m, <<kind, address, pc, m.frame_ptr>>)

Bounded(m, frame_ptr, length, locals) ==
  [m EXCEPT !.frame_ptr = frame_ptr, !.frame_end = frame_ptr + length,
            !.locals_base = frame_ptr + locals]
Refreshed(m) ==
  IF m.bytes = <<>> THEN Bounded(m, 0, 0, 0)
  ELSE IF m.frame_ptr + 2 > Height(m) THEN Failed(m)
  ELSE Bounded(m, m.frame_ptr, Word(m, m.frame_ptr), Word(m, m.frame_ptr + 1))
SetFrame(m, frame_ptr) == Refreshed([m EXCEPT !.frame_ptr = frame_ptr])

WriteLocal(m, v) == IF m.locals_base >= m.frame_end THEN Failed(m)
                    ELSE [m EXCEPT !.bytes[m.locals_base + 1] = v]

\* store_destination
Store(m, destination, v) ==
  CASE destination.kind = 0 -> m
    [] destination.kind = 1 -> [m EXCEPT !.memory = v]
    [] destination.kind = 2 -> WriteLocal(m, v)
    [] destination.kind = 3 -> Push(m, v)

(***************************************************************************)
(* Entering functions.  An accelerated one leaves a minimal frame and its  *)
(* result for the next step.                                               *)
(***************************************************************************)
NativeResult(arguments) == IF arguments = <<>> THEN 0 ELSE arguments[1]
Reversed(s) == [i \in 1..Len(s) |-> s[Len(s) - i + 1]]

Laid(m, f, arguments) ==
  LET n == FunctionTable[f].locals
      length == HeaderLength + n
      base == Bounded(m, Height(m), length, HeaderLength)
      header == <<length, HeaderLength, n>>
      Given(i) == IF i <= Len(arguments) THEN arguments[i] ELSE 0
  IN IF FunctionTable[f].stacked
     THEN PushAll(PushAll(base, header \o [i \in 1..n |-> 0]),
                  Append(Reversed(arguments), Len(arguments)))
     ELSE PushAll(base, header \o [i \in 1..n |-> Given(i)])

Enter(m, f, arguments) ==
  IF ~Fine(m) THEN m
  ELSE IF f \in Native
  THEN [PushAll(Bounded(m, Height(m), HeaderLength, HeaderLength),
                <<HeaderLength, HeaderLength, 0>>)
          EXCEPT !.due = <<NativeResult(arguments)>>]
  ELSE [Laid(m, f, arguments) EXCEPT !.pc = f]

\* call
Invoke(m, f, arguments, destination) ==
  CASE f = 0 -> Store(m, destination, 0)
    [] f \in Native -> Store(m, destination, NativeResult(arguments))
    [] OTHER -> Enter(PushStub(m, destination.kind, destination.address, m.pc),
                      f, arguments)

(***************************************************************************)
(* Printing.  A continuation says which text goes on where; it is either   *)
(* being worked on or a stub on the stack.                                 *)
(***************************************************************************)
Number(value, next) == [k |-> "number", at |-> value, aux |-> next]
Leaf(kind, cursor) == [k |-> "leaf", at |-> cursor, aux |-> kind]
Compressed(byte, bit) == [k |-> "compressed", at |-> byte, aux |-> bit]
Finish == [k |-> "finish"]
StringContinuation(s) == IF Objects[s].kind = "compressed"
                         THEN Compressed(Objects[s].at, 0)
                         ELSE Leaf(Objects[s].stub, Objects[s].at)
\* The rest of a text from a cell on.
LeafLength(cursor) == CHOOSE n \in 0..9 : /\ Cells[cursor + n].kind = "end"
                                          /\ \A i \in 0..n - 1 : Cells[cursor + i].kind # "end"
NextBit(byte, bit) == IF bit + 1 = Bits THEN <<byte + 1, 0>> ELSE <<byte, bit + 1>>
Shown(m, s) == IF m.io = 2 THEN [m EXCEPT !.out = @ \o s] ELSE m

RECURSIVE Resume(_, _)
Resume(m, c) ==
  IF ~Fine(m) THEN m ELSE
  CASE c.k = "number" ->
         LET rest == SubSeq(Digits[c.at], c.aux + 1, Len(Digits[c.at])) IN
         IF m.io = 1 /\ rest # <<>>
         THEN Enter(PushStub(m, 12, c.aux + 1, c.at), m.rock, <<rest[1]>>)
         ELSE Resume(Shown(m, rest), Finish)
    [] c.k = "leaf" ->
         IF m.io = 1 /\ Cells[c.at].kind # "end"
         THEN Enter(PushStub(m, c.aux, 0, c.at + 1), m.rock, <<Cells[c.at].char>>)
         ELSE Resume(Shown(m, [i \in 1..LeafLength(c.at) |-> Cells[c.at + i - 1].char]),
                     Finish)
    [] c.k = "compressed" ->
         LET node == Cells[c.at * Bits + c.aux]
             next == NextBit(c.at, c.aux)
             stubbed == PushStub(m, 10, next[2], next[1])
         IN (CASE node.kind = "end" -> Resume(m, Finish)
              [] node.kind = "char" ->
                   IF m.io = 1 THEN Enter(stubbed, m.rock, <<node.char>>)
                   ELSE Resume(Shown(m, <<node.char>>), Compressed(next[1], next[2]))
              [] node.kind = "leaf" -> Resume(stubbed, Leaf(node.stub, node.at))
              [] node.kind = "object" ->
                   IF Objects[node.at].kind = "function"
                   THEN Enter(stubbed, node.at, <<>>)
                   ELSE Resume(stubbed, StringContinuation(node.at)))
    [] c.k = "finish" ->
         IF Height(m) < 4 THEN Failed(m) ELSE
         LET stub == Top(m, 4) IN
         CASE stub[1] = 10 -> Resume(SetFrame(Cut(m, 4), stub[4]), Compressed(stub[3], stub[2]))
           [] stub[1] = 11 -> [Cut(m, 4) EXCEPT !.pc = stub[3]]
           [] OTHER -> Failed(m)

(***************************************************************************)
(* Returning and throwing.                                                 *)
(***************************************************************************)
\* return_from_function
ReturnFrom(m, v) ==
  LET t == Truncate(m, m.frame_ptr) IN
  IF ~Fine(t) THEN t
  ELSE IF t.bytes = <<>> THEN [Refreshed(t) EXCEPT !.state = "halted"]
  ELSE IF Height(t) < 4 THEN Failed(t)
  ELSE LET stub == Top(t, 4)
           caller == [SetFrame(Cut(t, 4), stub[4]) EXCEPT !.pc = stub[3]]
       IN CASE ~Fine(caller) -> caller
            [] Fine(caller) /\ stub[1] \in 0..3 ->
                 Store(caller, [kind |-> stub[1], address |-> stub[2]], v)
            [] Fine(caller) /\ stub[1] = 10 -> Resume(caller, Compressed(stub[3], stub[2]))
            [] Fine(caller) /\ stub[1] = 12 -> Resume(caller, Number(stub[3], stub[2]))
            [] Fine(caller) /\ stub[1] \in {13, 14} -> Resume(caller, Leaf(stub[1], stub[3]))
            [] OTHER -> Failed(caller)

\* throw_to
ThrowTo(m, token, v) ==
  IF token < 4 \/ token > Height(m) THEN Failed(m)
  ELSE LET stub == SubSeq(m.bytes, token - 3, token)
           t == Truncate(m, token - 4)
       IN IF stub[1] \notin 0..3 \/ stub[4] > Height(t) THEN Failed(m)
          ELSE Store([SetFrame(t, stub[4]) EXCEPT !.pc = stub[3]],
                     [kind |-> stub[1], address |-> stub[2]], v)

(***************************************************************************)
(* Instructions.  A step that fails leaves a machine nobody runs again.    *)
(***************************************************************************)
Executes(name) == /\ vm.state = "running" /\ vm.due = None /\ name \in alphabet.does
                  /\ fuel > 0 /\ fuel' = fuel - 1 /\ UNCHANGED alphabet
Fetched == [vm EXCEPT !.pc = @ + 1]
Commit(m) == vm' = IF Fine(m) THEN m ELSE Failed(vm)
Below(s, m) == {t \in s : t <= Height(m)}
Becomes(result) == \E m \in {result} :
  /\ Commit(m)
  /\ held' = IF Fine(m) THEN Below(held, m) ELSE held
  /\ UNCHANGED <<undo, file>>
\* The n values on top do not reach into the stub of a catch.
Places == {d \in Destinations : d.kind \in alphabet.places}
Plain(n) == \A t \in held : t < vm.frame_end \/ t <= Height(vm) - n
Takes(n) == CanPop(vm, n) /\ Plain(n)

CallFunction ==
  \E f \in alphabet.calls, n \in 0..1, d \in Places :
    /\ Executes("call") /\ Takes(n)
    /\ Becomes(Invoke(Cut(Fetched, n), f, Popped(vm, n), d))

\* callf, callfi, callfii, callfiii: the arguments are operands
CallFixed ==
  \E f \in alphabet.calls, n \in 0..1, d \in Places : \E v \in [1..n -> Constants] :
    Executes("callf") /\ Becomes(Invoke(Fetched, f, v, d))

TailCall ==
  \E f \in alphabet.calls \ {0}, n \in 0..1 :
    /\ Executes("tailcall") /\ Takes(n)
    /\ LET m == Truncate(Fetched, vm.frame_ptr) IN
       Becomes(IF f \in Native
               THEN ReturnFrom(Bounded(m, Height(m), 0, 0), NativeResult(Popped(vm, n)))
               ELSE Enter(m, f, Popped(vm, n)))

Return == \E v \in Constants : Executes("return") /\ Becomes(ReturnFrom(Fetched, v))

\* step takes the result an accelerated function left.
NativeReturn ==
  /\ vm.state = "running" /\ vm.due # None
  /\ Becomes(ReturnFrom([vm EXCEPT !.due = None], vm.due[1]))
  /\ UNCHANGED <<alphabet, fuel>>

Catch ==
  \E d \in Places :
    LET m == PushStub(Fetched, d.kind, d.address, Fetched.pc)
        stored == Store(m, d, Height(m))
    IN /\ Executes("catch") /\ Commit(stored)
       /\ held' = IF Fine(stored) THEN held \union {Height(m)} ELSE held
       /\ UNCHANGED <<undo, file>>

Throw == \E token \in held, v \in Constants :
           Executes("throw") /\ Becomes(ThrowTo(Fetched, token, v))
ThrowNothing == \E token \in 0..3 \union {Height(vm) + 1} :
                  Executes("throw") /\ Becomes(ThrowTo(Fetched, token, 0))

\* stream_string, streamnum and stream_character
StreamString == \E s \in Strings :
  /\ Executes("print")
  /\ Becomes(Resume(PushStub(Fetched, 11, 0, Fetched.pc), StringContinuation(s)))
StreamNumber == \E v \in Numbers :
  /\ Executes("print")
  /\ Becomes(Resume(PushStub(Fetched, 11, 0, Fetched.pc), Number(v, 0)))
StreamCharacter == \E c \in Constants :
  /\ Executes("print")
  /\ Becomes(CASE vm.io = 1 -> Invoke(Fetched, vm.rock, <<c>>, Discard)
               [] OTHER -> Shown(Fetched, <<c>>))
SetIo == \E setting \in IoSettings :
  /\ Executes("setio")
  /\ Becomes([Fetched EXCEPT !.io = setting[1], !.rock = setting[2]])

PushConstant == \E v \in Constants : Executes("push") /\ Becomes(Push(Fetched, v))
PopLocal == Executes("pop") /\ Takes(1) /\ Becomes(WriteLocal(Cut(Fetched, 1), Popped(vm, 1)[1]))
CopyTop == \E n \in 1..2 :
  Executes("roll") /\ Takes(n) /\ Becomes(PushAll(Fetched, Top(vm, n)))
\* roll_stack: three reversals
Rolled(s, n, places) ==
  LET split == n - (places % n)
  IN Reversed(Reversed(SubSeq(s, 1, split)) \o Reversed(SubSeq(s, split + 1, n)))
RollTop == \E n \in 2..3, places \in {-1, 1, 2} :
  /\ Executes("roll") /\ Takes(n)
  /\ Becomes([Cut(Fetched, n) EXCEPT !.bytes = @ \o Rolled(Top(vm, n), n, places)])

(***************************************************************************)
(* Undo, saved games, sessions.                                            *)
(***************************************************************************)
\* validate_stack
RECURSIVE ValidFrame(_, _, _)
ValidFrame(m, frame, ceiling) ==
  /\ frame + HeaderLength <= Height(m)
  /\ LET length == Word(m, frame)
         locals == Word(m, frame + 1)
     IN /\ locals >= HeaderLength /\ length >= locals /\ frame + length <= ceiling
        /\ locals + Word(m, frame + 2) = length
  /\ \/ frame = 0
     \/ /\ frame >= 4
        /\ Word(m, frame - 1) < frame - 4
        /\ ValidFrame(m, Word(m, frame - 1), frame - 4)
ValidStack(m) == ValidFrame(m, m.frame_ptr, Height(m))

SaveUndo == \E d \in Places :
  LET stored == Store(Fetched, d, 0) IN
  /\ Executes("undo") /\ Commit(stored)
  /\ undo' = IF Fine(stored) THEN <<[vm |-> Fetched, destination |-> d, held |-> held]>>
             ELSE undo
  /\ UNCHANGED <<file, held>>
RestoreUndo ==
  /\ undo # None /\ Executes("undo")
  /\ LET saved == undo[1].vm IN
     Commit(Store([saved EXCEPT !.io = vm.io, !.rock = vm.rock, !.out = vm.out],
                  undo[1].destination, -1))
  /\ held' = undo[1].held /\ undo' = None /\ UNCHANGED file
NothingToRestore == \E d \in Places :
  /\ \/ undo = None /\ Executes("undo")
     \/ file = None /\ Executes("save")
  /\ Becomes(Store(Fetched, d, 1))

\* encode_save: the stub with the result's destination ends the stack.
Save == \E d \in Places :
  LET m == PushStub(Fetched, d.kind, d.address, Fetched.pc)
      stored == Store(Fetched, d, IF Fine(m) THEN 0 ELSE 1)
  IN /\ Executes("save") /\ Commit(stored)
     /\ file' = IF Fine(m) /\ Fine(stored)
                THEN <<[bytes |-> m.bytes, memory |-> vm.memory, held |-> held]>> ELSE file
     /\ UNCHANGED <<undo, held>>
\* decode_save
Unpacked(f) ==
  LET n == Len(f.bytes) - 4
      stub == SubSeq(f.bytes, n + 1, n + 4)
      m == [vm EXCEPT !.bytes = SubSeq(f.bytes, 1, n), !.frame_ptr = stub[4],
                      !.pc = stub[3], !.memory = f.memory]
  IN [vm |-> m, destination |-> [kind |-> stub[1], address |-> stub[2]]]
Restore == \E d \in Places :
  /\ file # None /\ Executes("save")
  /\ LET u == Unpacked(file[1])
         accepted == ValidStack(u.vm) /\ u.destination.kind \in 0..3
     IN /\ Commit(IF accepted THEN Store(Refreshed(u.vm), u.destination, -1)
                  ELSE Store(Fetched, d, 1))
        /\ held' = IF accepted THEN file[1].held ELSE held
        /\ UNCHANGED <<undo, file>>

\* The host stores a session and resumes it: the bounds of frames are not
\* part of it, in the machine or in a snapshot.
Forgotten(m) == [m EXCEPT !.frame_end = 0, !.locals_base = 0]
\* Mutant: the snapshots are left as they were stored.
ResumeOnlyMachine ==
  /\ "session" \in alphabet.does /\ fuel > 0 /\ fuel' = fuel - 1
  /\ vm.state = "running" /\ ValidStack(vm)
  /\ vm' = Refreshed(Forgotten(vm))
  /\ undo' = [i \in DOMAIN undo |-> [undo[i] EXCEPT !.vm = Forgotten(@)]]
  /\ UNCHANGED <<file, held, alphabet>>
ResumeSession ==
  /\ "session" \in alphabet.does /\ fuel > 0 /\ fuel' = fuel - 1
  /\ vm.state = "running" /\ ValidStack(vm)
  /\ vm' = Refreshed(Forgotten(vm))
  /\ undo' = [i \in DOMAIN undo |-> [undo[i] EXCEPT !.vm = Refreshed(Forgotten(@))]]
  /\ UNCHANGED <<file, held, alphabet>>

\* Mutant: a result an accelerated function left survives the restart.
RestartDue ==
  /\ "session" \in alphabet.does /\ fuel > 0 /\ fuel' = fuel - 1
  /\ vm' = Enter([vm EXCEPT !.bytes = <<>>, !.frame_ptr = 0, !.frame_end = 0,
                            !.locals_base = 0, !.pc = 0, !.memory = 0,
                            !.state = "running"], StartFunction, <<>>)
  /\ held' = {} /\ UNCHANGED <<undo, file, alphabet>>
Restart ==
  /\ "session" \in alphabet.does /\ fuel > 0 /\ fuel' = fuel - 1
  /\ vm' = Enter([vm EXCEPT !.bytes = <<>>, !.frame_ptr = 0, !.frame_end = 0,
                            !.locals_base = 0, !.pc = 0, !.due = None, !.memory = 0,
                            !.state = "running"], StartFunction, <<>>)
  /\ held' = {} /\ UNCHANGED <<undo, file, alphabet>>

Init == /\ vm = Enter([bytes |-> <<>>, frame_ptr |-> 0, frame_end |-> 0, locals_base |-> 0,
                       pc |-> 0, due |-> None, io |-> 0, rock |-> 0, out |-> <<>>,
                       memory |-> 0, state |-> "running"], StartFunction, <<>>)
        /\ undo = None /\ file = None /\ held = {}
        /\ alphabet \in Alphabets /\ fuel = alphabet.fuel
Next == \/ CallFunction \/ CallFixed \/ TailCall \/ Return \/ NativeReturn
        \/ Catch \/ Throw \/ ThrowNothing
        \/ StreamString \/ StreamNumber \/ StreamCharacter \/ SetIo
        \/ PushConstant \/ PopLocal \/ CopyTop \/ RollTop
        \/ SaveUndo \/ RestoreUndo \/ NothingToRestore \/ Save \/ Restore
        \/ ResumeSession \/ Restart
Spec == Init /\ [][Next]_vars

=============================================================================
