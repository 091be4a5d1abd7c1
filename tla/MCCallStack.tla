----------------------------- MODULE MCCallStack -----------------------------
(***************************************************************************)
(* CallStack with two functions, an accelerated one and four texts, and    *)
(* the activations its stack stands for.                                   *)
(***************************************************************************)
EXTENDS CallStack, TLC

VARIABLES acts, snaps   \* the activations and snapshots the machine stands for

F == 100   \* one local, filter and function in a text
G == 200   \* takes its arguments on the stack
A == 300   \* accelerated
MCFunctionTable == (F :> [stacked |-> FALSE, locals |-> 1])
                   @@ (G :> [stacked |-> TRUE, locals |-> 0])
Char(c) == [kind |-> "char", char |-> c]
End == [kind |-> "end"]
\* Two plain texts at 1 and 4, a compressed one at byte 20, one at byte 30.
MCCells ==
  (1 :> Char(5)) @@ (2 :> Char(6)) @@ (3 :> End) @@ (4 :> Char(7)) @@ (5 :> End)
  @@ (40 :> Char(8)) @@ (41 :> [kind |-> "object", at |-> F])
  @@ (42 :> [kind |-> "leaf", at |-> 4, stub |-> 14])
  @@ (43 :> [kind |-> "object", at |-> 30]) @@ (44 :> Char(9)) @@ (45 :> End)
  @@ (60 :> [kind |-> "object", at |-> 1]) @@ (61 :> [kind |-> "object", at |-> A])
  @@ (62 :> End)
MCObjects ==
  (1 :> [kind |-> "leaf", stub |-> 13, at |-> 1])
  @@ (20 :> [kind |-> "compressed", at |-> 20])
  @@ (30 :> [kind |-> "compressed", at |-> 30])
  @@ (F :> [kind |-> "function"]) @@ (A :> [kind |-> "function"])
MCIoSettings == {<<0, F>>, <<1, F>>, <<1, A>>, <<2, F>>}
MCAlphabets ==
  {[does |-> {"call", "return", "tailcall", "push", "roll"}, places |-> {3},
    calls |-> {F, G, A}, fuel |-> 5],
   [does |-> {"call", "return", "catch", "throw"}, places |-> {1, 2, 3},
    calls |-> {0, F, A}, fuel |-> 4],
   [does |-> {"call", "callf", "return", "pop", "push"}, places |-> {2}, calls |-> {F, G}, fuel |-> 5],
   [does |-> {"catch", "throw", "print", "setio", "return"}, places |-> {2},
    calls |-> {}, fuel |-> 5],
   [does |-> {"tailcall", "print", "setio", "return", "session"}, places |-> {0},
    calls |-> {A, G}, fuel |-> 5],
   [does |-> {"print", "setio", "return", "undo", "session", "save"}, places |-> {3},
    calls |-> {}, fuel |-> 5]}
MCDigits == (12 :> <<1, 2>>)

(***************************************************************************)
(* What is left of a text, and the activations on a stack.                 *)
(***************************************************************************)
RECURSIVE LeafItems(_), NodeItems(_), Walk(_, _), Vals(_, _, _, _), Acts(_, _, _, _, _, _)
LeafItems(cursor) == IF Cells[cursor].kind = "end" THEN <<>>
                     ELSE <<Cells[cursor]>> \o LeafItems(cursor + 1)
ObjectItems(o) == CASE Objects[o].kind = "function" -> <<[kind |-> "call", function |-> o]>>
                    [] Objects[o].kind = "leaf" -> LeafItems(Objects[o].at)
                    [] OTHER -> NodeItems(Objects[o].at * Bits)
NodeItems(i) == CASE Cells[i].kind = "end" -> <<>>
                  [] Cells[i].kind = "char" -> <<Cells[i]>> \o NodeItems(i + 1)
                  [] Cells[i].kind = "leaf" -> LeafItems(Cells[i].at) \o NodeItems(i + 1)
                  [] OTHER -> ObjectItems(Cells[i].at) \o NodeItems(i + 1)
NumberItems(v) == [i \in 1..Len(Digits[v]) |-> Char(Digits[v][i])]
ItemsOf(stub) ==
  CASE stub[1] = 10 -> NodeItems(stub[3] * Bits + stub[2])
    [] stub[1] = 12 -> SubSeq(NumberItems(stub[3]), stub[2] + 1, Len(Digits[stub[3]]))
    [] stub[1] \in {13, 14} -> LeafItems(stub[3])
    [] OTHER -> <<>>
NameOf(kind) == CASE kind = 0 -> "discard" [] kind = 1 -> "memory"
                  [] kind = 2 -> "local" [] kind = 3 -> "stack"
Stub(b, end) == SubSeq(b, end - 3, end)
\* From the stub that ends at `end` down to the one that ends the printing.
Walk(b, end) ==
  IF Stub(b, end)[1] = 11 THEN [items |-> <<>>, stub |-> Stub(b, end), floor |-> end - 4]
  ELSE LET w == Walk(b, end - 4)
       IN [w EXCEPT !.items = ItemsOf(Stub(b, end)) \o w.items]
Vals(b, catches, i, ceiling) ==
  IF i >= ceiling THEN <<>>
  ELSE IF i + 4 \in catches
  THEN <<[token |-> i + 4, destination |-> NameOf(b[i + 1]), at |-> b[i + 3]]>>
         \o Vals(b, catches, i + 4, ceiling)
  ELSE <<[value |-> b[i + 1]]>> \o Vals(b, catches, i + 1, ceiling)
Acts(b, catches, frame, ceiling, at, due) ==
  LET act(then) == [at |-> at, due |-> due, then |-> then,
                    locals |-> SubSeq(b, frame + 4, frame + b[frame + 1]),
                    vals |-> Vals(b, catches, frame + b[frame + 1], ceiling)]
      stub == Stub(b, frame)
      w == Walk(b, frame)
  IN CASE frame = 0 -> <<act([kind |-> "nothing"])>>
       [] frame > 0 /\ stub[1] \in 0..3 ->
            Append(Acts(b, catches, stub[4], frame - 4, stub[3], <<>>),
                   act([kind |-> "store", destination |-> NameOf(stub[1])]))
       [] OTHER ->
            Append(Acts(b, catches, w.stub[4], w.floor, w.stub[3], <<>>),
                   act([kind |-> "print", rest |-> w.items]))
ActsOf(m, catches) ==
  IF m.bytes = <<>> THEN <<>>
  ELSE Acts(m.bytes, catches, m.frame_ptr, Height(m), IF m.due = None THEN m.pc ELSE 0, m.due)

Snap(m, catches, destination) ==
  <<[acts |-> ActsOf(m, catches), memory |-> m.memory,
     destination |-> NameOf(destination.kind)]>>
SnapsOf(u, f) ==
  [undo |-> IF u = None THEN <<>> ELSE Snap(u[1].vm, u[1].held, u[1].destination),
   file |-> IF f = None THEN <<>>
            ELSE LET m == Unpacked(f[1])
                 IN Snap([m.vm EXCEPT !.due = None], f[1].held, m.destination)]

MCInit == Init /\ acts = ActsOf(vm, held) /\ snaps = SnapsOf(undo, file)
MCNext == Next /\ acts' = ActsOf(vm', held') /\ snaps' = SnapsOf(undo', file')
MCSpec == MCInit /\ [][MCNext]_<<vars, acts, snaps>>

\* The stack does what activations do: every result goes where its caller
\* wants it, every text is delivered once and in order whatever functions it
\* runs through, and throw, undo and saved games bring back what they should
\* (vm.rs:448-722, 2371-2525, strings.rs).
Abstract == INSTANCE Calls WITH
  io <- vm.io, rock <- vm.rock, out <- vm.out,
  memory <- vm.memory, status <- vm.state,
  Tokens <- 1..Maximum, Rocks <- {s[2] : s \in IoSettings},
  Texts <- {ObjectItems(s) : s \in Strings} \union {NumberItems(v) : v \in Numbers}
Refines == Abstract!Spec

\* What the machine keeps it accepts again: the stack of every state a
\* session, a snapshot or a saved game holds passes validate_stack, and the
\* bounds that are not stored are those the frame header gives
\* (save.rs:215-284, session.rs:30-60, vm.rs:448-457).
Accepted(m) == ValidStack(m) /\ Refreshed(m) = m
Resumable == /\ vm.state = "running" => Accepted(vm)
             /\ undo # None => Accepted(undo[1].vm)
             /\ file # None => ValidStack(Unpacked(file[1]).vm)
=============================================================================
