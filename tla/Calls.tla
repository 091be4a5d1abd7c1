-------------------------------- MODULE Calls --------------------------------
(***************************************************************************)
(* What a story may rely on when functions call each other and text is     *)
(* printed through them, without saying how a stack encodes it: a sequence *)
(* of activations, each knowing what becomes of its result.  Printing      *)
(* delivers the items of a text one after the other; an item that needs a  *)
(* function suspends the rest of the text until that function returns.     *)
(* CallStack implements this module with call stubs on a stack of words.   *)
(***************************************************************************)
EXTENDS Integers, Sequences, FiniteSets

CONSTANTS FunctionTable,  \* address -> [stacked |-> BOOLEAN, locals |-> Nat]
          Native,         \* the accelerated ones among the addresses
          StartFunction,  \* where a story starts
          Rocks,          \* functions that filter output
          Texts,          \* sequences of items a story prints
          Tokens,         \* numbers a catch may go by
          Constants       \* values in operands

VARIABLES acts,    \* the activations, the running one last
          io,      \* where output goes: 0 nowhere, 1 to the filter, 2 to Glk
          rock,    \* the filter
          out,     \* what Glk was given
          memory,  \* a word of memory that results are stored to
          snaps,   \* what undo and a saved game hold
          status   \* "running", "halted" or "faulted"

vars == <<acts, io, rock, out, memory, snaps, status>>

Value(v) == [value |-> v]
Destinations == {"discard", "memory", "local", "stack"}
Nothing == [kind |-> "nothing"]
StoreAt(destination) == [kind |-> "store", destination |-> destination]
PrintRest(items) == [kind |-> "print", rest |-> items]
NativeResult(arguments) == IF arguments = <<>> THEN 0 ELSE arguments[1]
Last(s) == s[Len(s)]
Below(s) == SubSeq(s, 1, Len(s) - 1)
Running == Last(acts)
Smaller(a, b) == IF a < b THEN a ELSE b

\* A new activation: its arguments are locals, or values on its stack.
Activation(f, arguments, then) ==
  IF f \in Native
  THEN [at |-> 0, locals |-> <<>>, vals |-> <<>>, then |-> then,
        due |-> <<NativeResult(arguments)>>]
  ELSE LET n == FunctionTable[f].locals
           k == Len(arguments)
       IN [at     |-> f,
           locals |-> IF FunctionTable[f].stacked THEN [i \in 1..n |-> 0]
                      ELSE [i \in 1..n |-> IF i <= k THEN arguments[i] ELSE 0],
           vals   |-> IF FunctionTable[f].stacked
                      THEN [i \in 1..k |-> Value(arguments[k - i + 1])]
                             \o <<Value(k)>>
                      ELSE <<>>,
           then   |-> then,
           due    |-> <<>>]

Stored(act, destination, v) ==
  CASE destination = "local" -> [act EXCEPT !.locals[1] = v]
    [] destination = "stack" -> [act EXCEPT !.vals = Append(@, Value(v))]
    [] OTHER -> act

\* A step whose outcome is the activations s after v is stored.
Store(s, destination, v) ==
  /\ destination = "local" => Last(s).locals # <<>>
  /\ acts' = Append(Below(s), Stored(Last(s), destination, v))
  /\ memory' = IF destination = "memory" THEN v ELSE memory

\* Deliver items until one needs a function, on behalf of the last of s.
Deliver(s, items) ==
  LET Needs(i) == items[i].kind = "call" \/ io = 1
      stops == {i \in 1..Len(items) : Needs(i)}
      Shown(k) == IF io # 2 THEN <<>>
                  ELSE [i \in 1..k |-> items[i].char]
  IN IF stops = {}
     THEN acts' = s /\ out' = out \o Shown(Len(items))
     ELSE LET k == CHOOSE i \in stops : \A j \in stops : i <= j
              rest == PrintRest(SubSeq(items, k + 1, Len(items)))
          IN /\ out' = out \o Shown(k - 1)
             /\ acts' = Append(s, IF items[k].kind = "call"
                                  THEN Activation(items[k].function, <<>>, rest)
                                  ELSE Activation(rock, <<items[k].char>>, rest))

\* The last of s ends with result v.
Ends(s, v) ==
  LET then == Last(s).then
      caller == Below(s)
  IN CASE then.kind = "nothing" ->
            status' = "halted" /\ acts' = <<>> /\ UNCHANGED <<out, memory>>
       [] then.kind = "store" ->
            Store(caller, then.destination, v) /\ UNCHANGED <<out, status>>
       [] then.kind = "print" ->
            Deliver(caller, then.rest) /\ UNCHANGED <<memory, status>>

\* The activations once the next instruction is fetched.
Fetched == [acts EXCEPT ![Len(acts)].at = @ + 1]
Executes == status = "running" /\ Running.due = <<>>
Unmoved == UNCHANGED <<io, rock, snaps>>
Plain(s) == \A i \in 1..Len(s) : "value" \in DOMAIN s[i]
Popped(n) == [i \in 1..n |-> Running.vals[Len(Running.vals) - i + 1].value]
Without(n) == [Fetched EXCEPT ![Len(acts)].vals = SubSeq(@, 1, Len(@) - n)]
Tops(n) == SubSeq(Running.vals, Len(Running.vals) - n + 1, Len(Running.vals))

\* Function 0 is no function: it gives 0.
Invoke(s, f, arguments, destination) ==
  /\ UNCHANGED <<out, status>>
  /\ IF f = 0 \/ f \in Native
     THEN Store(s, destination, IF f = 0 THEN 0 ELSE NativeResult(arguments))
     ELSE /\ acts' = Append(s, Activation(f, arguments, StoreAt(destination)))
          /\ UNCHANGED memory
Call(f, n, destination) ==
  /\ Executes /\ n <= Len(Running.vals) /\ Plain(Tops(n)) /\ Unmoved
  /\ Invoke(Without(n), f, Popped(n), destination)
CallFixed(f, arguments, destination) ==
  Executes /\ Unmoved /\ Invoke(Fetched, f, arguments, destination)

TailCall(f, n) ==
  /\ Executes /\ n <= Len(Running.vals) /\ Plain(Tops(n)) /\ Unmoved
  /\ IF f \in Native THEN Ends(acts, NativeResult(Popped(n)))
     ELSE /\ acts' = Append(Below(acts), Activation(f, Popped(n), Running.then))
          /\ UNCHANGED <<out, memory, status>>

Return(v) == Executes /\ Unmoved /\ Ends(acts, v)
NativeReturn == status = "running" /\ Running.due # <<>> /\ Unmoved
                /\ Ends(acts, Running.due[1])

\* A token is any number that no live catch goes by.
Markers(act) == {i \in 1..Len(act.vals) : "token" \in DOMAIN act.vals[i]}
Live == {<<i, j>> \in (1..Len(acts)) \X (1..20) :
           j \in 1..Len(acts[i].vals) /\ j \in Markers(acts[i])}
Caught(token, destination) ==
  [Fetched EXCEPT ![Len(acts)].vals =
     Append(@, [token |-> token, destination |-> destination,
                at |-> Running.at + 1])]
Catch(token, destination) ==
  /\ Executes /\ Unmoved /\ UNCHANGED <<out, status>>
  /\ \A p \in Live : acts[p[1]].vals[p[2]].token # token
  /\ Store(Caught(token, destination), destination, token)

\* Everything above the catch is gone, suspended texts included.
Throw(p, v) ==
  LET marker == acts[p[1]].vals[p[2]]
      kept == [SubSeq(acts, 1, p[1]) EXCEPT
                 ![p[1]].vals = SubSeq(@, 1, p[2] - 1), ![p[1]].at = marker.at]
  IN /\ Executes /\ Unmoved /\ UNCHANGED <<out, status>>
     /\ Store(kept, marker.destination, v)

Say(items) == /\ Executes /\ Unmoved /\ UNCHANGED <<memory, status>>
                /\ Deliver(Fetched, items)

\* A single character is an ordinary call of the filter.
PrintCharacter(c) ==
  /\ Executes /\ Unmoved /\ UNCHANGED <<memory, status>>
  /\ out' = IF io = 2 THEN Append(out, c) ELSE out
  /\ acts' = IF io = 1 /\ rock \notin Native
             THEN Append(Fetched, Activation(rock, <<c>>, StoreAt("discard")))
             ELSE Fetched

SetIo(system, r) ==
  /\ Executes /\ io' = system /\ rock' = r /\ acts' = Fetched
  /\ UNCHANGED <<out, memory, snaps, status>>

\* The n values on top move up by k places, those pushed out return below.
Rolled(s, n, k) ==
  [i \in 1..n |-> s[((i - 1 - k) % n) + 1]]
Operate(top, n) ==
  /\ Executes /\ n <= Len(Running.vals) /\ Plain(Tops(n)) /\ Unmoved
  /\ acts' = [Without(n) EXCEPT ![Len(acts)].vals = @ \o top]
  /\ UNCHANGED <<out, memory, status>>
Push(v) == Operate(<<Value(v)>>, 0)
Roll(n, k) == Operate(Rolled(Tops(n), n, k), n)
Copy(n) == Operate(Tops(n) \o Tops(n), n)
PopLocal == /\ Executes /\ Running.vals # <<>> /\ Plain(Tops(1)) /\ Unmoved
            /\ Store(Without(1), "local", Popped(1)[1]) /\ UNCHANGED <<out, status>>

\* A snapshot keeps the activations and memory, not the output system.
Keep(name, destination) ==
  /\ Executes
  /\ snaps' = [snaps EXCEPT ![name] =
                 <<[acts |-> Fetched, memory |-> memory, destination |-> destination]>>]
  /\ Store(Fetched, destination, 0)
  /\ UNCHANGED <<io, rock, out, status>>
\* Nothing to go back to, or no room to keep.
Refused(destination) ==
  Executes /\ Unmoved /\ Store(Fetched, destination, 1) /\ UNCHANGED <<out, status>>
GoBack(name) ==
  LET snap == snaps[name][1] IN
  /\ Executes /\ snaps[name] # <<>>
  /\ acts' = Append(Below(snap.acts), Stored(Last(snap.acts), snap.destination, -1))
  /\ memory' = IF snap.destination = "memory" THEN -1 ELSE snap.memory
  /\ snaps' = IF name = "undo" THEN [snaps EXCEPT !.undo = <<>>] ELSE snaps
  /\ UNCHANGED <<io, rock, out, status>>

Restart == /\ acts' = <<Activation(StartFunction, <<>>, Nothing)>>
           /\ memory' = 0 /\ status' = "running"
           /\ UNCHANGED <<io, rock, out, snaps>>

\* The stack has a limit this module does not know.
Fault == status = "running" /\ status' = "faulted"
         /\ UNCHANGED <<acts, io, rock, out, memory, snaps>>

Init == /\ acts = <<Activation(StartFunction, <<>>, Nothing)>>
        /\ io = 0 /\ rock = 0 /\ out = <<>> /\ memory = 0 /\ status = "running"
        /\ snaps = [undo |-> <<>>, file |-> <<>>]
Next ==
  \/ \E f \in DOMAIN FunctionTable \union Native, n \in 0..2 :
       TailCall(f, n) \/ \E d \in Destinations : Call(f, n, d) \/ Call(0, n, d)
  \/ \E f \in DOMAIN FunctionTable \union Native \union {0}, n \in 0..3, d \in Destinations :
       \E v \in [1..n -> Constants] : CallFixed(f, v, d)
  \/ \E v \in Constants : Return(v) \/ Push(v) \/ \E p \in Live : Throw(p, v)
  \/ NativeReturn \/ PopLocal \/ Restart \/ Fault
  \/ \E d \in Destinations :
       \/ Refused(d)
       \/ \E name \in {"undo", "file"} : Keep(name, d)
       \/ \E t \in Tokens : Catch(t, d)
  \/ \E name \in {"undo", "file"} : GoBack(name)
  \/ \E items \in Texts : Say(items)
  \/ \E c \in Constants : PrintCharacter(c)
  \/ \E system \in 0..2, r \in Rocks \union {0} : SetIo(system, r)
  \/ \E n \in 1..3 : Copy(n) \/ \E k \in -2..2 : Roll(n, k)
Spec == Init /\ [][Next]_vars
=============================================================================
