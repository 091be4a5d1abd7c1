----------------------------- MODULE MCInstructions -----------------------------
(* Programs that are compiled, searches of a memory, and library functions   *)
(* that are replaced: one at a time.                                         *)
EXTENDS MCLowering, Searches, Acceleration

VARIABLE focus
allVars == <<vars, searchVars, accelVars, focus>>

-----------------------------------------------------------------------------
(* Searches: two-byte keys that are sorted, and lists over other keys that   *)
(* end, go round, or lead out of memory.                                     *)

SortedKeys == <<0, 0, 0, 1, 0, 2, 0, 3, 1, 0, 1, 1, 1, 2, 1, 3, 2, 0, 2, 1, 2, 3, 3, 0, 3, 1, 3, 2, 3, 3, 3, 3>>
OtherKeys  == <<1, 0, 2, 1, 0, 0, 3, 1, 0, 1, 2, 0, 0, 1, 0, 2, 2, 1, 0, 0, 1, 2, 0, 1, 3, 0, 2, 1, 1, 0, 1, 0>>

\* Cells with some words of their own.
Overlaid(cells, own) ==
  [a \in 0 .. MemoryEnd - 1 |->
     IF \E s \in DOMAIN own : a \in s .. s + 3
     THEN LET s == CHOOSE s \in DOMAIN own : a \in s .. s + 3 IN Encoded(own[s], 4)[a - s + 1]
     ELSE cells[a + 1]]

MCMemories ==
  {Overlaid(SortedKeys, << >>),
   Overlaid(OtherKeys, (4 :> 12 @@ 12 :> 20 @@ 20 :> 0)),
   Overlaid(SortedKeys, (4 :> 20 @@ 20 :> 12 @@ 12 :> 4)),
   Overlaid(OtherKeys, (4 :> 12 @@ 12 :> 40))}

SearchKeys ==
  {[key |-> k, key_size |-> s, indirect |-> FALSE] : k \in {0, 1, 8, 17}, s \in {1, 2, 3, 4}}
  \cup {[key |-> k, key_size |-> s, indirect |-> TRUE] : k \in {7, 30}, s \in {0, 1, 5}}

Asks(op, k, start, size, count, offset, next, zero, index) ==
  [op |-> op, key |-> k.key, key_size |-> k.key_size, indirect |-> k.indirect, start |-> start,
   structure_size |-> size, structure_count |-> count, key_offset |-> offset, next_offset |-> next,
   zero_terminates |-> zero, return_index |-> index]

\* Of the searches that never end one is enough.
MCAsked ==
  {q \in {Asks(op, k, start, size, count, offset, 0, zero, index) :
            op \in {"linearsearch", "binarysearch"}, k \in SearchKeys, start \in {4, 21}, size \in {0, 2, 3},
            count \in {0, 8, 255}, offset \in {0, 2}, zero \in BOOLEAN, index \in BOOLEAN} :
     q.structure_count = 255 =>
       q.op = "linearsearch" /\ (q.structure_size = 0 => q.key = 17 /\ ~ q.return_index)}
  \cup {Asks("linkedsearch", k, start, 0, 0, offset, next, zero, FALSE) :
          k \in SearchKeys, start \in {0, 4, 29}, offset \in {2, 4}, next \in {0, 255}, zero \in BOOLEAN}

-----------------------------------------------------------------------------
(* Objects: 101 of the class 102, 103 the class of classes, a string, a      *)
(* routine, and an object in ROM; the tables 1 and 3 are in ROM.             *)

MCTypeByte == (101 :> 112) @@ (102 :> 112) @@ (103 :> 112) @@ (104 :> 224) @@ (105 :> 192) @@ (106 :> 112)

MCWords == (101 :> (4 :> 2 @@ 5 :> 110)) @@ (102 :> (4 :> 3 @@ 5 :> 103)) @@ (103 :> (4 :> 0 @@ 5 :> 103))

Property(id, address, length, private) == [id |-> id, address |-> address, length |-> length, private |-> private]

OneTable == <<Property(2, 1, 2, FALSE), Property(3, 2, 1, FALSE)>>

MCTables ==
  <<<<Property(2, 1, 1, FALSE), Property(3, 2, 1, FALSE), Property(5, 3, 2, TRUE)>>,
    OneTable,
    <<Property(2, 2, 1, FALSE), Property(5, 2, 1, TRUE), Property(7, 3, 1, FALSE)>>>>

MCTableValues == {OneTable, <<Property(2, 1, 1, TRUE), Property(5, 0, 0, FALSE)>>}
MCLists       == <<<<9, 102>>, <<7>>, <<8, 102>>>>
MCClassTable  == <<102, 101>>
MCDefaults    == <<41, 42, 43>>

MCParameters ==
  [i \in 0 .. 8 |-> CASE i = 1 -> 4 [] i \in 3 .. 5 -> 107 + i [] i = 2 -> 103 [] i = 7 -> 7 [] OTHER -> 0]

MCNewParameters == {<<3, 102>>, <<9, 1>>}
MCCodeByte      == (201 :> 192) @@ (202 :> 112)
MCSlot          == [key \in (1 .. 3) \X (0 .. 7) \X BOOLEAN |-> (key[1] + key[2]) % 2]

-----------------------------------------------------------------------------
Idle ==
  /\ program = CHOOSE p \in MCPrograms : TRUE
  /\ compiled = CHOOSE m \in MCMachines : TRUE
  /\ interpreted = compiled

NoSearch == question = CHOOSE q \in MCAsked : TRUE

MCInit ==
  /\ focus \in {"programs", "searches", "objects"}
  /\ IF focus = "programs" THEN Init ELSE Idle
  /\ IF focus = "searches" THEN SearchInit ELSE NoSearch /\ bytes = << >> /\ reply = NoReply
  /\ AccelerationInit

MCNext ==
  /\ UNCHANGED focus
  /\ \/ focus = "programs" /\ Next /\ UNCHANGED <<searchVars, accelVars>>
     \/ focus = "searches" /\ SearchNext /\ UNCHANGED <<vars, accelVars>>
     \/ focus = "objects" /\ AccelerationNext /\ UNCHANGED <<vars, searchVars>>

MCSpec == MCInit /\ [][MCNext]_allVars

-----------------------------------------------------------------------------
(* A search and an accelerated function say what is in memory.               *)
RepliesAreTrue == FindsTheKey /\ AnswersAreTrue
=================================================================================
