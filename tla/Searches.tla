-------------------------------- MODULE Searches --------------------------------
(***************************************************************************)
(* The searches of the interpreter: linearsearch, binarysearch and         *)
(* linkedsearch of src/src/vm.rs, over the keys src/src/memory.rs reads    *)
(* and compares.  One search of one memory; an address wraps as all        *)
(* arithmetic does, and a key that does not lie in memory stops the story. *)
(***************************************************************************)
EXTENDS Instructions, FiniteSetsExt

CONSTANTS Memories,   \* contents of memory
          Asked       \* searches: op, key, key_size, start, structure_size, structure_count, key_offset,
                      \* next_offset and the options

VARIABLES question, bytes, reply

searchVars == <<question, bytes, reply>>

Unbounded == Modulus - 1

NoReply == [kind |-> "none"]
Replied(value) == [kind |-> "value", value |-> value]
Stops   == [kind |-> "error"]
Endless == [kind |-> "endless"]

-----------------------------------------------------------------------------
(* Keys *)

\* read_bytes, key, and the operand read by key_equals, key_cmp and key_is_zero
KeyAt(address, size) == At([memory |-> bytes], address, size)

\* A key of no bytes is nowhere.
SearchKeyed(q) ==
  IF q.indirect THEN q.key_size = 0 \/ Readable(q.key, q.key_size) ELSE q.key_size \in {1, 2, 4}

Search_key(q) ==
  IF ~ q.indirect THEN SubSeq(Encoded(q.key, 4), 5 - q.key_size, 4)
  ELSE IF q.key_size = 0 THEN <<>> ELSE KeyAt(q.key, q.key_size)

\* Less, equal or greater, byte by byte.
Key_cmp(found, key) ==
  LET differ == {i \in DOMAIN key : found[i] # key[i]} IN
  CASE differ = {} -> "equal"
    [] found[Min(differ)] < key[Min(differ)] -> "less"
    [] OTHER -> "greater"

Key_is_zero(found) == \A i \in DOMAIN found : found[i] = 0

Structure(q, index) == Wrap(q.start + index * q.structure_size)
Candidate(q, index) == Wrap(Structure(q, index) + q.key_offset)

Search_result(q, index) == Replied(IF q.return_index THEN index ELSE Structure(q, index))
Search_failure(q)       == Replied(IF q.return_index THEN Unbounded ELSE 0)

-----------------------------------------------------------------------------
(* Searches *)

Linear_search(q) ==
  LET key == Search_key(q)
      f[index \in 0 .. Modulus] ==
        LET at == Candidate(q, index) IN
        CASE q.structure_count # Unbounded /\ index >= q.structure_count -> Search_failure(q)
          [] index = Modulus -> Endless
          [] ~ Readable(at, q.key_size) -> Stops
          [] KeyAt(at, q.key_size) = key -> Search_result(q, index)
          [] q.zero_terminates /\ Key_is_zero(KeyAt(at, q.key_size)) -> Search_failure(q)
          [] OTHER -> f[index + 1]
  IN f[0]

Binary_search(q) ==
  LET key == Search_key(q)
      f[low \in 0 .. Modulus, high \in 0 .. Modulus] ==
        LET index == low + (high - low) \div 2
            at == Candidate(q, index)
        IN CASE low >= high -> Search_failure(q)
             [] ~ Readable(at, q.key_size) -> Stops
             [] Key_cmp(KeyAt(at, q.key_size), key) = "less" -> f[index + 1, high]
             [] Key_cmp(KeyAt(at, q.key_size), key) = "greater" -> f[low, index]
             [] OTHER -> Search_result(q, index)
  IN f[0, q.structure_count]

Linked_search(q) ==
  LET key == Search_key(q)
      f[structure \in 0 .. Modulus - 1, remaining \in 0 .. MemoryEnd \div 4 + 1] ==
        LET at == Wrap(structure + q.key_offset)
            next == Wrap(structure + q.next_offset)
        IN CASE structure = 0 -> Replied(0)
             [] remaining = 0 -> Stops
             [] ~ Readable(at, q.key_size) -> Stops
             [] KeyAt(at, q.key_size) = key -> Replied(structure)
             [] q.zero_terminates /\ Key_is_zero(KeyAt(at, q.key_size)) -> Replied(0)
             [] ~ Readable(next, 4) -> Stops
             [] OTHER -> f[Decoded(KeyAt(next, 4)), remaining - 1]
  IN f[q.start, MemoryEnd \div 4 + 1]

Reply(q) ==
  CASE ~ SearchKeyed(q) -> Stops
    [] q.op = "linearsearch" -> Linear_search(q)
    [] q.op = "binarysearch" -> Binary_search(q)
    [] q.op = "linkedsearch" -> Linked_search(q)

SearchInit == question \in Asked /\ bytes \in Memories /\ reply = NoReply

SearchNext == reply = NoReply /\ reply' = Reply(question) /\ UNCHANGED <<question, bytes>>

-----------------------------------------------------------------------------
(* Properties *)

Count(q) == IF q.structure_count = Unbounded THEN Modulus ELSE q.structure_count

\* Of a structure: is its key there, is it the key looked for, does it end the search?
There(q, index)   == Readable(Candidate(q, index), q.key_size)
Matches(q, index) == There(q, index) /\ KeyAt(Candidate(q, index), q.key_size) = Search_key(q)
Ends(q, index)    == q.zero_terminates /\ Key_is_zero(KeyAt(Candidate(q, index), q.key_size))

FirstOf(q) ==
  LET last == Min({Count(q)} \cup {i \in 0 .. Count(q) - 1 : ~ There(q, i) \/ Matches(q, i) \/ Ends(q, i)}) IN
  CASE last = Count(q) -> IF q.structure_count = Unbounded THEN Endless ELSE Search_failure(q)
    [] ~ There(q, last) -> Stops
    [] Matches(q, last) -> Search_result(q, last)
    [] OTHER -> Search_failure(q)

Sorted(q) ==
  LET known == {i \in 0 .. q.structure_count - 1 : There(q, i)} IN
  /\ known = 0 .. q.structure_count - 1
  /\ \A i, j \in known : i < j =>
       Decoded(KeyAt(Candidate(q, i), q.key_size)) <= Decoded(KeyAt(Candidate(q, j), q.key_size))

\* A structure of a sorted table that matches, and one where there is one.
OneOf(q) ==
  LET matching == {i \in 0 .. q.structure_count - 1 : Matches(q, i)} IN
  reply \in IF matching = {} THEN {Search_failure(q)} ELSE {Search_result(q, i) : i \in matching}

\* The structures of a list, as far as they can be followed.
After(q, structure) == Wrap(structure + q.next_offset)
Chain(q) ==
  LET f[n \in 0 .. MemoryEnd \div 4 + 1] ==
        IF n = 0 THEN <<q.start>>
        ELSE LET list == f[n - 1] IN
             IF Last(list) = 0 \/ ~ Readable(After(q, Last(list)), 4) THEN list
             ELSE Append(list, Decoded(KeyAt(After(q, Last(list)), 4)))
  IN f[MemoryEnd \div 4 + 1]

\* The first of the list that matches, before the list ends, is cut off or leaves memory; and a list that goes
\* round is noticed.
FirstInChain(q) ==
  LET list == Chain(q)
      of(i) == [q EXCEPT !.start = list[i]]
      last == Min({Len(list) + 1} \cup
                  {i \in DOMAIN list : list[i] = 0 \/ ~ There(of(i), 0) \/ Matches(of(i), 0) \/ Ends(of(i), 0)})
  IN CASE last > Len(list) -> Stops
       [] list[last] = 0 -> Replied(0)
       [] ~ There(of(last), 0) -> Stops
       [] Matches(of(last), 0) -> Replied(list[last])
       [] OTHER -> Replied(0)

(* A search answers with the first structure that has the key, or in a       *)
(* sorted table with one of them, before anything ends it; without one it    *)
(* says so; and it stops the story only where a key it has to look at lies   *)
(* outside of memory, or a list has no end.                                  *)
FindsTheKey ==
  reply # NoReply =>
    IF ~ SearchKeyed(question) THEN reply = Stops
    ELSE CASE question.op = "linearsearch" -> reply = FirstOf(question)
           [] question.op = "binarysearch" -> Sorted(question) => OneOf(question)
           [] question.op = "linkedsearch" -> reply = FirstInChain(question)
=================================================================================
