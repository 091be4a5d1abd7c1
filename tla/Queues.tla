-------------------------------- MODULE Queues --------------------------------
(* What the standard library does to sequences, where SelectSeq and SortSeq  *)
(* would say the same but take an operator.                                  *)
EXTENDS Integers, Sequences, FiniteSets

\* VecDeque::retain: the elements of q whose places are in `kept`, in their order.
Retain(q, kept) ==
  LET upto[n \in 0 .. Len(q)] ==
        IF n = 0 THEN <<>>
        ELSE IF n \in kept THEN Append(upto[n - 1], q[n]) ELSE upto[n - 1]
  IN upto[Len(q)]

\* slice::sort_unstable, and the order of the keys of a BTreeMap: the numbers of a set.
IsAscending(q) == \A i, j \in DOMAIN q : i < j => q[i] < q[j]
Ascending(S) == CHOOSE q \in [1 .. Cardinality(S) -> S] : IsAscending(q)
=============================================================================
