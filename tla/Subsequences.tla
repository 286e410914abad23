---------------------------- MODULE Subsequences ---------------------------
(***************************************************************************)
(* What a filter and a sort of the program leave: the subsequence of a     *)
(* sequence at given positions, in their order, and the elements of a set  *)
(* in a given order.  SelectSeq and SetToSortSeq of the library are the    *)
(* same with operators; a set of positions and a set of pairs keep these   *)
(* first-order, so that they can be proved about.                          *)
(***************************************************************************)
EXTENDS Naturals, Sequences, FiniteSets

\* Growing(s, I)[n]: what the first n positions contribute.
Growing(s, I) ==
  LET grown[n \in Nat] ==
        IF n = 0 THEN <<>>
        ELSE IF n \in I THEN Append(grown[n - 1], s[n]) ELSE grown[n - 1]
  IN grown

\* The elements of s at the positions in I.
Picked(s, I) == Growing(s, I)[Len(s)]

\* The elements of S in the strict order of which before is the set of pairs: each
\* is placed by the number of those before it.
InOrder(S, before) ==
  LET Position(m) == Cardinality({n \in S : <<n, m>> \in before})
  IN  [i \in 1 .. Cardinality(S) |-> CHOOSE m \in S : Position(m) = i - 1]
============================================================================
