-------------------------------- MODULE Order --------------------------------
(***************************************************************************)
(* Finite sets as sequences, by the rank of their elements: without a      *)
(* recursion, so that what they hold can be proved.                        *)
(***************************************************************************)
EXTENDS Naturals, Sequences, FiniteSets

\* The first and the last of some numbers.
First(S) == CHOOSE i \in S : \A k \in S : i <= k
Last(S) == CHOOSE i \in S : \A k \in S : k <= i

\* The elements of S in the order of a relation on them.
InOrder(S, Precedes(_, _)) ==
    [r \in 1..Cardinality(S) |->
        CHOOSE p \in S : Cardinality({q \in S : Precedes(q, p)}) = r - 1]

\* Numbers in ascending order.
Ascending(S) == InOrder(S, LAMBDA i, k : i < k)

\* The elements of a sequence at some positions, as a filter leaves them.
Kept(s, positions) ==
    [r \in 1..Cardinality(positions) |-> s[Ascending(positions)[r]]]
=============================================================================
