------------------------------- MODULE Places -------------------------------
(***************************************************************************)
(* What a pass over a sequence keeps of it: the loops and filters of the   *)
(* source, each given by the set of the places it keeps.                   *)
(***************************************************************************)
EXTENDS Naturals, FiniteSets

\* The n-th of a set of places, and what a sequence holds at them, in order.
Nth(S, n) == CHOOSE i \in S : Cardinality({j \in S : j <= i}) = n

Only(s, S) == [n \in 1 .. Cardinality(S) |-> s[Nth(S, n)]]

=============================================================================
