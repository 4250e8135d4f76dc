---------------------------- MODULE MCHostCalls -----------------------------
(***************************************************************************)
(* HostCalls with three contracts and two errors.                          *)
(***************************************************************************)
EXTENDS HostCalls, TLC

CONSTANTS a, b, c, e1, e2, nobody

Symmetric == Permutations(Contract) \cup Permutations(Error)

=============================================================================
