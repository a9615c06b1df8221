-------------------------- MODULE MC_LeaderLease -----------------------------
(* Instances of LeaderLease for TLC. *)
EXTENDS LeaderLease, TLC

CONSTANTS n1, n2, n3

Symmetry == Permutations(Node)
==============================================================================
