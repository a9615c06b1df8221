-------------------------- MODULE MC_RunLifecycle ----------------------------
(* Instances of RunLifecycle for TLC. *)
EXTENDS RunLifecycle, TLC

CONSTANTS n1, n2, r1, r2, r3

OneHome  == [r \in Run |-> n1]

Symmetry == Permutations(Run)
==============================================================================
