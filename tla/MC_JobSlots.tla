---------------------------- MODULE MC_JobSlots ------------------------------
(* Instances of JobSlots for TLC: slot ids a1, a2 of node n1, b1 of node n2. *)
EXTENDS JobSlots, TLC

CONSTANTS n1, n2, a1, a2, b1

HomeDef == [a \in Attempt |-> IF a = b1 THEN n2 ELSE n1]

(* n2's clock is a second ahead of n1's. *)
SkewDef == [n \in Node |-> IF n = n2 THEN 1 ELSE 0]
==============================================================================
