----------------------------- MODULE MC_GroupTree ------------------------------
(* Instances of GroupTree for TLC. *)
EXTENDS GroupTree

CONSTANTS g1, g2, g3, g4, g5, p1, p2, q1, q2, a, b, c

(* The properties treat the ids alike. *)
Ids == Permutations(Group) \cup Permutations(Project) \cup Permutations(Slug)
==============================================================================
