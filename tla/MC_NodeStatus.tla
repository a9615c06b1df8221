--------------------------- MODULE MC_NodeStatus -----------------------------
(* Instances of NodeStatus for TLC. *)
EXTENDS NodeStatus, TLC

CONSTANTS n1, j1, j2
==============================================================================
