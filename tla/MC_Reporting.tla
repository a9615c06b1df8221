--------------------------- MODULE MC_Reporting ------------------------------
(* Instances of Reporting for TLC. *)
EXTENDS Reporting, TLC

CONSTANTS r1, r2
==============================================================================
