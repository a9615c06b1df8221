------------------------- MODULE MC_ConsoleStores ----------------------------
(* Instances of ConsoleStores for TLC. *)
EXTENDS ConsoleStores, TLC

CONSTANTS r1, r2, r3, w1, w2, w3
==============================================================================
