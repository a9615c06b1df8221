------------------------------- MODULE Permits -------------------------------
(***************************************************************************)
(* What a concurrency limit promises, without saying how: a set of pools,  *)
(* each with at most Capacity permits out at any time.  A permit goes out  *)
(* to one holder at a time; any number of holders may come back (or be     *)
(* lost in a crash) in one step.                                           *)
(*                                                                         *)
(* JobSlots implements this module twice: with one pool per process (the   *)
(* ConcurrencyTracker of a job) and with a single pool for the cluster     *)
(* (the Redis sorted set of that job).  So do the slots that RunLifecycle  *)
(* keeps for its runs, and the lead of LeaderLease, a pool of one permit,  *)
(* as the theorems about these modules show.                               *)
(***************************************************************************)
EXTENDS Naturals, FiniteSets

CONSTANTS Pool,      \* the places that limit: processes, or the one cluster
          Holder,    \* whatever may hold a permit
          Capacity   \* permits of a pool

VARIABLE holders     \* holders[p]: who holds a permit of pool p

Init == holders = [p \in Pool |-> {}]

(* A permit may go out only while fewer than Capacity are out. *)
Grant(p, h) ==
    /\ h \notin holders[p]
    /\ Cardinality(holders[p]) < Capacity
    /\ holders' = [holders EXCEPT ![p] = @ \cup {h}]

(* Some holders give their permits back, or vanish. *)
Return(p, S) ==
    /\ holders' = [holders EXCEPT ![p] = @ \ S]

Next ==
    \E p \in Pool :
        \/ \E h \in Holder : Grant(p, h)
        \/ \E S \in SUBSET Holder : Return(p, S)

Spec == Init /\ [][Next]_holders
==============================================================================
