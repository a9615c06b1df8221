------------------------- MODULE Cluster_proofs ----------------------------
(***************************************************************************)
(* Theorems about the nodes of a cluster, for any number of them.          *)
(* About LeaderLease, for any durations:                                   *)
(*   - types, and that the key is never stolen, under both hosts (BaseInv) *)
(*   - at most one leader, those that the generic host is stopping aside,  *)
(*     when ticks are in time (LeaseInv), and the lead as a permit.        *)
(* About NodeStatus, for any set of jobs and any number of open calls:     *)
(*   - types, and that a process that was told that it is connected is in  *)
(*     the dashboard with its jobs (NodeInv).                              *)
(***************************************************************************)
EXTENDS LeaderLease, FiniteSetTheorems, TLAPS

(* A refresh on the wire has a caller that awaits it; a release was sent by a
   node that is stopping. *)
WireInv ==
    /\ \A r \in wire :
          /\ r.kind = "refresh" => /\ r.from \in Node
                                   /\ step[r.from] = "refresh"
                                   /\ answer[r.from] = "none"
          /\ r.kind = "release" => \/ r.from = Ghost
                                   \/ proc[r.from] \in {"releasing", "stopped"}
    /\ \A n \in Node : answer[n] # "none" => step[n] = "refresh"
    /\ \A n \in Node : proc[n] = "down" => step[n] = "idle"

BaseInv == TypeOK /\ WireInv

--------------------------------------------------------------------------------

LEMMA BaseInvInit == Init => BaseInv
<1>1. Init => TypeOK
  BY ConstantsAssumption DEF Init, TypeOK, ProcState, Step, Request
<1>2. Init => WireInv
  BY DEF Init, WireInv
<1> QED
  BY <1>1, <1>2 DEF BaseInv

(* What a process leaves behind when it is gone is well formed. *)
LEMMA GoneKeeps ==
    ASSUME BaseInv, NEW n \in Node, Gone(n), faults' \in Nat
    PROVE  BaseInv'
<1> USE ConstantsAssumption DEF BaseInv
<1>1. TypeOK'
  <2>1. wire' \subseteq Request
    BY DEF Gone, TypeOK, Request, Req
  <2>2. owner' \in Node \cup {NoOne, Ghost} /\ (owner' = NoOne <=> left' = 0)
    BY DEF Gone, TypeOK
  <2> QED
    BY <2>1, <2>2 DEF Gone, TypeOK, ProcState, Step
<1>2. ASSUME NEW r \in wire'
      PROVE  /\ r.kind = "refresh" => /\ r.from \in Node
                                      /\ step'[r.from] = "refresh"
                                      /\ answer'[r.from] = "none"
             /\ r.kind = "release" => \/ r.from = Ghost
                                      \/ proc'[r.from] \in {"releasing", "stopped"}
  <2>1. CASE r \in wire /\ r.from # n
    BY <2>1 DEF Gone, TypeOK, WireInv, Request
  <2>2. CASE r.from = Ghost /\ r.kind \in {"release", "stale"}
    BY <2>2
  <2> QED
    BY <2>1, <2>2 DEF Gone, Req
<1>3. \A m \in Node : answer'[m] # "none" => step'[m] = "refresh"
  BY DEF Gone, TypeOK, WireInv
<1>4. \A m \in Node : proc'[m] = "down" => step'[m] = "idle"
  BY DEF Gone, TypeOK, WireInv
<1> QED
  BY <1>1, <1>2, <1>3, <1>4 DEF WireInv

LEMMA BaseInvStep == BaseInv /\ [Next]_vars => BaseInv'
<1> SUFFICES ASSUME BaseInv, [Next]_vars PROVE BaseInv'
  OBVIOUS
<1> USE ConstantsAssumption DEF BaseInv
<1>1. ASSUME NEW n \in Node, StartProcess(n) PROVE BaseInv'
  BY <1>1 DEF StartProcess, TypeOK, WireInv, ProcState, Step, Request
<1>2. ASSUME NEW n \in Node, BeginTick(n) PROVE BaseInv'
  BY <1>2 DEF BeginTick, TypeOK, WireInv, Step, Request
<1>3. ASSUME NEW n \in Node, SendRefresh(n) PROVE BaseInv'
  <2>1. TypeOK'
    BY <1>3 DEF SendRefresh, Req, TypeOK, Step, Request
  <2>2. answer[n] = "none"
    BY <1>3 DEF SendRefresh, TypeOK, WireInv
  <2>3. WireInv'
    BY <1>3, <2>2 DEF SendRefresh, Req, TypeOK, WireInv
  <2> QED
    BY <2>1, <2>3
<1>4. ASSUME NEW n \in Node, TickEnds(n) PROVE BaseInv'
  BY <1>4 DEF TickEnds, AgeAfterTick, TypeOK, WireInv, Step, ProcState, Request
<1>5. ASSUME NEW n \in Node, TickThrows(n) PROVE BaseInv'
  <2>1. TypeOK'
    BY <1>5 DEF TickThrows, Fault, AgeAfterTick, Abandon, Req, TypeOK, Step, Request
  <2>2. WireInv'
    BY <1>5 DEF TickThrows, Abandon, Req, TypeOK, WireInv, Request
  <2> QED
    BY <2>1, <2>2
<1>6. ASSUME NEW n \in Node, Crash(n) PROVE BaseInv'
  BY <1>6, GoneKeeps DEF Crash, Fault, TypeOK
<1>7. ASSUME NEW n \in Node, SchedulerFails(n) PROVE BaseInv'
  BY <1>7 DEF SchedulerFails, Fault, TypeOK, WireInv
<1>8. ASSUME NEW n \in Node, BeginStop(n) \/ SchedulerStopsHost(n) PROVE BaseInv'
  BY <1>8 DEF BeginStop, SchedulerStopsHost, Stopping, Fault, TypeOK, WireInv,
              ProcState, Request
<1>9. ASSUME NEW n \in Node, Release(n) PROVE BaseInv'
  BY <1>9 DEF Release, Req, TypeOK, WireInv, ProcState, Request
<1>10. ASSUME NEW n \in Node, Released(n) PROVE BaseInv'
  BY <1>10 DEF Released, Fault, TypeOK, WireInv, ProcState, Request
<1>11. ASSUME NEW n \in Node, StopScheduler(n) PROVE BaseInv'
  BY <1>11 DEF StopScheduler, TypeOK, WireInv
<1>12. ASSUME NEW n \in Node, Exit(n) PROVE BaseInv'
  BY <1>12, GoneKeeps DEF Exit, TypeOK
<1>13. ASSUME NEW r \in wire, EvalRefresh(r) PROVE BaseInv'
  <2>1. r \in Request
    BY DEF TypeOK
  <2>2. TypeOK'
    BY <1>13, <2>1 DEF EvalRefresh, TypeOK, WireInv, Request
  <2>3. WireInv'
    <3>1. ASSUME NEW q \in wire', q.kind = "refresh"
          PROVE  q \in wire /\ q \in Request /\ (r.kind = "refresh" => q.from # r.from)
      BY <1>13, <2>1, <3>1 DEF EvalRefresh, TypeOK, Request
    <3>2. ASSUME NEW q \in wire', q.kind = "refresh"
          PROVE  q.from \in Node /\ step'[q.from] = "refresh" /\ answer'[q.from] = "none"
      BY <1>13, <2>1, <3>1, <3>2 DEF EvalRefresh, TypeOK, WireInv
    <3>3. ASSUME NEW q \in wire', q.kind = "release"
          PROVE  q.from = Ghost \/ proc'[q.from] \in {"releasing", "stopped"}
      BY <1>13, <3>3 DEF EvalRefresh, WireInv
    <3>4. \A n \in Node : answer'[n] # "none" => step'[n] = "refresh"
      BY <1>13, <2>1 DEF EvalRefresh, TypeOK, WireInv
    <3>5. \A n \in Node : proc'[n] = "down" => step'[n] = "idle"
      BY <1>13 DEF EvalRefresh, WireInv
    <3> QED
      BY <3>2, <3>3, <3>4, <3>5 DEF WireInv
  <2> QED
    BY <2>2, <2>3
<1>14. ASSUME NEW r \in wire, EvalRelease(r) PROVE BaseInv'
  BY <1>14 DEF EvalRelease, TypeOK, WireInv, Request
<1>15. CASE Tick
  BY <1>15 DEF Tick, TypeOK, WireInv
<1>16. CASE UNCHANGED vars
  BY <1>16 DEF vars, TypeOK, WireInv
<1> QED
  BY <1>1, <1>2, <1>3, <1>4, <1>5, <1>6, <1>7, <1>8, <1>9, <1>10, <1>11,
     <1>12, <1>13, <1>14, <1>15, <1>16 DEF Next

(* Types of the election's state, under either host. *)
THEOREM TypeCorrect == Spec => []TypeOK
<1>1. BaseInv => TypeOK
  BY DEF BaseInv
<1> QED
  BY <1>1, BaseInvInit, BaseInvStep, PTL DEF Spec

(* No refresh and no release ever takes the key from a live node that did not
   ask for it: the scripts compare the owner before they write or delete. *)
THEOREM KeyNeverStolen == Spec => NeverStolen
<1>1. BaseInv /\ [Next]_vars =>
        [\A n \in Node :
            owner = n /\ owner' # n
              => left <= 1 \/ proc[n] # "looping" \/ proc'[n] = "down"]_vars
  <2> SUFFICES ASSUME BaseInv, Next, NEW n \in Node, owner = n, owner' # n
               PROVE  left <= 1 \/ proc[n] # "looping" \/ proc'[n] = "down"
    OBVIOUS
  <2> USE ConstantsAssumption DEF BaseInv
  <2>1. ASSUME NEW m \in Node, Gone(m) PROVE proc'[n] = "down"
    BY <2>1 DEF Gone, TypeOK
  <2>2. ASSUME NEW r \in wire, EvalRefresh(r) PROVE FALSE
    BY <2>2 DEF EvalRefresh
  <2>3. ASSUME NEW r \in wire, EvalRelease(r) PROVE proc[n] # "looping"
    BY <2>3 DEF EvalRelease, WireInv
  <2>4. CASE Tick
    BY <2>4 DEF Tick
  <2>5. ASSUME NEW m \in Node,
               StartProcess(m) \/ BeginTick(m) \/ SendRefresh(m) \/ TickEnds(m)
                 \/ TickThrows(m) \/ SchedulerFails(m) \/ BeginStop(m)
                 \/ SchedulerStopsHost(m) \/ Release(m) \/ Released(m)
                 \/ StopScheduler(m)
        PROVE  FALSE
    BY <2>5 DEF StartProcess, BeginTick, SendRefresh, TickEnds, TickThrows,
                SchedulerFails, BeginStop, SchedulerStopsHost, Stopping, Release,
                Released, StopScheduler
  <2> QED
    BY <2>1, <2>2, <2>3, <2>4, <2>5 DEF Next, Crash, Exit
<1> QED
  BY <1>1, BaseInvInit, BaseInvStep, PTL DEF Spec, NeverStolen
--------------------------------------------------------------------------------
(* At most one leader *)

(* The assumption on the durations: two ticks and the pause between them are
   shorter than the lease. *)
InTimeForLease == Interval + Slack + 2 * TickBound < Lease

(* Where a node is in its life and how long it has been there. *)
Life(n) ==
    /\ sched[n] = "on" /\ n \notin GenericHost => proc[n] = "looping"
    /\ flag[n] => proc[n] \notin {"down", "initial"}
    /\ proc[n] = "initial" => step[n] # "idle"
    /\ step[n] # "idle" => age[n] <= TickBound
    /\ step[n] = "idle" /\ proc[n] = "looping" => age[n] <= Interval + Slack

(* How much of the lease is left to a node that was told yes, and to one that
   thinks it leads: the script ran after the tick began. *)
Covered(n) ==
    /\ answer[n] = "yes" /\ proc[n] \in {"initial", "looping"}
         => owner = n /\ left + age[n] >= Lease
    /\ flag[n] /\ proc[n] = "looping" =>
         /\ owner = n
         /\ step[n] = "idle" => left + age[n] >= Lease - TickBound
         /\ step[n] # "idle"
              => left + age[n] >= Lease - TickBound - Interval - Slack

LeaseInv == \A n \in Node : Life(n) /\ Covered(n)

(* The steps of one node, its scheduler and its stop keep what is known of
   every node's share of the lease. *)
LEMMA LeaseInvStep ==
    ASSUME InTimeForLease
    PROVE  BaseInv /\ LeaseInv /\ [Next]_vars => LeaseInv'
<1> SUFFICES ASSUME TypeOK, WireInv, TypeOK', LeaseInv, [Next]_vars,
                    NEW m \in Node
             PROVE  Life(m)' /\ Covered(m)'
  BY BaseInvStep DEF BaseInv, LeaseInv
<1> USE ConstantsAssumption
<1>i. Life(m) /\ Covered(m)
  BY DEF LeaseInv
<1>g. ASSUME NEW n \in Node, Gone(n) PROVE Life(m)' /\ Covered(m)'
  BY <1>g, <1>i DEF Gone, Life, Covered, TypeOK
<1>1. ASSUME NEW n \in Node, StartProcess(n) PROVE Life(m)' /\ Covered(m)'
  BY <1>1, <1>i DEF StartProcess, Life, Covered, InTimeForLease, TypeOK, WireInv
<1>2. ASSUME NEW n \in Node, BeginTick(n) PROVE Life(m)' /\ Covered(m)'
  BY <1>2, <1>i DEF BeginTick, Life, Covered, InTimeForLease, TypeOK, WireInv
<1>3. ASSUME NEW n \in Node, SendRefresh(n) PROVE Life(m)' /\ Covered(m)'
  BY <1>3, <1>i DEF SendRefresh, Req, Life, Covered, InTimeForLease, TypeOK, WireInv
<1>4. ASSUME NEW n \in Node, TickEnds(n) PROVE Life(m)' /\ Covered(m)'
  <2>1. Life(m)'
    BY <1>4, <1>i DEF TickEnds, AgeAfterTick, Life, TypeOK, WireInv
  <2>2. Covered(m)'
    <3>1. CASE m # n
      BY <1>4, <1>i, <3>1 DEF TickEnds, AgeAfterTick, Covered, TypeOK
    <3>2. CASE m = n
      <4>1. answer'[n] = "none" /\ step'[n] = "idle" /\ owner' = owner /\ left' = left
        BY <1>4 DEF TickEnds, TypeOK
      <4>2. flag'[n] /\ proc'[n] = "looping" =>
              answer[n] = "yes" /\ proc[n] \in {"initial", "looping"} /\ age'[n] >= 0
        <5>1. flag'[n] => answer[n] = "yes"
          <6>1. flag \in [Node -> BOOLEAN] /\ flag' = [flag EXCEPT ![n] = (answer[n] = "yes")]
            BY <1>4 DEF TickEnds, TypeOK
          <6>2. n \in DOMAIN flag
            BY <6>1
          <6> QED
            BY <6>1, <6>2, Zenon
        <5>2. proc'[n] = "looping" => proc[n] \in {"initial", "looping"} /\ age'[n] >= 0
          BY <1>4 DEF TickEnds, AgeAfterTick, TypeOK
        <5> QED
          BY <5>1, <5>2
      <4>3. answer[n] = "yes" /\ proc[n] \in {"initial", "looping"} =>
              owner = n /\ left >= Lease - TickBound
        BY <1>4, <1>i, <3>2 DEF TickEnds, Life, Covered, TypeOK
      <4> QED
        BY <3>2, <4>1, <4>2, <4>3 DEF Covered, TypeOK
    <3> QED
      BY <3>1, <3>2
  <2> QED
    BY <2>1, <2>2
<1>5. ASSUME NEW n \in Node, TickThrows(n) PROVE Life(m)' /\ Covered(m)'
  BY <1>5, <1>i DEF TickThrows, AgeAfterTick, Abandon, Req, Life, Covered, InTimeForLease, TypeOK, WireInv
<1>6. ASSUME NEW n \in Node, SchedulerFails(n) PROVE Life(m)' /\ Covered(m)'
  BY <1>6, <1>i DEF SchedulerFails, Life, Covered, InTimeForLease, TypeOK, WireInv
<1>7. ASSUME NEW n \in Node, Release(n) PROVE Life(m)' /\ Covered(m)'
  BY <1>7, <1>i DEF Release, Req, Life, Covered, InTimeForLease, TypeOK, WireInv
<1>8. ASSUME NEW n \in Node, Released(n) PROVE Life(m)' /\ Covered(m)'
  BY <1>8, <1>i DEF Released, Life, Covered, InTimeForLease, TypeOK, WireInv
<1>9. ASSUME NEW n \in Node, StopScheduler(n) PROVE Life(m)' /\ Covered(m)'
  BY <1>9, <1>i DEF StopScheduler, Life, Covered, InTimeForLease, TypeOK, WireInv
<1>10. ASSUME NEW n \in Node, BeginStop(n) \/ SchedulerStopsHost(n)
       PROVE  Life(m)' /\ Covered(m)'
  BY <1>10, <1>i DEF BeginStop, SchedulerStopsHost, Stopping, Life, Covered, TypeOK
<1>11. ASSUME NEW r \in wire, EvalRefresh(r) PROVE Life(m)' /\ Covered(m)'
  <2>1. r \in Request
    BY DEF TypeOK
  <2>2. Life(m)'
    BY <1>11, <1>i DEF EvalRefresh, Life
  <2>3. CASE r.from = m /\ r.kind = "refresh"
    BY <1>11, <1>i, <2>1, <2>3 DEF EvalRefresh, Covered, TypeOK, WireInv, Request, Life
  <2>4. CASE ~(r.from = m /\ r.kind = "refresh")
    <3>1. answer'[m] = answer[m]
      BY <1>11, <2>1, <2>4 DEF EvalRefresh, TypeOK, Request
    <3>2. owner = m => owner' = m /\ left' >= left
      BY <1>11, <2>1 DEF EvalRefresh, TypeOK
    <3> QED
      BY <1>11, <1>i, <2>2, <3>1, <3>2 DEF EvalRefresh, Covered, TypeOK
  <2> QED
    BY <2>2, <2>3, <2>4
<1>12. ASSUME NEW r \in wire, EvalRelease(r) PROVE Life(m)' /\ Covered(m)'
  <2>1. Life(m)'
    BY <1>12, <1>i DEF EvalRelease, Life
  <2>2. Covered(m)'
    BY <1>12, <1>i DEF EvalRelease, Covered, TypeOK, WireInv
  <2> QED
    BY <2>1, <2>2
<1>13. CASE Tick
  <2>1. InTime(m) /\ age'[m] = IF Timed(m) THEN age[m] + 1 ELSE age[m]
    BY <1>13 DEF Tick, TypeOK
  <2>2. Life(m)'
    BY <1>13, <1>i, <2>1 DEF Tick, InTime, Timed, Life, TypeOK
  <2>3. (answer[m] = "yes" /\ proc[m] \in {"initial", "looping"})
           \/ (flag[m] /\ proc[m] = "looping") => left > 1 /\ Timed(m)
    BY <1>i, <2>1 DEF InTime, Timed, Life, Covered, InTimeForLease, TypeOK, WireInv
  <2>4. Covered(m)'
    BY <1>13, <1>i, <2>1, <2>3 DEF Tick, Covered, TypeOK
  <2> QED
    BY <2>2, <2>4
<1>14. CASE UNCHANGED vars
  BY <1>14, <1>i DEF vars, Life, Covered
<1> QED
  BY <1>g, <1>1, <1>2, <1>3, <1>4, <1>5, <1>6, <1>7, <1>8, <1>9, <1>10, <1>11,
     <1>12, <1>13, <1>14 DEF Next, Crash, Exit

(* With ticks in time, whoever fires crons holds the key at that moment, unless
   the generic host is stopping it. *)
THEOREM LeaderHoldsKey ==
    ASSUME InTimeForLease
    PROVE  Spec => []LeaderOwnsKey
<1>1. BaseInv /\ LeaseInv => LeaderOwnsKey
  BY DEF LeaseInv, Life, Covered, LeaderOwnsKey, Leads, Leaving, BaseInv, TypeOK, ProcState
<1>2. Init => BaseInv /\ LeaseInv
  BY BaseInvInit DEF Init, LeaseInv, Life, Covered
<1>3. BaseInv /\ LeaseInv /\ [Next]_vars => (BaseInv /\ LeaseInv)'
  BY BaseInvStep, LeaseInvStep
<1> QED
  BY <1>1, <1>2, <1>3, PTL DEF Spec

(* Hence at most one instance drives the scheduler, for any number of nodes. *)
THEOREM OneLeader ==
    ASSUME InTimeForLease
    PROVE  Spec => []AtMostOneLeader
<1>1. LeaderOwnsKey => AtMostOneLeader
  BY DEF LeaderOwnsKey, AtMostOneLeader
<1> QED
  BY <1>1, LeaderHoldsKey, PTL

--------------------------------------------------------------------------------
(* The lead as a permit *)

(* The nodes that fire crons, those that the generic host is stopping aside. *)
Driving == {n \in Node : Leads(n) /\ ~Leaving(n)}

(* The lead of the cluster as a limit: one pool, one permit. *)
Lead == INSTANCE Permits WITH Pool <- {"lead"}, Holder <- Node, Capacity <- 1,
                              holders <- [p \in {"lead"} |-> Driving]

(* A step changes what one node does at most. *)
LEMMA OneAtATime ==
    ASSUME TypeOK, [Next]_vars
    PROVE  \/ Driving' = Driving
           \/ \E n \in Node : \A m \in Node \ {n} : m \in Driving' <=> m \in Driving
<1>g. ASSUME NEW n \in Node,
             \A m \in Node \ {n} : sched'[m] = sched[m] /\ flag'[m] = flag[m] /\ proc'[m] = proc[m]
      PROVE  \A m \in Node \ {n} : m \in Driving' <=> m \in Driving
  BY <1>g DEF Driving, Leads, Leaving
<1>s. ASSUME UNCHANGED <<sched, flag, proc>> PROVE Driving' = Driving
  BY <1>s DEF Driving, Leads, Leaving
<1>1. ASSUME NEW n \in Node, StartProcess(n) \/ TickEnds(n) \/ TickThrows(n) \/ SchedulerFails(n)
      PROVE  \A m \in Node \ {n} : sched'[m] = sched[m] /\ flag'[m] = flag[m] /\ proc'[m] = proc[m]
  BY <1>1 DEF StartProcess, TickEnds, TickThrows, SchedulerFails, TypeOK
<1>2. ASSUME NEW n \in Node, Crash(n) \/ Exit(n)
      PROVE  \A m \in Node \ {n} : sched'[m] = sched[m] /\ flag'[m] = flag[m] /\ proc'[m] = proc[m]
  BY <1>2 DEF Crash, Exit, Gone, TypeOK
<1>3. ASSUME NEW n \in Node,
             BeginStop(n) \/ SchedulerStopsHost(n) \/ Release(n) \/ Released(n) \/ StopScheduler(n)
      PROVE  \A m \in Node \ {n} : sched'[m] = sched[m] /\ flag'[m] = flag[m] /\ proc'[m] = proc[m]
  BY <1>3 DEF BeginStop, SchedulerStopsHost, Stopping, Release, Released, StopScheduler, TypeOK
<1>4. ASSUME NEW n \in Node, BeginTick(n) \/ SendRefresh(n)
      PROVE  UNCHANGED <<sched, flag, proc>>
  BY <1>4 DEF BeginTick, SendRefresh
<1>5. ASSUME NEW r \in wire, EvalRefresh(r) \/ EvalRelease(r)
      PROVE  UNCHANGED <<sched, flag, proc>>
  BY <1>5 DEF EvalRefresh, EvalRelease
<1>6. CASE Tick \/ UNCHANGED vars
  BY <1>6, <1>s DEF Tick, vars
<1> QED
  BY <1>g, <1>s, <1>1, <1>2, <1>3, <1>4, <1>5, <1>6 DEF Next

(* With ticks in time the lead is a permit: nobody starts to fire crons while
   another node does, and it passes on only after it was given back. *)
THEOREM LeadIsAPermit ==
    ASSUME InTimeForLease
    PROVE  Spec => Lead!Spec
<1>1. Init => Lead!Init
  BY DEF Init, Lead!Init, Driving, Leads
<1>2. TypeOK /\ LeaderOwnsKey' /\ [Next]_vars
        => [Lead!Next]_([p \in {"lead"} |-> Driving])
  <2> SUFFICES ASSUME TypeOK, LeaderOwnsKey', [Next]_vars, Driving' # Driving
               PROVE  Lead!Next
    OBVIOUS
  <2>1. PICK n \in Node : \A m \in Node \ {n} : m \in Driving' <=> m \in Driving
    BY OneAtATime
  <2>0. Driving \subseteq Node /\ Driving' \subseteq Node
    BY DEF Driving
  <2>2. CASE n \in Driving'
    <3>1. n \notin Driving
      BY <2>0, <2>1, <2>2
    <3>2. Driving' = {n} /\ Driving = {}
      <4>1. \A m \in Driving' : owner' = m
        BY DEF LeaderOwnsKey, Driving
      <4> QED
        BY <2>0, <2>1, <2>2, <3>1, <4>1
    <3>3. Lead!Grant("lead", n)
      <4>1. Lead!Cardinality({}) < 1
        BY FS_EmptySet DEF Lead!Cardinality, Cardinality
      <4>2. [p \in {"lead"} |-> Driving'] =
              [[p \in {"lead"} |-> Driving] EXCEPT !["lead"] = Driving \cup {n}]
        BY <3>2
      <4> QED
        BY <3>1, <3>2, <4>1, <4>2 DEF Lead!Grant
    <3> QED
      BY <3>3 DEF Lead!Next
  <2>3. CASE n \notin Driving'
    <3>1. Driving' = Driving \ {n}
      BY <2>0, <2>1, <2>3
    <3>2. Lead!Return("lead", {n})
      BY <3>1 DEF Lead!Return
    <3> QED
      BY <3>2 DEF Lead!Next
  <2> QED
    BY <2>2, <2>3
<1> QED
  BY <1>1, <1>2, TypeCorrect, LeaderHoldsKey, PTL DEF Spec, Lead!Spec

--------------------------------------------------------------------------------
(* What the dashboard knows of the same nodes (NodeStatus). *)

CONSTANTS Job, MaxOpen

VARIABLES lead, loop, current, stopped, revoked, phase, says, todo, orig,
          absent, rows, defs, misses

NS == INSTANCE NodeStatus WITH faults <- misses

(* A handler has read a row as it was, and rows only gain: what it read as
   there is there, with the runtime it had. *)
ReadBefore ==
    \A c \in NS!Call : /\ orig[c].there => rows[c[1]].there
                       /\ orig[c].runtime => rows[c[1]].runtime

(* A handshake has found every job it has asked for, or is going to add it. *)
JobsFound ==
    \A c \in NS!Call : phase[c] = "querying" /\ c[2] = "handshake" =>
                        Job \ todo[c] \subseteq defs \cup absent[c]

(* StartAsync starts both loops of a process. *)
StartedTogether ==
    \A n \in Node : loop[n]["handshake"] = "off" => loop[n]["heartbeat"] = "off"

NodeInv == /\ NS!TypeOK /\ ReadBefore /\ JobsFound /\ StartedTogether
           /\ NS!ConnectedMeansRegistered

LEMMA CallFacts ==
    /\ NS!NoCall \notin NS!Call
    /\ \A c \in NS!Call : c[1] \in Node /\ c[2] \in NS!Loop
BY DEF NS!Call, NS!NoCall, NS!Loop

LEMMA RowFacts ==
    /\ NS!NoRow \notin NS!Row
    /\ \A r \in NS!Row \cup {NS!NoRow} : r.runtime => r.there
    /\ \A r \in NS!Row \cup {NS!NoRow} : ~r.there => r = NS!NoRow
    /\ \A r \in NS!Row \cup {NS!NoRow} : r.runtime \in BOOLEAN /\ r.leader \in BOOLEAN
    /\ \A l, r \in BOOLEAN : /\ [there |-> TRUE, leader |-> l, runtime |-> r] \in NS!Row
                             /\ [there |-> TRUE, leader |-> l, runtime |-> r].runtime = r
<1>1. NS!NoRow.there = FALSE /\ NS!NoRow.runtime = FALSE /\ NS!NoRow.leader = FALSE
  BY DEF NS!NoRow
<1>2. \A r \in NS!Row : r.there = TRUE
  BY DEF NS!Row
<1>3. \A r \in NS!Row : r.runtime \in BOOLEAN /\ r.leader \in BOOLEAN
  BY DEF NS!Row
<1>4. \A l, r \in BOOLEAN : /\ [there |-> TRUE, leader |-> l, runtime |-> r] \in NS!Row
                            /\ [there |-> TRUE, leader |-> l, runtime |-> r].runtime = r
  BY DEF NS!Row
<1> QED
  BY <1>1, <1>2, <1>3, <1>4

(* An entry of a table of functions is replaced. *)
LEMMA NestedExcept ==
    ASSUME NEW S, NEW T, NEW U, NEW f \in [S -> [T -> U]], NEW s \in S, NEW t \in T, NEW u \in U
    PROVE  /\ [f EXCEPT ![s][t] = u] \in [S -> [T -> U]]
           /\ \A x \in S, y \in T :
                 [f EXCEPT ![s][t] = u][x][y] = IF x = s /\ y = t THEN u ELSE f[x][y]
OBVIOUS

LEMMA NodeInit ==
    ASSUME NS!NodeStatusAssumption, NS!Init
    PROVE  NodeInv
<1>1. NS!TypeOK
  <2>1. \A n \in Node, k \in NS!Loop :
          loop[n][k] # "sending" /\ ~\E c \in NS!Call : current[n][k] = c
    BY CallFacts DEF NS!Init
  <2>2. /\ current \in [Node -> [NS!Loop -> NS!Call \cup {NS!NoCall}]]
        /\ misses \in 0 .. MaxFaults
    BY DEF NS!NodeStatusAssumption, NS!Init
  <2> QED
    BY <2>1, <2>2 DEF NS!Init, NS!TypeOK
<1>2. ReadBefore /\ JobsFound /\ StartedTogether /\ NS!ConnectedMeansRegistered
  <2>1. ReadBefore
    BY DEF NS!Init, ReadBefore, NS!NoRow
  <2>2. JobsFound
    BY DEF NS!Init, JobsFound
  <2>3. NS!ConnectedMeansRegistered
    BY DEF NS!Init, NS!ConnectedMeansRegistered, NS!Loop
  <2>4. StartedTogether
    BY DEF NS!Init, StartedTogether, NS!Loop
  <2> QED
    BY <2>1, <2>2, <2>3, <2>4
<1> QED
  BY <1>1, <1>2 DEF NodeInv

(* A loop that awaits a call awaits one of its own, which the dashboard has. *)
Awaits(n, k) ==
    /\ current[n][k] \in NS!Call /\ current[n][k][1] = n /\ current[n][k][2] = k
    /\ phase[current[n][k]] # "idle"

LEMMA Sending ==
    ASSUME NS!TypeOK, NEW n \in Node, NEW k \in NS!Loop
    PROVE  loop[n][k] = "sending" <=> Awaits(n, k)
BY DEF NS!TypeOK, Awaits

(* The call of a loop is over. *)
LEMMA ReturnTypes ==
    ASSUME NS!TypeOK, NEW n \in Node, NEW k \in NS!Loop, NEW ok \in BOOLEAN, NS!Return(n, k, ok)
    PROVE  /\ loop' \in [Node -> [NS!Loop -> {"off", "ready", "sending", "pausing",
                                          "connected", "ended"}]]
           /\ current' \in [Node -> [NS!Loop -> NS!Call \cup {NS!NoCall}]]
           /\ loop'[n][k] \in {"connected", "pausing"}
           /\ loop'[n][k] = "connected" => k = "handshake" /\ ok
           /\ current'[n][k] = NS!NoCall
           /\ \A m \in Node, j \in NS!Loop : m # n \/ j # k =>
                 loop'[m][j] = loop[m][j] /\ current'[m][j] = current[m][j]
<1> DEFINE L == {"off", "ready", "sending", "pausing", "connected", "ended"}
           x == IF k = "handshake" /\ ok THEN "connected" ELSE "pausing"
<1>1. x \in L /\ loop \in [Node -> [NS!Loop -> L]] /\ loop' = [loop EXCEPT ![n][k] = x]
  BY DEF NS!TypeOK, NS!Return
<1>2. /\ current \in [Node -> [NS!Loop -> NS!Call \cup {NS!NoCall}]] /\ NS!NoCall \in NS!Call \cup {NS!NoCall}
      /\ current' = [current EXCEPT ![n][k] = NS!NoCall]
  BY DEF NS!TypeOK, NS!Return
<1>3. x \in {"connected", "pausing"} /\ (x = "connected" => k = "handshake" /\ ok)
  OBVIOUS
<1> HIDE DEF x, L
<1>4. /\ loop' \in [Node -> [NS!Loop -> L]]
      /\ \A m \in Node, j \in NS!Loop :
            loop'[m][j] = IF m = n /\ j = k THEN x ELSE loop[m][j]
  BY <1>1, NestedExcept
<1>5. /\ current' \in [Node -> [NS!Loop -> NS!Call \cup {NS!NoCall}]]
      /\ \A m \in Node, j \in NS!Loop :
            current'[m][j] = IF m = n /\ j = k THEN NS!NoCall ELSE current[m][j]
  BY <1>2, NestedExcept
<1> QED
  BY <1>3, <1>4, <1>5 DEF L

(* The handler of a call is over. *)
LEMMA CloseTypes ==
    ASSUME NS!TypeOK, NEW c \in NS!Call, NS!Close(c)
    PROVE  /\ phase' \in [NS!Call -> {"idle", "sent", "handling", "querying"}]
           /\ says' \in [NS!Call -> BOOLEAN] /\ todo' \in [NS!Call -> SUBSET Job]
           /\ orig' \in [NS!Call -> NS!Row \cup {NS!NoRow}] /\ absent' \in [NS!Call -> SUBSET Job]
           /\ phase'[c] = "idle" /\ orig'[c] = NS!NoRow
           /\ \A d \in NS!Call \ {c} : /\ phase'[d] = phase[d] /\ todo'[d] = todo[d]
                                       /\ orig'[d] = orig[d] /\ absent'[d] = absent[d]
BY DEF NS!TypeOK, NS!Close

(* A handler has ended: nobody awaits its call any more, and the other loops
   await what they did. *)
LEMMA AnswerTypes ==
    ASSUME NS!TypeOK, NEW c \in NS!Call, NEW ok \in BOOLEAN,
           phase[c] # "idle", NS!Close(c), NS!Answer(c, ok)
    PROVE  /\ loop' \in [Node -> [NS!Loop -> {"off", "ready", "sending", "pausing",
                                          "connected", "ended"}]]
           /\ current' \in [Node -> [NS!Loop -> NS!Call \cup {NS!NoCall}]]
           /\ \A n \in Node, k \in NS!Loop : loop'[n][k] = "sending" <=> Awaits(n, k)'
           /\ \A n \in Node : loop'[n]["handshake"] = "connected" =>
                 \/ loop[n]["handshake"] = "connected"
                 \/ ok /\ c[1] = n /\ c[2] = "handshake"
           /\ \A n \in Node, k \in NS!Loop : loop'[n][k] = "off" <=> loop[n][k] = "off"
<1>c. c[1] \in Node /\ c[2] \in NS!Loop /\ NS!NoCall \notin NS!Call
  BY CallFacts
<1>p. phase'[c] = "idle" /\ \A d \in NS!Call \ {c} : phase'[d] = phase[d]
  BY CloseTypes
<1>1. CASE current[c[1]][c[2]] = c
  <2>1. NS!Return(c[1], c[2], ok)
    BY <1>1 DEF NS!Answer
  <2>2. ASSUME NEW n \in Node, NEW k \in NS!Loop
        PROVE  loop'[n][k] = "sending" <=> Awaits(n, k)'
    <3>1. CASE n = c[1] /\ k = c[2]
      BY <1>c, <2>1, <3>1, ReturnTypes DEF Awaits
    <3>2. CASE ~(n = c[1] /\ k = c[2])
      <4>1. loop'[n][k] = loop[n][k] /\ current'[n][k] = current[n][k]
        BY <1>c, <2>1, <3>2, ReturnTypes
      <4>2. Awaits(n, k) => current[n][k] # c
        BY <3>2 DEF Awaits
      <4> QED
        BY <1>p, <4>1, <4>2, Sending DEF Awaits
    <3> QED
      BY <3>1, <3>2
  <2>3. \A n \in Node : loop'[n]["handshake"] = "connected" =>
          loop[n]["handshake"] = "connected" \/ (ok /\ c[1] = n /\ c[2] = "handshake")
    BY <1>c, <2>1, ReturnTypes DEF NS!Loop
  <2>4. ASSUME NEW n \in Node, NEW k \in NS!Loop
        PROVE  loop'[n][k] = "off" <=> loop[n][k] = "off"
    <3>1. CASE n = c[1] /\ k = c[2]
      <4>1. loop[n][k] = "sending"
        BY <1>1, <3>1, Sending DEF Awaits
      <4> QED
        BY <1>c, <2>1, <3>1, <4>1, ReturnTypes
    <3>2. CASE ~(n = c[1] /\ k = c[2])
      BY <1>c, <2>1, <3>2, ReturnTypes
    <3> QED
      BY <3>1, <3>2
  <2> QED
    BY <1>c, <2>1, <2>2, <2>3, <2>4, ReturnTypes
<1>2. CASE current[c[1]][c[2]] # c
  <2>1. loop' = loop /\ current' = current
    BY <1>2 DEF NS!Answer
  <2>2. ASSUME NEW n \in Node, NEW k \in NS!Loop
        PROVE  loop'[n][k] = "sending" <=> Awaits(n, k)'
    <3>1. Awaits(n, k) => current[n][k] # c
      BY <1>2 DEF Awaits
    <3>2. Awaits(n, k)' <=> Awaits(n, k)
      BY <1>p, <2>1, <3>1 DEF Awaits
    <3> QED
      BY <2>1, <3>2, Sending
  <2> QED
    BY <2>1, <2>2 DEF NS!TypeOK
<1> QED
  BY <1>1, <1>2

(* Rows and job definitions only gain; what a handler has read was there. *)
LEMMA NodeKept ==
    ASSUME NodeInv, NS!TypeOK', StartedTogether', defs \subseteq defs',
           \A n \in Node : /\ rows[n].there => rows'[n].there
                           /\ rows[n].runtime => rows'[n].runtime,
           \A c \in NS!Call : orig'[c] \in {orig[c], NS!NoRow, rows[c[1]]},
           \A c \in NS!Call : phase'[c] = "querying" /\ c[2] = "handshake" =>
               \/ phase[c] = "querying" /\ todo'[c] = todo[c] /\ absent'[c] = absent[c]
               \/ Job \ todo'[c] \subseteq defs' \cup absent'[c],
           \A n \in Node : loop'[n]["handshake"] = "connected" =>
               loop[n]["handshake"] = "connected" \/ (rows'[n].runtime /\ Job \subseteq defs')
    PROVE  NodeInv'
<1>1. ReadBefore'
  <2> SUFFICES ASSUME NEW c \in NS!Call
               PROVE  /\ orig'[c].there => rows'[c[1]].there
                      /\ orig'[c].runtime => rows'[c[1]].runtime
    BY DEF ReadBefore
  <2>0. c[1] \in Node
    BY CallFacts
  <2>1. /\ rows[c[1]].there => rows'[c[1]].there
        /\ rows[c[1]].runtime => rows'[c[1]].runtime
    BY <2>0, Zenon
  <2>2. CASE orig'[c] = orig[c]
    <3>1. (orig[c].there => rows[c[1]].there) /\ (orig[c].runtime => rows[c[1]].runtime)
      BY Zenon DEF NodeInv, ReadBefore
    <3> QED
      BY <2>1, <2>2, <3>1, Zenon
  <2>3. CASE orig'[c] = NS!NoRow
    BY <2>3 DEF NS!NoRow
  <2>4. CASE orig'[c] = rows[c[1]]
    BY <2>1, <2>4, Zenon
  <2> QED
    BY <2>2, <2>3, <2>4
<1>2. JobsFound'
  BY DEF NodeInv, JobsFound
<1>3. NS!ConnectedMeansRegistered'
  BY DEF NodeInv, NS!ConnectedMeansRegistered
<1> QED
  BY <1>1, <1>2, <1>3 DEF NodeInv

(* The row that a call leaves. *)
LEMMA WrittenFacts ==
    ASSUME NodeInv, NEW c \in NS!Call, ~NS!Conflict(c)
    PROVE  /\ NS!Written(c) \in NS!Row
           /\ rows[c[1]].runtime => NS!Written(c).runtime
           /\ c[2] = "handshake" => NS!Written(c).runtime
<1> DEFINE runtime == c[2] = "handshake" \/ orig[c].runtime
           old     == rows[c[1]]
<1>1. /\ c[1] \in Node /\ old \in NS!Row \cup {NS!NoRow} /\ orig[c] \in NS!Row \cup {NS!NoRow}
      /\ says[c] \in BOOLEAN
  BY CallFacts DEF NodeInv, NS!TypeOK
<1>2. orig[c].runtime \in BOOLEAN
  BY <1>1, RowFacts, Zenon
<1>3. (orig[c].there => old.there) /\ (orig[c].runtime => old.runtime)
  BY DEF NodeInv, ReadBefore
<1>4. CASE ~orig[c].there
  <2>1. ~old.there
    BY <1>4 DEF NS!Conflict
  <2>2. ~old.runtime
    BY <1>1, <2>1, RowFacts
  <2>3. NS!Written(c) = [there |-> TRUE, leader |-> says[c], runtime |-> runtime]
    BY <1>4 DEF NS!Written
  <2>4. runtime \in BOOLEAN
    BY <1>2
  <2>5. NS!Written(c) \in NS!Row /\ NS!Written(c).runtime = runtime
    BY <1>1, <2>3, <2>4, RowFacts, Zenon
  <2> QED
    BY <2>2, <2>5, Zenon
<1>5. CASE orig[c].there
  <2>1. old \in NS!Row
    BY <1>1, <1>3, <1>5 DEF NS!NoRow
  <2> DEFINE l == IF says[c] = orig[c].leader THEN old.leader ELSE says[c]
             r == IF runtime = orig[c].runtime THEN old.runtime ELSE runtime
  <2>2. NS!Written(c) = [old EXCEPT !.leader = l, !.runtime = r]
    BY <1>5 DEF NS!Written
  <2>3. l \in BOOLEAN /\ r \in BOOLEAN /\ old.there = TRUE
    BY <1>1, <1>2, <2>1 DEF NS!Row
  <2>4. (old.runtime => r) /\ (c[2] = "handshake" => r)
    BY <1>2, <1>3
  <2> HIDE DEF l, r
  <2>5. NS!Written(c) = [there |-> TRUE, leader |-> l, runtime |-> r]
    BY <2>1, <2>2, <2>3 DEF NS!Row
  <2> QED
    BY <2>3, <2>4, <2>5 DEF NS!Row
<1> QED
  BY <1>4, <1>5

LEMMA NodeSave ==
    ASSUME NodeInv, NEW c \in NS!Call, NS!SaveChanges(c)
    PROVE  NodeInv'
<1>c. c[1] \in Node /\ c[2] \in NS!Loop
  BY CallFacts
<1>t. NS!TypeOK /\ phase[c] # "idle" /\ NS!Close(c) /\ NS!Answer(c, TRUE) /\ ~NS!Conflict(c)
  BY DEF NS!SaveChanges, NodeInv
<1>1. /\ rows \in [Node -> NS!Row \cup {NS!NoRow}] /\ rows' = [rows EXCEPT ![c[1]] = NS!Written(c)]
      /\ defs' = defs \cup absent[c] /\ absent[c] \subseteq Job /\ defs \subseteq Job
  BY <1>t DEF NS!SaveChanges, NS!TypeOK
<1>2. rows' \in [Node -> NS!Row \cup {NS!NoRow}] /\ defs' \subseteq Job
  BY <1>1, <1>t, WrittenFacts
<1>3. \A n \in Node : rows'[n] = IF n = c[1] THEN NS!Written(c) ELSE rows[n]
  BY <1>1
<1>4. /\ \A n \in Node : /\ rows[n].there => rows'[n].there
                         /\ rows[n].runtime => rows'[n].runtime
      /\ c[2] = "handshake" => rows'[c[1]].runtime
  <2>1. NS!Written(c).there = TRUE
    BY <1>t, WrittenFacts DEF NS!Row
  <2> QED
    BY <1>3, <1>c, <1>t, <2>1, WrittenFacts
<1>5. NS!TypeOK'
  <2>1. UNCHANGED <<lead, stopped, revoked, misses>>
    BY DEF NS!SaveChanges
  <2>2. \A n \in Node, k \in NS!Loop : loop'[n][k] = "sending" <=> Awaits(n, k)'
    BY <1>t, AnswerTypes
  <2>3. \A n \in Node, k \in NS!Loop :
          loop'[n][k] = "sending" <=> \E d \in NS!Call : /\ current'[n][k] = d
                                                         /\ d[1] = n /\ d[2] = k
                                                         /\ phase'[d] # "idle"
    BY <2>2 DEF Awaits
  <2> QED
    BY <1>t, <1>2, <2>1, <2>3, CloseTypes, AnswerTypes, Zenon DEF NS!TypeOK
<1>6. c[2] = "handshake" => Job \subseteq defs'
  BY <1>1 DEF NS!SaveChanges, NodeInv, JobsFound
<1>7. \A d \in NS!Call : /\ orig'[d] \in {orig[d], NS!NoRow}
                         /\ phase'[d] = "querying" =>
                              phase[d] = "querying" /\ todo'[d] = todo[d] /\ absent'[d] = absent[d]
  BY <1>t, CloseTypes
<1>8. \A n \in Node : loop'[n]["handshake"] = "connected" =>
        loop[n]["handshake"] = "connected" \/ (rows'[n].runtime /\ Job \subseteq defs')
  BY <1>t, <1>4, <1>6, AnswerTypes
<1>9. StartedTogether'
  BY <1>t, AnswerTypes DEF NodeInv, StartedTogether, NS!Loop
<1> QED
  BY <1>1, <1>4, <1>5, <1>7, <1>8, <1>9, NodeKept

(* A step that writes neither rows nor job definitions. *)
LEMMA NodeStep ==
    ASSUME NodeInv, NS!TypeOK', StartedTogether', UNCHANGED <<rows, defs>>,
           \A n \in Node : loop'[n]["handshake"] = "connected" =>
               loop[n]["handshake"] = "connected",
           \A c \in NS!Call : orig'[c] \in {orig[c], NS!NoRow, rows[c[1]]},
           \A c \in NS!Call : phase'[c] = "querying" /\ c[2] = "handshake" =>
               \/ phase[c] = "querying" /\ todo'[c] = todo[c] /\ absent'[c] = absent[c]
               \/ Job \ todo'[c] \subseteq defs \cup absent'[c]
    PROVE  NodeInv'
<1>1. \A n \in Node : /\ rows[n].there => rows'[n].there
                      /\ rows[n].runtime => rows'[n].runtime
  BY Zenon
<1>2. \A n \in Node : loop'[n]["handshake"] = "connected" =>
        loop[n]["handshake"] = "connected" \/ (rows'[n].runtime /\ Job \subseteq defs')
  OBVIOUS
<1>3. \A c \in NS!Call : phase'[c] = "querying" /\ c[2] = "handshake" =>
        \/ phase[c] = "querying" /\ todo'[c] = todo[c] /\ absent'[c] = absent[c]
        \/ Job \ todo'[c] \subseteq defs' \cup absent'[c]
  OBVIOUS
<1> QED
  BY <1>1, <1>2, <1>3, NodeKept

(* A request that is refused leaves the rows as they are, and does not tell the
   client that it is connected. *)
LEMMA NodeRefused ==
    ASSUME NodeInv, NEW c \in NS!Call, phase[c] # "idle", NS!Close(c), NS!Answer(c, FALSE),
           UNCHANGED <<lead, stopped, revoked, rows, defs>>, misses' \in 0 .. MaxFaults
    PROVE  NodeInv'
<1>t. NS!TypeOK
  BY DEF NodeInv
<1>1. NS!TypeOK'
  <2>1. \A n \in Node, k \in NS!Loop :
          loop'[n][k] = "sending" <=> \E d \in NS!Call : /\ current'[n][k] = d
                                                         /\ d[1] = n /\ d[2] = k
                                                         /\ phase'[d] # "idle"
    <3>1. \A n \in Node, k \in NS!Loop : loop'[n][k] = "sending" <=> Awaits(n, k)'
      BY <1>t, AnswerTypes
    <3> QED
      BY <3>1 DEF Awaits
  <2> QED
    BY <1>t, <2>1, CloseTypes, AnswerTypes, Zenon DEF NS!TypeOK
<1>2. StartedTogether'
  BY <1>t, AnswerTypes DEF NodeInv, StartedTogether, NS!Loop
<1>3. \A d \in NS!Call : /\ orig'[d] \in {orig[d], NS!NoRow}
                         /\ phase'[d] = "querying" =>
                              phase[d] = "querying" /\ todo'[d] = todo[d] /\ absent'[d] = absent[d]
  BY <1>t, CloseTypes
<1>4. \A n \in Node : loop'[n]["handshake"] = "connected" =>
        loop[n]["handshake"] = "connected"
  BY <1>t, AnswerTypes
<1> QED
  BY <1>1, <1>2, <1>3, <1>4, NodeStep

(* The handler goes on: its call is still open, and the loops await what they did. *)
LEMMA NodeHandles ==
    ASSUME NodeInv, NEW c \in NS!Call,
           NS!Authenticate(c) \/ NS!QueryNode(c) \/ \E j \in Job : NS!QueryJob(c, j)
    PROVE  NodeInv'
<1>t. NS!TypeOK /\ JobsFound
  BY DEF NodeInv
<1>c. c[1] \in Node /\ c[2] \in NS!Loop
  BY CallFacts
<1>0. ASSUME UNCHANGED NS!client, UNCHANGED <<revoked, says, rows, defs, misses>>,
             phase' \in [NS!Call -> {"idle", "sent", "handling", "querying"}],
             todo' \in [NS!Call -> SUBSET Job], absent' \in [NS!Call -> SUBSET Job],
             orig' \in [NS!Call -> NS!Row \cup {NS!NoRow}],
             \A d \in NS!Call : phase'[d] = "idle" <=> phase[d] = "idle"
      PROVE  NS!TypeOK' /\ StartedTogether'
  <2>1. \A n \in Node, k \in NS!Loop :
          loop'[n][k] = "sending" <=> \E d \in NS!Call : /\ current'[n][k] = d
                                                         /\ d[1] = n /\ d[2] = k
                                                         /\ phase'[d] # "idle"
    BY <1>0, <1>t, Sending DEF Awaits, NS!client
  <2>2. NS!TypeOK'
    BY <1>0, <1>t, <2>1, Zenon DEF NS!TypeOK, NS!client
  <2> QED
    BY <1>0, <2>2 DEF NodeInv, StartedTogether, NS!client
<1>4. ASSUME UNCHANGED NS!client
      PROVE  \A n \in Node : loop'[n]["handshake"] = "connected" =>
                   loop[n]["handshake"] = "connected"
  BY <1>4 DEF NS!client
<1>1. CASE NS!Authenticate(c)
  <2>0. /\ phase' = [phase EXCEPT ![c] = "handling"] /\ phase[c] = "sent"
        /\ UNCHANGED <<todo, orig, absent>> /\ UNCHANGED NS!client
        /\ UNCHANGED <<revoked, says, rows, defs, misses>>
    BY <1>1 DEF NS!Authenticate
  <2>1. NS!TypeOK' /\ StartedTogether'
    <3>1. /\ phase' \in [NS!Call -> {"idle", "sent", "handling", "querying"}]
          /\ \A d \in NS!Call : phase'[d] = "idle" <=> phase[d] = "idle"
      BY <2>0, <1>t DEF NS!TypeOK
    <3>2. /\ todo' \in [NS!Call -> SUBSET Job] /\ absent' \in [NS!Call -> SUBSET Job]
          /\ orig' \in [NS!Call -> NS!Row \cup {NS!NoRow}]
      BY <2>0, <1>t DEF NS!TypeOK
    <3> QED
      BY <1>0, <2>0, <3>1, <3>2
  <2>2. \A d \in NS!Call : /\ orig'[d] = orig[d]
                           /\ phase'[d] = "querying" =>
                              phase[d] = "querying" /\ todo'[d] = todo[d] /\ absent'[d] = absent[d]
    <3>1. \A d \in NS!Call : phase'[d] = "querying" => phase[d] = "querying"
      BY <2>0, <1>t DEF NS!TypeOK
    <3> QED
      BY <2>0, <3>1
  <2> QED
    BY <2>0, <1>4, <2>1, <2>2, NodeStep
<1>2. CASE NS!QueryNode(c)
  <2>0. /\ phase' = [phase EXCEPT ![c] = "querying"] /\ phase[c] = "handling"
        /\ todo' = [todo EXCEPT ![c] = IF c[2] = "handshake" THEN Job ELSE {}]
        /\ orig'  = [orig EXCEPT ![c] = rows[c[1]]] /\ rows[c[1]] \in NS!Row \cup {NS!NoRow}
        /\ absent' = absent
    BY <1>2, <1>t, <1>c DEF NS!QueryNode, NS!TypeOK
  <2>u. UNCHANGED NS!client /\ UNCHANGED <<revoked, says, rows, defs, misses>>
    BY <1>2 DEF NS!QueryNode
  <2>1. NS!TypeOK' /\ StartedTogether'
    <3>1. /\ phase' \in [NS!Call -> {"idle", "sent", "handling", "querying"}]
          /\ \A d \in NS!Call : phase'[d] = "idle" <=> phase[d] = "idle"
      BY <2>0, <1>t DEF NS!TypeOK
    <3>2. todo' \in [NS!Call -> SUBSET Job]
      BY <2>0, <1>t DEF NS!TypeOK
    <3>3. orig' \in [NS!Call -> NS!Row \cup {NS!NoRow}]
      BY <2>0, <1>t DEF NS!TypeOK
    <3>4. absent' \in [NS!Call -> SUBSET Job]
      BY <2>0, <1>t DEF NS!TypeOK
    <3> QED
      BY <1>0, <2>u, <3>1, <3>2, <3>3, <3>4
  <2>2. \A d \in NS!Call : orig'[d] \in {orig[d], NS!NoRow, rows[d[1]]}
    BY <2>0, <1>t DEF NS!TypeOK
  <2>3. \A d \in NS!Call : phase'[d] = "querying" /\ d[2] = "handshake" =>
           \/ phase[d] = "querying" /\ todo'[d] = todo[d] /\ absent'[d] = absent[d]
           \/ Job \ todo'[d] \subseteq defs \cup absent'[d]
    BY <2>0, <1>t DEF NS!TypeOK
  <2> QED
    BY <2>u, <1>4, <2>1, <2>2, <2>3, NodeStep
<1>3. ASSUME NEW j \in Job, NS!QueryJob(c, j)
      PROVE  NodeInv'
  <2>0. /\ todo' = [todo EXCEPT ![c] = @ \ {j}]
        /\ absent' = [absent EXCEPT ![c] = IF j \in defs THEN @ ELSE @ \cup {j}]
        /\ phase' = phase /\ orig' = orig
    BY <1>3 DEF NS!QueryJob
  <2>u. UNCHANGED NS!client /\ UNCHANGED <<revoked, says, rows, defs, misses>>
    BY <1>3 DEF NS!QueryJob
  <2>1. NS!TypeOK' /\ StartedTogether'
    <3>1. todo' \in [NS!Call -> SUBSET Job]
      BY <2>0, <1>t DEF NS!TypeOK
    <3>2. absent' \in [NS!Call -> SUBSET Job]
      BY <2>0, <1>t DEF NS!TypeOK
    <3>3. /\ phase' \in [NS!Call -> {"idle", "sent", "handling", "querying"}]
          /\ orig' \in [NS!Call -> NS!Row \cup {NS!NoRow}]
      BY <2>0, <1>t DEF NS!TypeOK
    <3> QED
      BY <1>0, <2>u, <2>0, <3>1, <3>2, <3>3
  <2>3. \A d \in NS!Call : phase'[d] = "querying" /\ d[2] = "handshake" =>
           \/ phase[d] = "querying" /\ todo'[d] = todo[d] /\ absent'[d] = absent[d]
           \/ Job \ todo'[d] \subseteq defs \cup absent'[d]
    <3> SUFFICES ASSUME NEW d \in NS!Call, phase[d] = "querying", d[2] = "handshake"
                 PROVE  \/ todo'[d] = todo[d] /\ absent'[d] = absent[d]
                        \/ Job \ todo'[d] \subseteq defs \cup absent'[d]
      BY <2>0
    <3>1. CASE d # c
      BY <2>0, <3>1, <1>t DEF NS!TypeOK
    <3>2. CASE d = c
      <4>1. Job \ todo[c] \subseteq defs \cup absent[c]
        BY <3>2, <1>t DEF JobsFound
      <4>2. todo'[c] = todo[c] \ {j} /\ absent'[c] = IF j \in defs THEN absent[c]
                                                                  ELSE absent[c] \cup {j}
        BY <2>0, <1>t DEF NS!TypeOK
      <4> QED
        BY <3>2, <4>1, <4>2
    <3> QED
      BY <3>1, <3>2
  <2> QED
    BY <2>u, <1>4, <2>0, <2>1, <2>3, NodeStep
<1> QED
  BY <1>1, <1>2, <1>3

(* The loop starts a call of its own that nobody else awaits. *)
LEMMA NodeSend ==
    ASSUME NodeInv, NEW n \in Node, NEW k \in NS!Loop, NEW c \in NS!Call, NS!Send(n, k, c)
    PROVE  NodeInv'
<1> DEFINE L == {"off", "ready", "sending", "pausing", "connected", "ended"}
<1>t. NS!TypeOK /\ StartedTogether
  BY DEF NodeInv
<1>0. /\ loop[n][k] = "ready" /\ c[1] = n /\ c[2] = k /\ phase[c] = "idle"
      /\ loop' = [loop EXCEPT ![n][k] = "sending"]
      /\ current' = [current EXCEPT ![n][k] = c]
      /\ phase' = [phase EXCEPT ![c] = "sent"]
      /\ says' = [says EXCEPT ![c] = k = "heartbeat" /\ lead[n]]
      /\ UNCHANGED <<lead, stopped, revoked, todo, orig, absent, rows, defs, misses>>
  BY DEF NS!Send
<1>1. /\ loop \in [Node -> [NS!Loop -> L]] /\ "sending" \in L
      /\ current \in [Node -> [NS!Loop -> NS!Call \cup {NS!NoCall}]] /\ c \in NS!Call \cup {NS!NoCall}
      /\ phase \in [NS!Call -> {"idle", "sent", "handling", "querying"}]
  BY <1>t DEF NS!TypeOK
<1> HIDE DEF L
<1>2. /\ loop' \in [Node -> [NS!Loop -> L]]
      /\ \A m \in Node, j \in NS!Loop :
            loop'[m][j] = IF m = n /\ j = k THEN "sending" ELSE loop[m][j]
  BY <1>0, <1>1, NestedExcept
<1>3. /\ current' \in [Node -> [NS!Loop -> NS!Call \cup {NS!NoCall}]]
      /\ \A m \in Node, j \in NS!Loop :
            current'[m][j] = IF m = n /\ j = k THEN c ELSE current[m][j]
  BY <1>0, <1>1, NestedExcept
<1>4. /\ phase' \in [NS!Call -> {"idle", "sent", "handling", "querying"}]
      /\ phase'[c] = "sent" /\ \A d \in NS!Call \ {c} : phase'[d] = phase[d]
  BY <1>0, <1>1
<1>5. ASSUME NEW m \in Node, NEW j \in NS!Loop
      PROVE  loop'[m][j] = "sending" <=> Awaits(m, j)'
  <2>1. CASE m = n /\ j = k
    BY <1>0, <1>2, <1>3, <1>4, <2>1 DEF Awaits
  <2>2. CASE ~(m = n /\ j = k)
    <3>1. loop'[m][j] = loop[m][j] /\ current'[m][j] = current[m][j]
      BY <1>2, <1>3, <2>2
    <3>2. Awaits(m, j)' <=> Awaits(m, j)
      BY <1>0, <1>4, <2>2, <3>1 DEF Awaits
    <3> QED
      BY <1>t, <3>1, <3>2, Sending
  <2> QED
    BY <2>1, <2>2
<1>6. says' \in [NS!Call -> BOOLEAN]
  BY <1>0, <1>t DEF NS!TypeOK
<1>7. NS!TypeOK'
  <2>1. \A m \in Node, j \in NS!Loop :
          loop'[m][j] = "sending" <=> \E d \in NS!Call : /\ current'[m][j] = d
                                                         /\ d[1] = m /\ d[2] = j
                                                         /\ phase'[d] # "idle"
    BY <1>5 DEF Awaits
  <2> QED
    BY <1>0, <1>2, <1>3, <1>4, <1>6, <1>t, <2>1, Zenon DEF NS!TypeOK, L
<1>8. StartedTogether'
  BY <1>0, <1>2, <1>t DEF StartedTogether, NS!Loop
<1>9. \A m \in Node : loop'[m]["handshake"] = "connected" =>
        loop[m]["handshake"] = "connected"
  BY <1>2 DEF NS!Loop
<1>10. \A d \in NS!Call : phase'[d] = "querying" => phase[d] = "querying"
  BY <1>4
<1> QED
  BY <1>0, <1>7, <1>8, <1>9, <1>10, NodeStep

(* A loop leaves its call, or has none, and goes on to another state. *)
LEMMA NodeLeaves ==
    ASSUME NodeInv, NEW n \in Node, NEW k \in NS!Loop,
           NEW x \in {"ready", "pausing", "ended"},
           loop[n][k] \in {"ready", "sending", "pausing"},
           loop' = [loop EXCEPT ![n][k] = x],
           \/ current' = [current EXCEPT ![n][k] = NS!NoCall]
           \/ loop[n][k] # "sending" /\ current' = current,
           UNCHANGED <<lead, stopped, revoked, rows, defs>>, misses' \in 0 .. MaxFaults,
           \/ UNCHANGED NS!handlers
           \/ loop[n][k] = "sending" /\ NS!Close(current[n][k])
    PROVE  NodeInv'
<1> DEFINE L == {"off", "ready", "sending", "pausing", "connected", "ended"}
<1>t. NS!TypeOK /\ StartedTogether
  BY DEF NodeInv
<1>1. /\ loop \in [Node -> [NS!Loop -> L]] /\ x \in L
      /\ current \in [Node -> [NS!Loop -> NS!Call \cup {NS!NoCall}]] /\ NS!NoCall \in NS!Call \cup {NS!NoCall}
  BY <1>t DEF NS!TypeOK
<1> HIDE DEF L
<1>2. /\ loop' \in [Node -> [NS!Loop -> L]]
      /\ \A m \in Node, j \in NS!Loop :
            loop'[m][j] = IF m = n /\ j = k THEN x ELSE loop[m][j]
  BY <1>1, NestedExcept
<1>3. /\ current' \in [Node -> [NS!Loop -> NS!Call \cup {NS!NoCall}]]
      /\ \A m \in Node, j \in NS!Loop : ~(m = n /\ j = k) => current'[m][j] = current[m][j]
      /\ current'[n][k] = NS!NoCall \/ (loop[n][k] # "sending" /\ current'[n][k] = current[n][k])
  <2>1. CASE current' = [current EXCEPT ![n][k] = NS!NoCall]
    BY <1>1, <2>1, NestedExcept
  <2>2. CASE loop[n][k] # "sending" /\ current' = current
    BY <1>1, <2>2
  <2> QED
    BY <2>1, <2>2
<1>4. /\ phase' \in [NS!Call -> {"idle", "sent", "handling", "querying"}]
      /\ says' \in [NS!Call -> BOOLEAN] /\ todo' \in [NS!Call -> SUBSET Job]
      /\ orig' \in [NS!Call -> NS!Row \cup {NS!NoRow}] /\ absent' \in [NS!Call -> SUBSET Job]
      /\ \A d \in NS!Call : /\ orig'[d] \in {orig[d], NS!NoRow}
                            /\ phase'[d] = "querying" => /\ phase[d] = "querying"
                                                         /\ todo'[d] = todo[d]
                                                         /\ absent'[d] = absent[d]
      /\ \A d \in NS!Call : d[1] # n \/ d[2] # k => phase'[d] = phase[d]
      /\ loop[n][k] # "sending" => UNCHANGED phase
  <2>1. CASE UNCHANGED NS!handlers
    BY <1>t, <2>1 DEF NS!handlers, NS!TypeOK
  <2>2. CASE loop[n][k] = "sending" /\ NS!Close(current[n][k])
    <3>1. current[n][k] \in NS!Call /\ current[n][k][1] = n /\ current[n][k][2] = k
      BY <1>t, <2>2, Sending DEF Awaits
    <3> QED
      BY <1>t, <2>2, <3>1, CloseTypes
  <2> QED
    BY <2>1, <2>2
<1>5. ASSUME NEW m \in Node, NEW j \in NS!Loop
      PROVE  loop'[m][j] = "sending" <=> Awaits(m, j)'
  <2>1. CASE m = n /\ j = k
    <3>1. loop'[m][j] # "sending"
      BY <1>2, <2>1
    <3>2. ~Awaits(m, j)'
      <4>1. CASE current'[n][k] = NS!NoCall
        BY <2>1, <4>1, CallFacts DEF Awaits
      <4>2. CASE loop[n][k] # "sending" /\ current'[n][k] = current[n][k]
        <5>1. ~Awaits(n, k)
          BY <1>t, <4>2, Sending
        <5> QED
          BY <1>4, <2>1, <4>2, <5>1 DEF Awaits
      <4> QED
        BY <1>3, <4>1, <4>2
    <3> QED
      BY <3>1, <3>2
  <2>2. CASE ~(m = n /\ j = k)
    <3>1. loop'[m][j] = loop[m][j] /\ current'[m][j] = current[m][j]
      BY <1>2, <1>3, <2>2
    <3>2. Awaits(m, j)' <=> Awaits(m, j)
      BY <1>4, <2>2, <3>1 DEF Awaits
    <3> QED
      BY <1>t, <3>1, <3>2, Sending
  <2> QED
    BY <2>1, <2>2
<1>7. NS!TypeOK'
  <2>1. \A m \in Node, j \in NS!Loop :
          loop'[m][j] = "sending" <=> \E d \in NS!Call : /\ current'[m][j] = d
                                                         /\ d[1] = m /\ d[2] = j
                                                         /\ phase'[d] # "idle"
    BY <1>5 DEF Awaits
  <2> QED
    BY <1>2, <1>3, <1>4, <1>t, <2>1, Zenon DEF NS!TypeOK, L
<1>8. StartedTogether'
  BY <1>2, <1>t DEF StartedTogether, NS!Loop
<1>9. \A m \in Node : loop'[m]["handshake"] = "connected" =>
        loop[m]["handshake"] = "connected"
  BY <1>2 DEF NS!Loop
<1> QED
  BY <1>4, <1>7, <1>8, <1>9, NodeStep

(* Both loops start; neither was sending. *)
LEMMA NodeStarts ==
    ASSUME NodeInv, NEW n \in Node, NS!StartAsync(n)
    PROVE  NodeInv'
<1> DEFINE L == {"off", "ready", "sending", "pausing", "connected", "ended"}
<1>t. NS!TypeOK /\ StartedTogether
  BY DEF NodeInv
<1>1. /\ loop \in [Node -> [NS!Loop -> L]] /\ [k \in NS!Loop |-> "ready"] \in [NS!Loop -> L]
      /\ loop' = [loop EXCEPT ![n] = [k \in NS!Loop |-> "ready"]]
  BY <1>t DEF NS!TypeOK, NS!StartAsync
<1> HIDE DEF L
<1>2. /\ loop' \in [Node -> [NS!Loop -> L]]
      /\ \A m \in Node, k \in NS!Loop : loop'[m][k] = IF m = n THEN "ready" ELSE loop[m][k]
  BY <1>1
<1>3. \A k \in NS!Loop : loop[n][k] # "sending"
  BY <1>t DEF NS!StartAsync, StartedTogether, NS!Loop
<1>4. ASSUME NEW m \in Node, NEW k \in NS!Loop
      PROVE  loop'[m][k] = "sending" <=> Awaits(m, k)'
  <2>1. Awaits(m, k)' <=> Awaits(m, k)
    BY DEF Awaits, NS!StartAsync, NS!handlers
  <2>2. loop'[m][k] = "sending" <=> loop[m][k] = "sending"
    BY <1>2, <1>3
  <2> QED
    BY <1>t, <2>1, <2>2, Sending
<1>5. NS!TypeOK'
  <2>1. \A m \in Node, k \in NS!Loop :
          loop'[m][k] = "sending" <=> \E d \in NS!Call : /\ current'[m][k] = d
                                                         /\ d[1] = m /\ d[2] = k
                                                         /\ phase'[d] # "idle"
    BY <1>4 DEF Awaits
  <2>2. UNCHANGED <<lead, current, stopped, revoked, NS!handlers, rows, defs, misses>>
    BY DEF NS!StartAsync
  <2> QED
    BY <1>2, <1>t, <2>1, <2>2, Zenon DEF NS!TypeOK, L, NS!handlers
<1>6. StartedTogether'
  BY <1>2, <1>t DEF StartedTogether, NS!Loop
<1>7. \A m \in Node : loop'[m]["handshake"] = "connected" =>
        loop[m]["handshake"] = "connected"
  BY <1>2 DEF NS!Loop
<1>8. UNCHANGED <<phase, todo, orig, absent, rows, defs>>
  BY DEF NS!StartAsync, NS!handlers
<1> QED
  BY <1>5, <1>6, <1>7, <1>8, NodeStep

(* The lead, the tokens and the key's RevokedAt are read, never counted on. *)
LEMMA NodeSame ==
    ASSUME NodeInv, UNCHANGED <<loop, current, NS!handlers, rows, defs, misses>>,
           lead' \in [Node -> BOOLEAN], stopped' \in [Node -> BOOLEAN], revoked' \in BOOLEAN
    PROVE  NodeInv'
<1>0. UNCHANGED <<phase, says, todo, orig, absent>> /\ NS!TypeOK
  BY DEF NS!handlers, NodeInv
<1>1. NS!TypeOK'
  <2>1. \A n \in Node, k \in NS!Loop :
          loop'[n][k] = "sending" <=> \E d \in NS!Call : /\ current'[n][k] = d
                                                         /\ d[1] = n /\ d[2] = k
                                                         /\ phase'[d] # "idle"
    BY <1>0 DEF NS!TypeOK
  <2> QED
    BY <1>0, <2>1 DEF NS!TypeOK
<1>2. StartedTogether'
  BY DEF NodeInv, StartedTogether
<1> QED
  BY <1>0, <1>1, <1>2, NodeStep

LEMMA NodeNext ==
    ASSUME NS!NodeStatusAssumption, NodeInv, [NS!Next]_NS!vars
    PROVE  NodeInv'
<1>t. NS!TypeOK
  BY DEF NodeInv
<1>1. ASSUME NEW n \in Node, NS!Elect(n) PROVE NodeInv'
  <2>1. lead' \in [Node -> BOOLEAN]
    BY <1>1, <1>t DEF NS!Elect, NS!TypeOK
  <2> QED
    BY <1>1, <1>t, <2>1, NodeSame DEF NS!Elect, NS!TypeOK
<1>2. ASSUME NEW n \in Node, NS!StartAsync(n) PROVE NodeInv'
  BY <1>2, NodeStarts
<1>3. ASSUME NEW n \in Node, NS!StopAsync(n) PROVE NodeInv'
  <2>1. stopped' \in [Node -> BOOLEAN]
    BY <1>3, <1>t DEF NS!StopAsync, NS!TypeOK
  <2> QED
    BY <1>3, <1>t, <2>1, NodeSame DEF NS!StopAsync, NS!TypeOK
<1>4. ASSUME NEW n \in Node, NEW k \in NS!Loop, NEW c \in NS!Call, NS!Send(n, k, c) PROVE NodeInv'
  BY <1>4, NodeSend
<1>5. ASSUME NEW n \in Node, NEW k \in NS!Loop, NS!DelayEnds(n, k) PROVE NodeInv'
  <2>1. /\ loop' = [loop EXCEPT ![n][k] = "ready"] /\ loop[n][k] = "pausing"
        /\ UNCHANGED <<lead, current, stopped, revoked, NS!handlers, rows, defs, misses>>
    BY <1>5 DEF NS!DelayEnds
  <2> QED
    BY <1>t, <2>1, NodeLeaves DEF NS!TypeOK
<1>6. ASSUME NEW n \in Node, NEW k \in NS!Loop, NS!LoopEnds(n, k) PROVE NodeInv'
  <2>1. /\ loop' = [loop EXCEPT ![n][k] = "ended"]
        /\ loop[n][k] \in {"ready", "sending", "pausing"}
        /\ current' = [current EXCEPT ![n][k] = NS!NoCall]
        /\ UNCHANGED <<lead, stopped, revoked, NS!handlers, rows, defs, misses>>
    BY <1>6 DEF NS!LoopEnds
  <2> QED
    BY <1>t, <2>1, NodeLeaves DEF NS!TypeOK
<1>7. ASSUME NEW n \in Node, NEW k \in NS!Loop, NS!CallFails(n, k) PROVE NodeInv'
  <2>1. /\ loop' = [loop EXCEPT ![n][k] = "pausing"] /\ loop[n][k] = "sending"
        /\ current' = [current EXCEPT ![n][k] = NS!NoCall]
        /\ UNCHANGED <<lead, stopped, revoked, rows, defs>>
        /\ UNCHANGED NS!handlers \/ NS!Close(current[n][k])
    BY <1>7 DEF NS!CallFails, NS!Return
  <2>2. misses' \in 0 .. MaxFaults
    BY <1>7, <1>t DEF NS!NodeStatusAssumption, NS!CallFails, NS!Fault, NS!TypeOK
  <2> QED
    BY <2>1, <2>2, NodeLeaves
<1>8. ASSUME NEW c \in NS!Call, NS!Handle(c) PROVE NodeInv'
  <2>1. CASE NS!RejectKey(c)
    <3>1. misses' \in 0 .. MaxFaults /\ phase[c] # "idle"
      BY <1>t, <2>1 DEF NS!RejectKey, NS!TypeOK
    <3> QED
      BY <2>1, <3>1, NodeRefused DEF NS!RejectKey
  <2>2. CASE NS!Authenticate(c) \/ NS!QueryNode(c) \/ \E j \in Job : NS!QueryJob(c, j)
    BY <2>2, NodeHandles
  <2>3. CASE NS!SaveChanges(c)
    BY <2>3, NodeSave
  <2>4. CASE NS!Throws(c)
    <3>1. misses' \in 0 .. MaxFaults /\ phase[c] # "idle"
      BY <1>t, <2>4 DEF NS!NodeStatusAssumption, NS!Throws, NS!Fault, NS!TypeOK
    <3> QED
      BY <2>4, <3>1, NodeRefused DEF NS!Throws
  <2> QED
    BY <1>8, <2>1, <2>2, <2>3, <2>4 DEF NS!Handle
<1>9. CASE NS!RevokeAsync
  BY <1>9, <1>t, NodeSame DEF NS!RevokeAsync, NS!client, NS!TypeOK
<1>10. CASE UNCHANGED NS!vars
  BY <1>10, <1>t, NodeSame DEF NS!vars, NS!handlers, NS!TypeOK
<1> QED
  BY <1>1, <1>2, <1>3, <1>4, <1>5, <1>6, <1>7, <1>8, <1>9, <1>10 DEF NS!Next, NS!Step

(* Every variable of NodeStatus keeps its type, and a loop of the reporter awaits
   a call of its own, which the dashboard has not ended, exactly while it sends. *)
THEOREM NodeTypeCorrect ==
    ASSUME NS!NodeStatusAssumption
    PROVE  NS!Spec => []NS!TypeOK
<1>1. NodeInv => NS!TypeOK
  BY DEF NodeInv
<1>2. NS!Init => NodeInv
  BY NodeInit
<1>3. NodeInv /\ [NS!Next]_NS!vars => NodeInv'
  BY NodeNext
<1> QED
  BY <1>1, <1>2, <1>3, PTL DEF NS!Spec

(* A process that RegisterAsync told that it is connected is in the dashboard,
   with its runtime and all its jobs: for any number of processes and jobs, and
   whichever of them insert the same rows at the same time. *)
THEOREM ConnectedIsRegistered ==
    ASSUME NS!NodeStatusAssumption
    PROVE  NS!Spec => []NS!ConnectedMeansRegistered
<1>1. NodeInv => NS!ConnectedMeansRegistered
  BY DEF NodeInv
<1>2. NS!Init => NodeInv
  BY NodeInit
<1>3. NodeInv /\ [NS!Next]_NS!vars => NodeInv'
  BY NodeNext
<1> QED
  BY <1>1, <1>2, <1>3, PTL DEF NS!Spec
==============================================================================
