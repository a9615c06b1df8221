----------------------------- MODULE LeaderLease -----------------------------
(***************************************************************************)
(* Leader election of DuckRun.Redis: one key in Redis with a time to live, *)
(* and on every node a maintenance loop that refreshes or tries to take it *)
(* and caches the outcome in _isLeader, which is all the scheduler ever    *)
(* looks at (RedisClusterCoordinator, RedisLuaScripts).                    *)
(*                                                                         *)
(* Also modelled, because they decide who drives the scheduler: the order  *)
(* in which the host starts and stops coordinator and scheduler (the .NET  *)
(* generic host for DuckRun.Core, DuckRunInstance for DuckRun.Framework),  *)
(* and a scheduler loop that ends in an exception.                         *)
(*                                                                         *)
(* A process start makes a new NodeId, so what a process that is gone left *)
(* in Redis or on the wire belongs to nobody: it is written Ghost.         *)
(* Time is relative (left, age): no clock, hence no bound on the run.      *)
(***************************************************************************)
EXTENDS Integers, FiniteSets

CONSTANTS
    Node,             \* the processes of one project and environment
    NoOne, Ghost,     \* no owner; a NodeId of a process that is gone
    Lease,            \* LeaderLeaseDuration
    Interval,         \* LeaderRefreshInterval
    TickBound,        \* longest time a maintenance tick takes
    Slack,            \* longest time a tick starts late
    GenericHost,      \* the processes on DuckRun.Core, whose generic host stops
                      \*   the coordinator before the scheduler and starts it
                      \*   after; the others, on DuckRun.Framework, do it the
                      \*   other way round
    SlotErrors,       \* processes where asking Redis for a job's slot may throw
    MaxFaults         \* bound on stops, crashes and exceptions, together

ASSUME ConstantsAssumption ==
    /\ NoOne \notin Node /\ Ghost \notin Node /\ NoOne # Ghost
    /\ Lease \in Nat \ {0}
    /\ Interval \in Nat /\ TickBound \in Nat /\ Slack \in Nat
    /\ GenericHost \subseteq Node /\ SlotErrors \subseteq Node
    /\ MaxFaults \in Nat

VARIABLES
    owner,   \* value of the leader key
    left,    \* seconds until the key expires
    wire,    \* scripts on their way to Redis
    proc,    \* proc[n]: life cycle of n's coordinator
    step,    \* step[n]: what n's maintenance tick awaits
    answer,  \* answer[n]: what AcquireOrRefreshLeader returned
    flag,    \* flag[n]: _isLeader
    sched,   \* sched[n]: n's scheduler loop
    age,     \* age[n]: time since n's tick began, or since it ended
    faults

vars == <<owner, left, wire, proc, step, answer, flag, sched, age, faults>>

(* "initial" is the tick inside StartAsync, "looping" the maintenance loop,
   "draining" and "releasing" the two waits of StopAsync. *)
ProcState == {"down", "initial", "looping", "draining", "releasing", "stopped"}
Step      == {"idle", "heartbeat", "refresh"}

(* A "stale" script is a refresh whose caller gave up on the answer. *)
Request == [from : Node \cup {Ghost}, kind : {"refresh", "stale", "release"}]
Req(n, k) == [from |-> n, kind |-> k]

(* n fires crons: its scheduler runs and IsLeaderAsync says yes. *)
Leads(n) == sched[n] = "on" /\ flag[n]

Init ==
    /\ owner  = NoOne
    /\ left   = 0
    /\ wire   = {}
    /\ proc   = [n \in Node |-> "down"]
    /\ step   = [n \in Node |-> "idle"]
    /\ answer = [n \in Node |-> "none"]
    /\ flag   = [n \in Node |-> FALSE]
    /\ sched  = [n \in Node |-> "off"]
    /\ age    = [n \in Node |-> 0]
    /\ faults = 0

Fault == faults < MaxFaults /\ faults' = faults + 1

--------------------------------------------------------------------------------
(* The maintenance tick *)

(* The host starts.  The generic host starts the scheduler first, because it
   was registered first; DuckRunInstance waits for the coordinator. *)
StartProcess(n) ==
    /\ proc[n] = "down"
    /\ proc'  = [proc EXCEPT ![n] = "initial"]
    /\ step'  = [step EXCEPT ![n] = "heartbeat"]
    /\ sched' = [sched EXCEPT ![n] = IF n \in GenericHost THEN "on" ELSE "off"]
    /\ age'   = [age EXCEPT ![n] = 0]
    /\ UNCHANGED <<owner, left, wire, answer, flag, faults>>

(* The loop's delay is over. *)
BeginTick(n) ==
    /\ proc[n] = "looping"
    /\ step[n] = "idle"
    /\ age[n] >= Interval
    /\ step' = [step EXCEPT ![n] = "heartbeat"]
    /\ age'  = [age EXCEPT ![n] = 0]
    /\ UNCHANGED <<owner, left, wire, proc, answer, flag, sched, faults>>

(* The heartbeat key was written; the tick goes on to the leader script. *)
SendRefresh(n) ==
    /\ step[n] = "heartbeat"
    /\ step' = [step EXCEPT ![n] = "refresh"]
    /\ wire' = wire \cup {Req(n, "refresh")}
    /\ UNCHANGED <<owner, left, proc, answer, flag, sched, age, faults>>

(* A bug for EvalRefresh: EXPIRE comes before the owner is looked at. *)
EvalRefreshExtendsAny(r) ==
    /\ r \in wire /\ r.kind \in {"refresh", "stale"}
    /\ wire' = wire \ {r}
    /\ LET mine == owner \in {r.from, NoOne}
       IN  /\ owner'  = IF mine THEN r.from ELSE owner
           /\ left'   = Lease
           /\ answer' = IF r.kind = "refresh"
                        THEN [answer EXCEPT ![r.from] = IF mine THEN "yes" ELSE "no"]
                        ELSE answer
    /\ UNCHANGED <<proc, step, flag, sched, age, faults>>

(* Redis runs AcquireOrRefreshLeader: the owner's lease starts again, a free
   key is taken, anybody else is told no. *)
EvalRefresh(r) ==
    /\ r \in wire /\ r.kind \in {"refresh", "stale"}
    /\ wire' = wire \ {r}
    /\ LET mine == owner \in {r.from, NoOne}
       IN  /\ owner'  = IF mine THEN r.from ELSE owner
           /\ left'   = IF mine THEN Lease ELSE left
           /\ answer' = IF r.kind = "refresh"
                        THEN [answer EXCEPT ![r.from] = IF mine THEN "yes" ELSE "no"]
                        ELSE answer
    /\ UNCHANGED <<proc, step, flag, sched, age, faults>>

(* The initial tick is followed at once by the loop's first one, any other by
   the refresh interval. *)
AgeAfterTick(n) == [age EXCEPT ![n] = IF proc[n] = "initial" THEN Interval ELSE 0]

(* The answer is here: the tick caches it.  StartAsync returns after the first
   tick, and DuckRunInstance then starts the scheduler. *)
TickEnds(n) ==
    /\ step[n] = "refresh"
    /\ answer[n] # "none"
    /\ flag'   = [flag EXCEPT ![n] = (answer[n] = "yes")]
    /\ answer' = [answer EXCEPT ![n] = "none"]
    /\ step'   = [step EXCEPT ![n] = "idle"]
    /\ age'    = AgeAfterTick(n)
    /\ IF proc[n] = "initial"
       THEN /\ proc'  = [proc EXCEPT ![n] = "looping"]
            /\ sched' = [sched EXCEPT ![n] = "on"]
       ELSE UNCHANGED <<proc, sched>>
    /\ UNCHANGED <<owner, left, wire, faults>>

(* The tick's request is nobody's business any more. *)
Abandon(n) ==
    IF Req(n, "refresh") \in wire
    THEN (wire \ {Req(n, "refresh")}) \cup {Req(n, "stale")}
    ELSE wire

(* A bug for TickThrows: the error is only logged, _isLeader keeps its value. *)
TickThrowsKeepsFlag(n) ==
    /\ Fault
    /\ step[n] # "idle" /\ proc[n] # "initial"
    /\ answer' = [answer EXCEPT ![n] = "none"]
    /\ step'   = [step EXCEPT ![n] = "idle"]
    /\ age'    = AgeAfterTick(n)
    /\ wire'   = Abandon(n)
    /\ UNCHANGED <<owner, left, proc, flag, sched>>

(* Heartbeat or script throws: the loop demotes the node, whatever Redis may
   have done with the script, and carries on. *)
TickThrows(n) ==
    /\ Fault
    /\ step[n] # "idle" /\ proc[n] # "initial"
    /\ flag'   = [flag EXCEPT ![n] = FALSE]
    /\ answer' = [answer EXCEPT ![n] = "none"]
    /\ step'   = [step EXCEPT ![n] = "idle"]
    /\ age'    = AgeAfterTick(n)
    /\ wire'   = Abandon(n)
    /\ UNCHANGED <<owner, left, proc, sched>>

--------------------------------------------------------------------------------
(* Stopping and dying *)

(* The process is gone, with its NodeId. *)
Gone(n) ==
    /\ proc'   = [proc EXCEPT ![n] = "down"]
    /\ step'   = [step EXCEPT ![n] = "idle"]
    /\ answer' = [answer EXCEPT ![n] = "none"]
    /\ flag'   = [flag EXCEPT ![n] = FALSE]
    /\ sched'  = [sched EXCEPT ![n] = "off"]
    /\ age'    = [age EXCEPT ![n] = 0]
    /\ owner'  = IF owner = n THEN Ghost ELSE owner
    /\ wire'   = {r \in wire : r.from # n}
                    \cup {Req(Ghost, IF r.kind = "release" THEN "release" ELSE "stale") :
                            r \in {q \in wire : q.from = n}}
    /\ UNCHANGED left

(* A crash, or a first tick that throws: StartAsync fails and so does the
   start of the host. *)
Crash(n) ==
    /\ Fault
    /\ proc[n] # "down"
    /\ Gone(n)

(* A scheduler loop that gets an exception from the slot gate ends.  Under the
   generic host that stops the application, under the Framework nothing
   happens. *)
SchedulerFails(n) ==
    /\ n \in SlotErrors
    /\ Leads(n)
    /\ Fault
    /\ sched' = [sched EXCEPT ![n] = "dead"]
    /\ UNCHANGED <<owner, left, wire, proc, step, answer, flag, age>>

(* The application stops.  DuckRunInstance stops the scheduler first; the
   generic host stops its services in the reverse order of their start. *)
Stopping(n) ==
    /\ proc[n] = "looping"
    /\ proc'  = [proc EXCEPT ![n] = "draining"]
    /\ sched' = IF n \in GenericHost THEN sched ELSE [sched EXCEPT ![n] = "off"]
    /\ UNCHANGED <<owner, left, wire, step, answer, flag, age>>

BeginStop(n) == Fault /\ Stopping(n)

(* A background service that fails stops the generic host. *)
SchedulerStopsHost(n) ==
    /\ n \in GenericHost
    /\ sched[n] = "dead"
    /\ Stopping(n)
    /\ UNCHANGED faults

(* The loop has ended, or the host's shutdown timeout has: StopAsync releases
   the key if the node thinks it leads. *)
Release(n) ==
    /\ proc[n] = "draining"
    /\ step[n] = "idle" \/ n \in GenericHost
    /\ IF flag[n]
       THEN /\ proc' = [proc EXCEPT ![n] = "releasing"]
            /\ wire' = wire \cup {Req(n, "release")}
       ELSE /\ proc' = [proc EXCEPT ![n] = "stopped"]
            /\ UNCHANGED wire
    /\ UNCHANGED <<owner, left, step, answer, flag, sched, age, faults>>

(* A bug for EvalRelease: DEL whoever owns the key. *)
EvalReleaseAny(r) ==
    /\ r \in wire /\ r.kind = "release"
    /\ wire'  = wire \ {r}
    /\ owner' = NoOne
    /\ left'  = 0
    /\ UNCHANGED <<proc, step, answer, flag, sched, age, faults>>

(* Redis runs ReleaseLeader: only the owner's key is deleted. *)
EvalRelease(r) ==
    /\ r \in wire /\ r.kind = "release"
    /\ wire'  = wire \ {r}
    /\ IF owner = r.from THEN owner' = NoOne /\ left' = 0
                         ELSE UNCHANGED <<owner, left>>
    /\ UNCHANGED <<proc, step, answer, flag, sched, age, faults>>

(* The release was answered, or it failed.  _isLeader keeps its value. *)
Released(n) ==
    /\ proc[n] = "releasing"
    /\ \/ Req(n, "release") \notin wire /\ UNCHANGED faults
       \/ Fault
    /\ proc' = [proc EXCEPT ![n] = "stopped"]
    /\ UNCHANGED <<owner, left, wire, step, answer, flag, sched, age>>

(* The coordinator has stopped: the generic host now stops the scheduler. *)
StopScheduler(n) ==
    /\ proc[n] = "stopped"
    /\ sched[n] # "off"
    /\ sched' = [sched EXCEPT ![n] = "off"]
    /\ UNCHANGED <<owner, left, wire, proc, step, answer, flag, age, faults>>

Exit(n) ==
    /\ proc[n] = "stopped"
    /\ sched[n] = "off"
    /\ Gone(n)
    /\ UNCHANGED faults

--------------------------------------------------------------------------------
(* Time *)

(* n's coordinator has a tick in flight, or waits for the next one. *)
Timed(n) == step[n] # "idle" \/ proc[n] = "looping"

(* The assumption behind the lease: a tick takes TickBound at most and starts
   at most Slack late.  Only a pause of the process can break it; the code
   does not watch for one. *)
InTime(n) ==
    /\ step[n] # "idle" => age[n] < TickBound
    /\ step[n] = "idle" /\ proc[n] = "looping" => age[n] < Interval + Slack

Tick ==
    /\ \A n \in Node : InTime(n)
    /\ left'  = IF left > 0 THEN left - 1 ELSE 0
    /\ owner' = IF left <= 1 THEN NoOne ELSE owner
    /\ age'   = [n \in Node |-> IF Timed(n) THEN age[n] + 1 ELSE age[n]]
    /\ UNCHANGED <<wire, proc, step, answer, flag, sched, faults>>

--------------------------------------------------------------------------------

Next ==
    \/ \E n \in Node :
          \/ StartProcess(n) \/ BeginTick(n) \/ SendRefresh(n) \/ TickEnds(n)
          \/ TickThrows(n) \/ Crash(n) \/ SchedulerFails(n)
          \/ BeginStop(n) \/ SchedulerStopsHost(n) \/ Release(n) \/ Released(n)
          \/ StopScheduler(n) \/ Exit(n)
    \/ \E r \in wire : EvalRefresh(r) \/ EvalRelease(r)
    \/ Tick

Spec == Init /\ [][Next]_vars

(* A running process makes progress, Redis answers, time passes; an
   application that lost its scheduler is stopped by the generic host.
   Nothing is assumed of starts, stops, crashes and exceptions. *)
Fairness ==
    /\ WF_vars(Tick)
    /\ \A n \in Node :
          /\ WF_vars(BeginTick(n)) /\ WF_vars(SendRefresh(n)) /\ WF_vars(TickEnds(n))
          /\ WF_vars(Release(n)) /\ WF_vars(Released(n))
          /\ WF_vars(StopScheduler(n)) /\ WF_vars(Exit(n))
          /\ WF_vars(SchedulerStopsHost(n))
    /\ \A n \in Node \cup {Ghost} : \A k \in {"refresh", "stale", "release"} :
          WF_vars(EvalRefresh(Req(n, k)) \/ EvalRelease(Req(n, k)))

FairSpec == Spec /\ Fairness

--------------------------------------------------------------------------------
(* Properties *)

(* Every variable keeps its type; the key exists exactly while its time to
   live is positive. *)
TypeOK ==
    /\ owner  \in Node \cup {NoOne, Ghost}
    /\ left   \in 0..Lease
    /\ owner = NoOne <=> left = 0
    /\ wire   \subseteq Request
    /\ proc   \in [Node -> ProcState]
    /\ step   \in [Node -> Step]
    /\ answer \in [Node -> {"none", "yes", "no"}]
    /\ flag   \in [Node -> BOOLEAN]
    /\ sched  \in [Node -> {"off", "on", "dead"}]
    /\ age    \in [Node -> Nat]
    /\ faults \in Nat

(* The generic host stops the coordinator first: until it comes to the
   scheduler, that one goes on with an _isLeader that nobody refreshes. *)
Leaving(n) == n \in GenericHost /\ proc[n] \in {"draining", "releasing", "stopped"}

(* At most one instance drives the scheduler, those that the generic host is
   stopping aside. *)
AtMostOneLeader ==
    \A m, n \in Node :
        Leads(m) /\ Leads(n) => m = n \/ Leaving(m) \/ Leaving(n)

(* Who fires crons holds the key at that moment: the cached _isLeader never
   outlives the lease it stands for, except in a stop of the generic host. *)
LeaderOwnsKey == \A n \in Node : Leads(n) /\ ~Leaving(n) => owner = n

(* A node stays with the key only by asking for it again: when the key passes
   from a live node to another value without an exit or a release of its own,
   its time was up. *)
NeverStolen ==
    [][\A n \in Node :
          owner = n /\ owner' # n
            => left <= 1 \/ proc[n] # "looping"
               \/ proc'[n] = "down"]_vars

(* If some process keeps running with its scheduler, somebody drives it again
   and again, whatever happened before to whoever held the key. *)
Reelection ==
    (\E n \in Node : <>[](proc[n] = "looping" /\ sched[n] = "on"))
        => []<>(\E m \in Node : Leads(m))
==============================================================================
