------------------------------ MODULE JobSlots -------------------------------
(***************************************************************************)
(* Concurrency slots of ONE job on a cluster of nodes that share a Redis   *)
(* server: JobSlotGate (local tracker first, then the coordinator),        *)
(* ConcurrencyTracker (compare-and-swap counter), JobSlot and RedisSlot    *)
(* (dispose), and the AcquireSlot script that Redis runs atomically.       *)
(* Jobs are independent: each has its own tracker and its own sorted set.  *)
(*                                                                         *)
(* An Attempt is a slot id ("<node>:<guid>").  Its node is therefore fixed *)
(* and it is in use by one call of the gate at a time; when nothing in the *)
(* system refers to it any more it stands for a fresh guid again.          *)
(*                                                                         *)
(* A call to Redis is a message on the wire: it can be evaluated late,     *)
(* be lost, or be evaluated although the caller already gave up on it.     *)
(* A node can crash at any point; what it put in Redis stays there.        *)
(***************************************************************************)
EXTENDS Integers, FiniteSets

CONSTANTS
    Node,            \* processes that run the scheduler
    Attempt,         \* slot ids
    Home,            \* Home[a]: the node whose gate made slot id a
    MaxConcurrency,  \* the limit in the job's descriptor
    IntMax,          \* int.MaxValue
    Clustered,       \* TRUE: RedisClusterCoordinator, FALSE: the local one
    Ttl,             \* SlotTtl, the ttl every caller passes to the gate
    Grace,           \* seconds added to the key's EXPIRE
    Skew,            \* Skew[n]: how far n's clock is ahead of Redis's clock
    RunBound,        \* longest time a slot is asked for and held
    Horizon          \* bound on the clock, for TLC only

(* ConcurrencyTracker reads a limit that is not positive as int.MaxValue.
   JobScanner already does so for an attribute; a descriptor that the
   application registers itself (AddJob) reaches the gate as it is. *)
Cap == IF MaxConcurrency <= 0 THEN IntMax ELSE MaxConcurrency

ASSUME ConstantsAssumption ==
    /\ IsFiniteSet(Attempt)
    /\ Home \in [Attempt -> Node]
    /\ MaxConcurrency \in Int
    /\ IntMax \in Nat \ {0}
    /\ Clustered \in BOOLEAN
    /\ Ttl \in Nat \ {0}
    /\ Grace \in Nat
    /\ Skew \in [Node -> Nat]
    /\ RunBound \in Nat
    /\ Horizon \in Nat

(* The gate asks the coordinator only for a finite limit, and the local
   coordinator hands out slots that do nothing. *)
UsesRedis == MaxConcurrency < IntMax /\ Clustered

VARIABLES
    tracker,    \* tracker[n]: ConcurrencyTracker._current on node n
    connected,  \* connected[n]: n's coordinator has a database (_db)
    phase,      \* phase[a]: where the call that owns a stands
    seen,       \* seen[a]: the count TryAcquire read before its CAS
    sampled,    \* sampled[a]: the caller's clock when it asked for the slot
    reply,      \* reply[a]: what the script answered
    acquires,   \* AcquireSlot scripts on the wire
    removes,    \* ZREM commands on the wire
    members,    \* ids in the sorted set; a's score is Score(a)
    expireAt,   \* when Redis drops the whole key
    clock       \* Redis's clock

vars == <<tracker, connected, phase, seen, sampled, reply, acquires, removes,
          members, expireAt, clock>>

(* At rest the id is not in use: "done" after a clean dispose, "idle" before
   the first use and after a refusal, an exception or a crash. *)
Resting == {"idle", "done"}
Phase   == Resting \cup {"read", "local", "sent", "held", "disposing"}

(* The phases in which the call owns a permit of its node's tracker. *)
Owning  == {"local", "sent", "held", "disposing"}

Score(a)   == sampled[a] + Ttl
Running    == {a \in Attempt : phase[a] = "held"}
Owners(n)  == {a \in Attempt : Home[a] = n /\ phase[a] \in Owning}
NodeNow(n) == clock + Skew[n]

Init ==
    /\ tracker   = [n \in Node |-> 0]
    /\ connected = [n \in Node |-> FALSE]
    /\ phase     = [a \in Attempt |-> "idle"]
    /\ seen      = [a \in Attempt |-> 0]
    /\ sampled   = [a \in Attempt |-> 0]
    /\ reply     = [a \in Attempt |-> "none"]
    /\ acquires  = {}
    /\ removes   = {}
    /\ members   = {}
    /\ expireAt  = 0
    /\ clock     = 0

--------------------------------------------------------------------------------
(* ConcurrencyTracker *)

(* TryAcquire reads the counter; at the limit the gate returns null. *)
ReadCount(a) ==
    /\ phase[a] \in Resting \cup {"read"}
    /\ phase[a] \in Resting => a \notin acquires \cup removes \cup members
    /\ IF tracker[Home[a]] >= Cap
       THEN /\ phase' = [phase EXCEPT ![a] = "idle"]
            /\ seen'  = [seen EXCEPT ![a] = 0]
       ELSE /\ phase' = [phase EXCEPT ![a] = "read"]
            /\ seen'  = [seen EXCEPT ![a] = tracker[Home[a]]]
    /\ UNCHANGED <<tracker, connected, sampled, reply, acquires, removes,
                   members, expireAt, clock>>

(* The gate asks Redis next, unless the job is unlimited or the coordinator is
   the local one: then the call has its slot. *)
Admitted == IF UsesRedis THEN "local" ELSE "held"

(* A bug for CompareExchange: a plain write of the count read before. *)
PlainWrite(a) ==
    /\ phase[a] = "read"
    /\ tracker' = [tracker EXCEPT ![Home[a]] = seen[a] + 1]
    /\ phase'   = [phase EXCEPT ![a] = Admitted]
    /\ seen'    = [seen EXCEPT ![a] = 0]
    /\ UNCHANGED <<connected, sampled, reply, acquires, removes, members,
                   expireAt, clock>>

(* The CAS of TryAcquire: it takes a permit only if nobody moved the counter
   since it was read.  A CAS that fails goes round the loop: ReadCount. *)
CompareExchange(a) ==
    /\ phase[a] = "read"
    /\ tracker[Home[a]] = seen[a]
    /\ tracker' = [tracker EXCEPT ![Home[a]] = seen[a] + 1]
    /\ phase'   = [phase EXCEPT ![a] = Admitted]
    /\ seen'    = [seen EXCEPT ![a] = 0]
    /\ UNCHANGED <<connected, sampled, reply, acquires, removes, members,
                   expireAt, clock>>

(* The call that owns a ends in phase p and gives its local permit back. *)
ReleaseLocal(a, p) ==
    /\ tracker' = [tracker EXCEPT ![Home[a]] = @ - 1]
    /\ phase'   = [phase EXCEPT ![a] = p]

--------------------------------------------------------------------------------
(* JobSlotGate and RedisClusterCoordinator.TryAcquireSlotAsync *)

(* The coordinator has no database yet: it answers null, the gate rolls back. *)
NoDatabase(a) ==
    /\ phase[a] = "local"
    /\ ~connected[Home[a]]
    /\ ReleaseLocal(a, "idle")
    /\ UNCHANGED <<connected, seen, sampled, reply, acquires, removes, members,
                   expireAt, clock>>

(* The caller reads its own clock and sends the script. *)
SendAcquire(a) ==
    /\ phase[a] = "local"
    /\ connected[Home[a]]
    /\ phase'    = [phase EXCEPT ![a] = "sent"]
    /\ sampled'  = [sampled EXCEPT ![a] = NodeNow(Home[a])]
    /\ acquires' = acquires \cup {a}
    /\ UNCHANGED <<tracker, connected, seen, reply, removes, members, expireAt,
                   clock>>

(* What ZREMRANGEBYSCORE 0..now leaves of the set, now being a's clock. *)
Unexpired(a) == {b \in members : Score(b) > sampled[a]}

(* Nobody hears an answer once the caller gave up or died. *)
Answer(a, r) == IF phase[a] = "sent" THEN [reply EXCEPT ![a] = r] ELSE reply

(* Bugs for EvalAcquire: an off-by-one limit, and a script that never prunes. *)
EvalAcquireOffByOne(a) ==
    /\ a \in acquires
    /\ acquires' = acquires \ {a}
    /\ IF Cardinality(Unexpired(a)) <= MaxConcurrency
       THEN /\ members'  = Unexpired(a) \cup {a}
            /\ expireAt' = clock + Ttl + Grace
            /\ reply'    = Answer(a, "yes")
       ELSE /\ members' = Unexpired(a)
            /\ reply'   = Answer(a, "no")
            /\ UNCHANGED expireAt
    /\ UNCHANGED <<tracker, connected, phase, seen, sampled, removes, clock>>

EvalAcquireNoPrune(a) ==
    /\ a \in acquires
    /\ acquires' = acquires \ {a}
    /\ IF Cardinality(members) < MaxConcurrency
       THEN /\ members'  = members \cup {a}
            /\ expireAt' = clock + Ttl + Grace
            /\ reply'    = Answer(a, "yes")
       ELSE /\ reply'   = Answer(a, "no")
            /\ UNCHANGED <<members, expireAt>>
    /\ UNCHANGED <<tracker, connected, phase, seen, sampled, removes, clock>>

(* Redis runs AcquireSlot atomically, with the descriptor's limit, whether or not the caller still waits. *)
EvalAcquire(a) ==
    /\ a \in acquires
    /\ acquires' = acquires \ {a}
    /\ IF Cardinality(Unexpired(a)) < MaxConcurrency
       THEN /\ members'  = Unexpired(a) \cup {a}
            /\ expireAt' = clock + Ttl + Grace
            /\ reply'    = Answer(a, "yes")
       ELSE /\ members' = Unexpired(a)
            /\ reply'   = Answer(a, "no")
            /\ UNCHANGED expireAt
    /\ UNCHANGED <<tracker, connected, phase, seen, sampled, removes, clock>>

(* The script answered 1: the gate returns a slot and the job starts. *)
Granted(a) ==
    /\ phase[a] = "sent"
    /\ reply[a] = "yes"
    /\ phase' = [phase EXCEPT ![a] = "held"]
    /\ reply' = [reply EXCEPT ![a] = "none"]
    /\ UNCHANGED <<tracker, connected, seen, sampled, acquires, removes,
                   members, expireAt, clock>>

(* The script answered 0: the gate rolls the local permit back. *)
RefusedRemotely(a) ==
    /\ phase[a] = "sent"
    /\ reply[a] = "no"
    /\ ReleaseLocal(a, "idle")
    /\ reply' = [reply EXCEPT ![a] = "none"]
    /\ UNCHANGED <<connected, seen, sampled, acquires, removes, members,
                   expireAt, clock>>

(* A bug for AcquireThrows: the exception leaves without the rollback. *)
AcquireThrowsNoRollback(a) ==
    /\ phase[a] = "sent"
    /\ phase' = [phase EXCEPT ![a] = "idle"]
    /\ reply' = [reply EXCEPT ![a] = "none"]
    /\ UNCHANGED <<tracker, connected, seen, sampled, acquires, removes,
                   members, expireAt, clock>>

(* The call throws (timeout, broken connection), whatever became of the
   script: the gate releases the local permit and rethrows. *)
AcquireThrows(a) ==
    /\ phase[a] = "sent"
    /\ ReleaseLocal(a, "idle")
    /\ reply' = [reply EXCEPT ![a] = "none"]
    /\ UNCHANGED <<connected, seen, sampled, acquires, removes, members,
                   expireAt, clock>>

--------------------------------------------------------------------------------
(* JobSlot.DisposeAsync and RedisSlot.DisposeAsync *)

(* The run is over: the distributed half is released first (ZREM). *)
Dispose(a) ==
    /\ phase[a] = "held"
    /\ phase'   = [phase EXCEPT ![a] = "disposing"]
    /\ removes' = IF UsesRedis THEN removes \cup {a} ELSE removes
    /\ UNCHANGED <<tracker, connected, seen, sampled, reply, acquires, members,
                   expireAt, clock>>

EvalRemove(a) ==
    /\ a \in removes
    /\ removes' = removes \ {a}
    /\ members' = members \ {a}
    /\ UNCHANGED <<tracker, connected, phase, seen, sampled, reply, acquires,
                   expireAt, clock>>

(* ZREM was answered (or there was none to send): the local half follows. *)
Disposed(a) ==
    /\ phase[a] = "disposing"
    /\ a \notin removes
    /\ ReleaseLocal(a, "done")
    /\ UNCHANGED <<connected, seen, sampled, reply, acquires, removes, members,
                   expireAt, clock>>

(* ZREM failed or timed out: RedisSlot swallows it, the local half follows. *)
RemoveThrows(a) ==
    /\ phase[a] = "disposing"
    /\ UsesRedis
    /\ ReleaseLocal(a, "idle")
    /\ UNCHANGED <<connected, seen, sampled, reply, acquires, removes, members,
                   expireAt, clock>>

--------------------------------------------------------------------------------
(* The environment: the network, Redis's key expiry, processes, time *)

(* A request never arrives.  The caller learns it as an exception. *)
Lose(a) ==
    /\ a \in acquires \cup removes
    /\ phase[a] \notin {"sent", "disposing"}
    /\ acquires' = acquires \ {a}
    /\ removes'  = removes \ {a}
    /\ UNCHANGED <<tracker, connected, phase, seen, sampled, reply, members,
                   expireAt, clock>>

(* Redis drops the key once its EXPIRE is over. *)
KeyExpires ==
    /\ members # {}
    /\ clock >= expireAt
    /\ members' = {}
    /\ UNCHANGED <<tracker, connected, phase, seen, sampled, reply, acquires,
                   removes, expireAt, clock>>

(* RedisClusterCoordinator.StartAsync sets _db. *)
Connect(n) ==
    /\ ~connected[n]
    /\ connected' = [connected EXCEPT ![n] = TRUE]
    /\ UNCHANGED <<tracker, phase, seen, sampled, reply, acquires, removes,
                   members, expireAt, clock>>

(* The process dies and comes back with fresh trackers and no connection. *)
Crash(n) ==
    /\ tracker'   = [tracker EXCEPT ![n] = 0]
    /\ connected' = [connected EXCEPT ![n] = FALSE]
    /\ phase'     = [a \in Attempt |-> IF Home[a] = n THEN "idle" ELSE phase[a]]
    /\ seen'      = [a \in Attempt |-> IF Home[a] = n THEN 0 ELSE seen[a]]
    /\ reply'     = [a \in Attempt |-> IF Home[a] = n THEN "none" ELSE reply[a]]
    /\ UNCHANGED <<sampled, acquires, removes, members, expireAt,
                   clock>>

(* How long ago the slot was asked for, in Redis's time. *)
Age(a) == clock - (sampled[a] - Skew[Home[a]])

(* Time passes.  RunBound is an assumption on the jobs: nothing in the code
   enforces it, and nothing renews a slot. *)
Tick ==
    /\ clock < Horizon
    /\ \A a \in Attempt : phase[a] \in {"sent", "held"} /\ UsesRedis
                              => Age(a) < RunBound
    /\ clock' = clock + 1
    /\ UNCHANGED <<tracker, connected, phase, seen, sampled, reply, acquires,
                   removes, members, expireAt>>

--------------------------------------------------------------------------------

Next ==
    \/ \E a \in Attempt :
          \/ ReadCount(a)   \/ CompareExchange(a)
          \/ NoDatabase(a)  \/ SendAcquire(a)     \/ EvalAcquire(a)
          \/ Granted(a)     \/ RefusedRemotely(a) \/ AcquireThrows(a)
          \/ Dispose(a)     \/ EvalRemove(a)      \/ Disposed(a)
          \/ RemoveThrows(a) \/ Lose(a)
    \/ \E n \in Node : Connect(n) \/ Crash(n)
    \/ KeyExpires
    \/ Tick

Spec == Init /\ [][Next]_vars

--------------------------------------------------------------------------------
(* Properties *)

(* Every variable keeps its type; in particular a tracker's count never goes
   below zero, whatever mix of rollbacks, failed disposes and crashes. *)
TypeOK ==
    /\ tracker   \in [Node -> Nat]
    /\ connected \in [Node -> BOOLEAN]
    /\ phase     \in [Attempt -> Phase]
    /\ seen      \in [Attempt -> Nat]
    /\ sampled   \in [Attempt -> Nat]
    /\ reply     \in [Attempt -> {"none", "yes", "no"}]
    /\ acquires  \subseteq Attempt
    /\ removes   \subseteq Attempt
    /\ members   \subseteq Attempt
    /\ expireAt  \in Nat
    /\ clock     \in Nat

(* Permits are conserved: a node's counter is exactly the number of calls
   that own a permit.  Every path out of the gate and of the slot (null from
   the coordinator, an exception, a swallowed ZREM error) releases once. *)
PermitsConserved ==
    \A n \in Node : tracker[n] = Cardinality(Owners(n))

(* A call that ended cleanly left nothing in Redis: the distributed half was
   really released before the local one (JobSlot.DisposeAsync). *)
CleanDispose ==
    \A a \in Attempt :
        phase[a] = "done" => a \notin acquires \cup removes \cup members

(* No more than Cap runs of the job in the whole cluster. *)
ClusterCap == UsesRedis => Cardinality(Running) <= Cap

(* A slot that crashed, or whose ZREM failed, blocks the job for Ttl at most:
   the script refuses only because of Cap entries that are not yet expired by
   the caller's clock. *)
RefusalsJustified ==
    [][\A a \in Attempt :
          a \in acquires /\ reply[a] # "no" /\ reply'[a] = "no"
              => Cardinality({b \in members : Score(b) > sampled[a]}) >= Cap]_vars

(* Every process is a pool of Cap permits (ConcurrencyTracker). *)
LocalPool == INSTANCE Permits WITH
    Pool <- Node, Holder <- Attempt, Capacity <- Cap,
    holders <- [n \in Node |-> Owners(n)]

(* The cluster is one pool of Cap permits (the sorted set). *)
ClusterPool == INSTANCE Permits WITH
    Pool <- {"cluster"}, Holder <- Attempt, Capacity <- Cap,
    holders <- [p \in {"cluster"} |-> Running]

(* The gate implements a pool of permits on every node: a permit goes out
   only while fewer than Cap are out, and only to a call without one. *)
ImplementsLocalPool == LocalPool!Spec

(* With runs shorter than the slot's ttl the sorted set implements one pool
   for the cluster. *)
ImplementsClusterPool == ClusterPool!Spec
==============================================================================
