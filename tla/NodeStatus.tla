----------------------------- MODULE NodeStatus ------------------------------
(***************************************************************************)
(* What the Control Dashboard knows of the processes of one project: the   *)
(* handshake loop of GrpcDashboardReporter, which registers the jobs and   *)
(* is repeated until it succeeds, the heartbeat loop, which tells who      *)
(* leads, and the handlers Handshake and SendHeartbeat, which query the    *)
(* rows one by one and write them in one SaveChanges.                      *)
(*                                                                         *)
(* All processes run the same version of the application: a job definition *)
(* exists or it does not.  A client call has no deadline: it fails with    *)
(* the connection, and the dashboard may go on with it.                    *)
(***************************************************************************)
EXTENDS Naturals, FiniteSets

CONSTANTS
    Node,       \* processes, each with a NodeId of its own
    Job,        \* the jobs they all register
    MaxOpen,    \* calls of one loop the dashboard may be handling at a time:
                \* a bound for TLC
    MaxFaults   \* bound on calls and transactions that fail

ASSUME NodeStatusAssumption ==
    /\ MaxOpen \in Nat \ {0}
    /\ MaxFaults \in Nat

Loop   == {"handshake", "heartbeat"}
Call   == Node \X Loop \X (1 .. MaxOpen)
NoCall == <<"none", "none", 0>>

(* A node's row: IsLeader, and whether a handshake has written Runtime. *)
Row    == [there : {TRUE}, leader : BOOLEAN, runtime : BOOLEAN]
NoRow  == [there |-> FALSE, leader |-> FALSE, runtime |-> FALSE]

VARIABLES
    lead,      \* lead[n]: what the coordinator's IsLeaderAsync answers
    loop,      \* loop[n][k]: where a loop of the reporter stands
    current,   \* current[n][k]: the call it awaits
    stopped,   \* stopped[n]: the reporter's token is cancelled
    revoked,   \* the DSN's key has a RevokedAt
    phase,     \* phase[c]: where the dashboard's handler stands
    says,      \* says[c]: isLeader as the call has it
    todo,      \* todo[c]: job definitions it has not queried
    orig,      \* orig[c]: the node's row as the handler read it
    absent,    \* absent[c]: job definitions it found missing
    rows,      \* rows[n]: the node's row
    defs,      \* the job definitions of the project
    faults

vars == <<lead, loop, current, stopped, revoked, phase, says, todo, orig,
          absent, rows, defs, faults>>

client   == <<lead, loop, current, stopped>>
handlers == <<phase, says, todo, orig, absent>>

Init ==
    /\ lead    \in [Node -> BOOLEAN]
    /\ loop    = [n \in Node |-> [k \in Loop |-> "off"]]
    /\ current = [n \in Node |-> [k \in Loop |-> NoCall]]
    /\ stopped = [n \in Node |-> FALSE]
    /\ revoked = FALSE
    /\ phase   = [c \in Call |-> "idle"]
    /\ says    = [c \in Call |-> FALSE]
    /\ todo    = [c \in Call |-> {}]
    /\ orig    = [c \in Call |-> NoRow]
    /\ absent  = [c \in Call |-> {}]
    /\ rows    = [n \in Node |-> NoRow]
    /\ defs    = {}
    /\ faults  = 0

Fault == faults < MaxFaults /\ faults' = faults + 1

--------------------------------------------------------------------------------
(* The reporter *)

(* The lead comes and goes (LeaderLease). *)
Elect(n) ==
    /\ lead' = [lead EXCEPT ![n] = ~@]
    /\ UNCHANGED <<loop, current, stopped, revoked, handlers, rows, defs, faults>>

StartAsync(n) ==
    /\ loop[n]["handshake"] = "off"
    /\ loop' = [loop EXCEPT ![n] = [k \in Loop |-> "ready"]]
    /\ UNCHANGED <<lead, current, stopped, revoked, handlers, rows, defs, faults>>

(* The loop starts a call; SendHeartbeat carries what IsLeaderAsync answers. *)
Send(n, k, c) ==
    /\ loop[n][k] = "ready"
    /\ ~stopped[n]
    /\ c[1] = n /\ c[2] = k /\ phase[c] = "idle"
    /\ \A m \in 1 .. (c[3] - 1) : phase[<<n, k, m>>] # "idle"
    /\ loop'    = [loop EXCEPT ![n][k] = "sending"]
    /\ current' = [current EXCEPT ![n][k] = c]
    /\ phase'   = [phase EXCEPT ![c] = "sent"]
    /\ says'    = [says EXCEPT ![c] = k = "heartbeat" /\ lead[n]]
    /\ UNCHANGED <<lead, stopped, revoked, todo, orig, absent, rows, defs, faults>>

(* Bugs for Return: the handshake is tried once; a heartbeat that fails ends
   its loop. *)
ReturnTriesOnce(n, k, ok) ==
    /\ current' = [current EXCEPT ![n][k] = NoCall]
    /\ loop'    = [loop EXCEPT ![n][k] = IF k = "handshake" THEN "connected" ELSE "pausing"]

ReturnEndsBoth(n, k, ok) ==
    /\ current' = [current EXCEPT ![n][k] = NoCall]
    /\ loop'    = [loop EXCEPT ![n][k] =
                     IF k = "handshake" /\ ok THEN "connected" ELSE
                     IF ok THEN "pausing" ELSE "ended"]

(* The awaited call of the loop is over: a handshake that succeeded was the
   last one; anything else is followed by a delay and another call. *)
Return(n, k, ok) ==
    /\ current' = [current EXCEPT ![n][k] = NoCall]
    /\ loop'    = [loop EXCEPT ![n][k] =
                     IF k = "handshake" /\ ok THEN "connected" ELSE "pausing"]

(* The dashboard is done with the call. *)
Close(c) ==
    /\ phase'  = [phase EXCEPT ![c] = "idle"]
    /\ says'   = [says EXCEPT ![c] = FALSE]
    /\ todo'   = [todo EXCEPT ![c] = {}]
    /\ orig'   = [orig EXCEPT ![c] = NoRow]
    /\ absent' = [absent EXCEPT ![c] = {}]

(* An exception of the call; the dashboard may never have seen it. *)
CallFails(n, k) ==
    /\ Fault
    /\ loop[n][k] = "sending"
    /\ Return(n, k, FALSE)
    /\ \/ UNCHANGED handlers
       \/ phase[current[n][k]] = "sent" /\ Close(current[n][k])
    /\ UNCHANGED <<lead, stopped, revoked, rows, defs>>

DelayEnds(n, k) ==
    /\ loop[n][k] = "pausing"
    /\ ~stopped[n]
    /\ loop' = [loop EXCEPT ![n][k] = "ready"]
    /\ UNCHANGED <<lead, current, stopped, revoked, handlers, rows, defs, faults>>

StopAsync(n) ==
    /\ ~stopped[n]
    /\ stopped' = [stopped EXCEPT ![n] = TRUE]
    /\ UNCHANGED <<lead, loop, current, revoked, handlers, rows, defs, faults>>

(* The loop meets the cancelled token: in the delay, or in its call. *)
LoopEnds(n, k) ==
    /\ stopped[n]
    /\ loop[n][k] \in {"ready", "sending", "pausing"}
    /\ loop'    = [loop EXCEPT ![n][k] = "ended"]
    /\ current' = [current EXCEPT ![n][k] = NoCall]
    /\ UNCHANGED <<lead, stopped, revoked, handlers, rows, defs, faults>>

--------------------------------------------------------------------------------
(* The dashboard *)

(* The handler's answer reaches the loop if that still waits for it. *)
Answer(c, ok) ==
    IF current[c[1]][c[2]] = c THEN Return(c[1], c[2], ok)
                               ELSE UNCHANGED <<loop, current>>

RejectKey(c) ==
    /\ phase[c] = "sent"
    /\ revoked
    /\ Close(c)
    /\ Answer(c, FALSE)
    /\ UNCHANGED <<lead, stopped, revoked, rows, defs, faults>>

(* The key is looked up, then the node's row (UpsertHeartbeatAsync). *)
Authenticate(c) ==
    /\ phase[c] = "sent"
    /\ ~revoked
    /\ phase' = [phase EXCEPT ![c] = "handling"]
    /\ UNCHANGED <<client, revoked, says, todo, orig, absent, rows, defs, faults>>

QueryNode(c) ==
    /\ phase[c] = "handling"
    /\ phase' = [phase EXCEPT ![c] = "querying"]
    /\ orig'  = [orig EXCEPT ![c] = rows[c[1]]]
    /\ todo'  = [todo EXCEPT ![c] = IF c[2] = "handshake" THEN Job ELSE {}]
    /\ UNCHANGED <<client, revoked, says, absent, rows, defs, faults>>

(* UpsertJobDefinitionAsync, in the order in which the client lists them. *)
QueryJob(c, j) ==
    /\ j \in todo[c]
    /\ todo'   = [todo EXCEPT ![c] = @ \ {j}]
    /\ absent' = [absent EXCEPT ![c] = IF j \in defs THEN @ ELSE @ \cup {j}]
    /\ UNCHANGED <<client, revoked, phase, says, orig, rows, defs, faults>>

(* The unique indexes refuse a row that somebody has inserted meanwhile. *)
Conflict(c) ==
    \/ ~orig[c].there /\ rows[c[1]].there
    \/ absent[c] \cap defs # {}

(* The row as an INSERT, or an UPDATE of the columns that changed, leaves it. *)
Written(c) ==
    LET runtime == c[2] = "handshake" \/ orig[c].runtime
        old     == rows[c[1]]
    IN  IF ~orig[c].there
        THEN [there |-> TRUE, leader |-> says[c], runtime |-> runtime]
        ELSE [old EXCEPT
                !.leader  = IF says[c] = orig[c].leader THEN @ ELSE says[c],
                !.runtime = IF runtime = orig[c].runtime THEN @ ELSE runtime]

SaveChanges(c) ==
    /\ phase[c] = "querying" /\ todo[c] = {}
    /\ ~Conflict(c)
    /\ rows' = [rows EXCEPT ![c[1]] = Written(c)]
    /\ defs' = defs \cup absent[c]
    /\ Close(c)
    /\ Answer(c, TRUE)
    /\ UNCHANGED <<lead, stopped, revoked, faults>>

(* A bug for Throws: a conflict means that the rows are there. *)
ThrowsSwallowed(c) ==
    /\ phase[c] = "querying" /\ todo[c] = {}
    /\ Conflict(c)
    /\ Close(c)
    /\ Answer(c, TRUE)
    /\ UNCHANGED <<lead, stopped, revoked, rows, defs, faults>>

(* Nothing of the request is written: a query or the transaction fails, or a
   unique index refuses it. *)
Throws(c) ==
    /\ phase[c] \in {"handling", "querying"}
    /\ \/ /\ phase[c] = "querying" /\ todo[c] = {}
          /\ Conflict(c)
          /\ UNCHANGED faults
       \/ Fault
    /\ Close(c)
    /\ Answer(c, FALSE)
    /\ UNCHANGED <<lead, stopped, revoked, rows, defs>>

RevokeAsync ==
    /\ ~revoked
    /\ revoked' = TRUE
    /\ UNCHANGED <<client, handlers, rows, defs, faults>>

--------------------------------------------------------------------------------
Step(n, k) ==
    \/ \E c \in Call : Send(n, k, c)
    \/ DelayEnds(n, k)
    \/ LoopEnds(n, k)

Handle(c) ==
    \/ RejectKey(c) \/ Authenticate(c) \/ QueryNode(c)
    \/ \E j \in Job : QueryJob(c, j)
    \/ SaveChanges(c)
    \/ Throws(c)

Next ==
    \/ \E n \in Node : Elect(n) \/ StartAsync(n) \/ StopAsync(n)
    \/ \E n \in Node, k \in Loop : Step(n, k) \/ CallFails(n, k)
    \/ \E c \in Call : Handle(c)
    \/ RevokeAsync

Spec == Init /\ [][Next]_vars

(* The loops are tasks of the thread pool; the dashboard ends every call. *)
FairSpec ==
    /\ Spec
    /\ \A n \in Node, k \in Loop : WF_vars(Step(n, k))
    /\ \A c \in Call : WF_vars(Handle(c))

--------------------------------------------------------------------------------
(* Types; a loop awaits a call of its own exactly while it is sending. *)
TypeOK ==
    /\ lead    \in [Node -> BOOLEAN]
    /\ loop    \in [Node -> [Loop -> {"off", "ready", "sending", "pausing",
                                      "connected", "ended"}]]
    /\ current \in [Node -> [Loop -> Call \cup {NoCall}]]
    /\ stopped \in [Node -> BOOLEAN]
    /\ revoked \in BOOLEAN
    /\ phase   \in [Call -> {"idle", "sent", "handling", "querying"}]
    /\ says    \in [Call -> BOOLEAN]
    /\ todo    \in [Call -> SUBSET Job]
    /\ orig    \in [Call -> Row \cup {NoRow}]
    /\ absent  \in [Call -> SUBSET Job]
    /\ rows    \in [Node -> Row \cup {NoRow}]
    /\ defs    \subseteq Job
    /\ faults  \in 0 .. MaxFaults
    /\ \A n \in Node, k \in Loop :
          loop[n][k] = "sending" <=> \E c \in Call : /\ current[n][k] = c
                                                     /\ c[1] = n /\ c[2] = k
                                                     /\ phase[c] # "idle"

(* A process that was told that it is connected is in the dashboard, with its
   runtime and all its jobs, whoever else inserts the same rows at that time. *)
ConnectedMeansRegistered ==
    \A n \in Node : loop[n]["handshake"] = "connected" =>
                        rows[n].runtime /\ Job \subseteq defs

(* A dashboard that is unreachable for a while does not leave the jobs of a
   project unregistered: the handshake goes on until it succeeds. *)
JobsRegistered ==
    \A n \in Node :
        loop[n]["handshake"] # "off" ~>
            \/ rows[n].runtime /\ Job \subseteq defs
            \/ stopped[n] \/ revoked

(* Who leads, or does not, from some time on is shown so for ever after, though
   a handshake, which says that nobody leads, or a heartbeat that was given up
   may come in late. *)
LeaderShown ==
    \A n \in Node, b \in BOOLEAN :
        <>[](lead[n] = b /\ loop[n]["heartbeat"] # "off" /\ ~stopped[n] /\ ~revoked)
            => <>[](rows[n].there /\ rows[n].leader = b)
==============================================================================
