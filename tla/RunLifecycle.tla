---------------------------- MODULE RunLifecycle -----------------------------
(***************************************************************************)
(* The life of the runs of one job: JobExecutor and DuckRunController of   *)
(* DuckRun.Core and of DuckRun.Framework, the task in which the scheduler  *)
(* or the controller starts a run, the record kept by the run store, what  *)
(* the dashboard is told, and the host that boots, stops and crashes       *)
(* around it all (SchemaBootstrap closes the records of interrupted runs). *)
(*                                                                         *)
(* A Run is a run id, used once.  A slot is a permit of the node's tracker *)
(* here; how the gate hands it out is the subject of JobSlots.             *)
(*                                                                         *)
(* A run record is [state, finished]: JobRun.State, and which assignment   *)
(* of FinishedAt it carries (0: none).  What reaches the store and the     *)
(* dashboard are copies, except in InMemoryJobRunStore, which keeps the    *)
(* executor's own object and never throws.                                 *)
(***************************************************************************)
EXTENDS Integers, FiniteSets

CONSTANTS
    Node,        \* processes that share the run store
    Run,         \* run ids
    Home,        \* Home[r]: the process that executes r
    Cap,         \* the job's limit on one process
    Framework,   \* TRUE: DuckRun.Framework; FALSE: DuckRun.Core
    Persistent,  \* TRUE: a database store; FALSE: InMemoryJobRunStore
    HasTimeout,  \* the job has a TimeoutSeconds
    Faults       \* what may go wrong, besides a crash:
                 \*   "giveup": the caller cancels the token of TriggerAsync
                 \*   "add", "save": AddAsync, UpdateAsync throw

ASSUME ConstantsAssumption ==
    /\ IsFiniteSet(Run)
    /\ Home \in [Run -> Node]
    /\ Cap \in Nat \ {0}
    /\ Framework \in BOOLEAN /\ Persistent \in BOOLEAN /\ HasTimeout \in BOOLEAN
    /\ Faults \subseteq {"giveup", "add", "save"}

VARIABLES
    host,      \* host[n]: the process
    pc,        \* pc[r]: where the call that carries r stands
    source,    \* source[r]: JobRun.TriggerSource
    obj,       \* obj[r]: the executor's JobRun
    saved,     \* saved[r]: the record in the store
    reported,  \* reported[r]: the last record given to the reporter
    slots,     \* runs whose slot is not disposed
    live,      \* runs with an entry in JobExecutor._live
    token,     \* token[r]: the token handed to the job is signalled
    timedOut   \* timedOut[r]: timeoutCts.IsCancellationRequested

vars == <<host, pc, source, obj, saved, reported, slots, live, token, timedOut>>

Terminal == {"Succeeded", "Failed", "Cancelled", "TimedOut"}
State    == {"Pending", "Running"} \cup Terminal
Record   == [state : State, finished : 0..2]
NoRecord == [state |-> "none", finished |-> 0]
Fresh    == [state |-> "Pending", finished |-> 0]

(* "queued": Task.Run was called; "adding": in AddAsync; "entering": in
   ContinueRunAsync, not yet in _live; "preparing": constructs the job class
   and its arguments; "finishing": in the finally block. *)
Registered == {"preparing", "invoking", "finishing"}
Working    == {"queued", "adding", "entering", "disposing"} \cup Registered
PC         == {"none", "over"} \cup Working

(* "starting": StartAsync of the hosted services; "stopping": the application
   is told to stop, "stopped": so is the scheduler. *)
HostState == {"down", "starting", "up", "stopping", "stopped"}

Here(n)    == {r \in Run : Home[r] = n}
Held(n)    == slots \cap Here(n)
Open(rec)  == rec # NoRecord /\ rec.state \in {"Pending", "Running"}

(* The token a run of source s is linked to has been signalled: the lifetime's
   ApplicationStopping for a manual run, the scheduler's for a cron run. *)
Signalled(n, s) == host[n] = "stopped" \/ (host[n] = "stopping" /\ s = "Manual")

Init ==
    /\ host     = [n \in Node |-> "down"]
    /\ pc       = [r \in Run |-> "none"]
    /\ source   = [r \in Run |-> "Cron"]
    /\ obj      = [r \in Run |-> Fresh]
    /\ saved    = [r \in Run |-> NoRecord]
    /\ reported = [r \in Run |-> NoRecord]
    /\ slots    = {}
    /\ live     = {}
    /\ token    = [r \in Run |-> FALSE]
    /\ timedOut = [r \in Run |-> FALSE]

Goto(r, p) == pc' = [pc EXCEPT ![r] = p]

(* The executor's object becomes rec; the in-memory store holds that object. *)
Assign(r, rec) ==
    /\ obj'   = [obj EXCEPT ![r] = rec]
    /\ saved' = IF Persistent \/ saved[r] = NoRecord THEN saved
                ELSE [saved EXCEPT ![r] = rec]
    /\ UNCHANGED reported

(* The object becomes rec, the store takes it, then the reporter. *)
Save(r, rec) ==
    /\ obj'      = [obj EXCEPT ![r] = rec]
    /\ saved'    = [saved EXCEPT ![r] = rec]
    /\ reported' = [reported EXCEPT ![r] = rec]

(* A bug for SaveThrows: the reporter is called before the store. *)
SaveThrowsAfterReport(r, rec) ==
    /\ Persistent
    /\ obj'      = [obj EXCEPT ![r] = rec]
    /\ saved' \in {saved, [saved EXCEPT ![r] = rec]}
    /\ reported' = [reported EXCEPT ![r] = rec]

(* The object becomes rec, but the store throws: before or after the database
   has committed.  The reporter is not reached. *)
SaveThrows(r, rec) ==
    /\ Persistent
    /\ obj'   = [obj EXCEPT ![r] = rec]
    /\ saved' \in {saved, [saved EXCEPT ![r] = rec]}
    /\ UNCHANGED reported

--------------------------------------------------------------------------------
(* Starting a run *)

TakeSlot(r, s, p) ==
    /\ pc[r] = "none"
    /\ Cardinality(Held(Home[r])) < Cap
    /\ slots'  = slots \cup {r}
    /\ source' = [source EXCEPT ![r] = s]
    /\ Goto(r, p)
    /\ UNCHANGED <<host, obj, saved, reported, live, token, timedOut>>

(* TriggerAsync: a request may still come in while the host stops. *)
TriggerSlot(r) ==
    /\ host[Home[r]] \in {"up", "stopping", "stopped"}
    /\ TakeSlot(r, "Manual", "adding")

(* The scheduler finds the job due.  The generic host starts the scheduler
   before the other hosted services, DuckRunInstance after them. *)
CronSlot(r) ==
    /\ host[Home[r]] \in {"up", "stopping"} \cup (IF Framework THEN {} ELSE {"starting"})
    /\ TakeSlot(r, "Cron", "queued")

(* The thread pool runs the task. *)
TaskStarts(r) ==
    /\ pc[r] = "queued"
    /\ Goto(r, IF source[r] = "Manual" THEN "entering" ELSE "adding")
    /\ UNCHANGED <<host, source, obj, saved, reported, slots, live, token,
                   timedOut>>

(* Task.Run(.., token) never runs a task whose token is signalled first: the
   finally block that disposes the slot does not run either. *)
TaskDropped(r) ==
    /\ pc[r] = "queued"
    /\ IF source[r] = "Manual" THEN "giveup" \in Faults
                               ELSE Signalled(Home[r], "Cron")
    /\ Goto(r, "over")
    /\ UNCHANGED <<host, source, obj, saved, reported, slots, live, token,
                   timedOut>>

(* A bug for Added: TriggerAsync disposes the slot when it returns. *)
AddedSlotInUsing(r) ==
    /\ pc[r] = "adding"
    /\ Save(r, Fresh)
    /\ Goto(r, IF source[r] = "Manual" THEN "queued" ELSE "entering")
    /\ slots' = IF source[r] = "Manual" THEN slots \ {r} ELSE slots
    /\ UNCHANGED <<host, source, live, token, timedOut>>

(* CreateAndStoreRunAsync.  A manual run is queued next. *)
Added(r) ==
    /\ pc[r] = "adding"
    /\ Save(r, Fresh)
    /\ Goto(r, IF source[r] = "Manual" THEN "queued" ELSE "entering")
    /\ UNCHANGED <<host, source, slots, live, token, timedOut>>

(* AddAsync throws.  The task of a cron run disposes the slot; TriggerAsync
   just passes the exception on. *)
AddThrows(r) ==
    /\ pc[r] = "adding"
    /\ "add" \in Faults \/ (source[r] = "Manual" /\ "giveup" \in Faults)
    /\ SaveThrows(r, Fresh)
    /\ Goto(r, IF source[r] = "Manual" THEN "over" ELSE "disposing")
    /\ UNCHANGED <<host, source, slots, live, token, timedOut>>

--------------------------------------------------------------------------------
(* ContinueRunAsync *)

(* CreateScope throws once the container is disposed (DuckRun.Core). *)
ScopeThrows(r) ==
    /\ pc[r] = "entering"
    /\ ~Framework
    /\ host[Home[r]] = "stopped"
    /\ Goto(r, "disposing")
    /\ UNCHANGED <<host, source, obj, saved, reported, slots, live, token,
                   timedOut>>

(* The token sources exist and the run is in _live. *)
Register(r) ==
    /\ pc[r] = "entering"
    /\ live'  = live \cup {r}
    /\ token' = [token EXCEPT ![r] = Signalled(Home[r], source[r])]
    /\ Goto(r, "preparing")
    /\ UNCHANGED <<host, source, obj, saved, reported, slots, timedOut>>

(* A bug for FailEarly: the return after the failure is missing. *)
FailEarlyNoReturn(r) ==
    /\ pc[r] = "preparing"
    /\ Save(r, [state |-> "Failed", finished |-> 1])
    /\ Goto(r, "preparing")
    /\ UNCHANGED <<host, source, slots, live, token, timedOut>>

(* The run fails before it is invoked: state and FinishedAt are set and saved,
   then the finally block follows. *)
FailEarly(r) ==
    /\ pc[r] = "preparing"
    /\ LET rec == [state |-> "Failed", finished |-> 1]
       IN  Save(r, rec) \/ ("save" \in Faults /\ SaveThrows(r, rec))
    /\ Goto(r, "finishing")
    /\ UNCHANGED <<host, source, slots, live, token, timedOut>>

ConstructThrows(r) == FailEarly(r)

(* A bug for ArgsThrow: the exception goes straight to the finally block. *)
ArgsThrowUncaught(r) ==
    /\ pc[r] = "preparing"
    /\ Goto(r, "finishing")
    /\ UNCHANGED <<host, source, obj, saved, reported, slots, live, token,
                   timedOut>>

(* BuildArguments throws: nobody in DuckRun.Core catches it. *)
ArgsThrow(r) ==
    IF Framework THEN FailEarly(r)
    ELSE /\ pc[r] = "preparing"
         /\ Goto(r, "finishing")
         /\ UNCHANGED <<host, source, obj, saved, reported, slots, live, token,
                        timedOut>>

MarkRunning(r) ==
    /\ pc[r] = "preparing"
    /\ LET rec == [obj[r] EXCEPT !.state = "Running"]
       IN  \/ Save(r, rec) /\ Goto(r, "invoking")
           \/ "save" \in Faults /\ SaveThrows(r, rec) /\ Goto(r, "finishing")
    /\ UNCHANGED <<host, source, slots, live, token, timedOut>>

(* The job method is over, with outcome s. *)
Outcome(r, s) ==
    /\ pc[r] = "invoking"
    /\ Assign(r, [obj[r] EXCEPT !.state = s])
    /\ Goto(r, "finishing")
    /\ UNCHANGED <<host, source, slots, live, token, timedOut>>

(* The job returns or throws, with no regard to its token. *)
JobReturns(r) == Outcome(r, "Succeeded")
JobThrows(r)  == Outcome(r, "Failed")

(* The job throws an OperationCanceledException: because of its token, or one
   of its own. *)
JobCancelled(r) == Outcome(r, IF timedOut[r] THEN "TimedOut" ELSE "Cancelled")

(* The finally block.  If the last save throws, the entry in _live stays. *)
Finish(r) ==
    /\ pc[r] = "finishing"
    /\ LET rec == [obj[r] EXCEPT !.finished = @ + 1]
       IN  \/ Save(r, rec) /\ live' = live \ {r}
           \/ "save" \in Faults /\ SaveThrows(r, rec) /\ UNCHANGED live
    /\ Goto(r, "disposing")
    /\ UNCHANGED <<host, source, slots, token, timedOut>>

(* The finally block of the task. *)
DisposeSlot(r) ==
    /\ pc[r] = "disposing"
    /\ slots' = slots \ {r}
    /\ Goto(r, "over")
    /\ UNCHANGED <<host, source, obj, saved, reported, live, token, timedOut>>

--------------------------------------------------------------------------------
(* Signals *)

(* CancelAsync, by somebody who knows the run's id.  A token source that is
   already disposed throws, and the throw is swallowed. *)
Cancel(r) ==
    /\ host[Home[r]] # "down"
    /\ saved[r] # NoRecord /\ pc[r] # "over"
    /\ token' = [token EXCEPT ![r] = @ \/ (r \in live /\ pc[r] \in Registered)]
    /\ UNCHANGED <<host, pc, source, obj, saved, reported, slots, live,
                   timedOut>>

(* A bug for TimerFires: the token handed out is not linked to the timeout. *)
TimerFiresUnlinked(r) ==
    /\ HasTimeout
    /\ pc[r] \in Registered
    /\ timedOut' = [timedOut EXCEPT ![r] = TRUE]
    /\ UNCHANGED <<host, pc, source, obj, saved, reported, slots, live, token>>

TimerFires(r) ==
    /\ HasTimeout
    /\ pc[r] \in Registered
    /\ timedOut' = [timedOut EXCEPT ![r] = TRUE]
    /\ token'    = [token EXCEPT ![r] = TRUE]
    /\ UNCHANGED <<host, pc, source, obj, saved, reported, slots, live>>

--------------------------------------------------------------------------------
(* The host *)

StartHost(n) ==
    /\ host[n] = "down"
    /\ host' = [host EXCEPT ![n] = "starting"]
    /\ UNCHANGED <<pc, source, obj, saved, reported, slots, live, token,
                   timedOut>>

(* ReplayInterruptedRunsAsync of one row. *)
Replayed(rec) ==
    IF Open(rec) THEN [state |-> "Failed",
                       finished |-> IF rec.finished = 0 THEN 1 ELSE rec.finished]
    ELSE rec

(* A bug for Boot: pending rows are forgotten. *)
BootForgetsPending(n) ==
    /\ host[n] = "starting"
    /\ host'  = [host EXCEPT ![n] = "up"]
    /\ saved' = IF Persistent
                THEN [r \in Run |-> IF saved[r].state = "Pending" THEN saved[r]
                                    ELSE Replayed(saved[r])]
                ELSE saved
    /\ UNCHANGED <<pc, source, obj, reported, slots, live, token, timedOut>>

(* A bug for Boot: the rows are replayed when all services have started. *)
BootLate(n) ==
    /\ host[n] \in {"starting", "up"}
    /\ host'  = [host EXCEPT ![n] = "up"]
    /\ saved' = IF Persistent /\ host[n] = "up"
                THEN [r \in Run |-> Replayed(saved[r])] ELSE saved
    /\ UNCHANGED <<pc, source, obj, reported, slots, live, token, timedOut>>

(* The hosted services have started.  With a database, SchemaBootstrap has
   closed every open row, whoever wrote it. *)
Boot(n) ==
    /\ host[n] = "starting"
    /\ host'  = [host EXCEPT ![n] = "up"]
    /\ saved' = IF Persistent THEN [r \in Run |-> Replayed(saved[r])] ELSE saved
    /\ UNCHANGED <<pc, source, obj, reported, slots, live, token, timedOut>>

(* The tokens of n's runs that are linked to a signal of source in s. *)
Signal(n, s) ==
    token' = [r \in Run |-> token[r] \/ (Home[r] = n /\ pc[r] \in Registered
                                         /\ source[r] \in s)]

(* The generic host signals ApplicationStopping first and stops its services
   then; DuckRunInstance has one token for both. *)
BeginStop(n) ==
    /\ host[n] = "up"
    /\ host' = [host EXCEPT ![n] = IF Framework THEN "stopped" ELSE "stopping"]
    /\ Signal(n, IF Framework THEN {"Manual", "Cron"} ELSE {"Manual"})
    /\ UNCHANGED <<pc, source, obj, saved, reported, slots, live, timedOut>>

StopScheduler(n) ==
    /\ host[n] = "stopping"
    /\ host' = [host EXCEPT ![n] = "stopped"]
    /\ Signal(n, {"Cron"})
    /\ UNCHANGED <<pc, source, obj, saved, reported, slots, live, timedOut>>

(* The process ends, by a crash, a start that fails or a stop: nobody waits
   for the runs.  What was only in memory is gone. *)
Die(n) ==
    /\ host[n] # "down"
    /\ host'  = [host EXCEPT ![n] = "down"]
    /\ pc'    = [r \in Run |-> IF r \in Here(n) /\ pc[r] # "none" THEN "over"
                               ELSE pc[r]]
    /\ saved' = [r \in Run |-> IF r \in Here(n) /\ ~Persistent THEN NoRecord
                               ELSE saved[r]]
    /\ slots' = slots \ Here(n)
    /\ live'  = live \ Here(n)
    /\ UNCHANGED <<source, obj, reported, token, timedOut>>

--------------------------------------------------------------------------------

Next ==
    \/ \E r \in Run :
          \/ TriggerSlot(r) \/ CronSlot(r) \/ TaskStarts(r) \/ TaskDropped(r)
          \/ Added(r) \/ AddThrows(r) \/ ScopeThrows(r) \/ Register(r)
          \/ ConstructThrows(r) \/ ArgsThrow(r) \/ MarkRunning(r)
          \/ JobReturns(r) \/ JobThrows(r) \/ JobCancelled(r)
          \/ Finish(r) \/ DisposeSlot(r) \/ Cancel(r) \/ TimerFires(r)
    \/ \E n \in Node :
          \/ StartHost(n) \/ Boot(n) \/ BeginStop(n) \/ StopScheduler(n) \/ Die(n)

Spec == Init /\ [][Next]_vars

(* The thread pool runs what it was given, the store answers, the timer fires,
   and a job whose token is signalled ends; a process whose host was told to
   stop is gone some day.  A job may ignore every other reason to end; nothing
   is assumed of callers, crashes and starts. *)
Fairness ==
    /\ \A n \in Node : WF_vars(StopScheduler(n)) /\ WF_vars(host[n] = "stopped" /\ Die(n))
    /\ \A r \in Run :
       /\ WF_vars(TaskStarts(r)) /\ WF_vars(Added(r)) /\ WF_vars(Register(r))
       /\ WF_vars(ConstructThrows(r) \/ MarkRunning(r))
       /\ WF_vars(TimerFires(r)) /\ WF_vars(token[r] /\ JobCancelled(r))
       /\ WF_vars(Finish(r)) /\ WF_vars(DisposeSlot(r))

FairSpec == Spec /\ Fairness

--------------------------------------------------------------------------------
(* Properties *)

(* Every variable keeps its type; FinishedAt is assigned twice at most. *)
TypeOK ==
    /\ host     \in [Node -> HostState]
    /\ pc       \in [Run -> PC]
    /\ source   \in [Run -> {"Manual", "Cron"}]
    /\ obj      \in [Run -> Record]
    /\ saved    \in [Run -> Record \cup {NoRecord}]
    /\ reported \in [Run -> Record \cup {NoRecord}]
    /\ slots    \subseteq Run
    /\ live     \subseteq Run
    /\ token    \in [Run -> BOOLEAN]
    /\ timedOut \in [Run -> BOOLEAN]

(* A process never runs more of the job than its limit, however its runs fail,
   are cancelled or time out (JobExecutor runs inside the slot's lifetime). *)
WithinCap ==
    \A n \in Node :
        Cardinality({r \in Here(n) : pc[r] \in Registered}) <= Cap

(* A record with FinishedAt says how the run ended. *)
FinishedIsTerminal ==
    \A r \in Run : saved[r].finished # 0 => saved[r].state \in Terminal

(* Once a finished record is stored its outcome does not change any more,
   not by the finally block either (while the store keeps it at all). *)
OutcomeStays ==
    [][\A r \in Run : saved[r].finished # 0 /\ saved'[r] # NoRecord
          => saved'[r].state = saved[r].state]_vars

(* The dashboard is never ahead of the store: no state is reported that the
   store did not take, in whatever order saves fail. *)
Progress(rec) == CASE rec = NoRecord -> 0
                   [] rec.state = "Pending" /\ rec.finished = 0 -> 1
                   [] rec.state = "Running" /\ rec.finished = 0 -> 2
                   [] OTHER -> 3
ReportFollowsStore ==
    Persistent => \A r \in Run : Progress(reported[r]) <= Progress(saved[r])

(* On a process that has booted, a record without FinishedAt belongs to a run
   in progress: what a crash or a restart interrupted was closed.  Only an
   AddAsync that throws although the database has committed leaves a row that
   nobody works on, and nobody was told of. *)
OpenMeansInFlight ==
    \A r \in Run :
        host[Home[r]] = "up" /\ saved[r] # NoRecord /\ saved[r].finished = 0
            => pc[r] \in Working \/ (saved[r] = Fresh /\ reported[r] = NoRecord)

(* The replay on boot closes the records of interrupted runs, never that of a
   run in progress: such a record is closed by its own run. *)
ReplaysOnlyStuck ==
    [][\A r \in Run : Open(saved[r]) /\ ~Open(saved'[r]) /\ pc[r] \in Working
          => pc'[r] # pc[r]]_vars

(* With a timeout and a job that honours its token, every run ends and gives
   its slot back, whatever its constructor, arguments, method and cancellers
   do. *)
SlotsComeBack == \A r \in Run : r \in slots ~> r \notin slots
==============================================================================
