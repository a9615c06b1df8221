----------------------------- MODULE Reporting -------------------------------
(***************************************************************************)
(* From a process to the Control Dashboard: GrpcDashboardReporter queues   *)
(* run records and console lines in two channels, one loop per channel     *)
(* sends them in batches, and IngestServiceImpl writes each batch to the   *)
(* dashboard's database, after ApiKeyAuthInterceptor has looked the key of *)
(* the DSN up.                                                             *)
(*                                                                         *)
(* A call can fail on the client although the dashboard goes on handling   *)
(* it.  The loop then drops the batch and sends the next one, so the calls *)
(* of a channel can overlap on the dashboard.  A handler reads the rows it *)
(* is going to change one by one and writes all of them in one             *)
(* SaveChanges, an UPDATE of the columns that differ from what it read.    *)
(***************************************************************************)
EXTENDS Naturals, SequencesExt

CONSTANTS
    Run,       \* runs that this process reports
    Lines,     \* number of console lines it writes, numbered from 1
    Batch,     \* records per call (100 runs, 200 lines in the code)
    MaxOpen    \* calls of a channel the dashboard may be handling at a time:
               \* a bound for TLC

ASSUME ReportingAssumption ==
    /\ Lines \in Nat
    /\ Batch \in Nat \ {0}
    /\ MaxOpen \in Nat \ {0}

Channel == {"runs", "logs"}
State   == {"Pending", "Running", "Finished"}

(* What a channel carries: records of runs, or numbered lines. *)
Record   == [about : Run, news : State]
Line     == [about : 1 .. Lines, news : {"line"}]
Item(ch) == IF ch = "runs" THEN Record ELSE Line

(* The columns of a run's row that SendRuns treats differently: State is
   always overwritten, FinishedAt only by a value. *)
Row    == [state : State, finished : BOOLEAN]
NoRow  == [state |-> "absent", finished |-> FALSE]
Unread == [state |-> "unread", finished |-> FALSE]

Call    == Channel \X (1 .. MaxOpen)
NoCall  == <<"none", 0>>

VARIABLES
    said,      \* said[r]: the last state of r that was reported
    written,   \* console lines written so far
    queue,     \* queue[ch]: the Channel<T>
    loop,      \* loop[ch]: where the flush loop stands
    current,   \* current[ch]: the call it awaits
    stopped,   \* _stop is cancelled and the writers are completed
    revoked,   \* the DSN's key has a RevokedAt
    phase,     \* phase[c]: where the dashboard's handler stands
    batch,     \* batch[c]: the records of the call it has not come to
    orig,      \* orig[c][r]: r's row as the handler read it
    edit,      \* edit[c][r]: the entity it is going to save
    rows,      \* rows[r]: the dashboard's record of the run
    shown,     \* the dashboard's console lines, by Id
    lost       \* history: runs whose final record was in a call that failed on
               \* the client, or was still queued when the loop ended

vars == <<said, written, queue, loop, current, stopped, revoked, phase, batch,
          orig, edit, rows, shown, lost>>

handlers == <<phase, batch, orig, edit>>
database == <<rows, shown>>

Rank(s) == CASE s \in {"none", "absent", "unread"} -> 0
             [] s = "Pending"  -> 1
             [] s = "Running"  -> 2
             [] s = "Finished" -> 3

Finals(items) ==
    {r \in Run : \E i \in 1 .. Len(items) :
                     items[i] = [about |-> r, news |-> "Finished"]}

Open(c) == phase[c] # "idle"

Init ==
    /\ said    = [r \in Run |-> "none"]
    /\ written = 0
    /\ queue   = [ch \in Channel |-> <<>>]
    /\ loop    = [ch \in Channel |-> "waiting"]
    /\ current = [ch \in Channel |-> NoCall]
    /\ stopped = FALSE
    /\ revoked = FALSE
    /\ phase   = [c \in Call |-> "idle"]
    /\ batch   = [c \in Call |-> <<>>]
    /\ orig    = [c \in Call |-> [r \in Run |-> Unread]]
    /\ edit    = [c \in Call |-> [r \in Run |-> Unread]]
    /\ rows    = [r \in Run |-> NoRow]
    /\ shown   = <<>>
    /\ lost    = {}

--------------------------------------------------------------------------------
(* The process *)

(* TryWrite: the channel takes everything until its writer is completed. *)
TryWrite(ch, item) ==
    IF stopped THEN /\ lost' = lost \cup Finals(<<item>>)
                    /\ UNCHANGED queue
               ELSE /\ queue' = [queue EXCEPT ![ch] = Append(@, item)]
                    /\ UNCHANGED lost

(* The executor reports a run after each save: pending, running (unless it
   could not be prepared), finished. *)
ReportRun(r, news) ==
    /\ IF said[r] = "none" THEN news = "Pending" ELSE Rank(said[r]) < Rank(news)
    /\ said' = [said EXCEPT ![r] = news]
    /\ TryWrite("runs", [about |-> r, news |-> news])
    /\ UNCHANGED <<written, loop, current, stopped, revoked, handlers, database>>

ReportLog ==
    /\ written < Lines
    /\ written' = written + 1
    /\ TryWrite("logs", [about |-> written + 1, news |-> "line"])
    /\ UNCHANGED <<said, loop, current, stopped, revoked, handlers, database>>

(* StopAsync cancels before it completes the writers; the loops see it later. *)
StopAsync ==
    /\ ~stopped
    /\ stopped' = TRUE
    /\ UNCHANGED <<said, written, queue, loop, current, revoked, handlers,
                   database, lost>>

--------------------------------------------------------------------------------
(* FlushRunsAsync and FlushLogsAsync *)

(* What WaitToReadAsync waited for: up to Batch records, one call. *)
Send(ch, c) ==
    LET n == Min({Len(queue[ch]), Batch})
    IN  /\ loop[ch] = "waiting"
        /\ queue[ch] # <<>>
        /\ ~stopped
        /\ c[1] = ch /\ ~Open(c)
        /\ batch'   = [batch EXCEPT ![c] = SubSeq(queue[ch], 1, n)]
        /\ queue'   = [queue EXCEPT ![ch] = SubSeq(@, n + 1, Len(@))]
        /\ phase'   = [phase EXCEPT ![c] = "sent"]
        /\ current' = [current EXCEPT ![ch] = c]
        /\ loop'    = [loop EXCEPT ![ch] = "sending"]
        /\ UNCHANGED <<said, written, stopped, revoked, orig, edit, database, lost>>

(* The loop stops waiting for its call: the delay before the next batch. *)
Pause(ch) ==
    /\ loop'    = [loop EXCEPT ![ch] = "pausing"]
    /\ current' = [current EXCEPT ![ch] = NoCall]

(* The dashboard is done with the call, whoever still waits for it. *)
Close(c) ==
    /\ phase' = [phase EXCEPT ![c] = "idle"]
    /\ batch' = [batch EXCEPT ![c] = <<>>]
    /\ orig'  = [orig EXCEPT ![c] = [r \in Run |-> Unread]]
    /\ edit'  = [edit EXCEPT ![c] = [r \in Run |-> Unread]]

(* Final records of call c, those its handler has come to included. *)
FinalsOf(c) == Finals(batch[c]) \cup {r \in Run : edit[c][r].state = "Finished"}

(* A bug for CallFails: the batch is sent once more. *)
CallFailsRetries(ch) ==
    /\ loop[ch] = "sending"
    /\ Pause(ch)
    /\ queue' = [queue EXCEPT ![ch] = batch[current[ch]] \o @]
    /\ UNCHANGED <<said, written, stopped, revoked, handlers, database, lost>>

(* A bug for CallFails: the batch goes to the end of the channel. *)
CallFailsRequeues(ch) ==
    /\ loop[ch] = "sending"
    /\ phase[current[ch]] = "sent"
    /\ Pause(ch)
    /\ queue' = [queue EXCEPT ![ch] = @ \o batch[current[ch]]]
    /\ Close(current[ch])
    /\ UNCHANGED <<said, written, stopped, revoked, database, lost>>

(* A bug for CallFails: the exception ends the loop. *)
CallFailsEndsLoop(ch) ==
    /\ loop[ch] = "sending"
    /\ loop'    = [loop EXCEPT ![ch] = "ended"]
    /\ current' = [current EXCEPT ![ch] = NoCall]
    /\ lost' = lost \cup FinalsOf(current[ch])
    /\ UNCHANGED <<said, written, queue, stopped, revoked, handlers, database>>

(* An exception of the call: it is logged, its batch is dropped. *)
CallFails(ch) ==
    /\ loop[ch] = "sending"
    /\ Pause(ch)
    /\ lost' = lost \cup FinalsOf(current[ch])
    /\ \/ UNCHANGED handlers
       \/ phase[current[ch]] = "sent" /\ Close(current[ch])
    /\ UNCHANGED <<said, written, queue, stopped, revoked, database>>

DelayEnds(ch) ==
    /\ loop[ch] = "pausing"
    /\ ~stopped
    /\ loop' = [loop EXCEPT ![ch] = "waiting"]
    /\ UNCHANGED <<said, written, queue, current, stopped, revoked, handlers,
                   database, lost>>

(* The loop meets the cancelled token wherever it stands.  It does not read
   what the channel still holds; a call under way is cancelled. *)
LoopEnds(ch) ==
    /\ stopped
    /\ loop[ch] # "ended"
    /\ loop'    = [loop EXCEPT ![ch] = "ended"]
    /\ current' = [current EXCEPT ![ch] = NoCall]
    /\ queue'   = [queue EXCEPT ![ch] = <<>>]
    /\ lost'    = lost \cup Finals(queue[ch])
                       \cup (IF loop[ch] = "sending" THEN FinalsOf(current[ch]) ELSE {})
    /\ UNCHANGED <<said, written, stopped, revoked, handlers, database>>

--------------------------------------------------------------------------------
(* The dashboard *)

(* The handler's call ends: the client, if it still waits, has its answer.
   An answer that is an exception drops the batch. *)
Answer(c, ok) ==
    IF current[c[1]] = c
    THEN /\ Pause(c[1])
         /\ lost' = IF ok THEN lost ELSE lost \cup FinalsOf(c)
    ELSE UNCHANGED <<loop, current, lost>>

(* ResolveAsync: every call looks the key up. *)
Authenticate(c) ==
    /\ phase[c] = "sent"
    /\ ~revoked
    /\ phase' = [phase EXCEPT ![c] = "handling"]
    /\ UNCHANGED <<said, written, queue, loop, current, stopped, revoked, batch,
                   orig, edit, database, lost>>

RejectKey(c) ==
    /\ phase[c] = "sent"
    /\ revoked
    /\ Close(c)
    /\ Answer(c, FALSE)
    /\ UNCHANGED <<said, written, queue, stopped, revoked, database>>

(* A bug for Upserted: FinishedAt is overwritten like the other columns. *)
UpsertedPlainly(row, news) ==
    [state |-> news, finished |-> news = "Finished"]

(* FinishedAt is taken from the record, or kept. *)
Upserted(row, news) ==
    [state |-> news, finished |-> news = "Finished" \/ row.finished]

(* SendRuns: FindAsync for the next record, a query unless an earlier record
   of the batch was about the same run; the entity is added or changed. *)
FindAsync(c) ==
    LET item  == Head(batch[c])
        r     == item.about
        first == orig[c][r] = Unread
        row   == IF first THEN rows[r] ELSE edit[c][r]
    IN  /\ phase[c] = "handling"
        /\ c[1] = "runs" /\ batch[c] # <<>>
        /\ orig'  = [orig EXCEPT ![c][r] = IF first THEN row ELSE @]
        /\ edit'  = [edit EXCEPT ![c][r] = Upserted(row, item.news)]
        /\ batch' = [batch EXCEPT ![c] = Tail(@)]
        /\ UNCHANGED <<said, written, queue, loop, current, stopped, revoked,
                       phase, database, lost>>

(* The INSERT of a row that another call has inserted since. *)
Conflict(c) == \E r \in Run : orig[c][r] = NoRow /\ rows[r] # NoRow

(* An UPDATE names the columns that differ from what was read. *)
Written(c, r) ==
    LET o == orig[c][r]
        e == edit[c][r]
    IN  CASE o = Unread -> rows[r]
          [] o = NoRow  -> e
          [] OTHER      ->
               [state    |-> IF e.state = o.state THEN rows[r].state ELSE e.state,
                finished |-> IF e.finished = o.finished THEN rows[r].finished
                                                        ELSE e.finished]

(* SaveChangesAsync: one transaction. *)
SaveRuns(c) ==
    /\ phase[c] = "handling"
    /\ c[1] = "runs" /\ batch[c] = <<>>
    /\ ~Conflict(c)
    /\ rows' = [r \in Run |-> Written(c, r)]
    /\ Close(c)
    /\ Answer(c, TRUE)
    /\ UNCHANGED <<said, written, queue, stopped, revoked, shown>>

SaveLogs(c) ==
    /\ phase[c] = "handling"
    /\ c[1] = "logs"
    /\ shown' = shown \o batch[c]
    /\ Close(c)
    /\ Answer(c, TRUE)
    /\ UNCHANGED <<said, written, queue, stopped, revoked, rows>>

(* A conflict, a database that fails, or a handler that sees the connection
   gone: the transaction is rolled back. *)
HandlerThrows(c) ==
    /\ phase[c] = "handling"
    /\ Close(c)
    /\ Answer(c, FALSE)
    /\ UNCHANGED <<said, written, queue, stopped, revoked, database>>

(* RevokeAsync in the web interface. *)
RevokeAsync ==
    /\ ~revoked
    /\ revoked' = TRUE
    /\ UNCHANGED <<said, written, queue, loop, current, stopped, handlers,
                   database, lost>>

--------------------------------------------------------------------------------
Report == ReportLog \/ \E r \in Run, news \in State : ReportRun(r, news)

Flush(ch) ==
    \/ \E c \in Call : Send(ch, c)
    \/ DelayEnds(ch)
    \/ LoopEnds(ch)

Handle(c) ==
    \/ Authenticate(c)
    \/ RejectKey(c)
    \/ FindAsync(c)
    \/ SaveRuns(c)
    \/ SaveLogs(c)
    \/ HandlerThrows(c)

Next ==
    \/ Report
    \/ StopAsync
    \/ RevokeAsync
    \/ \E ch \in Channel : Flush(ch) \/ CallFails(ch)
    \/ \E c \in Call : Handle(c)

Spec == Init /\ [][Next]_vars

(* The loops are tasks of the thread pool; the dashboard ends every call it
   was sent, in one way or another. *)
Fairness ==
    /\ \A ch \in Channel : WF_vars(Flush(ch))
    /\ \A c \in Call : WF_vars(Handle(c))

FairSpec == Spec /\ Fairness

--------------------------------------------------------------------------------
TypeOK ==
    /\ said \in [Run -> State \cup {"none"}]
    /\ written \in 0 .. Lines
    /\ DOMAIN queue = Channel /\ \A ch \in Channel : queue[ch] \in Seq(Item(ch))
    /\ loop \in [Channel -> {"waiting", "sending", "pausing", "ended"}]
    /\ current \in [Channel -> Call \cup {NoCall}]
    /\ \A ch \in Channel : loop[ch] = "sending" => current[ch] \in Call
    /\ stopped \in BOOLEAN
    /\ revoked \in BOOLEAN
    /\ phase \in [Call -> {"idle", "sent", "handling"}]
    /\ DOMAIN batch = Call
    /\ \A c \in Call : batch[c] \in Seq(Item(c[1])) /\ Len(batch[c]) <= Batch
    /\ orig \in [Call -> [Run -> Row \cup {NoRow, Unread}]]
    /\ edit \in [Call -> [Run -> Row \cup {Unread}]]
    /\ rows \in [Run -> Row \cup {NoRow}]
    /\ shown \in Seq(Line)
    /\ lost \in SUBSET Run

(* A run that the dashboard shows as finished keeps its FinishedAt, whatever
   calls overlap and in whatever order they are saved (IngestServiceImpl.SendRuns
   keeps the existing value when a record has none). *)
FinishedStays ==
    [][\A r \in Run : rows[r].finished => rows'[r].finished]_vars

(* A row goes back to an earlier state only when a call is saved that the
   reporter had already given up: the loop awaits each call, sends in the order
   of the channel and never sends a batch again (FlushRunsAsync). *)
OnlyAbandonedCallsRegress ==
    [][\A r \in Run :
           Rank(rows'[r].state) < Rank(rows[r].state) =>
               \E c \in Call : /\ Open(c) /\ phase'[c] = "idle"
                               /\ current[c[1]] # c]_vars

(* No console line is stored twice, although calls fail after they were saved
   (FlushLogsAsync drops a failed batch, it does not retry). *)
LinesOnce ==
    \A i, j \in 1 .. Len(shown) : i # j => shown[i] # shown[j]

(* The final record of a run reaches the dashboard unless its own call failed
   or the reporter was stopped: a failed call does not end the loop, and a
   record that stays behind in the channel is picked up. *)
FinalArrives ==
    \A r \in Run :
        said[r] = "Finished" ~> rows[r].finished \/ r \in lost
==============================================================================
