---------------------------- MODULE ConsoleStores ----------------------------
(***************************************************************************)
(* The two stores of console lines.  InMemoryConsoleStore keeps a bucket   *)
(* per run in a concurrent dictionary and evicts the bucket of the oldest  *)
(* run; jobs append to it from any number of threads, and only the list    *)
(* that orders the runs is behind a lock.  EfCoreConsoleStore, of which    *)
(* Ef6ConsoleStore is the twin on .NET Framework, puts the lines in a      *)
(* channel, from which one loop inserts them into the database in batches. *)
(*                                                                         *)
(* A process has one of the two: Init picks it.                            *)
(***************************************************************************)
EXTENDS Naturals, FiniteSets, SequencesExt

CONSTANTS
    Run,        \* runs that write to the console
    Writer,     \* threads they write from
    MaxRuns,    \* buckets to keep: RunsRetainedPerJob times the number of jobs
    MaxPerRun,  \* lines to keep per bucket: ConsoleEntriesPerRun
    Batch,      \* ConsoleFlushBatchSize
    Lines       \* lines written in all: a bound for TLC

NoRun == "none"

ASSUME ConsoleAssumption ==
    /\ NoRun \notin Run
    /\ IsFiniteSet(Run) /\ IsFiniteSet(Writer)
    /\ MaxRuns \in Nat \ {0}
    /\ MaxPerRun \in Nat \ {0}
    /\ Batch \in Nat \ {0}
    /\ Lines \in Nat

VARIABLES
    store,     \* the IConsoleStore of the process
    appended,  \* lines written so far, by which the next one is numbered
    pc,        \* pc[w]: where w stands in Append
    run,       \* run[w]: the run whose line w appends
    orphan,    \* orphan[w]: w's bucket is no longer the one in _byRun
    kept,      \* kept[r]: lines in r's bucket of _byRun, Absent without one
    order,     \* _order, newest first
    victim,    \* the run that the holder of _orderLock is evicting
    channel, batch, loop, stopped,  \* the flush loop of EfCoreConsoleStore
    table,     \* the numbers of the lines in the database, by Id
    failed     \* the numbers of the lines that a failed flush dropped

vars == <<store, appended, pc, run, orphan, kept, order, victim, channel,
          batch, loop, stopped, table, failed>>

memory   == <<pc, run, orphan, kept, order, victim>>
database == <<channel, batch, loop, stopped, table, failed>>

Absent == MaxPerRun + 1
Here   == {r \in Run : kept[r] # Absent}

Init ==
    /\ store \in {"memory", "database"}
    /\ appended = 0
    /\ pc       = [w \in Writer |-> "idle"]
    /\ run      = [w \in Writer |-> NoRun]
    /\ orphan   = [w \in Writer |-> FALSE]
    /\ kept     = [r \in Run |-> Absent]
    /\ order    = <<>>
    /\ victim   = NoRun
    /\ channel  = <<>>
    /\ batch    = <<>>
    /\ loop     = "waiting"
    /\ stopped  = FALSE
    /\ table    = <<>>
    /\ failed   = {}

Goto(w, p) == pc' = [pc EXCEPT ![w] = p]

--------------------------------------------------------------------------------
(* InMemoryConsoleStore.Append *)

(* TryGetValue: w has the bucket, or has to make one. *)
TryGetValue(w, r) ==
    /\ store = "memory"
    /\ pc[w] = "idle"
    /\ appended < Lines
    /\ appended' = appended + 1
    /\ run' = [run EXCEPT ![w] = r]
    /\ Goto(w, IF r \in Here THEN "appending" ELSE "missing")
    /\ UNCHANGED <<store, orphan, kept, order, victim, database>>

(* A bug for GetOrAdd: whoever found no bucket tracks the run. *)
GetOrAddTracksTwice(w) ==
    /\ pc[w] = "missing"
    /\ Goto(w, "tracking")
    /\ kept' = IF run[w] \in Here THEN kept ELSE [kept EXCEPT ![run[w]] = 0]
    /\ UNCHANGED <<store, appended, run, orphan, order, victim, database>>

(* GetOrAdd: only the thread whose bucket went in tracks the run. *)
GetOrAdd(w) ==
    /\ pc[w] = "missing"
    /\ IF run[w] \in Here
       THEN Goto(w, "appending") /\ UNCHANGED kept
       ELSE Goto(w, "tracking") /\ kept' = [kept EXCEPT ![run[w]] = 0]
    /\ UNCHANGED <<store, appended, run, orphan, order, victim, database>>

(* TrackNewRun, under _orderLock: one run more, and the last one out. *)
TrackNewRun(w) ==
    /\ pc[w] = "tracking"
    /\ victim = NoRun
    /\ IF Len(order) < MaxRuns
       THEN /\ order' = <<run[w]>> \o order
            /\ Goto(w, "appending")
            /\ UNCHANGED victim
       ELSE /\ order'  = <<run[w]>> \o SubSeq(order, 1, MaxRuns - 1)
            /\ victim' = order[MaxRuns]
            /\ Goto(w, "evicting")
    /\ UNCHANGED <<store, appended, run, orphan, kept, database>>

(* A bug for TryRemove: a bucket that some thread writes to is left alone. *)
TryRemoveUnlessBusy(w) ==
    /\ pc[w] = "evicting"
    /\ kept' = IF \E v \in Writer : pc[v] = "appending" /\ run[v] = victim
               THEN kept ELSE [kept EXCEPT ![victim] = Absent]
    /\ victim' = NoRun
    /\ Goto(w, "appending")
    /\ UNCHANGED <<store, appended, run, orphan, order, database>>

(* TryRemove, still under the lock.  Who holds the bucket goes on with it. *)
TryRemove(w) ==
    /\ pc[w] = "evicting"
    /\ kept'   = [kept EXCEPT ![victim] = Absent]
    /\ orphan' = [v \in Writer |-> orphan[v] \/ (pc[v] = "appending" /\ run[v] = victim)]
    /\ victim' = NoRun
    /\ Goto(w, "appending")
    /\ UNCHANGED <<store, appended, run, order, database>>

(* ConsoleRunLog.Append: the newest lines stay. *)
AppendToBucket(w) ==
    /\ pc[w] = "appending"
    /\ kept' = IF orphan[w] \/ kept[run[w]] >= MaxPerRun THEN kept
               ELSE [kept EXCEPT ![run[w]] = @ + 1]
    /\ Goto(w, "idle")
    /\ run'    = [run EXCEPT ![w] = NoRun]
    /\ orphan' = [orphan EXCEPT ![w] = FALSE]
    /\ UNCHANGED <<store, appended, order, victim, database>>

--------------------------------------------------------------------------------
(* EfCoreConsoleStore *)

(* Append: a completed channel refuses the line, with a warning. *)
TryWrite ==
    /\ store = "database"
    /\ appended < Lines
    /\ appended' = appended + 1
    /\ channel' = IF stopped THEN channel ELSE Append(channel, appended + 1)
    /\ failed'  = IF stopped THEN failed \cup {appended + 1} ELSE failed
    /\ UNCHANGED <<store, memory, batch, loop, stopped, table>>

(* The batch is filled up from the channel. *)
DrainAvailable ==
    LET room == Batch - Len(batch)
        n    == IF Len(channel) <= room THEN Len(channel) ELSE room
    IN  /\ batch'   = batch \o SubSeq(channel, 1, n)
        /\ channel' = SubSeq(channel, n + 1, Len(channel))

Drain ==
    /\ loop = "waiting"
    /\ ~stopped
    /\ channel # <<>>
    /\ DrainAvailable
    /\ loop' = "flushing"
    /\ UNCHANGED <<store, appended, memory, stopped, table, failed>>

(* A bug for FlushBatchAsync: a batch that could not be saved is kept, as if
   nothing of it could have been committed. *)
FlushKeepsBatch ==
    /\ loop \in {"flushing", "last"}
    /\ \/ table' = table \o batch /\ batch' = <<>>
       \/ table' = table \o batch /\ batch' = batch
    /\ loop' = IF loop = "last" THEN "ended" ELSE "waiting"
    /\ UNCHANGED <<store, appended, memory, channel, stopped, failed>>

(* A bug for FlushBatchAsync: its exception ends the loop. *)
FlushEndsLoop ==
    /\ loop \in {"flushing", "last"}
    /\ \/ /\ table' = table \o batch
          /\ loop' = IF loop = "last" THEN "ended" ELSE "waiting"
          /\ UNCHANGED failed
       \/ /\ failed' = failed \cup ToSet(batch)
          /\ loop' = "ended"
          /\ UNCHANGED table
    /\ batch' = <<>>
    /\ UNCHANGED <<store, appended, memory, channel, stopped>>

(* FlushBatchAsync: one transaction.  An exception, before the commit or of a
   commit whose answer is lost, is logged and the entries are dropped. *)
FlushBatchAsync ==
    /\ loop \in {"flushing", "last"}
    /\ \/ table' = table \o batch /\ UNCHANGED failed
       \/ table' \in {table, table \o batch} /\ failed' = failed \cup ToSet(batch)
    /\ batch' = <<>>
    /\ loop'  = IF loop = "last" THEN "ended" ELSE "waiting"
    /\ UNCHANGED <<store, appended, memory, channel, stopped>>

(* The finally block: one batch more. *)
DrainLast ==
    /\ loop = "waiting"
    /\ stopped
    /\ DrainAvailable
    /\ loop' = "last"
    /\ UNCHANGED <<store, appended, memory, stopped, table, failed>>

(* Dispose completes the channel and cancels the loop's token. *)
Dispose ==
    /\ store = "database"
    /\ ~stopped
    /\ stopped' = TRUE
    /\ UNCHANGED <<store, appended, memory, channel, batch, loop, table, failed>>

--------------------------------------------------------------------------------
AppendStep(w) ==
    \/ \E r \in Run : TryGetValue(w, r)
    \/ GetOrAdd(w)
    \/ TrackNewRun(w)
    \/ TryRemove(w)
    \/ AppendToBucket(w)

FlushLoop == Drain \/ FlushBatchAsync \/ DrainLast

Next ==
    \/ \E w \in Writer : AppendStep(w)
    \/ TryWrite
    \/ FlushLoop
    \/ Dispose

Spec == Init /\ [][Next]_vars

(* The flush loop is a task of the thread pool and the database answers. *)
FairSpec == Spec /\ WF_vars(FlushLoop)

--------------------------------------------------------------------------------
TypeOK ==
    /\ store \in {"memory", "database"}
    /\ appended \in 0 .. Lines
    /\ pc \in [Writer -> {"idle", "missing", "tracking", "evicting", "appending"}]
    /\ run \in [Writer -> Run \cup {NoRun}]
    /\ orphan \in [Writer -> BOOLEAN]
    /\ kept \in [Run -> 0 .. MaxPerRun + 1]
    /\ order \in Seq(Run) /\ Len(order) <= MaxRuns
    /\ victim \in Run \cup {NoRun}
    /\ channel \in Seq(1 .. Lines)
    /\ batch \in Seq(1 .. Lines) /\ Len(batch) <= Batch
    /\ loop \in {"waiting", "flushing", "last", "ended"}
    /\ stopped \in BOOLEAN
    /\ table \in Seq(1 .. Lines)
    /\ failed \in SUBSET (1 .. Lines)

(* The threads that have made a bucket which is not in _order yet. *)
Makers == {w \in Writer : pc[w] = "tracking"}

(* No bucket is forgotten: each is in the list that decides on evictions, once,
   or its maker is about to put it there, or it is being removed
   (InMemoryConsoleStore.Append races with TrackNewRun). *)
BucketsTracked ==
    /\ Here = ToSet(order) \cup {run[w] : w \in Makers} \cup ({victim} \ {NoRun})
    /\ \A i, j \in 1 .. Len(order) : i # j => order[i] # order[j]

(* The store holds at most MaxRuns buckets, and one for each thread that is in
   TrackNewRun ("a long-lived process doesn't leak console buffers"). *)
BuffersBounded ==
    Cardinality(Here) <=
        MaxRuns + Cardinality({w \in Writer : pc[w] \in {"tracking", "evicting"}})

(* A bucket is given up only when MaxRuns others are kept. *)
EvictsWhenFull ==
    [][\A r \in Run : kept[r] # Absent /\ kept'[r] = Absent =>
           Cardinality(ToSet(order) \ {r}) >= MaxRuns]_vars

(* What is in the database was inserted once and in the order in which it was
   written (FlushLoopAsync clears the batch whether or not it could save it). *)
StoredInOrder ==
    \A i, j \in 1 .. Len(table) : i < j => table[i] < table[j]

(* A line that the channel took is stored unless its flush failed or the store
   was disposed: a failed flush does not end the loop. *)
LinesStored ==
    \A n \in 1 .. Lines :
        n \in ToSet(channel) ~> n \in ToSet(table) \cup failed \/ stopped
==============================================================================
