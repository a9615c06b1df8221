-------------------------- MODULE EmbeddedDashboard --------------------------
(***************************************************************************)
(* The page of the embedded dashboard, Dashboard/Assets/duckrun.js, against *)
(* the runs of the process that serves it.                                  *)
(*                                                                          *)
(* The script is single-threaded: a step here is what runs between two      *)
(* awaits.  A call of one of its async functions is a slot of `call'; while *)
(* it awaits, the timers (setInterval) and the user start others, and the   *)
(* answers come in any order.  The state object is selectedJob,             *)
(* selectedRunId, runs and console; heading and panel are what the document *)
(* shows, which is not always the state: only renderDetail and              *)
(* renderRunDetail write it.                                                *)
(***************************************************************************)
EXTENDS Integers

CONSTANTS
    Job, Run,
    JobOf,          \* the job of each run
    Triggerable,    \* the jobs with allowManualTrigger
    None,
    PollCall,       \* calls of refreshJobs
    ClickCall,      \* calls started by a click on a job, Trigger or Cancel
    ConsoleCall,    \* calls of refreshConsole, by timer or click
    LastLevel,      \* how far each run comes                  (bound)
    Bounds          \* the calls that may be under way together, the clicks and
                    \* the failing requests: one of these is chosen for a
                    \* behaviour                                (bound)

ASSUME EmbeddedConstants ==
    /\ JobOf \in [Run -> Job]
    /\ Triggerable \subseteq Job
    /\ None \notin Job \cup Run
    /\ PollCall \cap ConsoleCall = {} /\ PollCall \cap ClickCall = {}
    /\ ClickCall \cap ConsoleCall = {}
    /\ LastLevel \in [Run -> 0 .. 3]
    /\ \A b \in Bounds : /\ b.calls \subseteq PollCall \cup ClickCall \cup ConsoleCall
                         /\ b.clicks \in Nat /\ b.fails \in Nat

Call == PollCall \cup ClickCall \cup ConsoleCall

(***************************************************************************)
(* How far a run has come.  Its record and its console lines are functions  *)
(* of that; a run whose record the store evicted is Gone.                   *)
(***************************************************************************)
Absent   == 0
Running  == 1
Finished == 2
Gone     == 3
Level    == Absent .. Gone

VARIABLES
    level,          \* the runs, in the process
    selectedJob, selectedRunId,
    loaded,         \* state.jobs has been fetched: the list has buttons
    runs,           \* state.runs: of which job, and the levels it shows
    console,        \* state.console and state.runDetail: of which run, how far
    heading,        \* the job whose detail the document shows
    panel,          \* the run panel: its label and the console under it
    call,           \* the async calls and what each awaits
    late,           \* history: calls that a later answer has overtaken
    crossed,        \* history: calls during which another job was selected
    bound, clicks, fails    \* the chosen member of Bounds, and how much of it is used

client == <<selectedJob, selectedRunId, loaded, runs, console, heading, panel>>
vars == <<level, client, call, late, crossed, bound, clicks, fails>>

Free(c) == c \in bound.calls /\ call[c].at = "idle"

Nothing == [r \in Run |-> Absent]
Idle    == [at |-> "idle", on |-> None, got |-> FALSE, ans |-> Nothing]
Asking(what, on) == [at |-> what, on |-> on, got |-> FALSE, ans |-> Nothing]

TypeOK ==
    /\ level \in [Run -> Level]
    /\ selectedJob \in Job \cup {None} /\ selectedRunId \in Run \cup {None}
    /\ loaded \in BOOLEAN
    /\ runs \in [of : Job \cup {None}, at : [Run -> Level]]
    /\ console \in [of : Run \cup {None}, at : Level]
    /\ heading \in Job \cup {None}
    /\ panel \in [label : Run \cup {None}, lines : [of : Run \cup {None}, at : Level]]
    /\ call \in [Call -> [at : {"idle", "jobs", "runs", "trigger", "cancel", "console"},
                          on : Job \cup Run \cup {None}, got : BOOLEAN,
                          ans : [Run -> Level]]]
    /\ bound \in Bounds
    /\ late \subseteq Call /\ crossed \subseteq Call
    /\ clicks \in 0 .. bound.clicks /\ fails \in 0 .. bound.fails

NoLines == [of |-> None, at |-> Absent]

Init ==
    /\ level \in [Run -> {Absent, Running}] /\ \A r \in Run : level[r] <= LastLevel[r]
    /\ selectedJob = None /\ selectedRunId = None /\ loaded = FALSE
    /\ runs = [of |-> None, at |-> Nothing]
    /\ console = NoLines
    /\ heading = None
    /\ panel = [label |-> None, lines |-> NoLines]
    /\ bound \in Bounds /\ call = [c \in Call |-> Idle]
    /\ late = {} /\ crossed = {} /\ clicks = 0 /\ fails = 0

-----------------------------------------------------------------------------
(***************************************************************************)
(* The process behind the page.                                             *)
(***************************************************************************)
RunsOf(j) == {r \in Run : JobOf[r] = j}
Shows(S)  == [r \in Run |-> IF r \in S THEN level[r] ELSE Absent]

RunProceeds ==
    /\ \E r \in Run : level[r] < LastLevel[r] /\ level' = [level EXCEPT ![r] = @ + 1]
    /\ UNCHANGED <<bound, client, call, late, crossed, clicks, fails>>

(***************************************************************************)
(* A handler of DashboardEndpoints answers.  TriggerAsync has stored the    *)
(* new run before it returns; CancelAsync only signals its token.           *)
(***************************************************************************)
Answered(c, S) == call' = [call EXCEPT ![c] = [@ EXCEPT !.got = TRUE, !.ans = Shows(S)]]

Serve(c) ==
    /\ call[c].at # "idle" /\ ~call[c].got
    /\ \/ /\ call[c].at = "runs" /\ Answered(c, RunsOf(call[c].on))
          /\ UNCHANGED level
       \/ /\ call[c].at = "console" /\ Answered(c, {call[c].on})
          /\ UNCHANGED level
       \/ /\ call[c].at \in {"jobs", "cancel"} /\ Answered(c, {})
          /\ UNCHANGED level
       \/ /\ call[c].at = "trigger" /\ Answered(c, {})
          /\ \E r \in RunsOf(call[c].on) : /\ level[r] = Absent
                                           /\ level' = [level EXCEPT ![r] = Running]
    /\ UNCHANGED <<bound, client, late, crossed, clicks, fails>>

(***************************************************************************)
(* A call ends; the others of its kind have been overtaken by its answer.   *)
(***************************************************************************)
Awaiting(what) == {c \in Call : call[c].at = what}

Ended(c, overtaken) ==
    /\ call' = [call EXCEPT ![c] = Idle]
    /\ late' = (late \cup overtaken) \ {c}
    /\ crossed' = crossed \ {c}

(***************************************************************************)
(* The request fails on either way: the catch of each function only writes  *)
(* a message.  So does that of a trigger which a full job refuses (409).    *)
(***************************************************************************)
Refuse(c) ==
    /\ call[c].at = "trigger" /\ ~call[c].got
    /\ Ended(c, {})
    /\ UNCHANGED <<bound, level, client, clicks, fails>>

Fail(c) ==
    /\ call[c].at # "idle" /\ fails < bound.fails
    /\ Ended(c, {})
    /\ fails' = fails + 1
    /\ UNCHANGED <<bound, level, client, clicks>>

-----------------------------------------------------------------------------
(***************************************************************************)
(* Rendering.  renderDetail builds the heading, the rows and an empty run   *)
(* panel, and ends in renderRunDetail, which labels the panel with the      *)
(* selected run and fills it with state.console, whosever that is.          *)
(***************************************************************************)
renderRunDetail(run, lines) ==
    panel' = IF run = None THEN [label |-> None, lines |-> NoLines]
             ELSE [label |-> run, lines |-> lines]

renderDetail ==
    /\ heading' = selectedJob
    /\ IF selectedJob = None THEN UNCHANGED panel
       ELSE renderRunDetail(selectedRunId, console)

(***************************************************************************)
(* refreshJobs, every three seconds whether or not the last call has        *)
(* ended.  Its first await stands for the list and the last run of every    *)
(* job, whose errors are ignored; then it goes on as refreshRuns for the    *)
(* job that is selected by now.                                             *)
(***************************************************************************)
RefreshJobs ==
    /\ \E c \in PollCall : /\ Free(c)
                           /\ call' = [call EXCEPT ![c] = Asking("jobs", None)]
    /\ UNCHANGED <<bound, level, client, late, crossed, clicks, fails>>

JobsArrive(c) ==
    /\ call[c].at = "jobs" /\ call[c].got
    /\ loaded' = TRUE
    /\ \/ /\ selectedJob # None
          /\ call' = [call EXCEPT ![c] = Asking("runs", selectedJob)]
          /\ UNCHANGED <<heading, panel, late, crossed>>
       \/ /\ selectedJob = None
          /\ Ended(c, {})
          /\ renderDetail
    /\ UNCHANGED <<bound, level, selectedJob, selectedRunId, runs, console, clicks, fails>>

(***************************************************************************)
(* refreshRuns takes the job from the state when it is called, and assigns  *)
(* whatever is answered, whichever job is selected by then.                 *)
(***************************************************************************)
RunsArrive(c) ==
    /\ call[c].at = "runs" /\ call[c].got
    /\ runs' = [of |-> call[c].on, at |-> call[c].ans]
    /\ renderDetail
    /\ Ended(c, Awaiting("runs"))
    /\ UNCHANGED <<bound, level, selectedJob, selectedRunId, loaded, console, clicks, fails>>

(***************************************************************************)
(* refreshConsole, every 1.5 seconds while a run is selected.  The two      *)
(* requests of its Promise.all are one; a run that is gone answers 404.     *)
(***************************************************************************)
StartConsole(c, r) ==
    /\ Free(c)
    /\ call' = [call EXCEPT ![c] = Asking("console", r)]

\* Mutant: the timer stops once there are lines.
ConsoleTickOnce ==
    /\ selectedRunId # None /\ console = NoLines
    /\ \E c \in ConsoleCall : StartConsole(c, selectedRunId)
    /\ UNCHANGED <<bound, level, client, late, crossed, clicks, fails>>

ConsoleTick ==
    /\ selectedRunId # None
    /\ \E c \in ConsoleCall : StartConsole(c, selectedRunId)
    /\ UNCHANGED <<bound, level, client, late, crossed, clicks, fails>>

ConsoleArrives(c) ==
    /\ call[c].at = "console" /\ call[c].got
    /\ \/ /\ call[c].ans[call[c].on] # Gone
          /\ console' = [of |-> call[c].on, at |-> call[c].ans[call[c].on]]
          /\ IF heading = None THEN UNCHANGED panel
             ELSE renderRunDetail(selectedRunId, console')
          /\ Ended(c, Awaiting("console"))
       \/ /\ call[c].ans[call[c].on] = Gone
          /\ Ended(c, {})
          /\ UNCHANGED <<console, panel>>
    /\ UNCHANGED <<bound, level, selectedJob, selectedRunId, loaded, runs, heading, clicks, fails>>

-----------------------------------------------------------------------------
(***************************************************************************)
(* The user clicks on what the document shows: a job of the list, a row, or *)
(* the buttons of the heading and of the rows.                              *)
(***************************************************************************)
Click == clicks < bound.clicks /\ clicks' = clicks + 1

Buttons == IF loaded THEN Job ELSE {}

selectJob(j) ==
    /\ Click /\ j \in Buttons
    /\ selectedJob' = j
    /\ selectedRunId' = None
    /\ console' = NoLines
    /\ \E c \in ClickCall :
          /\ Free(c)
          /\ call' = [call EXCEPT ![c] = Asking("runs", j)]
    /\ crossed' = crossed \cup {d \in Awaiting("runs") : call[d].on # j}
    /\ UNCHANGED <<bound, level, loaded, runs, heading, panel, late, fails>>

Listed == {r \in Run : runs.at[r] \in {Running, Finished}}

selectRun(r) ==
    /\ Click /\ heading # None /\ r \in Listed
    /\ selectedRunId' = r
    /\ \E c \in ConsoleCall : StartConsole(c, r)
    /\ UNCHANGED <<bound, level, selectedJob, loaded, runs, console, heading, panel, late, crossed, fails>>

(***************************************************************************)
(* The buttons post for the job of the heading and the run of the row; both *)
(* functions then refresh the runs of the job that is selected by then.     *)
(***************************************************************************)
Post(what, on) ==
    \E c \in ClickCall : /\ Free(c)
                         /\ call' = [call EXCEPT ![c] = Asking(what, on)]

triggerJob ==
    /\ Click /\ heading \in Triggerable
    /\ Post("trigger", heading)
    /\ UNCHANGED <<bound, level, client, late, crossed, fails>>

\* Mutant: the row is marked before the server has answered.
cancelRunOptimistically(r) ==
    /\ Click /\ heading # None /\ runs.at[r] = Running
    /\ Post("cancel", r)
    /\ runs' = [runs EXCEPT !.at[r] = Finished]
    /\ UNCHANGED <<bound, level, selectedJob, selectedRunId, loaded, console, heading, panel,
                   late, crossed, fails>>

cancelRun(r) ==
    /\ Click /\ heading # None /\ runs.at[r] = Running
    /\ Post("cancel", r)
    /\ UNCHANGED <<bound, level, client, late, crossed, fails>>

\* Mutant: refreshes the runs of the job that the button was for.
PostAnsweredForItsJob(c) ==
    /\ call[c].at \in {"trigger", "cancel"} /\ call[c].got
    /\ LET job == IF call[c].at = "trigger" THEN call[c].on ELSE JobOf[call[c].on]
       IN  call' = [call EXCEPT ![c] = Asking("runs", job)]
    /\ UNCHANGED <<bound, level, client, late, crossed, clicks, fails>>

PostAnswered(c) ==
    /\ call[c].at \in {"trigger", "cancel"} /\ call[c].got
    /\ call' = [call EXCEPT ![c] = Asking("runs", selectedJob)]
    /\ UNCHANGED <<bound, level, client, late, crossed, clicks, fails>>

-----------------------------------------------------------------------------
Arrive(c) == JobsArrive(c) \/ RunsArrive(c) \/ ConsoleArrives(c) \/ PostAnswered(c)

Next ==
    \/ RunProceeds
    \/ RefreshJobs \/ ConsoleTick
    \/ \E c \in Call : Serve(c) \/ Refuse(c) \/ Fail(c) \/ Arrive(c)
    \/ \E j \in Job : selectJob(j)
    \/ \E r \in Run : selectRun(r) \/ cancelRun(r)
    \/ triggerJob

Spec == Init /\ [][Next]_vars

(***************************************************************************)
(* The timers fire again and again; the server answers and the browser      *)
(* hands the answer on.  Nothing is promised of the user or of the runs.    *)
(***************************************************************************)
FairSpec ==
    /\ Spec
    /\ WF_vars(RefreshJobs) /\ WF_vars(ConsoleTick)
    /\ \A c \in Call : WF_vars(Serve(c) \/ Refuse(c)) /\ WF_vars(Arrive(c))

-----------------------------------------------------------------------------
Ends(c, what) == call[c].at = what /\ call'[c].at = "idle"

(***************************************************************************)
(* What is shown of a run goes back (a finished run is running again, lines *)
(* disappear) only when an answer arrives that a later one had overtaken:   *)
(* overlapping polls and refreshes, duckrun.js:205-214 and 216-229.         *)
(***************************************************************************)
GoesBackOnlyWhenOvertaken ==
    [][ /\ (runs'.of = runs.of /\ \E r \in Run : runs'.at[r] < runs.at[r])
              => \E c \in late : Ends(c, "runs")
        /\ (console'.of = console.of /\ console'.at < console.at)
              => \E c \in late : Ends(c, "console") ]_vars

(***************************************************************************)
(* The rows of one job come to stand under the heading of another only      *)
(* through an answer that was still awaited when the user selected the      *)
(* other job: every other way of refreshing asks for the selected job.      *)
(***************************************************************************)
MixedOnlyWhenCrossed ==
    [][ runs'.of # heading'
          => \/ UNCHANGED <<runs, heading>>
             \/ \E c \in crossed : Ends(c, "runs") ]_vars

(***************************************************************************)
(* "Logs appear live in the dashboard" (README.md:291): when the user and   *)
(* the runs come to rest, the heading is the selected job, the rows are its *)
(* runs as they are, and the panel has the label and the console of the     *)
(* selected run, unless that one is gone from the store.                    *)
(***************************************************************************)
UpToDate ==
    /\ heading = selectedJob
    /\ runs = [of |-> selectedJob, at |-> Shows(RunsOf(selectedJob))]
    /\ (selectedRunId # None /\ level[selectedRunId] # Gone) =>
          panel = [label |-> selectedRunId,
                   lines |-> [of |-> selectedRunId, at |-> level[selectedRunId]]]
ScreenCatchesUp == <>[](selectedJob # None => UpToDate)

=============================================================================
