----------------------- MODULE EmbeddedDashboard_proofs -----------------------
(***************************************************************************)
(* Theorems about EmbeddedDashboard for any jobs and runs, any number of    *)
(* calls that overlap, clicks and failures: types, when the screen goes     *)
(* back, and when the rows of one job stand under another (PageInv).        *)
(***************************************************************************)
EXTENDS EmbeddedDashboard, TLAPS

CallRecord == [at : {"idle", "jobs", "runs", "trigger", "cancel", "console"},
               on : Job \cup Run \cup {None}, got : BOOLEAN, ans : [Run -> Level]]

(* What a call is about: the runs of a job, the console of a run. *)
RequestInv ==
    \A c \in Call : /\ call[c].at = "runs" => call[c].on \in Job \cup {None}
                    /\ call[c].at = "console" => call[c].on \in Run

(* A snapshot shows the runs of one job, none further than it is by now. *)
Snapshot(job, shown) ==
    \A r \in Run : /\ shown[r] <= level[r]
                   /\ shown[r] # Absent => JobOf[r] = job

(* An answer that nothing has overtaken is as new as what the page shows. *)
RowsInv ==
    /\ Snapshot(runs.of, runs.at)
    /\ \A c \in Call : (call[c].at = "runs" /\ call[c].got) =>
          /\ Snapshot(call[c].on, call[c].ans)
          /\ (c \notin late /\ call[c].on = runs.of) =>
                \A r \in Run : runs.at[r] <= call[c].ans[r]

LinesInv ==
    /\ console.of \in Run => console.at <= level[console.of]
    /\ console.of = None => console.at = Absent
    /\ \A c \in Call : (call[c].at = "console" /\ call[c].got) =>
          /\ call[c].ans[call[c].on] <= level[call[c].on]
          /\ (c \notin late /\ call[c].on = console.of) =>
                console.at <= call[c].ans[call[c].on]

(* A call whose job is not the selected one was under way when the selection
   moved on. *)
CrossingInv ==
    /\ \A c \in Call : (call[c].at = "runs" /\ c \notin crossed) =>
          call[c].on = selectedJob
    /\ selectedJob = None => heading = None

PageInv == TypeOK /\ RequestInv /\ RowsInv /\ LinesInv /\ CrossingInv

--------------------------------------------------------------------------------

(* A slot that is taken asks, and has no answer yet. *)
LEMMA AskingIsACall ==
    ASSUME NEW what \in {"jobs", "runs", "trigger", "cancel", "console"},
           NEW on \in Job \cup Run \cup {None}
    PROVE  /\ Asking(what, on) \in CallRecord
           /\ Asking(what, on).at = what /\ Asking(what, on).on = on
           /\ Asking(what, on).got = FALSE
BY DEF Asking, CallRecord, Nothing, Level, Absent, Gone

LEMMA IdleIsACall == Idle \in CallRecord /\ Idle.at = "idle" /\ Idle.got = FALSE
BY DEF Idle, CallRecord, Nothing, Level, Absent, Gone

LEMMA PageInvInit == Init => PageInv
<1> SUFFICES ASSUME Init PROVE PageInv
  OBVIOUS
<1> USE EmbeddedConstants
<1>1. TypeOK
  <2>1. level \in [Run -> Level]
    BY DEF Init, Level, Absent, Running, Gone
  <2>2. Nothing \in [Run -> Level] /\ Absent \in Level
    BY DEF Nothing, Level, Absent, Gone
  <2>3. call \in [Call -> CallRecord]
    BY IdleIsACall DEF Init
  <2>4. bound \in Bounds /\ clicks \in 0 .. bound.clicks /\ fails \in 0 .. bound.fails
    BY DEF Init
  <2> QED
    BY <2>1, <2>2, <2>3, <2>4 DEF Init, TypeOK, NoLines, CallRecord
<1>2. RequestInv /\ LinesInv /\ CrossingInv
  BY DEF Init, RequestInv, LinesInv, CrossingInv, NoLines, Idle
<1>3. RowsInv
  BY DEF Init, RowsInv, Snapshot, Nothing, Idle, Absent, Running
<1> QED
  BY <1>1, <1>2, <1>3 DEF PageInv

(* A step that only frees slots or makes them ask, for the selected job or for
   a run, keeps the invariant of the calls. *)
LEMMA CallsMoveOn ==
    ASSUME PageInv,
           UNCHANGED <<bound, level, runs, console, selectedJob>>,
           call' \in [Call -> CallRecord], late \cap Call \subseteq late' \cup {c \in Call : ~call'[c].got},
           \A c \in Call : \/ call'[c] = call[c] /\ (c \in crossed => c \in crossed')
                           \/ call'[c].at = "idle" /\ ~call'[c].got
                           \/ /\ ~call'[c].got
                              /\ call'[c].at = "runs" => call'[c].on = selectedJob
                              /\ call'[c].at = "console" => call'[c].on \in Run
    PROVE  /\ RequestInv' /\ RowsInv' /\ LinesInv'
           /\ \A c \in Call : (call'[c].at = "runs" /\ c \notin crossed') =>
                  call'[c].on = selectedJob'
<1> USE DEF PageInv
<1>1. RequestInv'
  BY DEF RequestInv, TypeOK
<1>2. RowsInv'
  BY DEF RowsInv, Snapshot
<1>3. LinesInv'
  BY DEF LinesInv
<1>4. \A c \in Call : (call'[c].at = "runs" /\ c \notin crossed') =>
                  call'[c].on = selectedJob'
  BY DEF CrossingInv
<1> QED
  BY <1>1, <1>2, <1>3, <1>4

(* A step that leaves the page alone and calls well typed keeps the types. *)
LEMMA SamePage ==
    ASSUME TypeOK, UNCHANGED client, bound' = bound,
           level' \in [Run -> Level], call' \in [Call -> CallRecord],
           late' \subseteq Call, crossed' \subseteq Call,
           clicks' \in 0 .. bound.clicks, fails' \in 0 .. bound.fails
    PROVE  TypeOK'
<1>1. /\ selectedJob' = selectedJob /\ selectedRunId' = selectedRunId /\ loaded' = loaded
      /\ runs' = runs /\ console' = console /\ heading' = heading /\ panel' = panel
  BY DEF client
<1>2. call' \in [Call -> [at : {"idle", "jobs", "runs", "trigger", "cancel", "console"},
                          on : Job \cup Run \cup {None}, got : BOOLEAN,
                          ans : [Run -> Level]]]
  BY DEF CallRecord
<1> QED
  BY <1>1, <1>2, Zenon DEF TypeOK

(* Types: what an action writes is again a state of the page and of its
   calls. *)
LEMMA TypeStep == TypeOK /\ RequestInv /\ [Next]_vars => TypeOK'
<1> SUFFICES ASSUME TypeOK, RequestInv, [Next]_vars PROVE TypeOK'
  OBVIOUS
<1> USE EmbeddedConstants
<1>0. /\ call \in [Call -> CallRecord] /\ level \in [Run -> Level]
      /\ NoLines \in [of : Run \cup {None}, at : Level]
      /\ \A S : Shows(S) \in [Run -> Level]
  BY DEF TypeOK, CallRecord, NoLines, Shows, Level, Absent, Gone
<1>a. ASSUME NEW on \in Job \cup Run \cup {None}
      PROVE  /\ Asking("jobs", on) \in CallRecord /\ Asking("runs", on) \in CallRecord
             /\ Asking("trigger", on) \in CallRecord /\ Asking("cancel", on) \in CallRecord
             /\ Asking("console", on) \in CallRecord
  BY AskingIsACall
<1>1. CASE RunProceeds
  <2>1. level' \in [Run -> Level]
    BY <1>1, <1>0 DEF RunProceeds, Level, Absent, Gone
  <2> QED
    BY <1>1, <1>0, <2>1, SamePage DEF TypeOK, RunProceeds
<1>2. CASE RefreshJobs
  <2>1. call' \in [Call -> CallRecord]
    BY <1>2, <1>0, <1>a DEF RefreshJobs, Call
  <2> QED
    BY <1>2, <1>0, <2>1, SamePage DEF TypeOK, RefreshJobs
<1>3. CASE ConsoleTick
  <2>1. call' \in [Call -> CallRecord]
    BY <1>3, <1>0, <1>a DEF ConsoleTick, StartConsole, TypeOK, Call
  <2> QED
    BY <1>3, <1>0, <2>1, SamePage DEF TypeOK, ConsoleTick
<1>4. ASSUME NEW c \in Call, Serve(c) PROVE TypeOK'
  <2>1. level' \in [Run -> Level]
    BY <1>4, <1>0 DEF Serve, Level, Absent, Running, Gone
  <2>2. call' \in [Call -> CallRecord]
    <3>1. ASSUME NEW S, Answered(c, S) PROVE call' \in [Call -> CallRecord]
      <4>0. call[c] \in CallRecord /\ Shows(S) \in [Run -> Level]
        BY <1>0, <1>4
      <4>1. [call[c] EXCEPT !.got = TRUE, !.ans = Shows(S)] \in CallRecord
        BY <4>0 DEF CallRecord
      <4> QED
        BY <1>0, <1>4, <3>1, <4>1 DEF Answered
    <3>2. \/ Answered(c, RunsOf(call[c].on)) \/ Answered(c, {call[c].on})
          \/ Answered(c, {})
      BY <1>4 DEF Serve
    <3> QED
      BY <3>1, <3>2
  <2> QED
    BY <1>4, <1>0, <2>1, <2>2, SamePage DEF TypeOK, Serve
<1>5. ASSUME NEW c \in Call, Refuse(c) \/ Fail(c) PROVE TypeOK'
  <2>1. call' \in [Call -> CallRecord]
    BY <1>5, <1>0, IdleIsACall DEF Refuse, Fail, Ended
  <2>2. late' \subseteq Call /\ crossed' \subseteq Call
    BY <1>5 DEF Refuse, Fail, Ended, TypeOK
  <2>3. fails' \in 0 .. bound'.fails /\ clicks' \in 0 .. bound'.clicks
    BY <1>5 DEF Refuse, Fail, TypeOK
  <2> QED
    BY <1>5, <1>0, <2>1, <2>2, <2>3, SamePage DEF Refuse, Fail
<1>6. ASSUME NEW c \in Call, JobsArrive(c) PROVE TypeOK'
  <2>0. Asking("runs", selectedJob) \in CallRecord /\ Idle \in CallRecord
    BY <1>a, IdleIsACall DEF TypeOK
  <2>1. call' \in [Call -> CallRecord]
    <3>1. \/ call' = [call EXCEPT ![c] = Asking("runs", selectedJob)]
          \/ call' = [call EXCEPT ![c] = Idle]
      BY <1>6 DEF JobsArrive, Ended
    <3> QED
      BY <1>0, <2>0, <3>1, Zenon
  <2>2. /\ late' \subseteq Call /\ crossed' \subseteq Call
        /\ heading' \in Job \cup {None} /\ panel' = panel
    BY <1>6 DEF JobsArrive, Ended, renderDetail, TypeOK
  <2> QED
    BY <1>6, <2>1, <2>2 DEF TypeOK, CallRecord, JobsArrive
<1>7. ASSUME NEW c \in Call, RunsArrive(c) PROVE TypeOK'
  <2>1. call' \in [Call -> CallRecord]
    BY <1>7, <1>0, IdleIsACall DEF RunsArrive, Ended
  <2>2. late' \subseteq Call /\ crossed' \subseteq Call
    BY <1>7 DEF RunsArrive, Ended, Awaiting, TypeOK
  <2>3. runs' \in [of : Job \cup {None}, at : [Run -> Level]]
    BY <1>7, <1>0 DEF RunsArrive, CallRecord, RequestInv
  <2>4. /\ heading' \in Job \cup {None}
        /\ panel' \in [label : Run \cup {None}, lines : [of : Run \cup {None}, at : Level]]
    BY <1>7, <1>0 DEF RunsArrive, renderDetail, renderRunDetail, TypeOK
  <2> QED
    BY <1>7, <2>1, <2>2, <2>3, <2>4 DEF TypeOK, CallRecord, RunsArrive
<1>8. ASSUME NEW c \in Call, ConsoleArrives(c) PROVE TypeOK'
  <2>1. call' \in [Call -> CallRecord]
    BY <1>8, <1>0, IdleIsACall DEF ConsoleArrives, Ended
  <2>2. late' \subseteq Call /\ crossed' \subseteq Call
    BY <1>8 DEF ConsoleArrives, Ended, Awaiting, TypeOK
  <2>3. console' \in [of : Run \cup {None}, at : Level]
    BY <1>8, <1>0 DEF ConsoleArrives, CallRecord, RequestInv, TypeOK
  <2>4. panel' \in [label : Run \cup {None}, lines : [of : Run \cup {None}, at : Level]]
    BY <1>8, <1>0, <2>3 DEF ConsoleArrives, renderRunDetail, TypeOK
  <2> QED
    BY <1>8, <2>1, <2>2, <2>3, <2>4 DEF TypeOK, CallRecord, ConsoleArrives
<1>9. ASSUME NEW c \in Call, PostAnswered(c) PROVE TypeOK'
  <2>1. call' \in [Call -> CallRecord]
    BY <1>9, <1>0, <1>a DEF PostAnswered, TypeOK
  <2> QED
    BY <1>9, <1>0, <2>1, SamePage DEF TypeOK, PostAnswered
<1>10. ASSUME NEW j \in Job, selectJob(j) PROVE TypeOK'
  <2>1. call' \in [Call -> CallRecord]
    BY <1>10, <1>0, <1>a DEF selectJob, Call
  <2>2. late' \subseteq Call /\ crossed' \subseteq Call
    BY <1>10 DEF selectJob, Awaiting, TypeOK
  <2>3. clicks' \in 0 .. bound'.clicks
    BY <1>10 DEF selectJob, Click, TypeOK
  <2> QED
    BY <1>10, <1>0, <2>1, <2>2, <2>3 DEF TypeOK, CallRecord, selectJob
<1>11. ASSUME NEW r \in Run, selectRun(r) PROVE TypeOK'
  <2>1. call' \in [Call -> CallRecord]
    BY <1>11, <1>0, <1>a DEF selectRun, StartConsole, Call
  <2>2. clicks' \in 0 .. bound'.clicks
    BY <1>11 DEF selectRun, Click, TypeOK
  <2> QED
    BY <1>11, <2>1, <2>2 DEF TypeOK, CallRecord, selectRun
<1>12. ASSUME NEW r \in Run, cancelRun(r) PROVE TypeOK'
  <2>1. call' \in [Call -> CallRecord]
    BY <1>12, <1>0, <1>a DEF cancelRun, Post, Call
  <2>2. clicks' \in 0 .. bound'.clicks
    BY <1>12 DEF cancelRun, Click, TypeOK
  <2> QED
    BY <1>12, <1>0, <2>1, <2>2, SamePage DEF TypeOK, cancelRun
<1>13. CASE triggerJob
  <2>1. call' \in [Call -> CallRecord]
    BY <1>13, <1>0, <1>a DEF triggerJob, Post, Call
  <2>2. clicks' \in 0 .. bound'.clicks
    BY <1>13 DEF triggerJob, Click, TypeOK
  <2> QED
    BY <1>13, <1>0, <2>1, <2>2, SamePage DEF TypeOK, triggerJob
<1>14. CASE UNCHANGED vars
  BY <1>14, <1>0, SamePage DEF TypeOK, vars
<1> QED
  BY <1>1, <1>2, <1>3, <1>4, <1>5, <1>6, <1>7, <1>8, <1>9, <1>10, <1>11, <1>12, <1>13, <1>14
     DEF Next, Arrive

(* The rest of the invariant, action by action. *)
LEMMA PageInvStep == PageInv /\ [Next]_vars => PageInv'
<1> SUFFICES ASSUME PageInv, [Next]_vars
             PROVE  RequestInv' /\ RowsInv' /\ LinesInv' /\ CrossingInv'
  BY TypeStep DEF PageInv
<1> USE DEF PageInv
<1>0. /\ call \in [Call -> CallRecord] /\ call' \in [Call -> CallRecord]
      /\ level \in [Run -> Level] /\ selectedJob \in Job \cup {None}
      /\ late \subseteq Call /\ None \notin Job \cup Run
      /\ runs \in [of : Job \cup {None}, at : [Run -> Level]]
      /\ console \in [of : Run \cup {None}, at : Level]
      /\ level' \in [Run -> Level]
  BY TypeStep, EmbeddedConstants DEF TypeOK, CallRecord
<1>a. ASSUME NEW what, NEW on
      PROVE  Asking(what, on).at = what /\ Asking(what, on).on = on /\ ~Asking(what, on).got
  BY DEF Asking
<1>b. Idle.at = "idle" /\ ~Idle.got
  BY DEF Idle
(* Runs only proceed: what was no further than a run still is not. *)
<1>1. ASSUME UNCHANGED <<client, late, crossed>>, \A r \in Run : level[r] <= level'[r],
             \A c \in Call : call'[c] = call[c] \/ call'[c].at \notin {"runs", "console"}
      PROVE  RequestInv' /\ RowsInv' /\ LinesInv' /\ CrossingInv'
  <2>1. RequestInv' /\ CrossingInv'
    BY <1>1 DEF RequestInv, CrossingInv, client
  <2>2. \A k \in Level, r \in Run : k <= level[r] => k <= level'[r]
    BY <1>0, <1>1 DEF Level, Absent, Gone
  <2>3. /\ runs' = runs /\ console' = console /\ late' = late
        /\ \A c \in Call : /\ call[c].ans \in [Run -> Level]
                           /\ call[c].at = "console" => call[c].on \in Run
                           /\ call'[c].at = "runs" => call'[c] = call[c]
                           /\ call'[c].at = "console" => call'[c] = call[c]
    BY <1>0, <1>1 DEF client, CallRecord, RequestInv
  <2>4. RowsInv'
    <3>1. \A job, shown : shown \in [Run -> Level] /\ Snapshot(job, shown) =>
             \A r \in Run : shown[r] <= level'[r] /\ (shown[r] # Absent => JobOf[r] = job)
      BY <2>2 DEF Snapshot
    <3>2. Snapshot(runs.of, runs.at)'
      BY <1>0, <2>3, <3>1 DEF RowsInv, Snapshot
    <3>3. ASSUME NEW c \in Call, call'[c].at = "runs", call'[c].got
          PROVE  /\ Snapshot(call[c].on, call[c].ans)'
                 /\ (c \notin late' /\ call'[c].on = runs'.of) =>
                       \A r \in Run : runs'.at[r] <= call'[c].ans[r]
      <4>1. call'[c] = call[c] /\ call[c].ans \in [Run -> Level]
        BY <2>3, <3>3
      <4>2. /\ Snapshot(call[c].on, call[c].ans)
            /\ (c \notin late /\ call[c].on = runs.of) =>
                  \A r \in Run : runs.at[r] <= call[c].ans[r]
        BY <3>3, <4>1 DEF RowsInv
      <4>3. Snapshot(call[c].on, call[c].ans)'
        BY <3>1, <4>1, <4>2 DEF Snapshot
      <4> QED
        BY <2>3, <4>1, <4>2, <4>3
    <3> QED
      BY <3>2, <3>3 DEF RowsInv
  <2>5. LinesInv'
    <3>1. console'.of \in Run => console'.at <= level'[console'.of]
      BY <1>0, <2>2, <2>3 DEF LinesInv
    <3>2. ASSUME NEW c \in Call, call'[c].at = "console", call'[c].got
          PROVE  /\ call'[c].ans[call'[c].on] <= level'[call'[c].on]
                 /\ (c \notin late' /\ call'[c].on = console'.of) =>
                       console'.at <= call'[c].ans[call'[c].on]
      <4>1. call'[c] = call[c] /\ call[c].ans \in [Run -> Level]
        BY <2>3, <3>2
      <4>2. call[c].on \in Run /\ call[c].ans[call[c].on] \in Level
        BY <2>3, <3>2, <4>1
      <4> QED
        BY <2>2, <2>3, <3>2, <4>1, <4>2 DEF LinesInv
    <3>3. console'.of = None => console'.at = Absent
      BY <2>3 DEF LinesInv
    <3> QED
      BY <3>1, <3>2, <3>3 DEF LinesInv
  <2> QED
    BY <2>1, <2>4, <2>5
<1>2. CASE RunProceeds
  <2>1. \A r \in Run : level[r] <= level'[r]
    BY <1>2, <1>0 DEF RunProceeds, Level, Absent, Gone
  <2> QED
    BY <1>1, <1>2, <2>1 DEF RunProceeds
<1>3. CASE RefreshJobs
  BY <1>0, <1>3, <1>a, CallsMoveOn DEF RefreshJobs, client, CrossingInv, Call
<1>4. CASE ConsoleTick
  BY <1>0, <1>4, <1>a, CallsMoveOn DEF ConsoleTick, StartConsole, client, CrossingInv, Call, TypeOK
<1>5. ASSUME NEW c \in Call, Refuse(c) \/ Fail(c)
      PROVE  RequestInv' /\ RowsInv' /\ LinesInv' /\ CrossingInv'
  BY <1>0, <1>5, <1>b, CallsMoveOn DEF Refuse, Fail, Ended, client, CrossingInv
<1>6. ASSUME NEW c \in Call, JobsArrive(c)
      PROVE  RequestInv' /\ RowsInv' /\ LinesInv' /\ CrossingInv'
  BY <1>0, <1>6, <1>a, <1>b, CallsMoveOn DEF JobsArrive, Ended, renderDetail, CrossingInv
<1>7. ASSUME NEW c \in Call, PostAnswered(c)
      PROVE  RequestInv' /\ RowsInv' /\ LinesInv' /\ CrossingInv'
  BY <1>0, <1>7, <1>a, CallsMoveOn DEF PostAnswered, client, CrossingInv
<1>8. ASSUME NEW r \in Run, selectRun(r)
      PROVE  RequestInv' /\ RowsInv' /\ LinesInv' /\ CrossingInv'
  BY <1>0, <1>8, <1>a, CallsMoveOn DEF selectRun, StartConsole, CrossingInv, Call
<1>9. ASSUME NEW r \in Run, cancelRun(r)
      PROVE  RequestInv' /\ RowsInv' /\ LinesInv' /\ CrossingInv'
  BY <1>0, <1>9, <1>a, CallsMoveOn DEF cancelRun, Post, client, CrossingInv, Call
<1>10. CASE triggerJob
  BY <1>0, <1>10, <1>a, CallsMoveOn DEF triggerJob, Post, client, CrossingInv, Call
<1>11. CASE UNCHANGED vars
  BY <1>11 DEF vars, client, RequestInv, RowsInv, LinesInv, CrossingInv, Snapshot
<1>12. ASSUME NEW c \in Call, Serve(c)
       PROVE  RequestInv' /\ RowsInv' /\ LinesInv' /\ CrossingInv'
  <2>0. ASSUME NEW S, Answered(c, S)
        PROVE  /\ call'[c].at = call[c].at /\ call'[c].on = call[c].on
               /\ call'[c].ans = Shows(S)
               /\ \A d \in Call : d # c => call'[d] = call[d]
    BY <1>0, <1>12, <2>0 DEF Answered, CallRecord
  <2>1. CASE call[c].at = "runs"
    <3>1. Answered(c, RunsOf(call[c].on)) /\ level' = level
      BY <1>12, <2>1 DEF Serve
    <3>2. /\ Snapshot(call[c].on, call[c].ans)'
          /\ call'[c].on = runs.of => \A r \in Run : runs.at[r] <= call'[c].ans[r]
      <4>1. call'[c].on = call[c].on /\ call'[c].ans = Shows(RunsOf(call[c].on))
        BY <2>0, <3>1
      <4>2. \A r \in Run : /\ level[r] \in Nat /\ runs.at[r] \in Nat
                           /\ runs.at[r] <= level[r]
                           /\ runs.at[r] # 0 => JobOf[r] = runs.of
        BY <1>0 DEF RowsInv, Snapshot, Level, Absent, Gone
      <4>3. \A r \in Run : call'[c].ans[r] = IF JobOf[r] = call[c].on THEN level[r] ELSE 0
        BY <4>1 DEF Shows, RunsOf, Absent
      <4>4. \A r \in Run : /\ call'[c].ans[r] <= level'[r]
                           /\ call'[c].ans[r] # 0 => JobOf[r] = call'[c].on
        BY <3>1, <4>1, <4>2, <4>3
      <4>5. call'[c].on = runs.of => \A r \in Run : runs.at[r] <= call'[c].ans[r]
        BY <4>1, <4>2, <4>3
      <4> QED
        BY <4>4, <4>5 DEF Snapshot, Absent
    <3>3. RequestInv' /\ CrossingInv'
      BY <1>12, <2>0, <3>1 DEF RequestInv, CrossingInv, Serve, client
    <3>4. RowsInv'
      <4>1. Snapshot(runs.of, runs.at)'
        BY <1>12, <3>1 DEF RowsInv, Snapshot, Serve, client
      <4>2. ASSUME NEW d \in Call, call'[d].at = "runs", call'[d].got
            PROVE  /\ Snapshot(call[d].on, call[d].ans)'
                   /\ (d \notin late' /\ call'[d].on = runs'.of) =>
                         \A r \in Run : runs'.at[r] <= call'[d].ans[r]
        <5>1. CASE d = c
          BY <1>12, <3>2, <5>1 DEF Serve, client
        <5>2. CASE d # c
          BY <1>12, <2>0, <3>1, <4>2, <5>2 DEF RowsInv, Snapshot, Serve, client
        <5> QED
          BY <5>1, <5>2
      <4> QED
        BY <4>1, <4>2 DEF RowsInv
    <3>5. LinesInv'
      BY <1>12, <2>0, <2>1, <3>1 DEF LinesInv, Serve, client
    <3> QED
      BY <3>3, <3>4, <3>5
  <2>2. CASE call[c].at = "console"
    <3>1. Answered(c, {call[c].on}) /\ level' = level /\ call[c].on \in Run
      <4>1. call[c].on \in Run
        BY <2>2 DEF RequestInv
      <4> QED
        BY <1>12, <2>2, <4>1 DEF Serve
    <3>2. call'[c].ans[call'[c].on] = level[call'[c].on]
      <4>1. call'[c].on = call[c].on /\ call'[c].ans = Shows({call[c].on})
        BY <2>0, <3>1
      <4> QED
        BY <3>1, <4>1 DEF Shows
    <3>3. RequestInv' /\ CrossingInv'
      BY <1>12, <2>0, <3>1 DEF RequestInv, CrossingInv, Serve, client
    <3>4. RowsInv'
      BY <1>12, <2>0, <2>2, <3>1 DEF RowsInv, Snapshot, Serve, client
    <3>5. LinesInv'
      BY <1>0, <1>12, <2>0, <3>1, <3>2 DEF LinesInv, Serve, client, Level, Absent, Gone
    <3> QED
      BY <3>3, <3>4, <3>5
  <2>3. CASE call[c].at \notin {"runs", "console"}
    <3>1. \A d \in Call : call'[d] = call[d] \/ call'[d].at \notin {"runs", "console"}
      BY <1>12, <2>0, <2>3 DEF Serve
    <3>2. \A r \in Run : level[r] <= level'[r]
      BY <1>0, <1>12 DEF Serve, Level, Absent, Running, Gone
    <3> QED
      BY <1>1, <1>12, <3>1, <3>2 DEF Serve
  <2> QED
    BY <2>1, <2>2, <2>3
(* The answers of the others are late from now on. *)
<1>13. ASSUME NEW c \in Call, RunsArrive(c)
       PROVE  RequestInv' /\ RowsInv' /\ LinesInv' /\ CrossingInv'
  <2>1. /\ call' = [call EXCEPT ![c] = Idle] /\ late' = (late \cup Awaiting("runs")) \ {c}
        /\ crossed' = crossed \ {c} /\ UNCHANGED <<level, console, selectedJob>>
        /\ runs' = [of |-> call[c].on, at |-> call[c].ans] /\ heading' = selectedJob
    BY <1>13 DEF RunsArrive, Ended, renderDetail
  <2>2. RequestInv' /\ CrossingInv'
    BY <1>0, <1>b, <2>1 DEF RequestInv, CrossingInv
  <2>3. RowsInv'
    <3>1. Snapshot(runs.of, runs.at)'
      BY <1>13, <2>1 DEF RowsInv, Snapshot, RunsArrive
    <3> QED
      BY <1>0, <1>b, <2>1, <3>1 DEF RowsInv, Snapshot, Awaiting
  <2>4. LinesInv'
    BY <1>0, <1>b, <2>1 DEF LinesInv
  <2> QED
    BY <2>2, <2>3, <2>4
<1>14. ASSUME NEW c \in Call, ConsoleArrives(c)
       PROVE  RequestInv' /\ RowsInv' /\ LinesInv' /\ CrossingInv'
  <2>1. /\ call' = [call EXCEPT ![c] = Idle]
        /\ late \subseteq late' \cup {c} /\ crossed' = crossed \ {c}
        /\ UNCHANGED <<level, runs, selectedJob, heading>>
        /\ \/ console' = console
           \/ /\ console' = [of |-> call[c].on, at |-> call[c].ans[call[c].on]]
              /\ Awaiting("console") \subseteq late' \cup {c}
    BY <1>14 DEF ConsoleArrives, Ended
  <2>2. RequestInv' /\ CrossingInv'
    BY <1>0, <1>b, <2>1 DEF RequestInv, CrossingInv
  <2>3. RowsInv'
    BY <1>0, <1>b, <2>1 DEF RowsInv, Snapshot
  <2>4. LinesInv'
    BY <1>0, <1>14, <1>b, <2>1 DEF LinesInv, RequestInv, ConsoleArrives, Awaiting
  <2> QED
    BY <2>2, <2>3, <2>4
<1>15. ASSUME NEW j \in Job, selectJob(j)
       PROVE  RequestInv' /\ RowsInv' /\ LinesInv' /\ CrossingInv'
  <2>1. PICK c \in Call : call' = [call EXCEPT ![c] = Asking("runs", j)]
    BY <1>15 DEF selectJob, Call
  <2>2. RequestInv'
    BY <1>0, <1>a, <2>1 DEF RequestInv
  <2>3. CrossingInv'
    BY <1>0, <1>15, <1>a, <2>1 DEF CrossingInv, selectJob, Awaiting
  <2>4. RowsInv'
    BY <1>0, <1>15, <1>a, <2>1 DEF RowsInv, Snapshot, selectJob
  <2>5. LinesInv'
    BY <1>0, <1>15, <1>a, <2>1 DEF LinesInv, RequestInv, selectJob, NoLines
  <2> QED
    BY <2>2, <2>3, <2>4, <2>5
<1> QED
  BY <1>2, <1>3, <1>4, <1>5, <1>6, <1>7, <1>8, <1>9, <1>10, <1>11, <1>12, <1>13, <1>14, <1>15
     DEF Next, Arrive

--------------------------------------------------------------------------------

LEMMA PageInvAlways == Spec => []PageInv
BY PageInvInit, PageInvStep, PTL DEF Spec

(* The page and its calls keep their types: the fields of `state' in duckrun.js
   only hold what one answer or one click gave. *)
THEOREM TypeCorrect == Spec => []TypeOK
BY PageInvAlways, PTL DEF PageInv

(* Rows and lines go back only through the answer of a call that a later one
   had overtaken, duckrun.js:202-226. *)
THEOREM GoesBack == Spec => GoesBackOnlyWhenOvertaken
<1> DEFINE Back ==
      /\ (runs'.of = runs.of /\ \E r \in Run : runs'.at[r] < runs.at[r])
            => \E c \in late : Ends(c, "runs")
      /\ (console'.of = console.of /\ console'.at < console.at)
            => \E c \in late : Ends(c, "console")
<1>1. PageInv /\ [Next]_vars => [Back]_vars
  <2> SUFFICES ASSUME PageInv, Next PROVE Back
    OBVIOUS
  <2> USE DEF PageInv
  <2>0. /\ runs.at \in [Run -> Level] /\ console.at \in Level /\ None \notin Run
        /\ call \in [Call -> CallRecord] /\ \A l \in Level : ~(l < l) /\ l >= Absent
    BY EmbeddedConstants DEF TypeOK, CallRecord, Level, Absent, Gone
  <2>1. CASE UNCHANGED <<runs, console>>
    BY <2>0, <2>1
  <2>2. ASSUME NEW c \in Call, RunsArrive(c) PROVE Back
    <3>1. Ends(c, "runs") /\ console' = console
      BY <2>0, <2>2 DEF RunsArrive, Ended, Ends, Idle
    <3>2. c \notin late /\ runs'.of = runs.of => \A r \in Run : runs.at[r] <= runs'.at[r]
      BY <2>2 DEF RunsArrive, RowsInv
    <3>3. \A r \in Run : runs.at[r] \in Int /\ runs'.at[r] \in Int
      BY <2>0, <2>2 DEF RunsArrive, CallRecord, Level, Absent, Gone
    <3> QED
      BY <2>0, <3>1, <3>2, <3>3
  <2>3. ASSUME NEW c \in Call, ConsoleArrives(c) PROVE Back
    <3>1. Ends(c, "console") /\ runs' = runs
      BY <2>0, <2>3 DEF ConsoleArrives, Ended, Ends, Idle
    <3>2. c \notin late /\ console'.of = console.of => console.at <= console'.at
      BY <2>0, <2>3 DEF ConsoleArrives, LinesInv, Level, Absent, Gone
    <3>3. console.at \in Int /\ console'.at \in Int
      BY <2>0, <2>3 DEF ConsoleArrives, CallRecord, RequestInv, Level, Absent, Gone
    <3> QED
      BY <2>0, <3>1, <3>2, <3>3
  <2>4. ASSUME NEW j \in Job, selectJob(j) PROVE Back
    BY <2>0, <2>4 DEF selectJob, NoLines, LinesInv
  <2>5. \/ UNCHANGED <<runs, console>> \/ \E c \in Call : RunsArrive(c) \/ ConsoleArrives(c)
        \/ \E j \in Job : selectJob(j)
    BY DEF Next, Arrive, RunProceeds, RefreshJobs, ConsoleTick, Serve, Refuse, Fail, JobsArrive,
           PostAnswered, selectRun, cancelRun, triggerJob, client
  <2> QED
    BY <2>1, <2>2, <2>3, <2>4, <2>5
<1> QED
  BY <1>1, PageInvAlways, PTL DEF Spec, GoesBackOnlyWhenOvertaken

(* Rows stand under the heading of another job only through an answer that was
   awaited when the selection moved on, duckrun.js:202-210 and 228-235. *)
THEOREM Mixed == Spec => MixedOnlyWhenCrossed
<1> DEFINE Mixes ==
      runs'.of # heading' => \/ UNCHANGED <<runs, heading>>
                             \/ \E c \in crossed : Ends(c, "runs")
<1>1. PageInv /\ [Next]_vars => [Mixes]_vars
  <2> SUFFICES ASSUME PageInv, Next PROVE Mixes
    OBVIOUS
  <2>1. ASSUME NEW c \in Call, RunsArrive(c) PROVE Mixes
    <3>1. Ends(c, "runs") /\ runs'.of = call[c].on /\ heading' = selectedJob
      BY <2>1 DEF RunsArrive, Ended, Ends, Idle, renderDetail, PageInv, TypeOK
    <3> QED
      BY <2>1, <3>1 DEF PageInv, CrossingInv, Ends
  <2>2. ASSUME NEW c \in Call, JobsArrive(c) PROVE UNCHANGED <<runs, heading>>
    BY <2>2 DEF JobsArrive, renderDetail, PageInv, CrossingInv
  <2>3. \/ UNCHANGED <<runs, heading>> \/ \E c \in Call : RunsArrive(c) \/ JobsArrive(c)
    BY DEF Next, Arrive, RunProceeds, RefreshJobs, ConsoleTick, Serve, Refuse, Fail,
           ConsoleArrives, PostAnswered, selectJob, selectRun, cancelRun, triggerJob, client
  <2> QED
    BY <2>1, <2>2, <2>3
<1> QED
  BY <1>1, PageInvAlways, PTL DEF Spec, MixedOnlyWhenCrossed

================================================================================
