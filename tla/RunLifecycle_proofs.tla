------------------------ MODULE RunLifecycle_proofs --------------------------
(***************************************************************************)
(* Theorems about RunLifecycle for any number of runs, of processes and    *)
(* any limit:                                                              *)
(*   - types, the limit of a process, and that the dashboard is never      *)
(*     ahead of the store, whatever fails (RunInv);                        *)
(*   - that a slot that is out has a run, or was lost in one of two known  *)
(*     ways (LeakInv), and that slots are permits of a pool per process;   *)
(*   - in DuckRun.Framework, when no UpdateAsync throws: finished records  *)
(*     carry an outcome, and it stays (OutcomeInv);                        *)
(*   - in either product, when no save throws and no caller gives up: a    *)
(*     record left open on a running process is that of a run in progress  *)
(*     (FlightInv).                                                        *)
(***************************************************************************)
EXTENDS RunLifecycle, FiniteSetTheorems, TLAPS

(* FinishedAt is assigned before the finally block only by a run that fails
   early, which goes straight there. *)
StampInv ==
    /\ \A r \in Run : obj[r].finished # 0 => pc[r] \in {"finishing", "disposing", "over"}
    /\ \A r \in Run : pc[r] = "finishing" => obj[r].finished \in 0..1

(* A call owns its slot from the gate to its end. *)
SlotInv ==
    /\ \A r \in Run : pc[r] \in Working => r \in slots
    /\ \A r \in Run : pc[r] = "none" => r \notin slots
    /\ \A n \in Node : Cardinality(Held(n)) <= Cap

(* Nothing is reported before AddAsync, and nothing but "Pending" before the
   run is marked running. *)
ReportInv ==
    /\ \A r \in Run : pc[r] \in {"none", "adding"} => reported[r] = NoRecord
    /\ \A r \in Run : pc[r] = "queued" /\ source[r] = "Cron" => reported[r] = NoRecord
    /\ \A r \in Run : pc[r] \in {"queued", "entering", "preparing"}
                         => reported[r] \in {NoRecord, Fresh}

RunInv == TypeOK /\ StampInv /\ SlotInv /\ ReportInv /\ ReportFollowsStore

(* The steps of a run that leave store, reporter and object alone. *)
Quiet(r) == \/ TriggerSlot(r) \/ CronSlot(r) \/ TaskStarts(r) \/ TaskDropped(r)
            \/ ScopeThrows(r) \/ Register(r) \/ DisposeSlot(r)
            \/ Cancel(r) \/ TimerFires(r)

HostStep(n) == StartHost(n) \/ Boot(n) \/ BeginStop(n) \/ StopScheduler(n) \/ Die(n)

--------------------------------------------------------------------------------
(* Records *)

(* How far a record has come, and what the replay on boot does to it. *)
LEMMA ProgressFacts ==
    /\ \A rec \in Record \cup {NoRecord} : Progress(rec) \in 0..3
    /\ Progress(NoRecord) = 0
    /\ Progress(Fresh) = 1
    /\ \A rec \in Record : rec.finished # 0 => Progress(rec) = 3
    /\ \A rec \in Record : rec.state = "Running" => Progress(rec) >= 2
    /\ Record \cap {NoRecord} = {}
    /\ Fresh \in Record
<1>1. NoRecord \notin Record
  BY DEF Record, NoRecord, State, Terminal
<1> QED
  BY <1>1 DEF Progress, Record, NoRecord, Fresh, State, Terminal

LEMMA ReplayFacts ==
    ASSUME NEW rec \in Record \cup {NoRecord}
    PROVE  /\ Replayed(rec) \in Record \cup {NoRecord}
           /\ Progress(Replayed(rec)) >= Progress(rec)
           /\ rec = NoRecord <=> Replayed(rec) = NoRecord
<1>1. CASE Open(rec)
  <2>1. rec \in Record /\ Replayed(rec) \in Record
    BY <1>1 DEF Open, Replayed, Record, State, Terminal
  <2>2. Replayed(rec).finished # 0
    BY <1>1, <2>1 DEF Replayed, Record
  <2> QED
    BY <2>1, <2>2, ProgressFacts
<1>2. CASE ~Open(rec)
  BY <1>2, ProgressFacts DEF Replayed
<1> QED
  BY <1>1, <1>2

(* What the three ways to write a record have in common. *)
LEMMA WriteTypes ==
    ASSUME TypeOK, NEW r \in Run, NEW rec \in Record,
           Save(r, rec) \/ SaveThrows(r, rec) \/ Assign(r, rec)
    PROVE  /\ obj' = [obj EXCEPT ![r] = rec]
           /\ obj' \in [Run -> Record]
           /\ saved' \in [Run -> Record \cup {NoRecord}]
           /\ reported' \in [Run -> Record \cup {NoRecord}]
           /\ \A q \in Run : q # r => /\ obj'[q] = obj[q]
                                      /\ saved'[q] = saved[q]
                                      /\ reported'[q] = reported[q]
<1>1. CASE Save(r, rec)
  BY <1>1 DEF Save, TypeOK
<1>2. CASE SaveThrows(r, rec)
  BY <1>2 DEF SaveThrows, TypeOK
<1>3. CASE Assign(r, rec)
  BY <1>3 DEF Assign, TypeOK
<1> QED
  BY <1>1, <1>2, <1>3

(* A write keeps the dashboard behind the store, if it takes the record on. *)
LEMMA WriteFollows ==
    ASSUME TypeOK, ReportFollowsStore, NEW r \in Run, NEW rec \in Record,
           Save(r, rec) \/ Assign(r, rec)
             \/ (SaveThrows(r, rec) /\ Progress(reported[r]) <= Progress(rec))
    PROVE  ReportFollowsStore'
<1> SUFFICES ASSUME Persistent, NEW q \in Run
             PROVE  Progress(reported'[q]) <= Progress(saved'[q])
  BY DEF ReportFollowsStore, Progress
<1>1. CASE q # r
  BY <1>1, WriteTypes DEF ReportFollowsStore
<1>2. CASE q = r /\ Save(r, rec)
  BY <1>2, ProgressFacts DEF Save, TypeOK
<1>3. CASE q = r /\ Assign(r, rec)
  BY <1>3 DEF Assign, ReportFollowsStore
<1>4. CASE q = r /\ SaveThrows(r, rec) /\ Progress(reported[r]) <= Progress(rec)
  BY <1>4 DEF SaveThrows, TypeOK, ReportFollowsStore
<1> QED
  BY <1>1, <1>2, <1>3, <1>4

--------------------------------------------------------------------------------
(* Slots *)

LEMMA HeldFinite == \A n \in Node : IsFiniteSet(Held(n)) /\ IsFiniteSet(Here(n))
<1> TAKE n \in Node
<1>1. IsFiniteSet(Here(n))
  BY ConstantsAssumption, FS_Subset DEF Here
<1> QED
  BY <1>1, FS_Subset DEF Held

(* Fewer slots are held than before, or as many. *)
LEMMA SlotsShrink ==
    ASSUME SlotInv, slots' \subseteq slots, NEW n \in Node
    PROVE  Cardinality(Held(n)') <= Cap
<1>1. Held(n)' \subseteq Held(n)
  BY DEF Held, Here
<1>2. Cardinality(Held(n)') <= Cardinality(Held(n))
  BY <1>1, HeldFinite, FS_Subset
<1>3. Cardinality(Held(n)') \in Nat /\ Cardinality(Held(n)) \in Nat
  BY <1>1, HeldFinite, FS_Subset, FS_CardinalityType
<1> QED
  BY <1>2, <1>3, ConstantsAssumption DEF SlotInv

(* A slot is taken while one is free. *)
LEMMA SlotTaken ==
    ASSUME SlotInv, NEW r \in Run, Cardinality(Held(Home[r])) < Cap,
           slots' = slots \cup {r}, NEW n \in Node
    PROVE  Cardinality(Held(n)') <= Cap
<1>1. CASE n = Home[r]
  <2>1. Held(n)' = Held(n) \cup {r}
    BY <1>1 DEF Held, Here
  <2>2. IsFiniteSet(Held(n)) /\ Cardinality(Held(n)) \in Nat
    BY HeldFinite, FS_CardinalityType
  <2>3. \/ Cardinality(Held(n)') = Cardinality(Held(n)) + 1
        \/ Cardinality(Held(n)') = Cardinality(Held(n))
    BY <2>1, <2>2, FS_AddElement
  <2>4. Cardinality(Held(n)') \in Nat
    BY <2>1, <2>2, FS_AddElement, FS_CardinalityType
  <2> QED
    BY <1>1, <2>2, <2>3, <2>4, ConstantsAssumption
<1>2. CASE n # Home[r]
  <2>1. Held(n)' = Held(n)
    BY <1>2 DEF Held, Here
  <2> QED
    BY <2>1 DEF SlotInv
<1> QED
  BY <1>1, <1>2

--------------------------------------------------------------------------------
(* RunInv *)

LEMMA RunInvInit == Init => RunInv
<1> SUFFICES ASSUME Init PROVE RunInv
  OBVIOUS
<1>1. TypeOK
  BY ProgressFacts DEF Init, TypeOK, HostState, PC, Working, Registered
<1>2. StampInv /\ ReportInv
  BY DEF Init, StampInv, ReportInv, Fresh
<1>3. SlotInv
  <2>1. \A n \in Node : Held(n) = {}
    BY DEF Init, Held
  <2> QED
    BY <2>1, FS_EmptySet, ConstantsAssumption DEF Init, SlotInv, Working, Registered
<1>4. ReportFollowsStore
  BY DEF Init, ReportFollowsStore, Progress
<1> QED
  BY <1>1, <1>2, <1>3, <1>4 DEF RunInv

(* The steps that write no record. *)
LEMMA QuietKeeps ==
    ASSUME RunInv, NEW r \in Run, Quiet(r)
    PROVE  RunInv'
<1> USE DEF RunInv
<1> DEFINE Taken == TriggerSlot(r) \/ CronSlot(r)
<1>1. obj' = obj /\ saved' = saved /\ reported' = reported
  BY DEF Quiet, TriggerSlot, CronSlot, TakeSlot, TaskStarts, TaskDropped,
         ScopeThrows, Register, DisposeSlot, Cancel, TimerFires
<1>2. TypeOK'
  <2>1. CASE TriggerSlot(r) \/ CronSlot(r)
    BY <2>1 DEF TriggerSlot, CronSlot, TakeSlot, Goto, TypeOK, PC, Working
  <2>2. CASE TaskStarts(r) \/ TaskDropped(r) \/ ScopeThrows(r) \/ DisposeSlot(r)
    BY <2>2 DEF TaskStarts, TaskDropped, ScopeThrows, DisposeSlot, Goto, TypeOK,
                PC, Working
  <2>3. CASE Register(r)
    <3>1. Signalled(Home[r], source[r]) \in BOOLEAN
      BY DEF Signalled
    <3> QED
      BY <2>3, <3>1 DEF Register, Goto, TypeOK, PC, Working, Registered
  <2>4. CASE Cancel(r) \/ TimerFires(r)
    BY <2>4 DEF Cancel, TimerFires, TypeOK
  <2> QED
    BY <2>1, <2>2, <2>3, <2>4 DEF Quiet
<1>3. StampInv'
  BY <1>1
     DEF Quiet, TriggerSlot, CronSlot, TakeSlot, TaskStarts, TaskDropped,
         ScopeThrows, Register, DisposeSlot, Cancel, TimerFires, Goto, TypeOK,
         StampInv
<1>4. ReportInv'
  BY <1>1
     DEF Quiet, TriggerSlot, CronSlot, TakeSlot, TaskStarts, TaskDropped,
         ScopeThrows, Register, DisposeSlot, Cancel, TimerFires, Goto, TypeOK,
         ReportInv
<1>5. ReportFollowsStore'
  BY <1>1 DEF ReportFollowsStore, Progress
<1>6. SlotInv'
  <2>1. CASE Taken
    BY <2>1, SlotTaken
       DEF TriggerSlot, CronSlot, TakeSlot, Goto, TypeOK, SlotInv
  <2>2. CASE ~Taken
    <3>1. slots' \subseteq slots
      BY <2>2 DEF Quiet, TaskStarts, TaskDropped, ScopeThrows, Register,
                  DisposeSlot, Cancel, TimerFires
    <3>2. \A q \in Run : /\ pc'[q] \in Working => q \in slots'
                         /\ pc'[q] = "none" => q \notin slots'
      BY <2>2 DEF Quiet, TaskStarts, TaskDropped, ScopeThrows, Register,
                  DisposeSlot, Cancel, TimerFires, Goto, TypeOK, SlotInv,
                  Working, Registered
    <3> QED
      BY <3>1, <3>2, SlotsShrink DEF SlotInv
  <2> QED
    BY <2>1, <2>2
<1> QED
  BY <1>2, <1>3, <1>4, <1>5, <1>6

(* The common part of the steps that write a record of r and send its call
   from one phase to another. *)
LEMMA WriteKeeps ==
    ASSUME RunInv, NEW r \in Run, NEW rec \in Record, NEW p \in Working \cup {"over"},
           Save(r, rec) \/ Assign(r, rec)
             \/ (SaveThrows(r, rec) /\ Progress(reported[r]) <= Progress(rec)),
           pc[r] \in Working, Goto(r, p),
           host' = host, source' = source, slots' = slots, live' \subseteq live,
           token' = token, timedOut' = timedOut,
           rec.finished # 0 => p \in {"finishing", "disposing", "over"},
           p = "finishing" => rec.finished \in 0..1,
           p # "adding",
           p = "queued" => source[r] = "Manual",
           p \in {"queued", "entering", "preparing"} => reported'[r] \in {NoRecord, Fresh}
    PROVE  RunInv'
<1> USE DEF RunInv
<1>1. TypeOK'
  BY WriteTypes DEF TypeOK, Goto, PC
<1>2. StampInv'
  BY WriteTypes DEF TypeOK, Goto, StampInv
<1>3. ReportInv'
  <2>1. p # "none"
    BY DEF Working, Registered
  <2> QED
    BY <2>1, WriteTypes DEF TypeOK, Goto, ReportInv
<1>4. SlotInv'
  <2>1. p # "none"
    BY DEF Working, Registered
  <2> QED
    BY <2>1, SlotsShrink DEF TypeOK, Goto, SlotInv
<1>5. ReportFollowsStore'
  BY WriteFollows
<1> QED
  BY <1>1, <1>2, <1>3, <1>4, <1>5

(* The steps that write a record. *)
LEMMA WritesKeep ==
    ASSUME RunInv, NEW r \in Run,
           \/ Added(r) \/ AddThrows(r) \/ FailEarly(r) \/ ArgsThrow(r)
           \/ MarkRunning(r) \/ Finish(r)
           \/ \E s \in Terminal : Outcome(r, s)
    PROVE  RunInv'
<1> USE DEF RunInv
<1>o. obj[r] \in Record /\ reported[r] \in Record \cup {NoRecord}
  BY DEF TypeOK
<1>p. Progress(reported[r]) \in 0..3
  BY <1>o, ProgressFacts
<1>1. CASE Added(r)
  <2> DEFINE p == IF source[r] = "Manual" THEN "queued" ELSE "entering"
  <2>1. p \in Working /\ Fresh \in Record /\ pc[r] \in Working
    BY <1>1, ProgressFacts DEF Working, Added
  <2>2. reported'[r] = Fresh
    BY <1>1 DEF Added, Save, TypeOK
  <2> QED
    BY <1>1, <2>1, <2>2, WriteKeeps, ProgressFacts DEF Added, Fresh
<1>2. CASE AddThrows(r)
  <2> DEFINE p == IF source[r] = "Manual" THEN "over" ELSE "disposing"
  <2>1. p \in Working \cup {"over"} /\ Fresh \in Record /\ pc[r] \in Working
    BY <1>2, ProgressFacts DEF Working, AddThrows
  <2>2. Progress(reported[r]) <= Progress(Fresh)
    BY <1>2, ProgressFacts DEF AddThrows, ReportInv
  <2> QED
    BY <1>2, <2>1, <2>2, WriteKeeps DEF AddThrows, Fresh
<1>3. ASSUME FailEarly(r) PROVE RunInv'
  <2> DEFINE rec == [state |-> "Failed", finished |-> 1]
  <2>1. rec \in Record /\ "finishing" \in Working /\ pc[r] \in Working
    BY <1>3 DEF Record, State, Terminal, Working, Registered, FailEarly
  <2>2. Progress(reported[r]) <= Progress(rec)
    BY <1>p, <2>1, ProgressFacts
  <2> QED
    BY <1>3, <2>1, <2>2, WriteKeeps DEF FailEarly
<1>4. CASE ArgsThrow(r)
  <2>1. CASE Framework
    BY <1>3, <1>4, <2>1 DEF ArgsThrow
  <2>2. CASE ~Framework
    <3>1. obj' = obj /\ saved' = saved /\ reported' = reported
      BY <1>4, <2>2 DEF ArgsThrow
    <3>2. TypeOK'
      BY <1>4, <2>2 DEF ArgsThrow, Goto, TypeOK, PC, Working, Registered
    <3>3. StampInv'
      <4>1. pc' = [pc EXCEPT ![r] = "finishing"] /\ pc[r] = "preparing"
        BY <1>4, <2>2 DEF ArgsThrow, Goto
      <4>2. obj[r].finished = 0
        BY <4>1 DEF StampInv
      <4> QED
        BY <3>1, <4>1, <4>2 DEF StampInv, TypeOK
    <3>4. ReportInv'
      BY <1>4, <2>2 DEF ArgsThrow, Goto, TypeOK, ReportInv
    <3>5. SlotInv'
      BY <1>4, <2>2, SlotsShrink
         DEF ArgsThrow, Goto, TypeOK, SlotInv, Working, Registered
    <3>6. ReportFollowsStore'
      BY <3>1 DEF ReportFollowsStore, Progress
    <3> QED
      BY <3>2, <3>3, <3>4, <3>5, <3>6
  <2> QED
    BY <2>1, <2>2
<1>5. CASE MarkRunning(r)
  <2> DEFINE rec == [obj[r] EXCEPT !.state = "Running"]
  <2>1. /\ rec \in Record /\ rec.state = "Running" /\ rec.finished = obj[r].finished
        /\ pc[r] \in Working /\ "invoking" \in Working /\ "finishing" \in Working
    BY <1>5, <1>o DEF Record, State, Working, Registered, MarkRunning
  <2>2. rec.finished = 0
    BY <1>5, <2>1 DEF MarkRunning, StampInv
  <2>3. Progress(reported[r]) <= 1
    BY <1>5, ProgressFacts DEF MarkRunning, ReportInv
  <2>4. Progress(rec) >= 2 /\ Progress(rec) \in 0..3
    BY <2>1, ProgressFacts
  <2>5. Progress(reported[r]) <= Progress(rec)
    BY <1>p, <2>3, <2>4
  <2> HIDE DEF rec
  <2>6. CASE Save(r, rec) /\ Goto(r, "invoking")
    BY <1>5, <2>1, <2>2, <2>6, WriteKeeps DEF MarkRunning
  <2>7. CASE SaveThrows(r, rec) /\ Goto(r, "finishing")
    BY <1>5, <2>1, <2>2, <2>5, <2>7, WriteKeeps DEF MarkRunning
  <2> QED
    BY <1>5, <2>6, <2>7 DEF MarkRunning, rec
<1>6. CASE Finish(r)
  <2> DEFINE rec == [obj[r] EXCEPT !.finished = @ + 1]
  <2>1. pc[r] \in Working /\ "disposing" \in Working
    BY <1>6 DEF Working, Registered, Finish
  <2>2. obj[r].finished \in 0..1
    BY <1>6 DEF Finish, StampInv
  <2>3. rec \in Record /\ rec.finished # 0
    BY <1>o, <2>2 DEF Record
  <2>4. Save(r, rec) \/ SaveThrows(r, rec)
    BY <1>6 DEF Finish
  <2> HIDE DEF rec
  <2>5. Progress(reported[r]) <= Progress(rec)
    BY <1>p, <2>3, ProgressFacts
  <2> QED
    BY <1>6, <2>1, <2>3, <2>5, <2>4, WriteKeeps DEF Finish
<1>7. ASSUME NEW s \in Terminal, Outcome(r, s) PROVE RunInv'
  <2> DEFINE rec == [obj[r] EXCEPT !.state = s]
  <2>1. pc[r] \in Working /\ "finishing" \in Working
    BY <1>7 DEF Working, Registered, Outcome
  <2>2. rec \in Record /\ rec.finished = obj[r].finished
    BY <1>o DEF Record, State
  <2>3. rec.finished = 0
    BY <1>7, <2>2 DEF Outcome, StampInv
  <2>4. Assign(r, rec)
    BY <1>7 DEF Outcome
  <2> HIDE DEF rec
  <2> QED
    BY <1>7, <2>1, <2>2, <2>3, <2>4, WriteKeeps DEF Outcome
<1> QED
  BY <1>1, <1>2, <1>3, <1>4, <1>5, <1>6, <1>7

(* Boots, stops and crashes. *)
LEMMA HostKeeps ==
    ASSUME RunInv, NEW n \in Node, HostStep(n)
    PROVE  RunInv'
<1> USE DEF RunInv
<1>1. CASE StartHost(n)
  BY <1>1, SlotsShrink
     DEF StartHost, TypeOK, HostState, StampInv, ReportInv, SlotInv,
         ReportFollowsStore, Progress
<1>2. CASE Boot(n)
  <2>1. saved' \in [Run -> Record \cup {NoRecord}]
    BY <1>2, ReplayFacts DEF Boot, TypeOK
  <2>2. ReportFollowsStore'
    <3> SUFFICES ASSUME Persistent, NEW r \in Run
                 PROVE  Progress(reported'[r]) <= Progress(saved'[r])
      BY DEF ReportFollowsStore, Progress
    <3>1. saved'[r] = Replayed(saved[r]) /\ reported'[r] = reported[r]
      BY <1>2 DEF Boot
    <3>2. saved[r] \in Record \cup {NoRecord} /\ reported[r] \in Record \cup {NoRecord}
      BY DEF TypeOK
    <3>3. Progress(saved'[r]) >= Progress(saved[r])
      BY <3>1, <3>2, ReplayFacts
    <3>4. /\ Progress(saved[r]) \in 0..3 /\ Progress(reported[r]) \in 0..3
          /\ Progress(saved'[r]) \in 0..3
      BY <2>1, <3>2, ProgressFacts
    <3>5. Progress(reported[r]) <= Progress(saved[r])
      BY DEF ReportFollowsStore
    <3> QED
      BY <3>1, <3>3, <3>4, <3>5
  <2> QED
    BY <1>2, <2>1, <2>2, SlotsShrink
       DEF Boot, TypeOK, HostState, StampInv, ReportInv, SlotInv
<1>3. CASE BeginStop(n) \/ StopScheduler(n)
  <2>1. /\ UNCHANGED <<pc, source, obj, saved, reported, slots, live, timedOut>>
        /\ token' \in [Run -> BOOLEAN] /\ host' \in [Node -> HostState]
    BY <1>3 DEF BeginStop, StopScheduler, Signal, TypeOK, HostState
  <2>2. TypeOK'
    BY <2>1 DEF TypeOK
  <2>3. StampInv' /\ ReportInv' /\ SlotInv'
    BY <2>1, SlotsShrink DEF StampInv, ReportInv, SlotInv
  <2>4. ReportFollowsStore'
    BY <2>1 DEF ReportFollowsStore, Progress
  <2> QED
    BY <2>2, <2>3, <2>4
<1>4. CASE Die(n)
  <2>1. TypeOK'
    BY <1>4 DEF Die, TypeOK, HostState, PC
  <2>2. StampInv' /\ ReportInv'
    BY <1>4 DEF Die, TypeOK, StampInv, ReportInv
  <2>3. ReportFollowsStore'
    BY <1>4 DEF Die, TypeOK, ReportFollowsStore, Progress
  <2>4. SlotInv'
    BY <1>4, SlotsShrink DEF Die, TypeOK, SlotInv, Working, Registered, Here
  <2> QED
    BY <2>1, <2>2, <2>3, <2>4
<1> QED
  BY <1>1, <1>2, <1>3, <1>4 DEF HostStep

LEMMA RunInvStep == RunInv /\ [Next]_vars => RunInv'
<1> SUFFICES ASSUME RunInv, [Next]_vars PROVE RunInv'
  OBVIOUS
<1>1. ASSUME NEW r \in Run, Quiet(r) PROVE RunInv'
  BY <1>1, QuietKeeps
<1>2. ASSUME NEW r \in Run,
             \/ Added(r) \/ AddThrows(r) \/ ConstructThrows(r) \/ ArgsThrow(r)
             \/ MarkRunning(r) \/ Finish(r)
             \/ JobReturns(r) \/ JobThrows(r) \/ JobCancelled(r)
      PROVE  RunInv'
  BY <1>2, WritesKeep DEF ConstructThrows, JobReturns, JobThrows, JobCancelled, Terminal
<1>3. ASSUME NEW n \in Node, HostStep(n) PROVE RunInv'
  BY <1>3, HostKeeps
<1>4. CASE UNCHANGED vars
  BY <1>4, SlotsShrink
     DEF vars, RunInv, TypeOK, StampInv, ReportInv, SlotInv, ReportFollowsStore, Progress
<1> QED
  BY <1>1, <1>2, <1>3, <1>4 DEF Next, Quiet, HostStep

(* Types, whatever fails: in particular FinishedAt is assigned at most twice. *)
THEOREM TypeCorrect == Spec => []TypeOK
<1>1. RunInv => TypeOK
  BY DEF RunInv
<1> QED
  BY <1>1, RunInvInit, RunInvStep, PTL DEF Spec

(* No process runs more of the job than its limit: a run executes inside the
   lifetime of its slot, on every path through JobExecutor and its callers. *)
THEOREM NeverOverCap == Spec => []WithinCap
<1>1. RunInv => WithinCap
  <2> SUFFICES ASSUME RunInv, NEW n \in Node
               PROVE  Cardinality({r \in Here(n) : pc[r] \in Registered}) <= Cap
    BY DEF WithinCap
  <2> DEFINE S == {r \in Here(n) : pc[r] \in Registered}
  <2>1. S \subseteq Held(n)
    BY DEF RunInv, SlotInv, Held, Here, Working
  <2>2. Cardinality(S) <= Cardinality(Held(n))
    BY <2>1, HeldFinite, FS_Subset
  <2>3. Cardinality(S) \in Nat /\ Cardinality(Held(n)) \in Nat
    BY <2>1, HeldFinite, FS_Subset, FS_CardinalityType
  <2> QED
    BY <2>2, <2>3, ConstantsAssumption DEF RunInv, SlotInv
<1> QED
  BY <1>1, RunInvInit, RunInvStep, PTL DEF Spec

(* The dashboard is never told what the store did not take, whatever saves
   fail (JobExecutor calls the reporter after the store). *)
THEOREM ReportsFollow == Spec => []ReportFollowsStore
<1>1. RunInv => ReportFollowsStore
  BY DEF RunInv
<1> QED
  BY <1>1, RunInvInit, RunInvStep, PTL DEF Spec

--------------------------------------------------------------------------------
(* DuckRun.Framework on a store of its own *)

(* No two processes share the database. *)
OneProcess == \A m, n \in Node : m = n

(* DuckRun.Framework starts its scheduler after the hosted services: a process
   that has not booted runs nothing. *)
HostInv ==
    \A r \in Run : host[Home[r]] \in {"down", "starting"} => pc[r] \in {"none", "over"}

LEMMA HostInvInit == Init => HostInv
  BY DEF Init, HostInv

LEMMA HostInvStep ==
    ASSUME Framework, RunInv, HostInv, [Next]_vars
    PROVE  HostInv'
<1> USE ConstantsAssumption DEF RunInv
<1>1. ASSUME NEW r \in Run, TriggerSlot(r) \/ CronSlot(r) PROVE HostInv'
  BY <1>1 DEF TriggerSlot, CronSlot, TakeSlot, Goto, TypeOK, HostInv
<1>2. ASSUME NEW r \in Run,
             \/ TaskStarts(r) \/ TaskDropped(r) \/ ScopeThrows(r) \/ Register(r)
             \/ DisposeSlot(r) \/ Cancel(r) \/ TimerFires(r)
      PROVE  HostInv'
  BY <1>2 DEF TaskStarts, TaskDropped, ScopeThrows, Register, DisposeSlot, Cancel,
              TimerFires, Goto, TypeOK, HostInv
<1>3. ASSUME NEW r \in Run,
             \/ Added(r) \/ AddThrows(r) \/ FailEarly(r) \/ MarkRunning(r)
             \/ Finish(r) \/ \E s \in Terminal : Outcome(r, s)
      PROVE  HostInv'
  BY <1>3 DEF Added, AddThrows, FailEarly, MarkRunning, Finish, Outcome, Goto,
              TypeOK, HostInv
<1>4. ASSUME NEW n \in Node, HostStep(n) PROVE HostInv'
  BY <1>4 DEF HostStep, StartHost, Boot, BeginStop, StopScheduler, Die, Here,
              TypeOK, HostInv
<1>5. CASE UNCHANGED vars
  BY <1>5 DEF vars, HostInv
<1> QED
  BY <1>1, <1>2, <1>3, <1>4, <1>5
     DEF Next, HostStep, ConstructThrows, ArgsThrow, JobReturns, JobThrows,
         JobCancelled, Terminal

(* Who writes the record of r: a step of r's own call, which moves it on, the
   replay of a booting process, or the end of r's process. *)
LEMMA OwnRecord ==
    ASSUME RunInv, Next, NEW r \in Run, saved'[r] # saved[r]
    PROVE  \/ pc[r] \in Working /\ pc'[r] # pc[r]
           \/ \E n \in Node : Boot(n)
           \/ \E n \in Node : Die(n) /\ r \in Here(n)
<1> USE DEF RunInv
<1>1. ASSUME NEW q \in Run, Quiet(q) PROVE FALSE
  BY <1>1 DEF Quiet, TriggerSlot, CronSlot, TakeSlot, TaskStarts, TaskDropped,
              ScopeThrows, Register, DisposeSlot, Cancel, TimerFires
<1>2. ASSUME NEW q \in Run,
             \/ Added(q) \/ AddThrows(q) \/ FailEarly(q) \/ MarkRunning(q)
             \/ Finish(q) \/ \E s \in Terminal : Outcome(q, s)
      PROVE  pc[r] \in Working /\ pc'[r] # pc[r]
  <2>1. q = r
    BY <1>2 DEF Added, AddThrows, FailEarly, MarkRunning, Finish, Outcome, Save,
                SaveThrows, Assign, TypeOK
  <2> QED
    BY <1>2, <2>1 DEF Added, AddThrows, FailEarly, MarkRunning, Finish, Outcome,
                      Goto, TypeOK, Working, Registered
<1>3. ASSUME NEW q \in Run, ArgsThrow(q), ~FailEarly(q) PROVE FALSE
  BY <1>3 DEF ArgsThrow
<1>4. ASSUME NEW n \in Node, HostStep(n)
      PROVE  Boot(n) \/ (Die(n) /\ r \in Here(n))
  BY <1>4 DEF HostStep, StartHost, BeginStop, StopScheduler, Die, TypeOK
<1> QED
  BY <1>1, <1>2, <1>3, <1>4
     DEF Next, Quiet, HostStep, ConstructThrows, JobReturns, JobThrows,
         JobCancelled, Terminal

(* The replay on boot never closes the record of a run in progress, when the
   scheduler starts after it and nobody else uses the database. *)
THEOREM ReplayIsExact == Framework /\ OneProcess /\ Spec => ReplaysOnlyStuck
<1> SUFFICES ASSUME Framework, OneProcess PROVE Spec => ReplaysOnlyStuck
  OBVIOUS
<1>1. RunInv /\ HostInv /\ [Next]_vars => HostInv'
  BY HostInvStep
<1>2. RunInv /\ HostInv /\ [Next]_vars =>
        [\A r \in Run : Open(saved[r]) /\ ~Open(saved'[r]) /\ pc[r] \in Working
            => pc'[r] # pc[r]]_vars
  <2> SUFFICES ASSUME RunInv, HostInv, Next, NEW r \in Run,
                      Open(saved[r]), ~Open(saved'[r]), pc[r] \in Working,
                      pc'[r] = pc[r]
               PROVE  FALSE
    OBVIOUS
  <2>1. saved'[r] # saved[r]
    OBVIOUS
  <2>2. ASSUME NEW n \in Node, Boot(n) PROVE FALSE
    <3>1. n = Home[r]
      BY ConstantsAssumption DEF OneProcess
    <3> QED
      BY <2>2, <3>1 DEF Boot, HostInv, Working, Registered
  <2>3. ASSUME NEW n \in Node, Die(n), r \in Here(n) PROVE FALSE
    BY <2>3 DEF Die, RunInv, TypeOK, Working, Registered
  <2> QED
    BY <2>1, <2>2, <2>3, OwnRecord
<1> QED
  BY <1>1, <1>2, RunInvInit, RunInvStep, HostInvInit, PTL DEF Spec, ReplaysOnlyStuck

--------------------------------------------------------------------------------
(* Outcomes, when no save throws *)

(* No UpdateAsync throws. *)
SavesWork == "save" \notin Faults

(* Who reaches the finally block has an outcome, and so has every record with
   FinishedAt. *)
OutcomeInv ==
    /\ \A r \in Run : pc[r] = "finishing" => obj[r].state \in Terminal
    /\ FinishedIsTerminal

LEMMA OutcomeInvInit == Init => OutcomeInv
  BY DEF Init, OutcomeInv, FinishedIsTerminal, NoRecord

LEMMA OutcomeInvStep ==
    ASSUME Framework, SavesWork, RunInv, OutcomeInv, [Next]_vars
    PROVE  OutcomeInv'
<1> USE DEF RunInv, SavesWork
<1>1. ASSUME NEW r \in Run, Quiet(r) PROVE OutcomeInv'
  BY <1>1 DEF Quiet, TriggerSlot, CronSlot, TakeSlot, TaskStarts, TaskDropped,
              ScopeThrows, Register, DisposeSlot, Cancel, TimerFires, Goto,
              TypeOK, OutcomeInv, FinishedIsTerminal
<1>2. ASSUME NEW r \in Run, Added(r) \/ AddThrows(r) PROVE OutcomeInv'
  BY <1>2 DEF Added, AddThrows, Save, SaveThrows, Goto, Fresh, TypeOK,
              OutcomeInv, FinishedIsTerminal
<1>3. ASSUME NEW r \in Run, FailEarly(r) PROVE OutcomeInv'
  BY <1>3 DEF FailEarly, Save, Goto, TypeOK, OutcomeInv, FinishedIsTerminal, Terminal
<1>4. ASSUME NEW r \in Run, MarkRunning(r) PROVE OutcomeInv'
  <2> DEFINE rec == [obj[r] EXCEPT !.state = "Running"]
  <2>1. obj[r].finished = 0 /\ obj[r] \in Record
    BY <1>4 DEF MarkRunning, StampInv, TypeOK
  <2>2. rec.finished = 0
    BY <2>1 DEF Record
  <2>3. saved' = [saved EXCEPT ![r] = rec] /\ pc' = [pc EXCEPT ![r] = "invoking"]
    BY <1>4 DEF MarkRunning, Save, Goto
  <2>4. obj' = [obj EXCEPT ![r] = rec]
    BY <1>4 DEF MarkRunning, Save
  <2> HIDE DEF rec
  <2> QED
    BY <2>2, <2>3, <2>4 DEF TypeOK, OutcomeInv, FinishedIsTerminal
<1>5. ASSUME NEW r \in Run, NEW s \in Terminal, Outcome(r, s) PROVE OutcomeInv'
  <2>1. obj[r] \in Record
    BY DEF TypeOK
  <2> QED
    BY <1>5, <2>1 DEF Outcome, Assign, Goto, TypeOK, Record, OutcomeInv,
                      FinishedIsTerminal
<1>6. ASSUME NEW r \in Run, Finish(r) PROVE OutcomeInv'
  <2>1. obj[r] \in Record
    BY DEF TypeOK
  <2> QED
    BY <1>6, <2>1 DEF Finish, Save, Goto, TypeOK, Record, OutcomeInv,
                      FinishedIsTerminal
<1>7. ASSUME NEW n \in Node, Boot(n) PROVE OutcomeInv'
  BY <1>7 DEF Boot, Replayed, TypeOK, OutcomeInv, FinishedIsTerminal, Terminal
<1>8. ASSUME NEW n \in Node,
             StartHost(n) \/ BeginStop(n) \/ StopScheduler(n) \/ Die(n)
      PROVE  OutcomeInv'
  BY <1>8 DEF StartHost, BeginStop, StopScheduler, Die, TypeOK, OutcomeInv,
              FinishedIsTerminal, NoRecord
<1>9. CASE UNCHANGED vars
  BY <1>9 DEF vars, OutcomeInv, FinishedIsTerminal
<1> QED
  BY <1>1, <1>2, <1>3, <1>4, <1>5, <1>6, <1>7, <1>8, <1>9
     DEF Next, Quiet, ConstructThrows, ArgsThrow, JobReturns, JobThrows,
         JobCancelled, Terminal

(* A stored FinishedAt comes with an outcome: FailEarly catches in
   DuckRun.Framework what BuildArguments lets through in DuckRun.Core. *)
THEOREM FinishedSaysHow == Framework /\ SavesWork /\ Spec => []FinishedIsTerminal
<1> SUFFICES ASSUME Framework, SavesWork PROVE Spec => []FinishedIsTerminal
  OBVIOUS
<1>1. RunInv /\ OutcomeInv /\ [Next]_vars => OutcomeInv'
  BY OutcomeInvStep
<1>2. OutcomeInv => FinishedIsTerminal
  BY DEF OutcomeInv
<1> QED
  BY <1>1, <1>2, RunInvInit, RunInvStep, OutcomeInvInit, PTL DEF Spec

(* What the store knows of a call at each of its phases. *)
StoreInv ==
    /\ \A r \in Run : pc[r] \in {"queued", "adding", "entering", "preparing", "invoking"}
                         => saved[r].finished = 0
    /\ \A r \in Run : pc[r] = "none" => saved[r] = NoRecord
    /\ \A r \in Run : pc[r] = "finishing" /\ saved[r].finished # 0
                         => saved[r].state = obj[r].state

LEMMA StoreInvInit == Init => StoreInv
  BY DEF Init, StoreInv

LEMMA StoreInvStep ==
    ASSUME Framework, SavesWork, OneProcess, RunInv, HostInv, StoreInv, [Next]_vars
    PROVE  StoreInv'
<1> USE DEF RunInv, SavesWork
<1>1. ASSUME NEW r \in Run, Quiet(r) PROVE StoreInv'
  BY <1>1 DEF Quiet, TriggerSlot, CronSlot, TakeSlot, TaskStarts, TaskDropped,
              ScopeThrows, Register, DisposeSlot, Cancel, TimerFires, Goto,
              TypeOK, StoreInv, NoRecord
<1>2. ASSUME NEW r \in Run, Added(r) \/ AddThrows(r) PROVE StoreInv'
  BY <1>2 DEF Added, AddThrows, Save, SaveThrows, Goto, Fresh, TypeOK, StoreInv
<1>3. ASSUME NEW r \in Run, FailEarly(r) PROVE StoreInv'
  BY <1>3 DEF FailEarly, Save, Goto, TypeOK, StoreInv
<1>4. ASSUME NEW r \in Run, MarkRunning(r) PROVE StoreInv'
  <2> DEFINE rec == [obj[r] EXCEPT !.state = "Running"]
  <2>1. obj[r].finished = 0 /\ obj[r] \in Record
    BY <1>4 DEF MarkRunning, StampInv, TypeOK
  <2>2. rec.finished = 0
    BY <2>1 DEF Record
  <2>3. saved' = [saved EXCEPT ![r] = rec] /\ pc' = [pc EXCEPT ![r] = "invoking"]
    BY <1>4 DEF MarkRunning, Save, Goto
  <2>4. obj' = [obj EXCEPT ![r] = rec]
    BY <1>4 DEF MarkRunning, Save
  <2> HIDE DEF rec
  <2> QED
    BY <2>2, <2>3, <2>4 DEF TypeOK, StoreInv
<1>5. ASSUME NEW r \in Run, NEW s \in Terminal, Outcome(r, s) PROVE StoreInv'
  <2>1. obj[r].finished = 0 /\ obj[r] \in Record
    BY <1>5 DEF Outcome, StampInv, TypeOK
  <2> QED
    BY <1>5, <2>1 DEF Outcome, Assign, Goto, TypeOK, Record, StoreInv
<1>6. ASSUME NEW r \in Run, Finish(r) PROVE StoreInv'
  BY <1>6 DEF Finish, Save, Goto, TypeOK, StoreInv
<1>7. ASSUME NEW n \in Node, Boot(n) PROVE StoreInv'
  <2>1. \A r \in Run : pc[r] \in {"none", "over"}
    BY <1>7, ConstantsAssumption DEF Boot, HostInv, OneProcess
  <2>2. Replayed(NoRecord) = NoRecord
    BY DEF Replayed, Open
  <2> QED
    BY <1>7, <2>1, <2>2 DEF Boot, StoreInv
<1>8. ASSUME NEW n \in Node,
             StartHost(n) \/ BeginStop(n) \/ StopScheduler(n) \/ Die(n)
      PROVE  StoreInv'
  BY <1>8 DEF StartHost, BeginStop, StopScheduler, Die, TypeOK, StoreInv, NoRecord
<1>9. CASE UNCHANGED vars
  BY <1>9 DEF vars, StoreInv
<1> QED
  BY <1>1, <1>2, <1>3, <1>4, <1>5, <1>6, <1>7, <1>8, <1>9
     DEF Next, Quiet, ConstructThrows, ArgsThrow, JobReturns, JobThrows,
         JobCancelled, Terminal

(* A stored outcome is final: neither the finally block, which saves once more,
   nor a restart changes it. *)
THEOREM OutcomeIsFinal == Framework /\ SavesWork /\ OneProcess /\ Spec => OutcomeStays
<1> SUFFICES ASSUME Framework, SavesWork, OneProcess PROVE Spec => OutcomeStays
  OBVIOUS
<1>1. RunInv /\ HostInv /\ OutcomeInv /\ StoreInv /\ [Next]_vars
        => HostInv' /\ OutcomeInv' /\ StoreInv'
  BY HostInvStep, OutcomeInvStep, StoreInvStep
<1>2. RunInv /\ HostInv /\ OutcomeInv /\ StoreInv /\ [Next]_vars =>
        [\A r \in Run : saved[r].finished # 0 /\ saved'[r] # NoRecord
            => saved'[r].state = saved[r].state]_vars
  <2> SUFFICES ASSUME RunInv, OutcomeInv, StoreInv, Next, NEW r \in Run,
                      saved[r].finished # 0, saved'[r] # NoRecord,
                      saved'[r] # saved[r]
               PROVE  saved'[r].state = saved[r].state
    OBVIOUS
  <2> USE DEF RunInv, SavesWork
  <2>1. ASSUME NEW q \in Run, Quiet(q) PROVE FALSE
    BY <2>1 DEF Quiet, TriggerSlot, CronSlot, TakeSlot, TaskStarts, TaskDropped,
                ScopeThrows, Register, DisposeSlot, Cancel, TimerFires
  <2>2. ASSUME NEW q \in Run,
               \/ Added(q) \/ AddThrows(q) \/ FailEarly(q) \/ MarkRunning(q)
               \/ \E s \in Terminal : Outcome(q, s)
        PROVE  FALSE
    <3>1. q = r
      BY <2>2 DEF Added, AddThrows, FailEarly, MarkRunning, Outcome, Save,
                  SaveThrows, Assign, TypeOK
    <3> QED
      BY <2>2, <3>1 DEF Added, AddThrows, FailEarly, MarkRunning, Outcome, StoreInv
  <2>3. ASSUME NEW q \in Run, Finish(q) PROVE saved'[r].state = saved[r].state
    <3>1. q = r /\ obj[r] \in Record
      BY <2>3 DEF Finish, Save, TypeOK
    <3> QED
      BY <2>3, <3>1 DEF Finish, Save, Record, TypeOK, StoreInv
  <2>4. ASSUME NEW n \in Node, Boot(n) PROVE FALSE
    BY <2>4 DEF Boot, Replayed, Open, OutcomeInv, FinishedIsTerminal, Terminal
  <2>5. ASSUME NEW n \in Node,
               StartHost(n) \/ BeginStop(n) \/ StopScheduler(n) \/ Die(n)
        PROVE  FALSE
    BY <2>5 DEF StartHost, BeginStop, StopScheduler, Die
  <2> QED
    BY <2>1, <2>2, <2>3, <2>4, <2>5
       DEF Next, Quiet, ConstructThrows, ArgsThrow, JobReturns, JobThrows,
           JobCancelled, Terminal
<1> QED
  BY <1>1, <1>2, RunInvInit, RunInvStep, HostInvInit, OutcomeInvInit, StoreInvInit,
     PTL DEF Spec, OutcomeStays

--------------------------------------------------------------------------------
(* What is left open *)

(* No caller cancels the token of TriggerAsync: a manual run whose task the
   thread pool then never starts keeps its "Pending" record. *)
NobodyGivesUp == "giveup" \notin Faults

(* What a crash left behind is closed, or is gone with the process. *)
Swept(n) == host[n] = "up" \/ (~Persistent /\ host[n] \in {"down", "starting"})

Unfinished(r)  == saved[r] # NoRecord /\ saved[r].finished = 0
Unannounced(r) == saved[r] = Fresh /\ reported[r] = NoRecord

(* In a database what has no FinishedAt has no outcome either, so that the
   replay finds it. *)
ReplayFinds ==
    Persistent => \A r \in Run : Unfinished(r) => saved[r].state \in {"Pending", "Running"}

(* Before its AddAsync a run has no record. *)
Unstored(r) == pc[r] \in {"none", "adding"} \/ (pc[r] = "queued" /\ source[r] = "Cron")

(* Of a run that has passed its finally block, or never gets there, nothing is
   unfinished that anybody knows of. *)
LeftBehind ==
    \A r \in Run : Swept(Home[r]) /\ pc[r] \in {"disposing", "over"} /\ Unfinished(r)
                       => Unannounced(r)

FlightInv == ReplayFinds /\ LeftBehind /\ \A r \in Run : Unstored(r) => saved[r] = NoRecord

LEMMA FlightInvInit == Init => FlightInv
  BY DEF Init, FlightInv, ReplayFinds, LeftBehind, Unfinished

(* A step of the call of r, which leaves the other runs and the host alone. *)
LEMMA FlightStep ==
    ASSUME RunInv, FlightInv, NEW r \in Run, host' = host,
           \A q \in Run \ {r} : /\ pc'[q] = pc[q] /\ source'[q] = source[q]
                                /\ saved'[q] = saved[q] /\ reported'[q] = reported[q],
           Persistent /\ Unfinished(r)' => saved'[r].state \in {"Pending", "Running"},
           Unstored(r)' => saved'[r] = NoRecord,
           Swept(Home[r]) /\ pc'[r] \in {"disposing", "over"} /\ Unfinished(r)'
               => Unannounced(r)'
    PROVE  FlightInv'
<1>1. \A q \in Run \ {r} : /\ Unfinished(q)' = Unfinished(q)
                           /\ Unannounced(q)' = Unannounced(q)
                           /\ Unstored(q)' = Unstored(q)
  BY DEF Unfinished, Unannounced, Unstored
<1>2. \A n : Swept(n)' = Swept(n)
  BY DEF Swept
<1>3. ReplayFinds'
  BY <1>1 DEF ReplayFinds, FlightInv
<1>4. LeftBehind'
  BY <1>1, <1>2 DEF LeftBehind, FlightInv
<1>5. \A q \in Run : Unstored(q)' => saved'[q] = NoRecord
  BY <1>1 DEF FlightInv
<1> QED
  BY <1>3, <1>4, <1>5 DEF FlightInv

LEMMA FlightQuiet ==
    ASSUME SavesWork, NobodyGivesUp, RunInv, FlightInv, NEW r \in Run, Quiet(r)
    PROVE  FlightInv'
<1> USE DEF RunInv, TypeOK
<1>1. saved' = saved /\ reported' = reported /\ host' = host
  BY DEF Quiet, TriggerSlot, CronSlot, TakeSlot, TaskStarts, TaskDropped,
         ScopeThrows, Register, DisposeSlot, Cancel, TimerFires
<1>2. \A q \in Run \ {r} : pc'[q] = pc[q] /\ source'[q] = source[q]
  BY DEF Quiet, TriggerSlot, CronSlot, TakeSlot, TaskStarts, TaskDropped,
         ScopeThrows, Register, DisposeSlot, Cancel, TimerFires, Goto
<1>3. Unfinished(r)' = Unfinished(r) /\ Unannounced(r)' = Unannounced(r)
  BY <1>1 DEF Unfinished, Unannounced
<1>4. Unstored(r)' => saved[r] = NoRecord
  <2>1. CASE TriggerSlot(r) \/ CronSlot(r)
    BY <2>1 DEF TriggerSlot, CronSlot, TakeSlot, FlightInv, Unstored
  <2>2. CASE TaskStarts(r)
    BY <2>2 DEF TaskStarts, Goto, FlightInv, Unstored
  <2>3. CASE TaskDropped(r) \/ ScopeThrows(r) \/ Register(r) \/ DisposeSlot(r)
    BY <2>3 DEF TaskDropped, ScopeThrows, Register, DisposeSlot, Goto, Unstored
  <2>4. CASE Cancel(r) \/ TimerFires(r)
    BY <2>4 DEF Cancel, TimerFires, FlightInv, Unstored
  <2> QED
    BY <2>1, <2>2, <2>3, <2>4 DEF Quiet
<1>5. ASSUME Swept(Home[r]), pc'[r] \in {"disposing", "over"}, Unfinished(r)
      PROVE  Unannounced(r)
  <2>1. CASE TriggerSlot(r) \/ CronSlot(r) \/ TaskStarts(r) \/ Register(r)
    BY <1>5, <2>1 DEF TriggerSlot, CronSlot, TakeSlot, TaskStarts, Register, Goto
  <2>2. CASE TaskDropped(r)
    BY <1>5, <2>2 DEF TaskDropped, NobodyGivesUp, FlightInv, Unstored, Unfinished
  <2>3. CASE ScopeThrows(r)
    BY <1>5, <2>3 DEF ScopeThrows, Swept
  <2>4. CASE DisposeSlot(r) \/ Cancel(r) \/ TimerFires(r)
    BY <1>5, <2>4 DEF DisposeSlot, Cancel, TimerFires, FlightInv, LeftBehind
  <2> QED
    BY <2>1, <2>2, <2>3, <2>4 DEF Quiet
<1>6. Persistent /\ Unfinished(r) => saved[r].state \in {"Pending", "Running"}
  BY DEF FlightInv, ReplayFinds
<1> QED
  BY <1>1, <1>2, <1>3, <1>4, <1>5, <1>6, FlightStep

LEMMA FlightWrites ==
    ASSUME SavesWork, NobodyGivesUp, RunInv, FlightInv, NEW r \in Run,
           \/ Added(r) \/ AddThrows(r) \/ FailEarly(r) \/ ArgsThrow(r)
           \/ MarkRunning(r) \/ Finish(r)
           \/ \E s \in Terminal : Outcome(r, s)
    PROVE  FlightInv'
<1> USE DEF RunInv, SavesWork
<1>o. obj[r] \in Record
  BY DEF TypeOK
<1>w. ASSUME NEW rec \in Record, NEW p,
             Save(r, rec) \/ SaveThrows(r, rec) \/ Assign(r, rec),
             Goto(r, p), host' = host, source' = source,
             Persistent /\ Unfinished(r)' => saved'[r].state \in {"Pending", "Running"},
             Unstored(r)' => saved'[r] = NoRecord,
             Swept(Home[r]) /\ p \in {"disposing", "over"} /\ Unfinished(r)'
                 => Unannounced(r)'
      PROVE  FlightInv'
  <2>1. \A q \in Run \ {r} : saved'[q] = saved[q] /\ reported'[q] = reported[q]
    BY <1>w, WriteTypes
  <2>2. pc'[r] = p /\ \A q \in Run \ {r} : pc'[q] = pc[q]
    BY <1>w DEF Goto, TypeOK
  <2> QED
    BY <1>w, <2>1, <2>2, FlightStep
<1>1. CASE Added(r)
  <2> DEFINE p == IF source[r] = "Manual" THEN "queued" ELSE "entering"
  <2>1. saved'[r] = Fresh /\ Goto(r, p) /\ Save(r, Fresh) /\ pc'[r] = p
    BY <1>1 DEF Added, Save, Goto, TypeOK
  <2>2. host' = host /\ source' = source
    BY <1>1 DEF Added
  <2>3. ~Unstored(r)'
    BY <2>1, <2>2 DEF Unstored
  <2> QED
    BY <1>w, <2>1, <2>2, <2>3, ProgressFacts DEF Fresh
<1>2. CASE AddThrows(r)
  <2> DEFINE p == IF source[r] = "Manual" THEN "over" ELSE "disposing"
  <2>1. /\ Goto(r, p) /\ SaveThrows(r, Fresh) /\ pc'[r] = p
        /\ host' = host /\ source' = source
    BY <1>2 DEF AddThrows, Goto, TypeOK
  <2>2. saved[r] = NoRecord /\ reported[r] = NoRecord
    BY <1>2 DEF AddThrows, FlightInv, Unstored, ReportInv
  <2>3. saved'[r] \in {NoRecord, Fresh} /\ reported'[r] = NoRecord
    BY <2>1, <2>2 DEF SaveThrows, TypeOK
  <2>4. ~Unstored(r)'
    BY <2>1 DEF Unstored
  <2>5. Unfinished(r)' => Unannounced(r)' /\ saved'[r].state = "Pending"
    BY <2>3 DEF Unfinished, Unannounced, Fresh
  <2> QED
    BY <1>w, <2>1, <2>4, <2>5, ProgressFacts
<1>3. ASSUME FailEarly(r) PROVE FlightInv'
  <2> DEFINE rec == [state |-> "Failed", finished |-> 1]
  <2>1. rec \in Record
    BY DEF Record, State, Terminal
  <2>2. /\ Save(r, rec) /\ Goto(r, "finishing") /\ saved'[r] = rec /\ pc'[r] = "finishing"
        /\ host' = host /\ source' = source
    BY <1>3 DEF FailEarly, Save, Goto, TypeOK
  <2>3. ~Unstored(r)' /\ ~Unfinished(r)'
    BY <2>2 DEF Unstored, Unfinished
  <2> HIDE DEF rec
  <2> QED
    BY <1>w, <2>1, <2>2, <2>3
<1>4. CASE ArgsThrow(r)
  <2>1. CASE Framework
    BY <1>3, <1>4, <2>1 DEF ArgsThrow
  <2>2. CASE ~Framework
    <3>1. /\ saved' = saved /\ reported' = reported /\ host' = host /\ source' = source
          /\ pc'[r] = "finishing" /\ \A q \in Run \ {r} : pc'[q] = pc[q]
      BY <1>4, <2>2 DEF ArgsThrow, Goto, TypeOK
    <3>2. ~Unstored(r)' /\ Unfinished(r)' = Unfinished(r)
      BY <3>1 DEF Unstored, Unfinished
    <3>3. Persistent /\ Unfinished(r) => saved[r].state \in {"Pending", "Running"}
      BY DEF FlightInv, ReplayFinds
    <3> QED
      BY <3>1, <3>2, <3>3, FlightStep
  <2> QED
    BY <2>1, <2>2
<1>5. CASE MarkRunning(r)
  <2> DEFINE rec == [obj[r] EXCEPT !.state = "Running"]
  <2>1. rec \in Record /\ rec.state = "Running"
    BY <1>o DEF Record, State
  <2>2. /\ Save(r, rec) /\ Goto(r, "invoking") /\ saved'[r] = rec /\ pc'[r] = "invoking"
        /\ host' = host /\ source' = source
    BY <1>5 DEF MarkRunning, Save, Goto, TypeOK
  <2>3. ~Unstored(r)'
    BY <2>2 DEF Unstored
  <2> HIDE DEF rec
  <2> QED
    BY <1>w, <2>1, <2>2, <2>3
<1>6. CASE Finish(r)
  <2> DEFINE rec == [obj[r] EXCEPT !.finished = @ + 1]
  <2>1. rec \in Record /\ rec.finished # 0
    <3>1. obj[r].finished \in 0..1
      BY <1>6 DEF Finish, StampInv
    <3> QED
      BY <1>o, <3>1 DEF Record
  <2>2. /\ Save(r, rec) /\ Goto(r, "disposing") /\ saved'[r] = rec /\ pc'[r] = "disposing"
        /\ host' = host /\ source' = source
    BY <1>6 DEF Finish, Save, Goto, TypeOK
  <2> HIDE DEF rec
  <2>3. ~Unstored(r)' /\ ~Unfinished(r)'
    BY <2>1, <2>2 DEF Unstored, Unfinished
  <2> QED
    BY <1>w, <2>1, <2>2, <2>3
<1>7. ASSUME NEW s \in Terminal, Outcome(r, s) PROVE FlightInv'
  <2> DEFINE rec == [obj[r] EXCEPT !.state = s]
  <2>1. rec \in Record
    BY <1>o DEF Record, State
  <2>2. /\ Assign(r, rec) /\ Goto(r, "finishing") /\ pc'[r] = "finishing"
        /\ host' = host /\ source' = source
    BY <1>7 DEF Outcome, Goto, TypeOK
  <2> HIDE DEF rec
  <2>3. Persistent => saved' = saved
    BY <2>2 DEF Assign
  <2>4. Persistent /\ Unfinished(r)' => saved'[r].state \in {"Pending", "Running"}
    BY <2>3 DEF Unfinished, FlightInv, ReplayFinds
  <2>5. ~Unstored(r)'
    BY <2>2 DEF Unstored
  <2> QED
    BY <1>w, <2>1, <2>2, <2>4, <2>5
<1> QED
  BY <1>1, <1>2, <1>3, <1>4, <1>5, <1>6, <1>7

(* The replay on boot closes what it finds, whichever process runs it. *)
LEMMA FlightBoot ==
    ASSUME RunInv, FlightInv, NEW n \in Node, Boot(n)
    PROVE  FlightInv'
<1> USE DEF RunInv
<1>1. CASE Persistent
  <2>1. /\ pc' = pc /\ source' = source /\ reported' = reported
        /\ saved' = [r \in Run |-> Replayed(saved[r])]
        /\ host' = [host EXCEPT ![n] = "up"]
    BY <1>1 DEF Boot
  <2>2. \A r \in Run : ~Unfinished(r)'
    <3> SUFFICES ASSUME NEW r \in Run, Unfinished(r)' PROVE FALSE
      OBVIOUS
    <3>1. saved'[r] = Replayed(saved[r]) /\ saved[r] \in Record \cup {NoRecord}
      BY <2>1 DEF TypeOK
    <3>2. CASE Open(saved[r])
      <4>1. Replayed(saved[r]).finished # 0
        BY <3>2 DEF Replayed
      <4> QED
        BY <3>1, <4>1 DEF Unfinished
    <3>3. CASE ~Open(saved[r])
      <4>1. Replayed(saved[r]) = saved[r]
        BY <3>3 DEF Replayed
      <4>2. Unfinished(r)
        BY <3>1, <4>1 DEF Unfinished
      <4> QED
        BY <1>1, <3>3, <4>2 DEF FlightInv, ReplayFinds, Open, Unfinished
    <3> QED
      BY <3>2, <3>3
  <2>3. \A r \in Run : Unstored(r)' => saved'[r] = NoRecord
    <3>1. Replayed(NoRecord) = NoRecord
      BY DEF Replayed, Open
    <3> QED
      BY <2>1, <3>1 DEF FlightInv, Unstored
  <2> QED
    BY <2>2, <2>3 DEF FlightInv, ReplayFinds, LeftBehind
<1>2. CASE ~Persistent
  <2>1. /\ pc' = pc /\ source' = source /\ reported' = reported /\ saved' = saved
        /\ host' = [host EXCEPT ![n] = "up"] /\ host[n] = "starting"
    BY <1>2 DEF Boot
  <2>2. \A m \in Node : Swept(m)' => Swept(m)
    BY <1>2, <2>1 DEF Swept, TypeOK
  <2>3. \A r \in Run : /\ Unfinished(r)' = Unfinished(r)
                       /\ Unannounced(r)' = Unannounced(r)
                       /\ Unstored(r)' = Unstored(r)
    BY <2>1 DEF Unfinished, Unannounced, Unstored
  <2> QED
    BY <1>2, <2>1, <2>2, <2>3, ConstantsAssumption DEF FlightInv, ReplayFinds, LeftBehind
<1> QED
  BY <1>1, <1>2

LEMMA FlightDie ==
    ASSUME RunInv, FlightInv, NEW n \in Node, Die(n)
    PROVE  FlightInv'
<1> USE DEF RunInv
<1>1. /\ source' = source /\ reported' = reported
      /\ host' = [host EXCEPT ![n] = "down"]
      /\ pc' = [r \in Run |-> IF r \in Here(n) /\ pc[r] # "none" THEN "over" ELSE pc[r]]
      /\ saved' = [r \in Run |-> IF r \in Here(n) /\ ~Persistent THEN NoRecord ELSE saved[r]]
  BY DEF Die
<1>2. \A r \in Run : Unfinished(r)' => Unfinished(r) /\ saved'[r] = saved[r]
                                       /\ (r \in Here(n) => Persistent)
  BY <1>1 DEF Unfinished
<1>3. ReplayFinds'
  BY <1>2 DEF FlightInv, ReplayFinds
<1>4. LeftBehind'
  <2> SUFFICES ASSUME NEW r \in Run, Swept(Home[r])', pc'[r] \in {"disposing", "over"},
                      Unfinished(r)'
               PROVE  Unannounced(r)'
    BY DEF LeftBehind
  <2>1. r \notin Here(n)
    BY <1>1, <1>2 DEF Swept, Here, TypeOK
  <2>2. Home[r] # n /\ pc'[r] = pc[r]
    BY <1>1, <2>1 DEF Here
  <2>3. Swept(Home[r])
    BY <1>1, <2>2, ConstantsAssumption DEF Swept, TypeOK
  <2>4. Unannounced(r)
    BY <1>2, <2>2, <2>3 DEF FlightInv, LeftBehind
  <2> QED
    BY <1>1, <1>2, <2>4 DEF Unannounced
<1>5. \A r \in Run : Unstored(r)' => saved'[r] = NoRecord
  BY <1>1 DEF FlightInv, Unstored
<1> QED
  BY <1>3, <1>4, <1>5 DEF FlightInv

LEMMA FlightSignals ==
    ASSUME RunInv, FlightInv, NEW n \in Node,
           StartHost(n) \/ BeginStop(n) \/ StopScheduler(n)
    PROVE  FlightInv'
<1> USE DEF RunInv
<1>1. pc' = pc /\ source' = source /\ reported' = reported /\ saved' = saved
  BY DEF StartHost, BeginStop, StopScheduler
<1>2. \A m \in Node : Swept(m)' => Swept(m)
  BY DEF StartHost, BeginStop, StopScheduler, Swept, TypeOK
<1>3. \A r \in Run : /\ Unfinished(r)' = Unfinished(r)
                     /\ Unannounced(r)' = Unannounced(r)
                     /\ Unstored(r)' = Unstored(r)
  BY <1>1 DEF Unfinished, Unannounced, Unstored
<1> QED
  BY <1>1, <1>2, <1>3, ConstantsAssumption DEF FlightInv, ReplayFinds, LeftBehind

LEMMA FlightInvStep ==
    ASSUME SavesWork, NobodyGivesUp, RunInv, FlightInv, [Next]_vars
    PROVE  FlightInv'
<1>1. ASSUME NEW r \in Run, Quiet(r) PROVE FlightInv'
  BY <1>1, FlightQuiet
<1>2. ASSUME NEW r \in Run,
             \/ Added(r) \/ AddThrows(r) \/ ConstructThrows(r) \/ ArgsThrow(r)
             \/ MarkRunning(r) \/ Finish(r)
             \/ JobReturns(r) \/ JobThrows(r) \/ JobCancelled(r)
      PROVE  FlightInv'
  BY <1>2, FlightWrites DEF ConstructThrows, JobReturns, JobThrows, JobCancelled, Terminal
<1>3. ASSUME NEW n \in Node, HostStep(n) PROVE FlightInv'
  BY <1>3, FlightBoot, FlightDie, FlightSignals DEF HostStep
<1>4. CASE UNCHANGED vars
  BY <1>4 DEF vars, FlightInv, ReplayFinds, LeftBehind, Unfinished, Unannounced, Unstored, Swept
<1> QED
  BY <1>1, <1>2, <1>3, <1>4 DEF Next, Quiet, HostStep

(* In either product, on any number of processes and with either kind of store:
   on a process that has booted a record without FinishedAt belongs to a run in
   progress, unless its AddAsync threw after the commit.  The two hypotheses are
   the two ways in which the code does leave such a record: an UpdateAsync that
   throws, and a caller that cancels before the task of its run has started. *)
THEOREM OpenRowsAreRuns == SavesWork /\ NobodyGivesUp /\ Spec => []OpenMeansInFlight
<1> SUFFICES ASSUME SavesWork, NobodyGivesUp PROVE Spec => []OpenMeansInFlight
  OBVIOUS
<1>1. RunInv /\ FlightInv /\ [Next]_vars => FlightInv'
  BY FlightInvStep
<1>2. RunInv /\ FlightInv => OpenMeansInFlight
  <2> SUFFICES ASSUME RunInv, FlightInv, NEW r \in Run, host[Home[r]] = "up",
                      Unfinished(r), pc[r] \notin Working
               PROVE  Unannounced(r)
    BY DEF OpenMeansInFlight, Unfinished, Unannounced
  <2>1. pc[r] \in {"none", "over"}
    BY DEF RunInv, TypeOK, PC
  <2>2. pc[r] # "none"
    BY DEF FlightInv, Unstored, Unfinished
  <2> QED
    BY <2>1, <2>2 DEF FlightInv, LeftBehind, Swept
<1> QED
  BY <1>1, <1>2, RunInvInit, RunInvStep, FlightInvInit, PTL DEF Spec

--------------------------------------------------------------------------------
(* The slots of a process *)

(* Nobody but a call holds a slot, and a call holds one from the gate to its
   end.  Two ways to lose one are known: a manual run that TriggerAsync gives up
   after the gate (AddAsync throws, or the caller's token is signalled), and a
   cron run whose task is dropped because the scheduler's token was signalled;
   the latter's process is stopping. *)
Lost(r) ==
    /\ pc[r] = "over"
    /\ IF source[r] = "Manual" THEN Faults \cap {"add", "giveup"} # {}
                               ELSE host[Home[r]] = "stopped"

SlotsHaveRuns ==
    \A r \in Run : /\ pc[r] \in Working => r \in slots
                   /\ r \in slots => pc[r] \in Working \/ Lost(r)

LeakInv == \A r \in slots : pc[r] \in Working \/ Lost(r)

(* The steps of a run that neither take its slot nor end its call. *)
Carries(r) == \/ TaskStarts(r) \/ Added(r) \/ ScopeThrows(r) \/ Register(r)
              \/ ConstructThrows(r) \/ ArgsThrow(r) \/ MarkRunning(r)
              \/ JobReturns(r) \/ JobThrows(r) \/ JobCancelled(r) \/ Finish(r)

(* They send the call to another phase of its work. *)
LEMMA CarriesOn ==
    ASSUME NEW r \in Run, Carries(r)
    PROVE  /\ UNCHANGED <<host, source, slots>>
           /\ \E p \in Working : pc' = [pc EXCEPT ![r] = p]
<1>1. CASE TaskStarts(r) \/ Added(r)
  BY <1>1 DEF TaskStarts, Added, Goto, Working
<1>2. CASE ScopeThrows(r) \/ Register(r)
  BY <1>2 DEF ScopeThrows, Register, Goto, Working, Registered
<1>3. CASE ConstructThrows(r) \/ ArgsThrow(r)
  BY <1>3 DEF ConstructThrows, ArgsThrow, FailEarly, Goto, Working, Registered
<1>4. CASE MarkRunning(r)
  BY <1>4 DEF MarkRunning, Goto, Working, Registered
<1>5. CASE JobReturns(r) \/ JobThrows(r) \/ JobCancelled(r)
  BY <1>5 DEF JobReturns, JobThrows, JobCancelled, Outcome, Goto, Working, Registered
<1>6. CASE Finish(r)
  BY <1>6 DEF Finish, Goto, Working
<1> QED
  BY <1>1, <1>2, <1>3, <1>4, <1>5, <1>6 DEF Carries

(* Where the slots change: at the gate, in the finally block of the task, and
   when the process dies. *)
LEMMA SlotsChange ==
    ASSUME [Next]_vars
    PROVE  \/ UNCHANGED slots
           \/ \E r \in Run, s \in {"Manual", "Cron"}, p \in {"adding", "queued"} : TakeSlot(r, s, p)
           \/ \E r \in Run : DisposeSlot(r)
           \/ \E n \in Node : Die(n)
<1>1. ASSUME NEW r \in Run, Carries(r) PROVE UNCHANGED slots
  BY <1>1, CarriesOn
<1>2. ASSUME NEW r \in Run, TaskDropped(r) \/ AddThrows(r) \/ Cancel(r) \/ TimerFires(r)
      PROVE  UNCHANGED slots
  BY <1>2 DEF TaskDropped, AddThrows, Cancel, TimerFires
<1>3. ASSUME NEW n \in Node, StartHost(n) \/ Boot(n) \/ BeginStop(n) \/ StopScheduler(n)
      PROVE  UNCHANGED slots
  BY <1>3 DEF StartHost, Boot, BeginStop, StopScheduler
<1>4. ASSUME NEW r \in Run, TriggerSlot(r) \/ CronSlot(r)
      PROVE  \E s \in {"Manual", "Cron"}, p \in {"adding", "queued"} : TakeSlot(r, s, p)
  BY <1>4 DEF TriggerSlot, CronSlot
<1>5. CASE UNCHANGED vars
  BY <1>5 DEF vars
<1> QED
  BY <1>1, <1>2, <1>3, <1>4, <1>5 DEF Next, Carries

LEMMA LeakInvStep ==
    ASSUME TypeOK, LeakInv, [Next]_vars
    PROVE  LeakInv'
<1> USE DEF LeakInv, Lost
<1>t. /\ pc \in [Run -> PC] /\ source \in [Run -> {"Manual", "Cron"}]
      /\ host \in [Node -> HostState] /\ slots \subseteq Run /\ Home \in [Run -> Node]
  BY ConstantsAssumption DEF TypeOK
<1>1. ASSUME NEW r \in Run, NEW s \in {"Manual", "Cron"}, NEW p \in {"adding", "queued"},
             TakeSlot(r, s, p)
      PROVE  LeakInv'
  <2>1. p \in Working
    BY DEF Working
  <2> QED
    BY <1>1, <1>t, <2>1 DEF TakeSlot, Goto
<1>2. ASSUME NEW r \in Run, Carries(r) PROVE LeakInv'
  <2>1. PICK p \in Working : pc' = [pc EXCEPT ![r] = p]
    BY <1>2, CarriesOn
  <2> QED
    BY <1>2, <1>t, <2>1, CarriesOn
<1>3. ASSUME NEW r \in Run, TaskDropped(r) PROVE LeakInv'
  <2>1. IF source[r] = "Manual" THEN Faults \cap {"add", "giveup"} # {}
                                ELSE host[Home[r]] = "stopped"
    BY <1>3 DEF TaskDropped, Signalled
  <2> QED
    BY <1>3, <1>t, <2>1 DEF TaskDropped, Goto
<1>4. ASSUME NEW r \in Run, AddThrows(r) PROVE LeakInv'
  <2>1. CASE source[r] = "Manual"
    <3>1. Faults \cap {"add", "giveup"} # {}
      BY <1>4 DEF AddThrows
    <3> QED
      BY <1>4, <1>t, <2>1, <3>1 DEF AddThrows, Goto
  <2>2. CASE source[r] # "Manual"
    <3>1. "disposing" \in Working
      BY DEF Working
    <3> QED
      BY <1>4, <1>t, <2>2, <3>1 DEF AddThrows, Goto
  <2> QED
    BY <2>1, <2>2
<1>5. ASSUME NEW r \in Run, DisposeSlot(r) PROVE LeakInv'
  BY <1>5, <1>t DEF DisposeSlot, Goto
<1>6. ASSUME NEW r \in Run, Cancel(r) \/ TimerFires(r) PROVE LeakInv'
  BY <1>6 DEF Cancel, TimerFires
<1>7. ASSUME NEW n \in Node, StartHost(n) \/ Boot(n) PROVE LeakInv'
  BY <1>7, <1>t DEF StartHost, Boot
<1>8. ASSUME NEW n \in Node, BeginStop(n) \/ StopScheduler(n) PROVE LeakInv'
  BY <1>8, <1>t DEF BeginStop, StopScheduler
<1>9. ASSUME NEW n \in Node, Die(n) PROVE LeakInv'
  BY <1>9, <1>t DEF Die, Here
<1>10. CASE UNCHANGED vars
  BY <1>10 DEF vars
<1>11. ASSUME NEW r \in Run, TriggerSlot(r) \/ CronSlot(r) PROVE LeakInv'
  BY <1>1, <1>11 DEF TriggerSlot, CronSlot
<1> QED
  BY <1>2, <1>3, <1>4, <1>5, <1>6, <1>7, <1>8, <1>9, <1>10, <1>11 DEF Next, Carries

(* Whatever throws, times out, is cancelled or dies, a slot that is out belongs
   to a call that is still at work, which holds exactly that one, or was lost in
   one of the two ways above: the safety half of SlotsComeBack. *)
THEOREM SlotsHaveTheirRuns == Spec => []SlotsHaveRuns
<1>1. Init => LeakInv
  BY DEF Init, LeakInv
<1>2. RunInv => TypeOK
  BY DEF RunInv
<1>3. RunInv /\ LeakInv => SlotsHaveRuns
  BY DEF RunInv, TypeOK, SlotInv, LeakInv, SlotsHaveRuns
<1>4. RunInv /\ LeakInv /\ [Next]_vars => LeakInv'
  BY <1>2, LeakInvStep
<1> QED
  BY <1>1, <1>3, <1>4, RunInvInit, RunInvStep, PTL DEF Spec

(* The slots of the processes as pools of permits. *)
SlotPool == INSTANCE Permits WITH Pool <- Node, Holder <- Run, Capacity <- Cap,
                                  holders <- [n \in Node |-> Held(n)]

(* The life of a run, seen from its slot, is a Grant and a Return: TriggerAsync
   and the scheduler take a slot only while fewer than the limit are out, no
   failure hands one out twice, and each comes back once, or with its process. *)
THEOREM SlotsArePermits == Spec => SlotPool!Spec
<1>1. Init => SlotPool!Init
  BY DEF Init, SlotPool!Init, Held
<1>2. RunInv /\ [Next]_vars => [SlotPool!Next]_([n \in Node |-> Held(n)])
  <2> SUFFICES ASSUME RunInv, [Next]_vars
               PROVE  SlotPool!Next \/ UNCHANGED [n \in Node |-> Held(n)]
    OBVIOUS
  <2>0. Home \in [Run -> Node] /\ slots \subseteq Run
    BY ConstantsAssumption DEF RunInv, TypeOK
  <2>1. CASE UNCHANGED slots
    BY <2>1 DEF Held
  <2>2. ASSUME NEW r \in Run, NEW s \in {"Manual", "Cron"}, NEW p \in {"adding", "queued"},
               TakeSlot(r, s, p)
        PROVE  SlotPool!Next
    <3>1. /\ r \notin Held(Home[r]) /\ Cardinality(Held(Home[r])) < Cap
          /\ slots' = slots \cup {r}
      BY <2>2 DEF TakeSlot, RunInv, SlotInv, Held
    <3>2. [n \in Node |-> Held(n)'] =
            [[n \in Node |-> Held(n)] EXCEPT ![Home[r]] = Held(Home[r]) \cup {r}]
      BY <2>0, <3>1 DEF Held, Here
    <3>3. SlotPool!Cardinality(Held(Home[r])) = Cardinality(Held(Home[r]))
      BY DEF SlotPool!Cardinality, Cardinality
    <3>4. SlotPool!Grant(Home[r], r)
      BY <2>0, <3>1, <3>2, <3>3 DEF SlotPool!Grant
    <3> QED
      BY <2>0, <3>4 DEF SlotPool!Next
  <2>3. ASSUME NEW r \in Run, DisposeSlot(r) PROVE SlotPool!Next
    <3>1. [n \in Node |-> Held(n)'] =
            [[n \in Node |-> Held(n)] EXCEPT ![Home[r]] = Held(Home[r]) \ {r}]
      BY <2>0, <2>3 DEF DisposeSlot, Held, Here
    <3>2. SlotPool!Return(Home[r], {r})
      BY <2>0, <3>1 DEF SlotPool!Return
    <3> QED
      BY <2>0, <3>2 DEF SlotPool!Next
  <2>4. ASSUME NEW n \in Node, Die(n) PROVE SlotPool!Next
    <3>1. [m \in Node |-> Held(m)'] =
            [[m \in Node |-> Held(m)] EXCEPT ![n] = Held(n) \ Run]
      BY <2>0, <2>4 DEF Die, Held, Here
    <3>2. SlotPool!Return(n, Run)
      BY <3>1 DEF SlotPool!Return
    <3> QED
      BY <3>2 DEF SlotPool!Next
  <2> QED
    BY <2>1, <2>2, <2>3, <2>4, SlotsChange
<1> QED
  BY <1>1, <1>2, RunInvInit, RunInvStep, PTL DEF Spec, SlotPool!Spec
==============================================================================
