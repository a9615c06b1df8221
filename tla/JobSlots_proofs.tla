--------------------------- MODULE JobSlots_proofs ---------------------------
(***************************************************************************)
(* Theorems about JobSlots for any cluster, any number of slot ids and any *)
(* limit:                                                                  *)
(*   - types, conservation of permits and the limit of every process       *)
(*     (LocalInv), with no assumption on time or on the network;           *)
(*   - the limit of the cluster (TimeInv), for runs shorter than the    *)
(*     ttl of a slot.                                                      *)
(***************************************************************************)
EXTENDS JobSlots, FiniteSetTheorems, TLAPS

(* The count an attempt carries to its CAS left room for one more. *)
SeenBelowCap == \A a \in Attempt : phase[a] = "read" => seen[a] < Cap

(* A process has no more than Cap permits out. *)
TrackerAtMostCap == \A n \in Node : tracker[n] <= Cap

LocalInv == TypeOK /\ PermitsConserved /\ SeenBelowCap /\ TrackerAtMostCap

--------------------------------------------------------------------------------
(* The limit is a positive number of permits: a limit that is not positive
   was read as int.MaxValue (ConcurrencyTracker's constructor). *)
LEMMA CapPositive == Cap \in Nat \ {0}
BY ConstantsAssumption DEF Cap

(* The limit the script is given is never above the one the tracker reads. *)
LEMMA MaxAtMostCap == MaxConcurrency \in Int /\ MaxConcurrency <= Cap
BY ConstantsAssumption DEF Cap

(* A call that has its permit asks Redis exactly if the job uses Redis. *)
LEMMA AdmittedIs == /\ Admitted \in {"local", "held"}
                    /\ Admitted = "local" <=> UsesRedis
                    /\ Admitted \in Owning /\ Admitted # "read"
BY DEF Admitted, Owning

(* The calls that own a permit of a node are finitely many slot ids. *)
LEMMA OwnersFinite ==
    ASSUME NEW n \in Node
    PROVE  /\ IsFiniteSet(Owners(n))
           /\ Cardinality(Owners(n)) \in Nat
BY ConstantsAssumption, FS_Subset, FS_CardinalityType DEF Owners

(* A counter that goes up by one while one call starts to own a permit, as in
   the CAS of TryAcquire, still counts the owners. *)
LEMMA PermitTaken ==
    ASSUME TypeOK, PermitsConserved, NEW a \in Attempt, NEW p \in Owning,
           phase[a] \notin Owning,
           phase' = [phase EXCEPT ![a] = p],
           tracker' = [tracker EXCEPT ![Home[a]] = @ + 1]
    PROVE  PermitsConserved'
<1> SUFFICES ASSUME NEW n \in Node
             PROVE  tracker'[n] = Cardinality(Owners(n)')
  BY DEF PermitsConserved
<1>h. Home[a] \in Node
  BY ConstantsAssumption
<1>1. CASE n = Home[a]
  <2>1. Owners(n)' = Owners(n) \cup {a}
    BY <1>1 DEF Owners, TypeOK
  <2>2. a \notin Owners(n)
    BY DEF Owners
  <2>3. Cardinality(Owners(n) \cup {a}) = Cardinality(Owners(n)) + 1
    BY <2>2, OwnersFinite, FS_AddElement
  <2> QED
    BY <1>1, <1>h, <2>1, <2>3 DEF TypeOK, PermitsConserved
<1>2. CASE n # Home[a]
  <2>1. Owners(n)' = Owners(n)
    BY <1>2 DEF Owners, TypeOK
  <2> QED
    BY <1>2, <1>h, <2>1 DEF TypeOK, PermitsConserved
<1> QED
  BY <1>1, <1>2

(* ReleaseLocal, from any phase that owns a permit: the counter was positive
   and still counts the owners. *)
LEMMA PermitReleased ==
    ASSUME TypeOK, PermitsConserved, NEW a \in Attempt, NEW p \in Resting,
           phase[a] \in Owning,
           ReleaseLocal(a, p)
    PROVE  /\ PermitsConserved'
           /\ tracker[Home[a]] > 0
<1>h. Home[a] \in Node
  BY ConstantsAssumption
<1>p. p \notin Owning
  BY DEF Resting, Owning
<1>1. a \in Owners(Home[a])
  BY DEF Owners
<1>2. Cardinality(Owners(Home[a]) \ {a}) = Cardinality(Owners(Home[a])) - 1
  BY <1>1, <1>h, OwnersFinite, FS_RemoveElement
<1>3. Cardinality(Owners(Home[a]) \ {a}) \in Nat
  BY <1>h, OwnersFinite, FS_RemoveElement, FS_CardinalityType, <1>1
<1>4. tracker[Home[a]] > 0
  BY <1>2, <1>3, <1>h, OwnersFinite DEF PermitsConserved
<1>5. ASSUME NEW n \in Node
      PROVE  tracker'[n] = Cardinality(Owners(n)')
  <2>1. CASE n = Home[a]
    <3>1. Owners(n)' = Owners(n) \ {a}
      BY <2>1, <1>p DEF Owners, TypeOK, ReleaseLocal
    <3> QED
      BY <2>1, <1>h, <1>2, <3>1 DEF TypeOK, PermitsConserved, ReleaseLocal
  <2>2. CASE n # Home[a]
    <3>1. Owners(n)' = Owners(n)
      BY <2>2, <1>p DEF Owners, TypeOK, ReleaseLocal
    <3> QED
      BY <2>2, <1>h, <3>1 DEF TypeOK, PermitsConserved, ReleaseLocal
  <2> QED
    BY <2>1, <2>2
<1> QED
  BY <1>4, <1>5 DEF PermitsConserved

(* A step that moves no call in or out of Owning and touches no counter. *)
LEMMA PermitsUntouched ==
    ASSUME PermitsConserved,
           tracker' = tracker,
           \A a \in Attempt : phase'[a] \in Owning <=> phase[a] \in Owning
    PROVE  PermitsConserved'
<1> SUFFICES ASSUME NEW n \in Node
             PROVE  tracker'[n] = Cardinality(Owners(n)')
  BY DEF PermitsConserved
<1>1. Owners(n)' = Owners(n)
  BY DEF Owners
<1> QED
  BY <1>1 DEF PermitsConserved

--------------------------------------------------------------------------------
(* The invariant of a process *)

LEMMA LocalInvInit == Init => LocalInv
<1> SUFFICES ASSUME Init PROVE LocalInv
  OBVIOUS
<1>1. TypeOK
  BY DEF Init, TypeOK, Phase, Resting
<1>2. ASSUME NEW n \in Node PROVE Owners(n) = {}
  BY DEF Init, Owners, Owning
<1>3. PermitsConserved
  BY <1>2, FS_EmptySet DEF Init, PermitsConserved
<1>4. SeenBelowCap /\ TrackerAtMostCap
  BY CapPositive DEF Init, SeenBelowCap, TrackerAtMostCap
<1> QED
  BY <1>1, <1>3, <1>4 DEF LocalInv

(* Every step of the gate, of Redis and of the environment keeps types,
   permits and limits of the processes. *)
LEMMA LocalInvStep == LocalInv /\ [Next]_vars => LocalInv'
<1> SUFFICES ASSUME LocalInv, [Next]_vars PROVE LocalInv'
  OBVIOUS
<1> USE ConstantsAssumption, CapPositive DEF LocalInv
<1>r. ASSUME NEW a \in Attempt, NEW p \in Resting, phase[a] \in Owning,
             ReleaseLocal(a, p), seen' = seen
      PROVE  /\ PermitsConserved'
             /\ SeenBelowCap'
             /\ TrackerAtMostCap'
             /\ tracker' \in [Node -> Nat]
             /\ phase' \in [Attempt -> Phase]
  <2>1. PermitsConserved' /\ tracker[Home[a]] > 0
    BY <1>r, PermitReleased
  <2>2. tracker' \in [Node -> Nat]
    BY <1>r, <2>1 DEF ReleaseLocal, TypeOK
  <2>3. TrackerAtMostCap'
    BY <1>r, <2>1 DEF ReleaseLocal, TypeOK, TrackerAtMostCap
  <2>4. phase' \in [Attempt -> Phase]
    BY <1>r DEF ReleaseLocal, TypeOK, Phase
  <2>5. SeenBelowCap'
    BY <1>r DEF ReleaseLocal, TypeOK, SeenBelowCap, Resting
  <2> QED
    BY <2>1, <2>2, <2>3, <2>4, <2>5
<1>k. ASSUME tracker' = tracker, seen' = seen, phase' \in [Attempt -> Phase],
             \A a \in Attempt : phase'[a] \in Owning <=> phase[a] \in Owning,
             \A a \in Attempt : phase'[a] = "read" => phase[a] = "read"
      PROVE  PermitsConserved' /\ SeenBelowCap' /\ TrackerAtMostCap'
  <2>1. PermitsConserved'
    BY <1>k, PermitsUntouched
  <2> QED
    BY <2>1, <1>k DEF SeenBelowCap, TrackerAtMostCap
<1>1. ASSUME NEW a \in Attempt, ReadCount(a) PROVE LocalInv'
  <2>1. TypeOK'
    BY <1>1 DEF ReadCount, TypeOK, Phase, Resting
  <2>2. PermitsConserved'
    <3>1. \A b \in Attempt : phase'[b] \in Owning <=> phase[b] \in Owning
      BY <1>1 DEF ReadCount, TypeOK, Owning, Resting
    <3>2. tracker' = tracker
      BY <1>1 DEF ReadCount
    <3> QED
      BY <3>1, <3>2, PermitsUntouched
  <2>3. SeenBelowCap'
    BY <1>1 DEF ReadCount, TypeOK, SeenBelowCap
  <2>4. TrackerAtMostCap'
    BY <1>1 DEF ReadCount, TrackerAtMostCap
  <2> QED
    BY <2>1, <2>2, <2>3, <2>4
<1>2. ASSUME NEW a \in Attempt, CompareExchange(a) PROVE LocalInv'
  <2>1. TypeOK'
    BY <1>2, AdmittedIs DEF CompareExchange, TypeOK, Phase
  <2>2. PermitsConserved'
    <3>1. phase[a] \notin Owning /\ Admitted \in Owning
      BY <1>2, AdmittedIs DEF CompareExchange, Owning
    <3>2. tracker' = [tracker EXCEPT ![Home[a]] = @ + 1]
      BY <1>2 DEF CompareExchange, TypeOK
    <3>3. phase' = [phase EXCEPT ![a] = Admitted]
      BY <1>2 DEF CompareExchange
    <3> QED
      BY <3>1, <3>2, <3>3, PermitTaken
  <2>3. SeenBelowCap'
    BY <1>2 DEF CompareExchange, TypeOK, SeenBelowCap
  <2>4. TrackerAtMostCap'
    BY <1>2 DEF CompareExchange, TypeOK, TrackerAtMostCap, SeenBelowCap
  <2> QED
    BY <2>1, <2>2, <2>3, <2>4
<1>3. ASSUME NEW a \in Attempt, NoDatabase(a) PROVE LocalInv'
  <2>1. phase[a] \in Owning /\ "idle" \in Resting
    BY <1>3 DEF NoDatabase, Owning, Resting
  <2>2. ReleaseLocal(a, "idle") /\ seen' = seen
    BY <1>3 DEF NoDatabase
  <2>3. TypeOK'
    BY <1>3, <2>1, <2>2, <1>r DEF NoDatabase, TypeOK
  <2> QED
    BY <2>1, <2>2, <2>3, <1>r
<1>4. ASSUME NEW a \in Attempt, SendAcquire(a) PROVE LocalInv'
  <2>1. TypeOK'
    BY <1>4 DEF SendAcquire, TypeOK, Phase, NodeNow
  <2>2. PermitsConserved' /\ SeenBelowCap' /\ TrackerAtMostCap'
    BY <1>4, <1>k, <2>1 DEF SendAcquire, TypeOK, Owning
  <2> QED
    BY <2>1, <2>2
<1>5. ASSUME NEW a \in Attempt, EvalAcquire(a) PROVE LocalInv'
  <2>1. TypeOK'
    BY <1>5 DEF EvalAcquire, Answer, Unexpired, TypeOK
  <2>2. PermitsConserved' /\ SeenBelowCap' /\ TrackerAtMostCap'
    BY <1>5, <1>k, <2>1 DEF EvalAcquire, TypeOK
  <2> QED
    BY <2>1, <2>2
<1>6. ASSUME NEW a \in Attempt, Granted(a) PROVE LocalInv'
  <2>1. TypeOK'
    BY <1>6 DEF Granted, TypeOK, Phase
  <2>2. PermitsConserved' /\ SeenBelowCap' /\ TrackerAtMostCap'
    BY <1>6, <1>k, <2>1 DEF Granted, TypeOK, Owning
  <2> QED
    BY <2>1, <2>2
<1>7. ASSUME NEW a \in Attempt, RefusedRemotely(a) PROVE LocalInv'
  <2>1. phase[a] \in Owning /\ "idle" \in Resting
    BY <1>7 DEF RefusedRemotely, Owning, Resting
  <2>2. ReleaseLocal(a, "idle") /\ seen' = seen
    BY <1>7 DEF RefusedRemotely
  <2>3. TypeOK'
    BY <1>7, <2>1, <2>2, <1>r DEF RefusedRemotely, TypeOK
  <2> QED
    BY <2>1, <2>2, <2>3, <1>r
<1>8. ASSUME NEW a \in Attempt, AcquireThrows(a) PROVE LocalInv'
  <2>1. phase[a] \in Owning /\ "idle" \in Resting
    BY <1>8 DEF AcquireThrows, Owning, Resting
  <2>2. ReleaseLocal(a, "idle") /\ seen' = seen
    BY <1>8 DEF AcquireThrows
  <2>3. TypeOK'
    BY <1>8, <2>1, <2>2, <1>r DEF AcquireThrows, TypeOK
  <2> QED
    BY <2>1, <2>2, <2>3, <1>r
<1>9. ASSUME NEW a \in Attempt, Dispose(a) PROVE LocalInv'
  <2>1. TypeOK'
    BY <1>9 DEF Dispose, TypeOK, Phase
  <2>2. PermitsConserved' /\ SeenBelowCap' /\ TrackerAtMostCap'
    BY <1>9, <1>k, <2>1 DEF Dispose, TypeOK, Owning
  <2> QED
    BY <2>1, <2>2
<1>10. ASSUME NEW a \in Attempt, EvalRemove(a) PROVE LocalInv'
  <2>1. TypeOK'
    BY <1>10 DEF EvalRemove, TypeOK
  <2>2. PermitsConserved' /\ SeenBelowCap' /\ TrackerAtMostCap'
    BY <1>10, <1>k, <2>1 DEF EvalRemove, TypeOK
  <2> QED
    BY <2>1, <2>2
<1>11. ASSUME NEW a \in Attempt, Disposed(a) PROVE LocalInv'
  <2>1. phase[a] \in Owning /\ "done" \in Resting
    BY <1>11 DEF Disposed, Owning, Resting
  <2>2. ReleaseLocal(a, "done") /\ seen' = seen
    BY <1>11 DEF Disposed
  <2>3. TypeOK'
    BY <1>11, <2>1, <2>2, <1>r DEF Disposed, TypeOK
  <2> QED
    BY <2>1, <2>2, <2>3, <1>r
<1>12. ASSUME NEW a \in Attempt, RemoveThrows(a) PROVE LocalInv'
  <2>1. phase[a] \in Owning /\ "idle" \in Resting
    BY <1>12 DEF RemoveThrows, Owning, Resting
  <2>2. ReleaseLocal(a, "idle") /\ seen' = seen
    BY <1>12 DEF RemoveThrows
  <2>3. TypeOK'
    BY <1>12, <2>1, <2>2, <1>r DEF RemoveThrows, TypeOK
  <2> QED
    BY <2>1, <2>2, <2>3, <1>r
<1>13. ASSUME NEW a \in Attempt, Lose(a) PROVE LocalInv'
  <2>1. TypeOK'
    BY <1>13 DEF Lose, TypeOK
  <2>2. PermitsConserved' /\ SeenBelowCap' /\ TrackerAtMostCap'
    BY <1>13, <1>k, <2>1 DEF Lose, TypeOK
  <2> QED
    BY <2>1, <2>2
<1>14. ASSUME NEW n \in Node, Connect(n) PROVE LocalInv'
  <2>1. TypeOK'
    BY <1>14 DEF Connect, TypeOK
  <2>2. PermitsConserved' /\ SeenBelowCap' /\ TrackerAtMostCap'
    BY <1>14, <1>k, <2>1 DEF Connect, TypeOK
  <2> QED
    BY <2>1, <2>2
<1>15. ASSUME NEW n \in Node, Crash(n) PROVE LocalInv'
  <2>1. TypeOK'
    BY <1>15 DEF Crash, TypeOK, Phase, Resting
  <2>2. PermitsConserved'
    <3> SUFFICES ASSUME NEW m \in Node
                 PROVE  tracker'[m] = Cardinality(Owners(m)')
      BY DEF PermitsConserved
    <3>1. CASE m = n
      <4>1. Owners(m)' = {}
        BY <1>15, <3>1 DEF Crash, Owners, Owning
      <4> QED
        BY <1>15, <3>1, <4>1, FS_EmptySet DEF Crash, TypeOK
    <3>2. CASE m # n
      <4>1. Owners(m)' = Owners(m)
        BY <1>15, <3>2 DEF Crash, Owners
      <4> QED
        BY <1>15, <3>2, <4>1 DEF Crash, TypeOK, PermitsConserved
    <3> QED
      BY <3>1, <3>2
  <2>3. SeenBelowCap'
    BY <1>15 DEF Crash, TypeOK, SeenBelowCap
  <2>4. TrackerAtMostCap'
    BY <1>15 DEF Crash, TypeOK, TrackerAtMostCap
  <2> QED
    BY <2>1, <2>2, <2>3, <2>4
<1>16. CASE KeyExpires
  <2>1. TypeOK'
    BY <1>16 DEF KeyExpires, TypeOK
  <2>2. PermitsConserved' /\ SeenBelowCap' /\ TrackerAtMostCap'
    BY <1>16, <1>k, <2>1 DEF KeyExpires, TypeOK
  <2> QED
    BY <2>1, <2>2
<1>17. CASE Tick
  <2>1. TypeOK'
    BY <1>17 DEF Tick, TypeOK
  <2>2. PermitsConserved' /\ SeenBelowCap' /\ TrackerAtMostCap'
    BY <1>17, <1>k, <2>1 DEF Tick, TypeOK
  <2> QED
    BY <2>1, <2>2
<1>18. CASE UNCHANGED vars
  <2>1. TypeOK'
    BY <1>18 DEF vars, TypeOK
  <2>2. PermitsConserved' /\ SeenBelowCap' /\ TrackerAtMostCap'
    BY <1>18, <1>k, <2>1 DEF vars, TypeOK
  <2> QED
    BY <2>1, <2>2
<1> QED
  BY <1>1, <1>2, <1>3, <1>4, <1>5, <1>6, <1>7, <1>8, <1>9, <1>10,
     <1>11, <1>12, <1>13, <1>14, <1>15, <1>16, <1>17, <1>18 DEF Next

(* In every execution the trackers have their types (no count below zero),
   count exactly the calls that own a permit, and stay within the limit. *)
THEOREM LocalSafety == Spec => []LocalInv
BY LocalInvInit, LocalInvStep, PTL DEF Spec

(* The type invariant, for every value of the constants. *)
THEOREM TypeCorrect == Spec => []TypeOK
BY LocalSafety, PTL DEF LocalInv

(* ConcurrencyTracker and the rollbacks of JobSlotGate and JobSlot conserve
   permits on every path, for every number of nodes and calls. *)
THEOREM Conservation == Spec => []PermitsConserved
BY LocalSafety, PTL DEF LocalInv
--------------------------------------------------------------------------------
(* What is on the wire and in the sorted set, without assumptions on time *)

WireInv ==
    \A a \in Attempt :
        /\ reply[a] # "none" => phase[a] = "sent" /\ a \notin acquires
        /\ a \in acquires => phase[a] \in {"idle", "sent"}
        /\ a \in removes  => phase[a] \in {"idle", "disposing"}
        /\ a \in members  => phase[a] \in {"idle", "sent", "held", "disposing"}
        /\ phase[a] = "disposing" /\ a \notin removes => a \notin members
        /\ a \in members \cup acquires => UsesRedis
        /\ phase[a] \in {"local", "sent"} => UsesRedis

LEMMA WireInvInit == Init => WireInv
BY DEF Init, WireInv

(* A request is on the wire, and an entry in the set, only for a call that is
   still in the phase that sent it or has given up on it. *)
LEMMA WireInvStep == LocalInv /\ WireInv /\ [Next]_vars => WireInv'
<1> SUFFICES ASSUME TypeOK, WireInv, [Next]_vars PROVE WireInv'
  BY DEF LocalInv
<1> USE ConstantsAssumption DEF TypeOK, WireInv
<1>1. ASSUME NEW a \in Attempt, ReadCount(a) PROVE WireInv'
  BY <1>1 DEF ReadCount, Resting
<1>2. ASSUME NEW a \in Attempt, CompareExchange(a) PROVE WireInv'
  BY <1>2, AdmittedIs DEF CompareExchange
<1>3. ASSUME NEW a \in Attempt, NoDatabase(a) PROVE WireInv'
  BY <1>3 DEF NoDatabase, ReleaseLocal
<1>4. ASSUME NEW a \in Attempt, SendAcquire(a) PROVE WireInv'
  BY <1>4 DEF SendAcquire
<1>5. ASSUME NEW a \in Attempt, EvalAcquire(a) PROVE WireInv'
  BY <1>5 DEF EvalAcquire, Answer, Unexpired
<1>6. ASSUME NEW a \in Attempt, Granted(a) PROVE WireInv'
  BY <1>6 DEF Granted
<1>7. ASSUME NEW a \in Attempt, RefusedRemotely(a) PROVE WireInv'
  BY <1>7 DEF RefusedRemotely, ReleaseLocal
<1>8. ASSUME NEW a \in Attempt, AcquireThrows(a) PROVE WireInv'
  BY <1>8 DEF AcquireThrows, ReleaseLocal
<1>9. ASSUME NEW a \in Attempt, Dispose(a) PROVE WireInv'
  BY <1>9 DEF Dispose
<1>10. ASSUME NEW a \in Attempt, EvalRemove(a) PROVE WireInv'
  BY <1>10 DEF EvalRemove
<1>11. ASSUME NEW a \in Attempt, Disposed(a) PROVE WireInv'
  BY <1>11 DEF Disposed, ReleaseLocal
<1>12. ASSUME NEW a \in Attempt, RemoveThrows(a) PROVE WireInv'
  BY <1>12 DEF RemoveThrows, ReleaseLocal
<1>13. ASSUME NEW a \in Attempt, Lose(a) PROVE WireInv'
  BY <1>13 DEF Lose
<1>14. ASSUME NEW n \in Node, Connect(n) PROVE WireInv'
  BY <1>14 DEF Connect
<1>15. ASSUME NEW n \in Node, Crash(n) PROVE WireInv'
  BY <1>15 DEF Crash
<1>16. CASE KeyExpires
  BY <1>16 DEF KeyExpires
<1>17. CASE Tick
  BY <1>17 DEF Tick
<1>18. CASE UNCHANGED vars
  BY <1>18 DEF vars
<1> QED
  BY <1>1, <1>2, <1>3, <1>4, <1>5, <1>6, <1>7, <1>8, <1>9, <1>10,
     <1>11, <1>12, <1>13, <1>14, <1>15, <1>16, <1>17, <1>18 DEF Next

(* A call that ends cleanly left nothing behind in Redis: JobSlot.DisposeAsync
   releases the distributed half before the local one. *)
THEOREM DisposeIsClean == Spec => []CleanDispose
<1>1. LocalInv /\ WireInv => CleanDispose
  BY DEF WireInv, CleanDispose
<1> QED
  BY <1>1, WireInvInit, WireInvStep, LocalSafety, PTL DEF Spec

(* The script refuses a caller only because of Cap entries that the caller's
   own clock has not yet seen expire (AcquireSlot prunes before it counts).
   For a limit that is not positive this is false: AddJob passes it on. *)
THEOREM RefusalsAreJustified ==
    ASSUME MaxConcurrency > 0
    PROVE  Spec => RefusalsJustified
<1>1. MaxConcurrency = Cap
  BY ConstantsAssumption DEF Cap
<1>2. LocalInv /\ [Next]_vars =>
        [\A a \in Attempt :
            a \in acquires /\ reply[a] # "no" /\ reply'[a] = "no"
              => Cardinality({b \in members : Score(b) > sampled[a]}) >= Cap]_vars
  <2> SUFFICES ASSUME TypeOK, Next, NEW a \in Attempt,
                      a \in acquires, reply[a] # "no", reply'[a] = "no"
               PROVE  Cardinality({b \in members : Score(b) > sampled[a]}) >= Cap
    BY DEF LocalInv
  <2>1. EvalAcquire(a)
    BY DEF Next, TypeOK, ReadCount, CompareExchange, NoDatabase,
           SendAcquire, EvalAcquire, Answer, Granted, RefusedRemotely,
           AcquireThrows, Dispose, EvalRemove, Disposed, RemoveThrows, Lose,
           Connect, Crash, KeyExpires, Tick
  <2>2. ~(Cardinality(Unexpired(a)) < MaxConcurrency)
    BY <2>1 DEF EvalAcquire, Answer, TypeOK
  <2>3. IsFiniteSet(Unexpired(a))
    BY ConstantsAssumption, FS_Subset DEF Unexpired, TypeOK
  <2>4. Cardinality(Unexpired(a)) \in Nat
    BY <2>3, FS_CardinalityType
  <2>5. Cardinality(Unexpired(a)) >= Cap
    BY <1>1, <2>2, <2>4, CapPositive
  <2> QED
    BY <2>5 DEF Unexpired
<1> QED
  BY <1>2, LocalSafety, PTL DEF Spec, RefusalsJustified
--------------------------------------------------------------------------------
(* The limit of the cluster, for runs shorter than the ttl of a slot *)

(* The assumption: whatever two nodes' clocks say, a slot is given back before
   the other node sees it expire.  The code does not enforce it. *)
ShortRuns == \A m, n \in Node : RunBound + Skew[n] < Ttl + Skew[m]

(* a was granted a slot and has not started to give it back. *)
Served(a) == phase[a] = "held" \/ (phase[a] = "sent" /\ reply[a] = "yes")

(* When the slot was asked for, in Redis's time. *)
Began(a) == sampled[a] - Skew[Home[a]]

TimeInv ==
    \A a \in Attempt :
        /\ Began(a) <= clock
        /\ UsesRedis /\ phase[a] \in {"sent", "held"} => clock <= Began(a) + RunBound
        /\ UsesRedis /\ Served(a) => /\ a \in members
                                    /\ expireAt >= Began(a) + Ttl + Grace

MembersAtMostCap == Cardinality(members) <= Cap

LEMMA TimeInvInit == Init => TimeInv /\ MembersAtMostCap
<1> SUFFICES ASSUME Init PROVE TimeInv /\ MembersAtMostCap
  OBVIOUS
<1>1. TimeInv
  BY ConstantsAssumption DEF Init, TimeInv, Began, Served
<1>2. MembersAtMostCap
  BY FS_EmptySet, CapPositive DEF Init, MembersAtMostCap
<1> QED
  BY <1>1, <1>2

(* Pruning by any node's clock keeps every slot that is still served. *)
LEMMA PruningSparesServed ==
    ASSUME TypeOK, TimeInv, ShortRuns, UsesRedis,
           NEW a \in Attempt, NEW b \in Attempt, Served(b)
    PROVE  b \in Unexpired(a)
<1>1. Home[a] \in Node /\ Home[b] \in Node
  BY ConstantsAssumption
<1>2. RunBound + Skew[Home[a]] < Ttl + Skew[Home[b]]
  BY <1>1 DEF ShortRuns
<1>3. /\ sampled[a] - Skew[Home[a]] <= clock
      /\ clock <= (sampled[b] - Skew[Home[b]]) + RunBound
      /\ b \in members
  BY DEF TimeInv, Began, Served
<1>4. /\ sampled[a] \in Nat /\ sampled[b] \in Nat /\ clock \in Nat
      /\ Skew[Home[a]] \in Nat /\ Skew[Home[b]] \in Nat
      /\ RunBound \in Nat /\ Ttl \in Nat
  BY <1>1, ConstantsAssumption DEF TypeOK
<1>5. sampled[b] + Ttl > sampled[a]
  BY <1>2, <1>3, <1>4
<1> QED
  BY <1>3, <1>5 DEF Unexpired, Score

LEMMA TimeInvStep ==
    ASSUME ShortRuns
    PROVE  LocalInv /\ WireInv /\ TimeInv /\ [Next]_vars => TimeInv'
<1> SUFFICES ASSUME TypeOK, TypeOK', WireInv, TimeInv, [Next]_vars PROVE TimeInv'
  BY LocalInvStep DEF LocalInv
<1> USE ConstantsAssumption
<1>h. \A a \in Attempt : Home[a] \in Node /\ Skew[Home[a]] \in Nat
  OBVIOUS
<1>1. ASSUME NEW a \in Attempt, ReadCount(a) PROVE TimeInv'
  BY <1>1, <1>h DEF ReadCount, Resting, TimeInv, Began, Served, TypeOK
<1>2. ASSUME NEW a \in Attempt, CompareExchange(a) PROVE TimeInv'
  BY <1>2, <1>h, AdmittedIs DEF CompareExchange, TimeInv, Began, Served, TypeOK
<1>3. ASSUME NEW a \in Attempt, NoDatabase(a) PROVE TimeInv'
  BY <1>3, <1>h DEF NoDatabase, ReleaseLocal, TimeInv, Began, Served, TypeOK
<1>4. ASSUME NEW a \in Attempt, SendAcquire(a) PROVE TimeInv'
  BY <1>4, <1>h DEF SendAcquire, NodeNow, TimeInv, Began, Served, TypeOK, WireInv
<1>5. ASSUME NEW a \in Attempt, EvalAcquire(a) PROVE TimeInv'
  <2> SUFFICES ASSUME NEW b \in Attempt
               PROVE  /\ Began(b)' <= clock'
                      /\ UsesRedis /\ phase'[b] \in {"sent", "held"}
                           => clock' <= Began(b)' + RunBound
                      /\ UsesRedis /\ Served(b)' =>
                           /\ b \in members'
                           /\ expireAt' >= Began(b)' + Ttl + Grace
    BY DEF TimeInv
  <2>1. clock' = clock /\ phase' = phase /\ sampled' = sampled
    BY <1>5 DEF EvalAcquire
  <2>2. Began(b)' = Began(b) /\ Began(b) \in Int
    BY <2>1, <1>h DEF Began, TypeOK
  <2>3. Began(b) <= clock /\ (UsesRedis /\ phase[b] \in {"sent", "held"}
                                => clock <= Began(b) + RunBound)
    BY DEF TimeInv
  <2>4. ASSUME UsesRedis, Served(b)'
        PROVE  b \in members' /\ expireAt' >= Began(b)' + Ttl + Grace
    <3>1. CASE Served(b)
      <4>1. b \in Unexpired(a)
        BY <3>1, <2>4, PruningSparesServed
      <4>2. expireAt >= Began(b) + Ttl + Grace
        BY <3>1, <2>4 DEF TimeInv
      <4> QED
        BY <4>1, <4>2, <2>2, <2>3, <1>5 DEF EvalAcquire, TypeOK
    <3>2. CASE ~Served(b)
      <4>1. b = a /\ phase[a] = "sent" /\ reply'[a] = "yes"
        BY <3>2, <2>4, <1>5 DEF Served, EvalAcquire, Answer, TypeOK
      <4>2. reply[a] = "none"
        BY <1>5 DEF EvalAcquire, WireInv
      <4>3. a \in members' /\ expireAt' = clock + Ttl + Grace
        BY <4>1, <4>2, <1>5 DEF EvalAcquire, Answer, TypeOK
      <4> QED
        BY <4>1, <4>3, <2>2, <2>3 DEF TypeOK
    <3> QED
      BY <3>1, <3>2
  <2> QED
    BY <2>1, <2>2, <2>3, <2>4
<1>6. ASSUME NEW a \in Attempt, Granted(a) PROVE TimeInv'
  BY <1>6, <1>h DEF Granted, TimeInv, Began, Served, TypeOK, WireInv
<1>7. ASSUME NEW a \in Attempt, RefusedRemotely(a) PROVE TimeInv'
  BY <1>7, <1>h DEF RefusedRemotely, ReleaseLocal, TimeInv, Began, Served, TypeOK
<1>8. ASSUME NEW a \in Attempt, AcquireThrows(a) PROVE TimeInv'
  BY <1>8, <1>h DEF AcquireThrows, ReleaseLocal, TimeInv, Began, Served, TypeOK
<1>9. ASSUME NEW a \in Attempt, Dispose(a) PROVE TimeInv'
  BY <1>9, <1>h DEF Dispose, TimeInv, Began, Served, TypeOK
<1>10. ASSUME NEW a \in Attempt, EvalRemove(a) PROVE TimeInv'
  BY <1>10, <1>h DEF EvalRemove, TimeInv, Began, Served, TypeOK, WireInv
<1>11. ASSUME NEW a \in Attempt, Disposed(a) PROVE TimeInv'
  BY <1>11, <1>h DEF Disposed, ReleaseLocal, TimeInv, Began, Served, TypeOK
<1>12. ASSUME NEW a \in Attempt, RemoveThrows(a) PROVE TimeInv'
  BY <1>12, <1>h DEF RemoveThrows, ReleaseLocal, TimeInv, Began, Served, TypeOK
<1>13. ASSUME NEW a \in Attempt, Lose(a) PROVE TimeInv'
  BY <1>13, <1>h DEF Lose, TimeInv, Began, Served, TypeOK
<1>14. ASSUME NEW n \in Node, Connect(n) PROVE TimeInv'
  BY <1>14, <1>h DEF Connect, TimeInv, Began, Served, TypeOK
<1>15. ASSUME NEW n \in Node, Crash(n) PROVE TimeInv'
  BY <1>15, <1>h DEF Crash, TimeInv, Began, Served, TypeOK
<1>16. CASE KeyExpires
  <2>1. ASSUME NEW b \in Attempt, UsesRedis PROVE ~Served(b)
    <3>1. Home[b] \in Node
      BY ConstantsAssumption
    <3>2. RunBound < Ttl
      BY <3>1, <1>h DEF ShortRuns
    <3> QED
      BY <1>16, <2>1, <3>2, <1>h DEF KeyExpires, TimeInv, Began, Served, TypeOK
  <2> QED
    BY <1>16, <2>1, <1>h DEF KeyExpires, TimeInv, Began, Served, TypeOK
<1>17. CASE Tick
  BY <1>17, <1>h DEF Tick, Age, TimeInv, Began, Served, TypeOK
<1>18. CASE UNCHANGED vars
  BY <1>18, <1>h DEF vars, TimeInv, Began, Served, TypeOK
<1> QED
  BY <1>1, <1>2, <1>3, <1>4, <1>5, <1>6, <1>7, <1>8, <1>9, <1>10,
     <1>11, <1>12, <1>13, <1>14, <1>15, <1>16, <1>17, <1>18 DEF Next

(* The script adds an entry only below the limit; every other step only takes
   entries out of the set. *)
LEMMA MembersStep ==
    LocalInv /\ MembersAtMostCap /\ [Next]_vars => MembersAtMostCap'
<1> SUFFICES ASSUME TypeOK, TypeOK', MembersAtMostCap, [Next]_vars
             PROVE  MembersAtMostCap'
  BY LocalInvStep DEF LocalInv
<1>1. IsFiniteSet(members) /\ Cardinality(members) \in Nat
  BY ConstantsAssumption, FS_Subset, FS_CardinalityType DEF TypeOK
<1>2. ASSUME members' \subseteq members PROVE MembersAtMostCap'
  <2>1. IsFiniteSet(members') /\ Cardinality(members') <= Cardinality(members)
    BY <1>1, <1>2, FS_Subset
  <2>2. Cardinality(members') \in Nat
    BY <2>1, FS_CardinalityType
  <2> QED
    BY <1>1, <2>1, <2>2, CapPositive DEF MembersAtMostCap
<1>3. ASSUME NEW a \in Attempt, EvalAcquire(a) PROVE MembersAtMostCap'
  <2>1. Unexpired(a) \subseteq members
    BY DEF Unexpired
  <2>2. IsFiniteSet(Unexpired(a)) /\ Cardinality(Unexpired(a)) \in Nat
    BY <2>1, <1>1, FS_Subset, FS_CardinalityType
  <2>3. CASE Cardinality(Unexpired(a)) < MaxConcurrency
    <3>1. members' = Unexpired(a) \cup {a}
      BY <1>3, <2>3 DEF EvalAcquire
    <3>2. Cardinality(members') <= Cardinality(Unexpired(a)) + 1
      BY <3>1, <2>2, FS_AddElement
    <3>3. Cardinality(members') \in Nat
      BY <3>1, <2>2, FS_AddElement, FS_CardinalityType
    <3> QED
      BY <3>2, <3>3, <2>2, <2>3, CapPositive, MaxAtMostCap DEF MembersAtMostCap
  <2>4. CASE ~(Cardinality(Unexpired(a)) < MaxConcurrency)
    BY <1>3, <2>4, <2>1, <1>2 DEF EvalAcquire
  <2> QED
    BY <2>3, <2>4
<1>4. (\E a \in Attempt : EvalAcquire(a)) \/ members' \subseteq members
  BY DEF Next, vars, ReadCount, CompareExchange, NoDatabase,
         SendAcquire, Granted, RefusedRemotely, AcquireThrows, Dispose,
         EvalRemove, Disposed, RemoveThrows, Lose, Connect, Crash, KeyExpires,
         Tick
<1> QED
  BY <1>2, <1>3, <1>4

(* If every run is shorter than the ttl of its slot (by more than the clocks
   of the nodes differ), the cluster never runs more than Cap of the job:
   the promise of MaxConcurrency. *)
THEOREM ClusterSafety ==
    ASSUME ShortRuns
    PROVE  Spec => []ClusterCap
<1>1. LocalInv /\ TimeInv /\ MembersAtMostCap => ClusterCap
  <2> SUFFICES ASSUME TypeOK, TimeInv, MembersAtMostCap, UsesRedis
               PROVE  Cardinality(Running) <= Cap
    BY DEF LocalInv, ClusterCap
  <2>1. Running \subseteq members
    BY DEF Running, TimeInv, Served
  <2>2. IsFiniteSet(members) /\ Cardinality(members) \in Nat
    BY ConstantsAssumption, FS_Subset, FS_CardinalityType DEF TypeOK
  <2>3. IsFiniteSet(Running) /\ Cardinality(Running) <= Cardinality(members)
    BY <2>1, <2>2, FS_Subset
  <2>4. Cardinality(Running) \in Nat
    BY <2>3, FS_CardinalityType
  <2> QED
    BY <2>2, <2>3, <2>4, CapPositive DEF MembersAtMostCap
<1>2. Init => LocalInv /\ WireInv /\ TimeInv /\ MembersAtMostCap
  BY LocalInvInit, WireInvInit, TimeInvInit
<1>3. LocalInv /\ WireInv /\ TimeInv /\ MembersAtMostCap /\ [Next]_vars
        => (LocalInv /\ WireInv /\ TimeInv /\ MembersAtMostCap)'
  BY LocalInvStep, WireInvStep, TimeInvStep, MembersStep
<1> QED
  BY <1>1, <1>2, <1>3, PTL DEF Spec
--------------------------------------------------------------------------------
(* The gate implements pools of permits *)

OwnersMap == [n \in Node |-> Owners(n)]

(* A call that leaves Owning leaves the owners of its node, and no other. *)
LEMMA ReleaseMapped ==
    ASSUME TypeOK, NEW a \in Attempt, NEW p \in Resting, ReleaseLocal(a, p)
    PROVE  LocalPool!Return(Home[a], {a})
<1>1. p \notin Owning /\ Home[a] \in Node
  BY ConstantsAssumption DEF Resting, Owning
<1>2. Owners(Home[a])' = Owners(Home[a]) \ {a}
  BY <1>1 DEF ReleaseLocal, Owners, TypeOK
<1>3. \A n \in Node : n # Home[a] => Owners(n)' = Owners(n)
  BY <1>1 DEF ReleaseLocal, Owners, TypeOK
<1> QED
  BY <1>1, <1>2, <1>3 DEF LocalPool!Return

(* Every step of the gate is a Grant or a Return of some node's pool, or is
   invisible to the pools. *)
LEMMA LocalStepMapped ==
    LocalInv /\ [Next]_vars => [LocalPool!Next]_OwnersMap
<1> SUFFICES ASSUME LocalInv, [Next]_vars, OwnersMap' # OwnersMap
             PROVE  LocalPool!Next
  BY DEF OwnersMap
<1> USE ConstantsAssumption DEF LocalInv
<1>s. ASSUME \A a \in Attempt : phase'[a] \in Owning <=> phase[a] \in Owning
      PROVE  FALSE
  BY <1>s DEF OwnersMap, Owners
<1>r. ASSUME NEW a \in Attempt, NEW p \in Resting, ReleaseLocal(a, p)
      PROVE  LocalPool!Next
  <2>1. LocalPool!Return(Home[a], {a})
    BY <1>r, ReleaseMapped
  <2> QED
    BY <2>1 DEF LocalPool!Next
<1>1. ASSUME NEW a \in Attempt, CompareExchange(a) PROVE LocalPool!Next
  <2>1. Home[a] \in Node /\ a \notin Owners(Home[a])
    BY <1>1 DEF CompareExchange, Owners, Owning
  <2>2. Cardinality(Owners(Home[a])) < Cap
    BY <1>1, <2>1 DEF CompareExchange, PermitsConserved, SeenBelowCap
  <2>3. Owners(Home[a])' = Owners(Home[a]) \cup {a}
    <3>1. Admitted \in Owning /\ phase' = [phase EXCEPT ![a] = Admitted]
      BY <1>1, AdmittedIs DEF CompareExchange
    <3> QED
      BY <2>1, <3>1 DEF Owners, TypeOK
  <2>4. \A n \in Node : n # Home[a] => Owners(n)' = Owners(n)
    BY <1>1 DEF CompareExchange, Owners, Owning, TypeOK
  <2>5. LocalPool!Cardinality(Owners(Home[a])) = Cardinality(Owners(Home[a]))
    BY DEF LocalPool!Cardinality, Cardinality
  <2>6. LocalPool!Grant(Home[a], a)
    BY <2>1, <2>2, <2>3, <2>4, <2>5 DEF LocalPool!Grant
  <2> QED
    BY <2>1, <2>6 DEF LocalPool!Next
<1>2. ASSUME NEW n \in Node, Crash(n) PROVE LocalPool!Next
  <2>1. Owners(n)' = {}
    BY <1>2 DEF Crash, Owners, Owning
  <2>2. \A m \in Node : m # n => Owners(m)' = Owners(m)
    BY <1>2 DEF Crash, Owners, TypeOK
  <2>3. LocalPool!Return(n, Owners(n))
    BY <2>1, <2>2 DEF LocalPool!Return
  <2>4. Owners(n) \in SUBSET Attempt
    BY DEF Owners
  <2> QED
    BY <2>3, <2>4 DEF LocalPool!Next
<1>3. ASSUME NEW a \in Attempt,
             NoDatabase(a) \/ RefusedRemotely(a) \/ AcquireThrows(a)
               \/ Disposed(a) \/ RemoveThrows(a)
      PROVE  LocalPool!Next
  <2>1. ReleaseLocal(a, "idle") \/ ReleaseLocal(a, "done")
    BY <1>3 DEF NoDatabase, RefusedRemotely, AcquireThrows, Disposed, RemoveThrows
  <2> QED
    BY <2>1, <1>r DEF Resting
<1>4. ASSUME NEW a \in Attempt, ReadCount(a) PROVE FALSE
  BY <1>4, <1>s DEF ReadCount, TypeOK, Owning, Resting
<1>5. ASSUME NEW a \in Attempt,
             SendAcquire(a) \/ Granted(a) \/ Dispose(a)
      PROVE  FALSE
  BY <1>5, <1>s DEF SendAcquire, Granted, Dispose, TypeOK, Owning
<1>6. ASSUME NEW a \in Attempt, EvalAcquire(a) \/ EvalRemove(a) \/ Lose(a)
      PROVE  FALSE
  BY <1>6, <1>s DEF EvalAcquire, EvalRemove, Lose
<1>7. ASSUME (\E n \in Node : Connect(n)) \/ KeyExpires \/ Tick \/ UNCHANGED vars
      PROVE  FALSE
  BY <1>7, <1>s DEF Connect, KeyExpires, Tick, vars
<1> QED
  BY <1>1, <1>2, <1>3, <1>4, <1>5, <1>6, <1>7 DEF Next

(* JobSlotGate over ConcurrencyTracker implements the abstract limit on every
   node: a permit goes out only while fewer than Cap are out, and no path
   gives back a permit that was not out. *)
THEOREM LocalPoolImplemented == Spec => ImplementsLocalPool
<1>1. Init => LocalPool!Init
  BY DEF Init, LocalPool!Init, Owners, Owning
<1>2. LocalInv /\ [Next]_vars => [LocalPool!Next]_OwnersMap
  BY LocalStepMapped
<1> QED
  BY <1>1, <1>2, LocalSafety, PTL
     DEF Spec, ImplementsLocalPool, LocalPool!Spec, OwnersMap

RunningMap == [p \in {"cluster"} |-> Running]

(* Every step is a Grant or a Return of the cluster's one pool, or leaves the
   running set alone. *)
LEMMA ClusterStepMapped ==
    ASSUME UsesRedis
    PROVE  /\ LocalInv /\ TimeInv /\ MembersAtMostCap /\ [Next]_vars
           => [ClusterPool!Next]_RunningMap
<1> SUFFICES ASSUME LocalInv, TimeInv, MembersAtMostCap, [Next]_vars,
                    RunningMap' # RunningMap
             PROVE  ClusterPool!Next
  BY DEF RunningMap
<1> USE ConstantsAssumption DEF LocalInv
<1>1. ASSUME NEW a \in Attempt, Granted(a) PROVE ClusterPool!Next
  <2>1. a \notin Running /\ Running' = Running \cup {a}
    BY <1>1 DEF Granted, Running, TypeOK
  <2>2. Running \cup {a} \subseteq members
    BY <1>1 DEF Granted, Running, TimeInv, Served
  <2>3. IsFiniteSet(members) /\ Cardinality(members) \in Nat
    BY FS_Subset, FS_CardinalityType DEF TypeOK
  <2>4. IsFiniteSet(Running)
    BY FS_Subset DEF Running
  <2>5. /\ Cardinality(Running) \in Nat
        /\ Cardinality(Running \cup {a}) = Cardinality(Running) + 1
    BY <2>1, <2>4, FS_AddElement, FS_CardinalityType
  <2>6. Cardinality(Running \cup {a}) <= Cardinality(members)
    BY <2>2, <2>3, FS_Subset
  <2>7. Cardinality(Running) < Cap
    BY <2>3, <2>5, <2>6, CapPositive DEF MembersAtMostCap
  <2>8. ClusterPool!Cardinality(Running) = Cardinality(Running)
    BY DEF ClusterPool!Cardinality, Cardinality
  <2>9. ClusterPool!Grant("cluster", a)
    BY <2>1, <2>7, <2>8 DEF ClusterPool!Grant
  <2> QED
    BY <2>9 DEF ClusterPool!Next
<1>2. ASSUME Running' \subseteq Running PROVE ClusterPool!Next
  <2>1. ClusterPool!Return("cluster", Running \ Running')
    BY <1>2 DEF ClusterPool!Return
  <2>2. Running \ Running' \in SUBSET Attempt
    BY DEF Running
  <2> QED
    BY <2>1, <2>2 DEF ClusterPool!Next
<1>3. (\E a \in Attempt : Granted(a)) \/ Running' \subseteq Running
  BY AdmittedIs DEF Next, vars, Running, TypeOK, ReadCount, CompareExchange,
         NoDatabase, SendAcquire, EvalAcquire, RefusedRemotely, AcquireThrows,
         Dispose, EvalRemove, Disposed, RemoveThrows, ReleaseLocal, Lose,
         Connect, Crash, KeyExpires, Tick
<1> QED
  BY <1>1, <1>2, <1>3

(* With runs shorter than the ttl of a slot the sorted set implements one
   pool of Cap permits for all nodes together. *)
THEOREM ClusterPoolImplemented ==
    ASSUME ShortRuns, UsesRedis
    PROVE  Spec => ImplementsClusterPool
<1>1. Init => ClusterPool!Init
  BY DEF Init, ClusterPool!Init, Running
<1>2. LocalInv /\ TimeInv /\ MembersAtMostCap /\ [Next]_vars
        => [ClusterPool!Next]_RunningMap
  BY ClusterStepMapped
<1>3. Init => LocalInv /\ WireInv /\ TimeInv /\ MembersAtMostCap
  BY LocalInvInit, WireInvInit, TimeInvInit
<1>4. LocalInv /\ WireInv /\ TimeInv /\ MembersAtMostCap /\ [Next]_vars
        => (LocalInv /\ WireInv /\ TimeInv /\ MembersAtMostCap)'
  BY LocalInvStep, WireInvStep, TimeInvStep, MembersStep
<1> QED
  BY <1>1, <1>2, <1>3, <1>4, PTL
     DEF Spec, ImplementsClusterPool, ClusterPool!Spec, RunningMap
==============================================================================
