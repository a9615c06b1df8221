------------------------ MODULE ConsoleStores_proofs -------------------------
(***************************************************************************)
(* Theorems about ConsoleStores for any number of threads, runs, buckets,  *)
(* lines and any batch size: types; that every bucket is tracked exactly   *)
(* once, hence that their number is bounded and the oldest one leaves only *)
(* when the store is full; that the database gets the lines in order, and  *)
(* that none is forgotten on its way.                                      *)
(***************************************************************************)
EXTENDS ConsoleStores, FiniteSetTheorems, TLAPS

Evicting == {w \in Writer : pc[w] = "evicting"}

(* A thread in Append has a run; the lock is held by the thread that evicts. *)
LockInv ==
    /\ \A w \in Writer : pc[w] # "idle" => run[w] \in Run
    /\ \A w \in Evicting : victim # NoRun
    /\ victim # NoRun => Evicting # {}
    /\ \A v, w \in Evicting : v = w

(* What BucketsTracked rests on: a bucket is tracked in one place only. *)
ApartInv ==
    /\ \A w \in Makers : run[w] \notin ToSet(order) /\ run[w] # victim
    /\ \A v, w \in Makers : run[v] = run[w] => v = w
    /\ victim \notin ToSet(order)
    /\ victim # NoRun => Len(order) = MaxRuns

MemoryInv == LockInv /\ ApartInv /\ BucketsTracked

Increasing(s) == \A i, j \in 1 .. Len(s) : i < j => s[i] < s[j]
Before(s, t)  == \A i \in 1 .. Len(s), j \in 1 .. Len(t) : s[i] < t[j]
UpTo(s, n)    == \A i \in 1 .. Len(s) : s[i] <= n

(* The lines on their way: table t, batch b, channel c, n written in all. *)
Flow(t, b, c, n) ==
    /\ Increasing(t) /\ Increasing(b) /\ Increasing(c)
    /\ Before(t, b) /\ Before(t, c) /\ Before(b, c)
    /\ UpTo(t, n) /\ UpTo(b, n) /\ UpTo(c, n)

FlowInv ==
    /\ Flow(table, batch, channel, appended)
    /\ loop = "waiting" => batch = <<>>

--------------------------------------------------------------------------------
(* Sequences *)

LEMMA ConcatFacts ==
    ASSUME NEW T, NEW s \in Seq(T), NEW t \in Seq(T)
    PROVE  /\ s \o t \in Seq(T)
           /\ Len(s \o t) = Len(s) + Len(t)
           /\ \A i \in 1 .. Len(s) : (s \o t)[i] = s[i]
           /\ \A i \in 1 .. Len(s) + Len(t) : i \notin 1 .. Len(s) =>
                  i - Len(s) \in 1 .. Len(t) /\ (s \o t)[i] = t[i - Len(s)]
OBVIOUS

LEMMA SplitFacts ==
    ASSUME NEW T, NEW s \in Seq(T), NEW n \in 0 .. Len(s)
    PROVE  /\ SubSeq(s, 1, n) \in Seq(T) /\ Len(SubSeq(s, 1, n)) = n
           /\ \A i \in 1 .. n : SubSeq(s, 1, n)[i] = s[i]
           /\ SubSeq(s, n + 1, Len(s)) \in Seq(T)
           /\ Len(SubSeq(s, n + 1, Len(s))) = Len(s) - n
           /\ \A i \in 1 .. Len(s) - n : SubSeq(s, n + 1, Len(s))[i] = s[n + i]
OBVIOUS

LEMMA AppendFacts ==
    ASSUME NEW T, NEW s \in Seq(T), NEW x \in T
    PROVE  /\ Append(s, x) \in Seq(T)
           /\ Len(Append(s, x)) = Len(s) + 1
           /\ \A i \in 1 .. Len(s) : Append(s, x)[i] = s[i]
           /\ Append(s, x)[Len(s) + 1] = x
OBVIOUS

LEMMA ElementFacts ==
    ASSUME NEW T, NEW s \in Seq(T)
    PROVE  \A i \in 1 .. Len(s) : s[i] \in T
OBVIOUS

LEMMA IndexFacts ==
    ASSUME NEW s \in Seq(1 .. Lines)
    PROVE  /\ Len(s) \in Nat /\ ToSet(s) \subseteq 1 .. Lines
           /\ \A i \in 1 .. Len(s) : s[i] \in 1 .. Lines
<1>1. Len(s) \in Nat /\ DOMAIN s = 1 .. Len(s)
  OBVIOUS
<1>2. \A i \in 1 .. Len(s) : s[i] \in 1 .. Lines
  BY ElementFacts
<1> QED
  BY <1>1, <1>2 DEF ToSet

LEMMA EmptyFacts ==
    ASSUME NEW s, NEW n
    PROVE  /\ <<>> \in Seq(1 .. Lines)
           /\ Increasing(<<>>) /\ UpTo(<<>>, n)
           /\ Before(s, <<>>) /\ Before(<<>>, s)
<1>1. Len(<<>>) = 0 /\ 1 .. 0 = {}
  OBVIOUS
<1> QED
  BY <1>1 DEF Increasing, UpTo, Before

LEMMA IncreasingConcat ==
    ASSUME NEW s \in Seq(1 .. Lines), NEW t \in Seq(1 .. Lines),
           Increasing(s), Increasing(t), Before(s, t)
    PROVE  Increasing(s \o t)
<1> SUFFICES ASSUME NEW i \in 1 .. Len(s) + Len(t), NEW j \in 1 .. Len(s) + Len(t),
                    i < j
             PROVE  (s \o t)[i] < (s \o t)[j]
  BY ConcatFacts DEF Increasing
<1> DEFINE u == s \o t
<1>1. /\ Len(s) \in Nat /\ Len(t) \in Nat
      /\ \A k \in 1 .. Len(s) : u[k] = s[k]
      /\ \A k \in 1 .. Len(s) + Len(t) : k \notin 1 .. Len(s) =>
             k - Len(s) \in 1 .. Len(t) /\ u[k] = t[k - Len(s)]
  BY ConcatFacts
<1> HIDE DEF u
<1>2. CASE j \in 1 .. Len(s)
  BY <1>1, <1>2 DEF Increasing
<1>3. CASE i \in 1 .. Len(s) /\ j \notin 1 .. Len(s)
  BY <1>1, <1>3 DEF Before
<1>4. CASE i \notin 1 .. Len(s) /\ j \notin 1 .. Len(s)
  <2>1. i - Len(s) < j - Len(s)
    BY <1>1
  <2>2. /\ i - Len(s) \in 1 .. Len(t) /\ u[i] = t[i - Len(s)]
        /\ j - Len(s) \in 1 .. Len(t) /\ u[j] = t[j - Len(s)]
    BY <1>1, <1>4
  <2>3. t[i - Len(s)] < t[j - Len(s)]
    BY <2>1, <2>2 DEF Increasing
  <2> QED
    BY <2>2, <2>3
<1> QED
  BY <1>1, <1>2, <1>3, <1>4 DEF u

(* A line more was written: into the channel, or nowhere. *)
LEMMA FlowWrite ==
    ASSUME NEW t \in Seq(1 .. Lines), NEW b \in Seq(1 .. Lines),
           NEW c \in Seq(1 .. Lines), NEW n \in 0 .. Lines, n < Lines,
           Flow(t, b, c, n)
    PROVE  Flow(t, b, Append(c, n + 1), n + 1) /\ Flow(t, b, c, n + 1)
<1> DEFINE d == Append(c, n + 1)
<1>1. /\ Len(d) = Len(c) + 1 /\ Len(c) \in Nat
      /\ \A i \in 1 .. Len(c) : d[i] = c[i]
      /\ d[Len(c) + 1] = n + 1
  BY AppendFacts, ConsoleAssumption
<1> HIDE DEF d
<1>2. \A s \in Seq(1 .. Lines) : UpTo(s, n) =>
          /\ UpTo(s, n + 1)
          /\ \A i \in 1 .. Len(s) : s[i] < n + 1
  BY IndexFacts, ConsoleAssumption DEF UpTo
<1>3. UpTo(t, n + 1) /\ UpTo(b, n + 1) /\ UpTo(c, n + 1)
  BY <1>2 DEF Flow
<1>4. \A i \in 1 .. Len(d) : i \in 1 .. Len(c) \/ i = Len(c) + 1
  BY <1>1
<1>5. UpTo(d, n + 1)
  <2> SUFFICES ASSUME NEW i \in 1 .. Len(d) PROVE d[i] <= n + 1
    BY DEF UpTo
  <2>1. CASE i \in 1 .. Len(c)
    BY <1>1, <1>3, <2>1 DEF UpTo
  <2>2. CASE i = Len(c) + 1
    BY <1>1, <2>2, ConsoleAssumption
  <2> QED
    BY <1>4, <2>1, <2>2
<1>6. Increasing(d)
  <2> SUFFICES ASSUME NEW i \in 1 .. Len(d), NEW j \in 1 .. Len(d), i < j
               PROVE  d[i] < d[j]
    BY DEF Increasing
  <2>1. i \in 1 .. Len(c)
    BY <1>1
  <2>2. CASE j \in 1 .. Len(c)
    BY <1>1, <2>1, <2>2 DEF Flow, Increasing
  <2>3. CASE j = Len(c) + 1
    BY <1>1, <1>2, <2>1, <2>3 DEF Flow
  <2> QED
    BY <1>4, <2>2, <2>3
<1>7. \A s \in Seq(1 .. Lines) : UpTo(s, n) /\ Before(s, c) => Before(s, d)
  BY <1>1, <1>2, <1>4 DEF Before
<1> QED
  BY <1>3, <1>5, <1>6, <1>7 DEF Flow, d

(* The batch is inserted, or dropped. *)
LEMMA FlowFlush ==
    ASSUME NEW t \in Seq(1 .. Lines), NEW b \in Seq(1 .. Lines),
           NEW c \in Seq(1 .. Lines), NEW n \in Nat, Flow(t, b, c, n)
    PROVE  Flow(t \o b, <<>>, c, n) /\ Flow(t, <<>>, c, n)
<1> DEFINE v == t \o b
<1>1. /\ Len(t) \in Nat /\ Len(b) \in Nat /\ Len(v) = Len(t) + Len(b)
      /\ \A k \in 1 .. Len(t) : v[k] = t[k]
      /\ \A k \in 1 .. Len(t) + Len(b) : k \notin 1 .. Len(t) =>
             k - Len(t) \in 1 .. Len(b) /\ v[k] = b[k - Len(t)]
  BY ConcatFacts
<1>2. Increasing(v)
  BY IncreasingConcat DEF Flow
<1> HIDE DEF v
<1>3. Before(v, c)
  BY <1>1 DEF Flow, Before
<1>4. UpTo(v, n)
  BY <1>1 DEF Flow, UpTo
<1> QED
  BY <1>2, <1>3, <1>4, EmptyFacts DEF Flow, v

(* The batch is filled from the channel: nothing is lost or reordered. *)
LEMMA FlowDrain ==
    ASSUME NEW t \in Seq(1 .. Lines), NEW c \in Seq(1 .. Lines), NEW n \in Nat,
           NEW m \in 0 .. Len(c), Flow(t, <<>>, c, n)
    PROVE  Flow(t, SubSeq(c, 1, m), SubSeq(c, m + 1, Len(c)), n)
<1> DEFINE x == SubSeq(c, 1, m)
           y == SubSeq(c, m + 1, Len(c))
<1>1. /\ Len(c) \in Nat /\ Len(x) = m /\ Len(y) = Len(c) - m
      /\ \A i \in 1 .. m : x[i] = c[i]
      /\ \A i \in 1 .. Len(c) - m : y[i] = c[m + i]
  BY SplitFacts, IndexFacts
<1> HIDE DEF x, y
<1>2. /\ \A i \in 1 .. Len(c) - m : m + i \in 1 .. Len(c)
      /\ \A i \in 1 .. m : i \in 1 .. Len(c)
  BY <1>1
<1>3. Increasing(x)
  BY <1>1, <1>2 DEF Flow, Increasing
<1>4. Increasing(y)
  <2>1. \A i, j \in 1 .. Len(c) - m : i < j => m + i < m + j
    BY <1>1
  <2> QED
    BY <1>1, <1>2, <2>1 DEF Flow, Increasing
<1>5. Before(x, y)
  <2>1. \A i \in 1 .. m, j \in 1 .. Len(c) - m : i < m + j
    BY <1>1
  <2> QED
    BY <1>1, <1>2, <2>1 DEF Flow, Increasing, Before
<1>6. Before(t, x) /\ Before(t, y)
  BY <1>1, <1>2 DEF Flow, Before
<1>7. UpTo(x, n) /\ UpTo(y, n)
  BY <1>1, <1>2 DEF Flow, UpTo
<1> QED
  BY <1>3, <1>4, <1>5, <1>6, <1>7 DEF Flow, x, y

--------------------------------------------------------------------------------
(* The database: types and order *)

DatabaseTypes ==
    /\ appended \in 0 .. Lines
    /\ channel \in Seq(1 .. Lines)
    /\ batch \in Seq(1 .. Lines) /\ Len(batch) <= Batch
    /\ loop \in {"waiting", "flushing", "last", "ended"}
    /\ stopped \in BOOLEAN
    /\ table \in Seq(1 .. Lines)
    /\ failed \in SUBSET (1 .. Lines)

LEMMA DatabaseInit == Init => DatabaseTypes /\ FlowInv
<1>1. <<>> \in Seq(1 .. Lines) /\ Len(<<>>) = 0
  OBVIOUS
<1>2. Flow(<<>>, <<>>, <<>>, 0)
  BY EmptyFacts DEF Flow
<1>3. 0 \in 0 .. Lines /\ 0 <= Batch
  BY ConsoleAssumption
<1> HIDE DEF Flow
<1> QED
  BY <1>1, <1>2, <1>3 DEF Init, DatabaseTypes, FlowInv

LEMMA Drained ==
    ASSUME DatabaseTypes, FlowInv, loop = "waiting", DrainAvailable,
           UNCHANGED <<table, appended>>
    PROVE  /\ batch' \in Seq(1 .. Lines) /\ Len(batch') <= Batch
           /\ channel' \in Seq(1 .. Lines)
           /\ Flow(table', batch', channel', appended')
<1> DEFINE n == IF Len(channel) <= Batch THEN Len(channel) ELSE Batch
<1>1. batch = <<>> /\ Len(batch) = 0 /\ Batch - 0 = Batch
  BY ConsoleAssumption DEF FlowInv
<1>2. Len(channel) \in Nat /\ n \in 0 .. Len(channel) /\ n <= Batch
  BY ConsoleAssumption DEF DatabaseTypes
<1>3. /\ batch' = <<>> \o SubSeq(channel, 1, n)
      /\ channel' = SubSeq(channel, n + 1, Len(channel))
  BY <1>1 DEF DrainAvailable
<1> HIDE DEF n
<1>4. /\ SubSeq(channel, 1, n) \in Seq(1 .. Lines)
      /\ Len(SubSeq(channel, 1, n)) = n
      /\ channel' \in Seq(1 .. Lines)
  BY <1>2, <1>3, SplitFacts DEF DatabaseTypes
<1>5. batch' = SubSeq(channel, 1, n)
  <2>1. \A s \in Seq(1 .. Lines) : <<>> \o s = s
    OBVIOUS
  <2> QED
    BY <1>3, <1>4, <2>1
<1>6. Flow(table, SubSeq(channel, 1, n), SubSeq(channel, n + 1, Len(channel)), appended)
  <2>1. appended \in Nat /\ Flow(table, <<>>, channel, appended)
    BY <1>1, ConsoleAssumption DEF DatabaseTypes, FlowInv
  <2> QED
    BY <1>2, <2>1, FlowDrain DEF DatabaseTypes
<1> QED
  BY <1>2, <1>3, <1>4, <1>5, <1>6

LEMMA DatabaseStep ==
    DatabaseTypes /\ FlowInv /\ [Next]_vars => DatabaseTypes' /\ FlowInv'
<1> SUFFICES ASSUME DatabaseTypes, FlowInv, [Next]_vars
             PROVE  DatabaseTypes' /\ FlowInv'
  OBVIOUS
<1> USE ConsoleAssumption
<1>1. appended \in Nat /\ appended + 1 \in Nat /\ Lines \in Nat
  BY DEF DatabaseTypes
<1>2. appended < Lines =>
        /\ appended + 1 \in 1 .. Lines
        /\ Flow(table, batch, channel, appended + 1)
        /\ Flow(table, batch, Append(channel, appended + 1), appended + 1)
        /\ Append(channel, appended + 1) \in Seq(1 .. Lines)
  BY FlowWrite DEF DatabaseTypes, FlowInv
<1>3. ASSUME NEW w \in Writer, AppendStep(w) PROVE DatabaseTypes' /\ FlowInv'
  <2>1. /\ UNCHANGED <<channel, batch, loop, stopped, table, failed>>
        /\ appended' = appended \/ (appended < Lines /\ appended' = appended + 1)
    BY <1>3 DEF AppendStep, TryGetValue, GetOrAdd, TrackNewRun, TryRemove,
                AppendToBucket, database
  <2> QED
    BY <1>1, <1>2, <2>1 DEF DatabaseTypes, FlowInv
<1>4. CASE TryWrite
  <2>1. /\ appended < Lines /\ appended' = appended + 1
        /\ UNCHANGED <<batch, loop, stopped, table>>
        /\ channel' \in {channel, Append(channel, appended + 1)}
        /\ failed' \in {failed, failed \cup {appended + 1}}
    BY <1>4 DEF TryWrite
  <2>2. DatabaseTypes'
    <3>1. failed' \in SUBSET (1 .. Lines)
      <4>1. \A x \in 1 .. Lines : failed \cup {x} \in SUBSET (1 .. Lines)
        BY Zenon DEF DatabaseTypes
      <4> QED
        BY <1>2, <2>1, <4>1, Zenon DEF DatabaseTypes
    <3>2. channel' \in Seq(1 .. Lines)
      BY <1>2, <2>1, Zenon DEF DatabaseTypes
    <3>3. appended' \in 0 .. Lines
      BY <1>1, <2>1 DEF DatabaseTypes
    <3> QED
      BY <2>1, <3>1, <3>2, <3>3 DEF DatabaseTypes
  <2>3. FlowInv'
    BY <1>2, <2>1 DEF FlowInv
  <2> QED
    BY <2>2, <2>3
<1>5. CASE Drain
  <2>1. loop = "waiting" /\ DrainAvailable /\ UNCHANGED <<table, appended>>
    BY <1>5 DEF Drain
  <2>2. /\ batch' \in Seq(1 .. Lines) /\ Len(batch') <= Batch
        /\ channel' \in Seq(1 .. Lines)
        /\ Flow(table', batch', channel', appended')
    BY <2>1, Drained
  <2> QED
    BY <1>5, <2>2 DEF Drain, DatabaseTypes, FlowInv
<1>6. CASE DrainLast
  <2>1. loop = "waiting" /\ DrainAvailable /\ UNCHANGED <<table, appended>>
    BY <1>6 DEF DrainLast
  <2>2. /\ batch' \in Seq(1 .. Lines) /\ Len(batch') <= Batch
        /\ channel' \in Seq(1 .. Lines)
        /\ Flow(table', batch', channel', appended')
    BY <2>1, Drained
  <2> QED
    BY <1>6, <2>2 DEF DrainLast, DatabaseTypes, FlowInv
<1>7. CASE FlushBatchAsync
  <2>1. /\ table \o batch \in Seq(1 .. Lines) /\ ToSet(batch) \subseteq 1 .. Lines
        /\ <<>> \in Seq(1 .. Lines) /\ Len(<<>>) = 0
    BY ConcatFacts, IndexFacts, EmptyFacts DEF DatabaseTypes
  <2>2. /\ Flow(table \o batch, <<>>, channel, appended)
        /\ Flow(table, <<>>, channel, appended)
    BY <1>1, FlowFlush DEF DatabaseTypes, FlowInv
  <2>3. /\ table' \in {table, table \o batch} /\ batch' = <<>>
        /\ failed' \in {failed, failed \cup ToSet(batch)}
        /\ loop' \in {"ended", "waiting"}
        /\ UNCHANGED <<appended, channel, stopped>>
    BY <1>7 DEF FlushBatchAsync
  <2>4. DatabaseTypes'
    <3>1. failed' \in SUBSET (1 .. Lines)
      BY <2>1, <2>3, Zenon DEF DatabaseTypes
    <3>2. table' \in Seq(1 .. Lines) /\ batch' \in Seq(1 .. Lines)
      BY <2>1, <2>3, Zenon DEF DatabaseTypes
    <3>3. Len(batch') <= Batch
      BY <2>1, <2>3 DEF DatabaseTypes
    <3> QED
      BY <2>3, <3>1, <3>2, <3>3 DEF DatabaseTypes
  <2>5. FlowInv'
    BY <2>2, <2>3 DEF FlowInv
  <2> QED
    BY <2>4, <2>5
<1>8. CASE Dispose
  BY <1>8 DEF Dispose, DatabaseTypes, FlowInv
<1>9. CASE UNCHANGED vars
  BY <1>9 DEF vars, DatabaseTypes, FlowInv
<1> QED
  BY <1>3, <1>4, <1>5, <1>6, <1>7, <1>8, <1>9 DEF Next, FlushLoop

(* What is inserted is inserted once, and in the order in which it was written,
   whatever flushes fail (EfCoreConsoleStore.FlushBatchAsync). *)
THEOREM InsertedInOrder == Spec => []StoredInOrder
<1>1. DatabaseTypes /\ FlowInv => StoredInOrder
  BY DEF FlowInv, Flow, Increasing, StoredInOrder
<1> QED
  BY <1>1, DatabaseInit, DatabaseStep, PTL DEF Spec

--------------------------------------------------------------------------------
(* The database: no line is forgotten *)

(* The lines that are somewhere: waiting, in the batch of the loop, inserted,
   refused by a completed channel or dropped with a warning. *)
Accounted == ToSet(channel) \cup ToSet(batch) \cup ToSet(table) \cup failed

(* Of the lines written to a database store each is somewhere, and the loop
   ends only after Dispose and with nothing in its hands. *)
LinesAccounted ==
    /\ store = "database" => Accounted = 1 .. appended
    /\ loop = "ended" => stopped /\ batch = <<>>

LineInv == LinesAccounted /\ (loop = "last" => stopped)

(* What is in a sequence that is put together, or taken apart. *)
LEMMA MembersConcat ==
    ASSUME NEW T, NEW s \in Seq(T), NEW t \in Seq(T)
    PROVE  ToSet(s \o t) = ToSet(s) \cup ToSet(t)
<1>1. DOMAIN s = 1 .. Len(s) /\ DOMAIN t = 1 .. Len(t) /\ Len(s) \in Nat /\ Len(t) \in Nat
  OBVIOUS
<1>2. /\ DOMAIN (s \o t) = 1 .. Len(s) + Len(t)
      /\ \A i \in 1 .. Len(s) : (s \o t)[i] = s[i]
      /\ \A i \in 1 .. Len(s) + Len(t) : i \notin 1 .. Len(s) =>
             i - Len(s) \in 1 .. Len(t) /\ (s \o t)[i] = t[i - Len(s)]
  BY ConcatFacts
<1>3. ToSet(s \o t) \subseteq ToSet(s) \cup ToSet(t)
  BY <1>1, <1>2 DEF ToSet
<1>4. \A i \in 1 .. Len(s) : s[i] \in ToSet(s \o t)
  BY <1>1, <1>2 DEF ToSet
<1>5. \A j \in 1 .. Len(t) : t[j] \in ToSet(s \o t)
  <2> TAKE j \in 1 .. Len(t)
  <2>1. Len(s) + j \in 1 .. Len(s) + Len(t) /\ Len(s) + j \notin 1 .. Len(s)
        /\ (Len(s) + j) - Len(s) = j
    BY <1>1
  <2>2. (s \o t)[Len(s) + j] = t[j]
    BY <1>2, <2>1
  <2> QED
    BY <1>2, <2>1, <2>2 DEF ToSet
<1> QED
  BY <1>1, <1>3, <1>4, <1>5 DEF ToSet

LEMMA MembersAppend ==
    ASSUME NEW s \in Seq(1 .. Lines), NEW x \in 1 .. Lines
    PROVE  ToSet(Append(s, x)) = ToSet(s) \cup {x}
<1>1. /\ DOMAIN s = 1 .. Len(s) /\ Len(s) \in Nat
      /\ DOMAIN Append(s, x) = 1 .. Len(s) + 1
  OBVIOUS
<1>2. /\ \A i \in 1 .. Len(s) : Append(s, x)[i] = s[i]
      /\ Append(s, x)[Len(s) + 1] = x
  OBVIOUS
<1>3. 1 .. Len(s) + 1 = (1 .. Len(s)) \cup {Len(s) + 1}
  BY <1>1
<1> QED
  BY <1>1, <1>2, <1>3, Zenon DEF ToSet

LEMMA MembersSplit ==
    ASSUME NEW T, NEW s \in Seq(T), NEW n \in 0 .. Len(s)
    PROVE  ToSet(SubSeq(s, 1, n)) \cup ToSet(SubSeq(s, n + 1, Len(s))) = ToSet(s)
<1> DEFINE a == SubSeq(s, 1, n)
           b == SubSeq(s, n + 1, Len(s))
<1>1. /\ Len(s) \in Nat /\ n \in Nat /\ n <= Len(s) /\ DOMAIN s = 1 .. Len(s)
      /\ DOMAIN a = 1 .. n /\ DOMAIN b = 1 .. Len(s) - n
  <2>1. a \in Seq(T) /\ Len(a) = n /\ b \in Seq(T) /\ Len(b) = Len(s) - n
    BY SplitFacts
  <2>2. \A q \in Seq(T) : DOMAIN q = 1 .. Len(q) /\ Len(q) \in Nat
    OBVIOUS
  <2> HIDE DEF a, b
  <2> QED
    BY <2>1, <2>2
<1>2. /\ \A i \in 1 .. n : a[i] = s[i]
      /\ \A i \in 1 .. Len(s) - n : b[i] = s[n + i]
  BY SplitFacts
<1> HIDE DEF a, b
<1>3. ToSet(a) \subseteq ToSet(s) /\ ToSet(b) \subseteq ToSet(s)
  <2>1. \A i \in 1 .. n : i \in DOMAIN s /\ a[i] = s[i]
    BY <1>1, <1>2
  <2>2. \A i \in 1 .. Len(s) - n : n + i \in DOMAIN s /\ b[i] = s[n + i]
    BY <1>1, <1>2
  <2>3. DOMAIN a = 1 .. n /\ DOMAIN b = 1 .. Len(s) - n
    BY <1>1
  <2> QED
    BY <2>1, <2>2, <2>3, Zenon DEF ToSet
<1>4. ASSUME NEW i \in 1 .. Len(s) PROVE s[i] \in ToSet(a) \cup ToSet(b)
  <2>1. CASE i <= n
    BY <1>1, <1>2, <2>1 DEF ToSet
  <2>2. CASE i > n
    <3>1. i - n \in 1 .. Len(s) - n /\ n + (i - n) = i
      BY <1>1, <2>2
    <3>2. b[i - n] = s[i]
      BY <1>2, <3>1
    <3> QED
      BY <1>1, <3>1, <3>2 DEF ToSet
  <2> QED
    BY <1>1, <2>1, <2>2
<1> QED
  BY <1>1, <1>3, <1>4 DEF ToSet, a, b

LEMMA DrainedAccounted ==
    ASSUME DatabaseTypes, FlowInv, loop = "waiting", DrainAvailable,
           UNCHANGED <<table, failed>>
    PROVE  Accounted' = Accounted
<1> DEFINE n == IF Len(channel) <= Batch THEN Len(channel) ELSE Batch
<1>1. batch = <<>> /\ Len(batch) = 0 /\ Batch - 0 = Batch
  BY ConsoleAssumption DEF FlowInv
<1>2. n \in 0 .. Len(channel) /\ channel \in Seq(1 .. Lines)
  BY ConsoleAssumption DEF DatabaseTypes
<1>3. /\ batch' = <<>> \o SubSeq(channel, 1, n)
      /\ channel' = SubSeq(channel, n + 1, Len(channel))
  BY <1>1 DEF DrainAvailable
<1> HIDE DEF n
<1>4. SubSeq(channel, 1, n) \in Seq(1 .. Lines)
  BY <1>2, SplitFacts
<1>5. ToSet(<<>>) = {}
  BY DEF ToSet
<1>6. ToSet(batch') = ToSet(SubSeq(channel, 1, n))
  BY <1>3, <1>4, <1>5, MembersConcat, EmptyFacts
<1>7. ToSet(batch') \cup ToSet(channel') = ToSet(channel)
  BY <1>2, <1>3, <1>6, MembersSplit
<1> QED
  BY <1>1, <1>5, <1>7 DEF Accounted

LEMMA LineStep ==
    ASSUME DatabaseTypes, FlowInv, LineInv, [Next]_vars
    PROVE  LineInv'
<1> USE DEF LineInv, LinesAccounted
<1>1. ASSUME NEW w \in Writer, AppendStep(w) PROVE LineInv'
  <2>1. /\ UNCHANGED <<store, channel, batch, loop, stopped, table, failed>>
        /\ store = "database" => appended' = appended
    BY <1>1 DEF AppendStep, TryGetValue, GetOrAdd, TrackNewRun, TryRemove,
                AppendToBucket, database
  <2> QED
    BY <2>1 DEF Accounted
<1>2. CASE TryWrite
  <2>1. /\ store' = store /\ appended' = appended + 1
        /\ UNCHANGED <<batch, loop, stopped, table>>
    BY <1>2 DEF TryWrite
  <2>2. appended \in Nat /\ appended + 1 \in 1 .. Lines
    BY <1>2, ConsoleAssumption DEF TryWrite, DatabaseTypes
  <2>3. Accounted' = Accounted \cup {appended + 1}
    <3>1. CASE stopped
      BY <1>2, <3>1 DEF TryWrite, Accounted
    <3>2. CASE ~stopped
      <4>1. ToSet(channel') = ToSet(channel) \cup {appended + 1}
        <5>1. channel' = Append(channel, appended + 1) /\ channel \in Seq(1 .. Lines)
          BY <1>2, <3>2 DEF TryWrite, DatabaseTypes
        <5> QED
          BY <2>2, <5>1, MembersAppend, Zenon
      <4> QED
        BY <1>2, <3>2, <4>1 DEF TryWrite, Accounted
    <3> QED
      BY <3>1, <3>2
  <2>4. (1 .. appended) \cup {appended + 1} = 1 .. appended + 1
    BY <2>2
  <2> QED
    BY <2>1, <2>3, <2>4
<1>3. CASE Drain \/ DrainLast
  <2>1. /\ loop = "waiting" /\ DrainAvailable
        /\ UNCHANGED <<store, appended, stopped, table, failed>>
        /\ loop' \in {"flushing", "last"} /\ (loop' = "last" => stopped)
    BY <1>3 DEF Drain, DrainLast
  <2>2. Accounted' = Accounted
    BY <2>1, DrainedAccounted
  <2> QED
    BY <2>1, <2>2
<1>4. CASE FlushBatchAsync
  <2>1. /\ \/ table' = table \o batch /\ failed' = failed
           \/ table' \in {table, table \o batch} /\ failed' = failed \cup ToSet(batch)
        /\ batch' = <<>>
        /\ loop' = IF loop = "last" THEN "ended" ELSE "waiting"
        /\ UNCHANGED <<store, appended, channel, stopped>>
    BY <1>4 DEF FlushBatchAsync
  <2>2. ToSet(table \o batch) = ToSet(table) \cup ToSet(batch)
    BY MembersConcat DEF DatabaseTypes
  <2>3. ToSet(batch') = {}
    BY <2>1 DEF ToSet
  <2>4. ToSet(table') \cup failed' = ToSet(table) \cup ToSet(batch) \cup failed
    BY <2>1, <2>2
  <2>5. Accounted' = Accounted
    BY <2>1, <2>3, <2>4 DEF Accounted
  <2> QED
    BY <2>1, <2>5
<1>5. CASE Dispose
  BY <1>5 DEF Dispose, Accounted
<1>6. CASE UNCHANGED vars
  BY <1>6 DEF vars, Accounted
<1> QED
  BY <1>1, <1>2, <1>3, <1>4, <1>5, <1>6 DEF Next, FlushLoop

(* Every line that was written is still waiting, in the loop's batch, in the
   database, or was refused or dropped with a warning, whatever flushes fail:
   the safety half of LinesStored.  The loop does not end before Dispose, so
   only then can a line be left waiting (EfCoreConsoleStore.FlushLoopAsync). *)
THEOREM NoLineForgotten == Spec => []LinesAccounted
<1>1. Init => LineInv
  <2>1. ToSet(<<>>) = {} /\ 1 .. 0 = {}
    BY DEF ToSet
  <2> QED
    BY <2>1 DEF Init, LineInv, LinesAccounted, Accounted
<1>2. DatabaseTypes /\ FlowInv /\ LineInv /\ [Next]_vars => LineInv'
  BY LineStep
<1>3. LineInv => LinesAccounted
  BY DEF LineInv
<1> QED
  BY <1>1, <1>2, <1>3, DatabaseInit, DatabaseStep, PTL DEF Spec

--------------------------------------------------------------------------------
(* The memory: types, the lock, and where a bucket is tracked *)

MemoryTypes ==
    /\ store \in {"memory", "database"}
    /\ pc \in [Writer -> {"idle", "missing", "tracking", "evicting", "appending"}]
    /\ run \in [Writer -> Run \cup {NoRun}]
    /\ orphan \in [Writer -> BOOLEAN]
    /\ kept \in [Run -> 0 .. MaxPerRun + 1]
    /\ order \in Seq(Run) /\ Len(order) <= MaxRuns
    /\ victim \in Run \cup {NoRun}

Once(s) == \A i, j \in 1 .. Len(s) : i # j => s[i] # s[j]

(* The list after a run was put in front of its first n. *)
LEMMA PushFacts ==
    ASSUME NEW s \in Seq(Run), NEW x \in Run, NEW n \in 0 .. Len(s)
    PROVE  LET p == <<x>> \o SubSeq(s, 1, n)
           IN  /\ p \in Seq(Run) /\ Len(p) = n + 1
               /\ ToSet(p) = {x} \cup {s[i] : i \in 1 .. n}
               /\ Once(s) /\ x \notin ToSet(s) => Once(p)
<1> DEFINE p == <<x>> \o SubSeq(s, 1, n)
<1>1. /\ SubSeq(s, 1, n) \in Seq(Run) /\ Len(SubSeq(s, 1, n)) = n
      /\ \A i \in 1 .. n : SubSeq(s, 1, n)[i] = s[i]
  BY SplitFacts
<1>2. <<x>> \in Seq(Run) /\ Len(<<x>>) = 1 /\ <<x>>[1] = x
  OBVIOUS
<1>3. /\ p \in Seq(Run) /\ Len(p) = n + 1 /\ p[1] = x
      /\ \A i \in 1 .. n + 1 : i # 1 => i - 1 \in 1 .. n /\ p[i] = s[i - 1]
  <2>1. /\ p \in Seq(Run) /\ Len(p) = 1 + n
        /\ \A i \in 1 .. 1 : p[i] = <<x>>[i]
        /\ \A i \in 1 .. 1 + n : i \notin 1 .. 1 =>
               i - 1 \in 1 .. n /\ p[i] = SubSeq(s, 1, n)[i - 1]
    BY <1>1, <1>2, ConcatFacts
  <2> HIDE DEF p
  <2> QED
    BY <1>1, <1>2, <2>1
<1>4. DOMAIN p = 1 .. n + 1 /\ DOMAIN s = 1 .. Len(s)
  BY <1>3
<1> HIDE DEF p
<1>5. ToSet(p) = {x} \cup {s[i] : i \in 1 .. n}
  <2>1. ASSUME NEW y \in ToSet(p)
        PROVE  y \in {x} \cup {s[i] : i \in 1 .. n}
    <3>1. PICK k \in 1 .. n + 1 : y = p[k]
      BY <1>4 DEF ToSet
    <3>2. CASE k = 1
      BY <1>3, <3>1, <3>2
    <3>3. CASE k # 1
      <4>1. k - 1 \in 1 .. n
        BY <3>3
      <4>2. y = s[k - 1]
        BY <1>3, <3>1, <3>3
      <4> QED
        BY <4>1, <4>2
    <3> QED
      BY <3>2, <3>3
  <2>2. x \in ToSet(p)
    BY <1>3, <1>4 DEF ToSet
  <2>3. \A i \in 1 .. n : i + 1 \in 1 .. n + 1 /\ p[i + 1] = s[i]
    BY <1>3
  <2>4. \A i \in 1 .. n : s[i] \in ToSet(p)
    BY <1>4, <2>3 DEF ToSet
  <2> QED
    BY <2>1, <2>2, <2>4
<1>6. ASSUME Once(s), x \notin ToSet(s) PROVE Once(p)
  <2>1. \A i \in 1 .. Len(s) : s[i] # x
    BY <1>4, <1>6 DEF ToSet
  <2> SUFFICES ASSUME NEW i \in 1 .. n + 1, NEW j \in 1 .. n + 1, i # j
               PROVE  p[i] # p[j]
    BY <1>3 DEF Once
  <2>2. \A k \in 1 .. n : k \in 1 .. Len(s)
    OBVIOUS
  <2>3. CASE i = 1
    BY <1>3, <2>1, <2>2, <2>3
  <2>4. CASE j = 1
    BY <1>3, <2>1, <2>2, <2>4
  <2>5. CASE i # 1 /\ j # 1
    <3>1. i - 1 # j - 1
      OBVIOUS
    <3> QED
      BY <1>3, <1>6, <2>2, <2>5, <3>1 DEF Once
  <2> QED
    BY <2>3, <2>4, <2>5
<1> QED
  BY <1>3, <1>5, <1>6 DEF p

LEMMA OrderFacts ==
    ASSUME MemoryTypes
    PROVE  /\ Len(order) \in Nat
           /\ ToSet(order) = {order[i] : i \in 1 .. Len(order)}
           /\ \A i \in 1 .. Len(order) : order[i] \in Run
           /\ SubSeq(order, 1, Len(order)) = order
           /\ NoRun \notin ToSet(order)
<1>1. /\ Len(order) \in Nat /\ DOMAIN order = 1 .. Len(order)
      /\ SubSeq(order, 1, Len(order)) = order
  BY DEF MemoryTypes
<1>2. \A i \in 1 .. Len(order) : order[i] \in Run
  BY ElementFacts DEF MemoryTypes
<1> QED
  BY <1>1, <1>2, ConsoleAssumption DEF ToSet

LEMMA MemoryInit == Init => MemoryTypes /\ MemoryInv
<1> SUFFICES ASSUME Init PROVE MemoryTypes /\ MemoryInv
  OBVIOUS
<1>1. order = <<>> /\ Len(order) = 0 /\ order \in Seq(Run) /\ ToSet(order) = {}
  BY DEF Init, ToSet
<1>2. MemoryTypes
  BY <1>1, ConsoleAssumption DEF Init, MemoryTypes, Absent
<1>3. Makers = {} /\ Evicting = {} /\ Here = {} /\ victim = NoRun
  BY <1>2 DEF Init, Makers, Evicting, Here
<1>4. LockInv
  BY <1>3 DEF Init, LockInv
<1>5. ApartInv
  BY <1>1, <1>3 DEF ApartInv
<1>6. BucketsTracked
  BY <1>1, <1>3 DEF BucketsTracked
<1> QED
  BY <1>2, <1>4, <1>5, <1>6 DEF MemoryInv

(* A step that leaves the buckets, the list and their makers alone. *)
LEMMA MemoryKept ==
    ASSUME MemoryInv, UNCHANGED <<order, victim>>, Here' = Here,
           Makers' = Makers, Evicting' = Evicting,
           \A w \in Makers : run'[w] = run[w]
    PROVE  ApartInv' /\ BucketsTracked'
<1>1. ApartInv'
  BY DEF MemoryInv, ApartInv
<1>2. BucketsTracked'
  <2>1. {run'[w] : w \in Makers'} = {run[w] : w \in Makers}
    OBVIOUS
  <2> QED
    BY <2>1 DEF MemoryInv, BucketsTracked
<1> QED
  BY <1>1, <1>2

LEMMA BucketSizes == 0 \in 0 .. MaxPerRun + 1 /\ Absent \in 0 .. MaxPerRun + 1
  BY ConsoleAssumption DEF Absent

LEMMA TryGetValueStep ==
    ASSUME MemoryTypes, MemoryInv, NEW w \in Writer, NEW r \in Run, TryGetValue(w, r)
    PROVE  MemoryTypes' /\ MemoryInv'
<1>1. /\ pc[w] = "idle" /\ run' = [run EXCEPT ![w] = r]
      /\ \E p \in {"appending", "missing"} : pc' = [pc EXCEPT ![w] = p]
      /\ UNCHANGED <<store, orphan, kept, order, victim>>
  BY DEF TryGetValue, Goto
<1>2. MemoryTypes'
  BY <1>1 DEF MemoryTypes
<1>3. Makers' = Makers /\ Evicting' = Evicting /\ Here' = Here
  BY <1>1 DEF MemoryTypes, Makers, Evicting, Here
<1>4. \A v \in Makers : run'[v] = run[v]
  BY <1>1 DEF MemoryTypes, Makers
<1>5. LockInv'
  BY <1>1, <1>3 DEF MemoryTypes, MemoryInv, LockInv
<1> QED
  BY <1>1, <1>2, <1>3, <1>4, <1>5, MemoryKept DEF MemoryInv

LEMMA GetOrAddStep ==
    ASSUME MemoryTypes, MemoryInv, NEW w \in Writer, GetOrAdd(w)
    PROVE  MemoryTypes' /\ MemoryInv'
<1>1. pc[w] = "missing" /\ run[w] \in Run
  BY DEF GetOrAdd, MemoryInv, LockInv
<1>2. CASE run[w] \in Here
  <2>1. /\ pc' = [pc EXCEPT ![w] = "appending"]
        /\ UNCHANGED <<store, run, orphan, kept, order, victim>>
    BY <1>2 DEF GetOrAdd, Goto
  <2>2. MemoryTypes'
    BY <2>1 DEF MemoryTypes
  <2>3. Makers' = Makers /\ Evicting' = Evicting /\ Here' = Here
    BY <1>1, <2>1 DEF MemoryTypes, Makers, Evicting, Here
  <2>4. LockInv'
    BY <1>1, <2>1, <2>3 DEF MemoryTypes, MemoryInv, LockInv
  <2> QED
    BY <2>1, <2>2, <2>3, <2>4, MemoryKept DEF MemoryInv
<1>3. CASE run[w] \notin Here
  <2>1. /\ pc' = [pc EXCEPT ![w] = "tracking"] /\ kept' = [kept EXCEPT ![run[w]] = 0]
        /\ UNCHANGED <<store, run, orphan, order, victim>>
    BY <1>3 DEF GetOrAdd, Goto
  <2>2. MemoryTypes'
    <3>1. kept' \in [Run -> 0 .. MaxPerRun + 1]
      BY <2>1, BucketSizes DEF MemoryTypes
    <3> QED
      BY <2>1, <3>1 DEF MemoryTypes
  <2>3. Here' = Here \cup {run[w]}
    BY <1>1, <2>1, ConsoleAssumption DEF MemoryTypes, Here, Absent
  <2>4. Makers' = Makers \cup {w} /\ w \notin Makers /\ Evicting' = Evicting
    BY <1>1, <2>1 DEF MemoryTypes, Makers, Evicting
  <2>5. /\ run[w] \notin ToSet(order) /\ run[w] # victim
        /\ \A v \in Makers : run[v] # run[w]
    BY <1>1, <1>3, ConsoleAssumption DEF MemoryInv, BucketsTracked
  <2>6. LockInv'
    BY <1>1, <2>1, <2>4 DEF MemoryTypes, MemoryInv, LockInv
  <2>7. ApartInv'
    BY <2>1, <2>4, <2>5 DEF MemoryInv, ApartInv
  <2>8. BucketsTracked'
    <3>1. {run'[v] : v \in Makers'} = {run[v] : v \in Makers} \cup {run[w]}
      BY <2>1, <2>4
    <3> QED
      BY <2>1, <2>3, <3>1 DEF MemoryInv, BucketsTracked
  <2> QED
    BY <2>2, <2>6, <2>7, <2>8 DEF MemoryInv
<1> QED
  BY <1>2, <1>3

LEMMA AppendToBucketStep ==
    ASSUME MemoryTypes, MemoryInv, NEW w \in Writer, AppendToBucket(w)
    PROVE  MemoryTypes' /\ MemoryInv'
<1>1. /\ pc[w] = "appending" /\ run[w] \in Run
      /\ pc' = [pc EXCEPT ![w] = "idle"] /\ run' = [run EXCEPT ![w] = NoRun]
      /\ orphan' = [orphan EXCEPT ![w] = FALSE]
      /\ UNCHANGED <<store, order, victim>>
  BY DEF AppendToBucket, Goto, MemoryInv, LockInv
<1>2. \/ kept' = kept
      \/ kept[run[w]] < MaxPerRun /\ kept' = [kept EXCEPT ![run[w]] = @ + 1]
  BY <1>1, ConsoleAssumption DEF AppendToBucket, MemoryTypes
<1>3. MemoryTypes'
  <2>1. kept' \in [Run -> 0 .. MaxPerRun + 1]
    BY <1>1, <1>2, ConsoleAssumption DEF MemoryTypes
  <2> QED
    BY <1>1, <2>1 DEF MemoryTypes
<1>4. Here' = Here
  BY <1>1, <1>2, ConsoleAssumption DEF MemoryTypes, Here, Absent
<1>5. Makers' = Makers /\ Evicting' = Evicting
  BY <1>1 DEF MemoryTypes, Makers, Evicting
<1>6. \A v \in Makers : run'[v] = run[v]
  BY <1>1 DEF MemoryTypes, Makers
<1>7. LockInv'
  BY <1>1, <1>5 DEF MemoryTypes, MemoryInv, LockInv
<1> QED
  BY <1>1, <1>3, <1>4, <1>5, <1>6, <1>7, MemoryKept DEF MemoryInv

LEMMA TryRemoveStep ==
    ASSUME MemoryTypes, MemoryInv, NEW w \in Writer, TryRemove(w)
    PROVE  MemoryTypes' /\ MemoryInv'
<1>1. /\ w \in Evicting /\ victim # NoRun /\ victim \in Run
      /\ Evicting = {w}
  BY DEF TryRemove, Evicting, MemoryInv, LockInv, MemoryTypes
<1>2. /\ pc[w] = "evicting" /\ pc' = [pc EXCEPT ![w] = "appending"]
      /\ kept' = [kept EXCEPT ![victim] = Absent] /\ victim' = NoRun
      /\ UNCHANGED <<store, run, order>>
  BY DEF TryRemove, Goto
<1>3. MemoryTypes'
  <2>1. orphan' \in [Writer -> BOOLEAN]
    <3>1. \A v \in Writer : (orphan[v] \/ (pc[v] = "appending" /\ run[v] = victim)) \in BOOLEAN
      BY Zenon DEF MemoryTypes
    <3> QED
      BY <3>1, Zenon DEF TryRemove
  <2>2. kept' \in [Run -> 0 .. MaxPerRun + 1]
    BY <1>2, BucketSizes DEF MemoryTypes
  <2> QED
    BY <1>2, <2>1, <2>2 DEF MemoryTypes
<1>4. Here' = Here \ {victim}
  BY <1>1, <1>2, ConsoleAssumption DEF MemoryTypes, Here, Absent
<1>5. Makers' = Makers /\ Evicting' = {}
  BY <1>1, <1>2 DEF MemoryTypes, Makers, Evicting
<1>6. NoRun \notin ToSet(order) /\ \A v \in Makers : run[v] \in Run /\ run[v] # NoRun
  BY OrderFacts, ConsoleAssumption DEF Makers, MemoryInv, LockInv
<1>7. LockInv'
  BY <1>2, <1>5 DEF MemoryTypes, MemoryInv, LockInv
<1>8. ApartInv'
  BY <1>2, <1>5, <1>6 DEF MemoryInv, ApartInv
<1>9. BucketsTracked'
  <2>1. {run'[v] : v \in Makers'} = {run[v] : v \in Makers}
    BY <1>2, <1>5
  <2>2. victim \notin ToSet(order) \cup {run[v] : v \in Makers}
    BY DEF MemoryInv, ApartInv
  <2> QED
    BY <1>1, <1>2, <1>4, <2>1, <2>2 DEF MemoryInv, BucketsTracked
<1> QED
  BY <1>3, <1>7, <1>8, <1>9 DEF MemoryInv

(* What a run that a maker puts in the list leaves behind, until someone evicts. *)
LEMMA Tracked ==
    ASSUME MemoryTypes, MemoryInv, NEW w \in Writer, TrackNewRun(w)
    PROVE  /\ w \in Makers /\ run[w] \in Run /\ Once(order)
           /\ Evicting = {} /\ run[w] \notin ToSet(order)
           /\ UNCHANGED <<store, run, orphan, kept>> /\ Here' = Here
           /\ Makers' = Makers \ {w}
           /\ {run'[v] : v \in Makers'} = {run[v] : v \in Makers} \ {run[w]}
<1>1. /\ pc[w] = "tracking" /\ victim = NoRun
      /\ \E p \in {"appending", "evicting"} : pc' = [pc EXCEPT ![w] = p]
      /\ UNCHANGED <<store, run, orphan, kept>>
  BY DEF TrackNewRun, Goto
<1>2. w \in Makers /\ run[w] \in Run /\ Evicting = {}
  BY <1>1 DEF Makers, MemoryInv, LockInv, Evicting
<1>3. /\ Once(order) /\ run[w] \notin ToSet(order)
      /\ \A v \in Makers : run[v] = run[w] => v = w
  BY <1>2 DEF Once, MemoryInv, ApartInv, BucketsTracked
<1>4. Here' = Here /\ Makers' = Makers \ {w}
  BY <1>1 DEF Here, Makers, MemoryTypes
<1>5. {run'[v] : v \in Makers'} = {run[v] : v \in Makers} \ {run[w]}
  BY <1>1, <1>2, <1>3, <1>4
<1> QED
  BY <1>1, <1>2, <1>3, <1>4, <1>5

LEMMA TrackWithRoom ==
    ASSUME MemoryTypes, MemoryInv, NEW w \in Writer, TrackNewRun(w), Len(order) < MaxRuns
    PROVE  MemoryTypes' /\ MemoryInv'
<1>1. /\ w \in Makers /\ run[w] \in Run /\ Once(order)
      /\ Evicting = {} /\ run[w] \notin ToSet(order)
      /\ UNCHANGED <<store, run, orphan, kept>> /\ Here' = Here
      /\ Makers' = Makers \ {w}
      /\ {run'[v] : v \in Makers'} = {run[v] : v \in Makers} \ {run[w]}
  BY Tracked
<1>2. /\ pc' = [pc EXCEPT ![w] = "appending"] /\ victim' = NoRun /\ victim = NoRun
      /\ order' = <<run[w]>> \o order
  BY DEF TrackNewRun, Goto
<1>3. /\ order' \in Seq(Run) /\ Len(order') = Len(order) + 1
      /\ ToSet(order') = {run[w]} \cup ToSet(order)
      /\ Once(order')
  <2>1. /\ Len(order) \in Nat /\ SubSeq(order, 1, Len(order)) = order
        /\ ToSet(order) = {order[i] : i \in 1 .. Len(order)}
    BY OrderFacts
  <2>2. Len(order) \in 0 .. Len(order) /\ order \in Seq(Run)
    BY <2>1 DEF MemoryTypes
  <2>3. LET p == <<run[w]>> \o SubSeq(order, 1, Len(order))
        IN  /\ p \in Seq(Run) /\ Len(p) = Len(order) + 1
            /\ ToSet(p) = {run[w]} \cup {order[i] : i \in 1 .. Len(order)}
            /\ Once(order) /\ run[w] \notin ToSet(order) => Once(p)
    BY <1>1, <2>2, PushFacts
  <2> QED
    BY <1>1, <1>2, <2>1, <2>3, Zenon
<1>4. Evicting' = {}
  BY <1>1, <1>2 DEF Evicting, MemoryTypes
<1>5. MemoryTypes'
  <2>1. Len(order') <= MaxRuns
    BY <1>3, OrderFacts, ConsoleAssumption
  <2> QED
    BY <1>1, <1>2, <1>3, <2>1 DEF MemoryTypes
<1>6. LockInv'
  BY <1>1, <1>2, <1>4 DEF MemoryTypes, MemoryInv, LockInv, Makers
<1>7. NoRun \notin ToSet(order') /\ \A v \in Makers' : run'[v] # NoRun
  BY <1>1, <1>3, OrderFacts, ConsoleAssumption DEF MemoryInv, LockInv, Makers
<1>8. ApartInv'
  BY <1>1, <1>2, <1>3, <1>7 DEF MemoryInv, ApartInv
<1>9. BucketsTracked'
  <2>1. Here' = ToSet(order') \cup {run'[v] : v \in Makers'} \cup ({victim'} \ {NoRun})
    BY <1>1, <1>2, <1>3 DEF MemoryInv, BucketsTracked
  <2> QED
    BY <1>3, <2>1 DEF BucketsTracked, Once
<1> QED
  BY <1>5, <1>6, <1>8, <1>9 DEF MemoryInv

LEMMA TrackAndEvict ==
    ASSUME MemoryTypes, MemoryInv, NEW w \in Writer, TrackNewRun(w), ~(Len(order) < MaxRuns)
    PROVE  MemoryTypes' /\ MemoryInv'
<1> DEFINE Stay == {order[i] : i \in 1 .. MaxRuns - 1}
<1>1. /\ w \in Makers /\ run[w] \in Run /\ Once(order)
      /\ Evicting = {} /\ run[w] \notin ToSet(order)
      /\ UNCHANGED <<store, run, orphan, kept>> /\ Here' = Here
      /\ Makers' = Makers \ {w}
      /\ {run'[v] : v \in Makers'} = {run[v] : v \in Makers} \ {run[w]}
  BY Tracked
<1>2. /\ pc[w] = "tracking" /\ pc' = [pc EXCEPT ![w] = "evicting"]
      /\ victim = NoRun /\ victim' = order[MaxRuns]
      /\ order' = <<run[w]>> \o SubSeq(order, 1, MaxRuns - 1)
  BY DEF TrackNewRun, Goto
<1>3. /\ Len(order) = MaxRuns /\ MaxRuns \in Nat \ {0}
      /\ MaxRuns - 1 \in 0 .. Len(order) /\ order \in Seq(Run)
  BY OrderFacts, ConsoleAssumption DEF MemoryTypes
<1>4. /\ ToSet(order) = Stay \cup {order[MaxRuns]} /\ order[MaxRuns] \in Run
      /\ order[MaxRuns] \notin Stay
  <2>1. /\ ToSet(order) = {order[i] : i \in 1 .. Len(order)}
        /\ \A i \in 1 .. Len(order) : order[i] \in Run
    BY OrderFacts
  <2>2. 1 .. MaxRuns = (1 .. MaxRuns - 1) \cup {MaxRuns} /\ MaxRuns \notin 1 .. MaxRuns - 1
    BY <1>3
  <2> QED
    BY <1>1, <1>3, <2>1, <2>2 DEF Once
<1>5. /\ order' \in Seq(Run) /\ Len(order') = MaxRuns
      /\ ToSet(order') = {run[w]} \cup Stay /\ Once(order')
  <2>1. LET p == <<run[w]>> \o SubSeq(order, 1, MaxRuns - 1)
        IN  /\ p \in Seq(Run) /\ Len(p) = MaxRuns - 1 + 1
            /\ ToSet(p) = {run[w]} \cup {order[i] : i \in 1 .. MaxRuns - 1}
            /\ Once(order) /\ run[w] \notin ToSet(order) => Once(p)
    BY <1>1, <1>3, PushFacts
  <2>2. MaxRuns - 1 + 1 = MaxRuns
    BY <1>3
  <2> QED
    BY <1>1, <1>2, <2>1, <2>2, Zenon
<1> HIDE DEF Stay
<1>6. MemoryTypes'
  BY <1>1, <1>2, <1>3, <1>4, <1>5 DEF MemoryTypes
<1>7. Evicting' = {w} /\ victim' # NoRun
  BY <1>1, <1>2, <1>4, ConsoleAssumption DEF Evicting, MemoryTypes
<1>8. LockInv'
  BY <1>1, <1>2, <1>7 DEF MemoryTypes, MemoryInv, LockInv
<1>9. ApartInv'
  <2>1. victim' \notin ToSet(order')
    BY <1>1, <1>2, <1>4, <1>5
  <2>2. \A v \in Makers' : run'[v] \notin ToSet(order') /\ run'[v] # victim'
    BY <1>1, <1>2, <1>4, <1>5 DEF MemoryInv, ApartInv
  <2> QED
    BY <1>1, <1>5, <2>1, <2>2 DEF MemoryInv, ApartInv
<1>10. BucketsTracked'
  <2>1. Here' = ToSet(order') \cup {run'[v] : v \in Makers'} \cup ({victim'} \ {NoRun})
    BY <1>1, <1>2, <1>4, <1>5, <1>7 DEF MemoryInv, BucketsTracked
  <2> QED
    BY <1>5, <2>1 DEF BucketsTracked, Once
<1> QED
  BY <1>6, <1>8, <1>9, <1>10 DEF MemoryInv

LEMMA MemoryStep == MemoryTypes /\ MemoryInv /\ [Next]_vars => MemoryTypes' /\ MemoryInv'
<1> SUFFICES ASSUME MemoryTypes, MemoryInv, [Next]_vars PROVE MemoryTypes' /\ MemoryInv'
  OBVIOUS
<1>1. ASSUME NEW w \in Writer, AppendStep(w) PROVE MemoryTypes' /\ MemoryInv'
  <2>1. ASSUME NEW r \in Run, TryGetValue(w, r) PROVE MemoryTypes' /\ MemoryInv'
    BY <2>1, TryGetValueStep
  <2>2. CASE GetOrAdd(w)
    BY <2>2, GetOrAddStep
  <2>3. CASE TrackNewRun(w)
    BY <2>3, TrackWithRoom, TrackAndEvict
  <2>4. CASE TryRemove(w)
    BY <2>4, TryRemoveStep
  <2>5. CASE AppendToBucket(w)
    BY <2>5, AppendToBucketStep
  <2> QED
    BY <1>1, <2>1, <2>2, <2>3, <2>4, <2>5 DEF AppendStep
<1>2. CASE UNCHANGED <<store, memory>>
  BY <1>2 DEF memory, MemoryTypes, MemoryInv, LockInv, ApartInv, BucketsTracked,
              Makers, Evicting, Here
<1>3. CASE TryWrite \/ FlushLoop \/ Dispose \/ UNCHANGED vars
  BY <1>2, <1>3 DEF TryWrite, FlushLoop, Drain, FlushBatchAsync, DrainLast, Dispose,
                    vars, memory
<1> QED
  BY <1>1, <1>3 DEF Next

(* Every variable keeps to its type, in both stores. *)
THEOREM TypeCorrect == Spec => []TypeOK
<1>1. DatabaseTypes /\ MemoryTypes => TypeOK
  BY DEF DatabaseTypes, MemoryTypes, TypeOK
<1> QED
  BY <1>1, DatabaseInit, DatabaseStep, MemoryInit, MemoryStep, PTL DEF Spec

(* Each bucket of _byRun is in _order once, or its maker is about to put it
   there, or it is being evicted: none is forgotten
   (InMemoryConsoleStore.Append and TrackNewRun). *)
THEOREM EveryBucketTracked == Spec => []BucketsTracked
<1>1. MemoryTypes /\ MemoryInv => BucketsTracked
  BY DEF MemoryInv
<1> QED
  BY <1>1, MemoryInit, MemoryStep, PTL DEF Spec

--------------------------------------------------------------------------------
(* The number of buckets *)

LEMMA OrderSize ==
    ASSUME MemoryTypes, Once(order)
    PROVE  IsFiniteSet(ToSet(order)) /\ Cardinality(ToSet(order)) = Len(order)
<1> DEFINE I == 1 .. Len(order)
           at == [i \in I |-> order[i]]
<1>1. Len(order) \in Nat /\ ToSet(order) = {order[i] : i \in I}
  BY OrderFacts
<1>2. IsFiniteSet(I) /\ Cardinality(I) = Len(order)
  <2> DEFINE n == Len(order)
  <2>1. n \in Nat
    BY <1>1
  <2> HIDE DEF n
  <2>2. IsFiniteSet(1 .. n) /\ Cardinality(1 .. n) = IF 1 > n THEN 0 ELSE n - 1 + 1
    BY <2>1, FS_Interval
  <2>3. IsFiniteSet(1 .. n) /\ Cardinality(1 .. n) = n
    BY <2>1, <2>2
  <2> QED
    BY <2>3 DEF n
<1>3. at \in Bijection(I, ToSet(order))
  <2>1. at \in [I -> ToSet(order)] /\ \A y \in ToSet(order) : \E i \in I : at[i] = y
    BY <1>1
  <2>2. \A i, j \in I : at[i] = at[j] => i = j
    BY DEF Once
  <2> HIDE DEF at
  <2>3. at \in Injection(I, ToSet(order))
    BY <2>1, <2>2 DEF Injection, IsInjective
  <2>4. at \in Surjection(I, ToSet(order))
    BY <2>1 DEF Surjection
  <2> QED
    BY <2>3, <2>4 DEF Bijection
<1> HIDE DEF at
<1> QED
  BY <1>2, <1>3, FS_Bijection DEF ExistsBijection

(* The buckets outside the list are owned by a thread in TrackNewRun each. *)
LEMMA OwnedSize ==
    ASSUME MemoryTypes, MemoryInv
    PROVE  LET M     == {w \in Writer : pc[w] \in {"tracking", "evicting"}}
               Owned == {run[w] : w \in Makers} \cup ({victim} \ {NoRun})
           IN  /\ IsFiniteSet(M) /\ IsFiniteSet(Owned)
               /\ Cardinality(Owned) <= Cardinality(M)
<1> DEFINE M     == {w \in Writer : pc[w] \in {"tracking", "evicting"}}
           Owned == {run[w] : w \in Makers} \cup ({victim} \ {NoRun})
           f     == [w \in M |-> IF w \in Makers THEN run[w] ELSE victim]
<1>1. IsFiniteSet(M)
  BY FS_Subset, ConsoleAssumption
<1>2. M = Makers \cup Evicting /\ Makers \cap Evicting = {}
  BY DEF Makers, Evicting
<1>3. \A w \in M : f[w] \in Owned
  BY <1>2 DEF MemoryInv, LockInv
<1>4. \A y \in Owned : \E w \in M : f[w] = y
  <2>1. \A w \in Makers : w \in M /\ f[w] = run[w]
    BY <1>2
  <2>2. \A w \in Evicting : w \in M /\ f[w] = victim
    BY <1>2
  <2>3. victim # NoRun => \E w \in Evicting : TRUE
    BY DEF MemoryInv, LockInv
  <2> QED
    BY <2>1, <2>2, <2>3
<1>5. f \in Surjection(M, Owned)
  <2>1. f \in [M -> Owned]
    BY <1>3
  <2> HIDE DEF f, M, Owned
  <2> QED
    BY <1>4, <2>1 DEF Surjection
<1> HIDE DEF f, M, Owned
<1>6. IsFiniteSet(Owned) /\ Cardinality(Owned) <= Cardinality(M)
  BY <1>1, <1>5, FS_Surjection
<1> QED
  BY <1>1, <1>6 DEF M, Owned

(* Besides MaxRuns buckets the store holds at most one for each thread in
   TrackNewRun: a long-lived process does not leak console buffers. *)
THEOREM BuffersStayBounded == Spec => []BuffersBounded
<1>1. ASSUME MemoryTypes, MemoryInv PROVE BuffersBounded
  <2> DEFINE M     == {w \in Writer : pc[w] \in {"tracking", "evicting"}}
             Owned == {run[w] : w \in Makers} \cup ({victim} \ {NoRun})
  <2>1. /\ IsFiniteSet(M) /\ IsFiniteSet(Owned)
        /\ Cardinality(Owned) <= Cardinality(M)
    BY <1>1, OwnedSize
  <2>2. /\ IsFiniteSet(ToSet(order)) /\ Cardinality(ToSet(order)) = Len(order)
        /\ Len(order) <= MaxRuns /\ Len(order) \in Nat
    BY <1>1, OrderSize, OrderFacts DEF MemoryTypes, MemoryInv, BucketsTracked, Once
  <2>3. Here = ToSet(order) \cup Owned
    BY <1>1 DEF MemoryInv, BucketsTracked
  <2>4. BuffersBounded <=> Cardinality(Here) <= MaxRuns + Cardinality(M)
    BY DEF BuffersBounded
  <2> HIDE DEF M, Owned
  <2>5. /\ Cardinality(Here) =
              Cardinality(ToSet(order)) + Cardinality(Owned) - Cardinality(ToSet(order) \cap Owned)
        /\ IsFiniteSet(ToSet(order) \cap Owned)
    BY <2>1, <2>2, <2>3, FS_Union, FS_Intersection
  <2>6. /\ Cardinality(Owned) \in Nat /\ Cardinality(M) \in Nat
        /\ Cardinality(ToSet(order) \cap Owned) \in Nat
    BY <2>1, <2>5, FS_CardinalityType
  <2> QED
    BY <2>1, <2>2, <2>4, <2>5, <2>6, ConsoleAssumption
<1> QED
  BY <1>1, MemoryInit, MemoryStep, PTL DEF Spec

(* An eviction takes the bucket of a run that MaxRuns newer runs have pushed
   out of the list (InMemoryConsoleStore.TrackNewRun). *)
THEOREM EvictsOnlyWhenFull == Spec => EvictsWhenFull
<1> DEFINE Evicts == \A r \in Run : kept[r] # Absent /\ kept'[r] = Absent =>
                         Cardinality(ToSet(order) \ {r}) >= MaxRuns
<1>1. ASSUME MemoryTypes, MemoryInv, NEW r \in Run, [Next]_vars,
             kept[r] # Absent, kept'[r] = Absent
      PROVE  victim # NoRun /\ r = victim
  <2>1. \E w \in Writer : TryRemove(w)
    <3>1. \A w \in Writer : ~GetOrAdd(w)
      BY <1>1, BucketSizes, ConsoleAssumption DEF GetOrAdd, MemoryTypes, Absent
    <3>2. \A w \in Writer : ~AppendToBucket(w)
      BY <1>1, ConsoleAssumption DEF AppendToBucket, MemoryTypes, Absent
    <3>3. \A w \in Writer : ~TrackNewRun(w) /\ \A s \in Run : ~TryGetValue(w, s)
      BY <1>1 DEF TrackNewRun, TryGetValue
    <3>4. ~(TryWrite \/ FlushLoop \/ Dispose \/ UNCHANGED vars)
      BY <1>1 DEF TryWrite, FlushLoop, Drain, FlushBatchAsync, DrainLast, Dispose,
                  vars, memory
    <3> QED
      BY <1>1, <3>1, <3>2, <3>3, <3>4 DEF Next, AppendStep
  <2>2. PICK w \in Writer : TryRemove(w)
    BY <2>1
  <2> QED
    BY <1>1, <2>2 DEF TryRemove, MemoryTypes, MemoryInv, LockInv, Evicting
<1>2. MemoryTypes /\ MemoryInv /\ [Next]_vars => [Evicts]_vars
  <2> SUFFICES ASSUME MemoryTypes, MemoryInv, [Next]_vars, NEW r \in Run,
                      kept[r] # Absent, kept'[r] = Absent
               PROVE  Cardinality(ToSet(order) \ {r}) >= MaxRuns
    OBVIOUS
  <2>1. Len(order) = MaxRuns /\ r \notin ToSet(order)
    BY <1>1 DEF MemoryInv, ApartInv
  <2>2. Cardinality(ToSet(order)) = MaxRuns
    BY <2>1, OrderSize DEF MemoryInv, BucketsTracked, Once
  <2>3. ToSet(order) \ {r} = ToSet(order)
    BY <2>1
  <2> QED
    BY <2>2, <2>3, ConsoleAssumption
<1> QED
  BY <1>2, MemoryInit, MemoryStep, PTL DEF Spec, EvictsWhenFull
==============================================================================
