-------------------------- MODULE Reporting_proofs ---------------------------
(***************************************************************************)
(* Theorems about Reporting for any number of runs, lines, records per     *)
(* call and overlapping calls: types, that no console line is stored       *)
(* twice, that the dashboard never forgets that a run has finished, that a *)
(* run goes back to an earlier state only by a call that the loop has      *)
(* given up (OrderInv), and that the final record of a run is always       *)
(* accounted for (FinalInv, the safety half of FinalArrives).              *)
(***************************************************************************)
EXTENDS Reporting, TLAPS

(* A handler that has read a run has an entity to save, which has not lost the
   FinishedAt that it was read with; rows are not deleted meanwhile. *)
EditInv ==
    \A c \in Call, r \in Run :
        /\ orig[c][r] # Unread => edit[c][r] \in Row
        /\ orig[c][r] \in Row => rows[r] \in Row
        /\ orig[c][r].finished => edit[c][r].finished

Distinct(s) == \A i, j \in 1 .. Len(s) : i # j => s[i] # s[j]

WrittenLines == [about : 1 .. written, news : {"line"}]
LogCall      == {c \in Call : c[1] = "logs"}

(* Every line is in one place: the channel, a call, or the database. *)
QueueLines ==
    /\ ToSet(queue["logs"]) \subseteq WrittenLines
    /\ Distinct(queue["logs"])
    /\ ToSet(queue["logs"]) \cap ToSet(shown) = {}

ShownLines ==
    /\ ToSet(shown) \subseteq WrittenLines
    /\ Distinct(shown)

CallLines ==
    \A c \in LogCall :
        /\ ToSet(batch[c]) \subseteq WrittenLines
        /\ Distinct(batch[c])
        /\ ToSet(batch[c]) \cap ToSet(queue["logs"]) = {}
        /\ ToSet(batch[c]) \cap ToSet(shown) = {}

CallsApart ==
    \A c, d \in LogCall : c # d => ToSet(batch[c]) \cap ToSet(batch[d]) = {}

LinesInv == QueueLines /\ ShownLines /\ CallLines /\ CallsApart

--------------------------------------------------------------------------------
(* Sequences without repetition *)

LEMMA DistinctEmpty == Distinct(<<>>) /\ ToSet(<<>>) = {}
BY DEF Distinct, ToSet

LEMMA DistinctAppend ==
    ASSUME NEW T, NEW s \in Seq(T), NEW x \in T
    PROVE  /\ ToSet(Append(s, x)) = ToSet(s) \cup {x}
           /\ Distinct(s) /\ x \notin ToSet(s) => Distinct(Append(s, x))
<1>1. /\ Append(s, x) \in Seq(T)
      /\ Len(Append(s, x)) = Len(s) + 1
      /\ \A i \in 1 .. Len(s) : Append(s, x)[i] = s[i]
      /\ Append(s, x)[Len(s) + 1] = x
  OBVIOUS
<1>2. /\ DOMAIN s = 1 .. Len(s)
      /\ DOMAIN Append(s, x) = 1 .. Len(s) + 1
      /\ Len(s) \in Nat
  BY <1>1
<1> HIDE DEF Distinct
<1>3. ToSet(Append(s, x)) = ToSet(s) \cup {x}
  BY <1>1, <1>2 DEF ToSet
<1>4. Distinct(s) /\ x \notin ToSet(s) => Distinct(Append(s, x))
  BY <1>1, <1>2 DEF ToSet, Distinct
<1> QED
  BY <1>3, <1>4

LEMMA DistinctConcat ==
    ASSUME NEW T, NEW s \in Seq(T), NEW t \in Seq(T)
    PROVE  /\ ToSet(s \o t) = ToSet(s) \cup ToSet(t)
           /\ Distinct(s) /\ Distinct(t) /\ ToSet(s) \cap ToSet(t) = {}
                  => Distinct(s \o t)
<1>1. /\ s \o t \in Seq(T)
      /\ Len(s \o t) = Len(s) + Len(t)
      /\ \A i \in 1 .. Len(s) : (s \o t)[i] = s[i]
      /\ \A i \in 1 .. Len(t) : (s \o t)[Len(s) + i] = t[i]
  OBVIOUS
<1>2. /\ DOMAIN s = 1 .. Len(s) /\ DOMAIN t = 1 .. Len(t)
      /\ DOMAIN (s \o t) = 1 .. Len(s) + Len(t)
      /\ Len(s) \in Nat /\ Len(t) \in Nat
  BY <1>1
<1>3. \A i \in 1 .. Len(s) + Len(t) :
          \/ i \in 1 .. Len(s)
          \/ i - Len(s) \in 1 .. Len(t) /\ i = Len(s) + (i - Len(s))
  BY <1>2
<1>4. \A i \in 1 .. Len(t) : Len(s) + i \in 1 .. Len(s) + Len(t)
  BY <1>2
<1>5. \A i \in 1 .. Len(s) + Len(t) :
          \/ i \in 1 .. Len(s) /\ (s \o t)[i] = s[i]
          \/ i - Len(s) \in 1 .. Len(t) /\ (s \o t)[i] = t[i - Len(s)]
  BY <1>1, <1>3
<1>6. ToSet(s \o t) = ToSet(s) \cup ToSet(t)
  <2>1. ToSet(s \o t) \subseteq ToSet(s) \cup ToSet(t)
    BY <1>2, <1>5 DEF ToSet
  <2>2. ToSet(s) \subseteq ToSet(s \o t)
    BY <1>1, <1>2 DEF ToSet
  <2>3. ToSet(t) \subseteq ToSet(s \o t)
    BY <1>1, <1>2, <1>4 DEF ToSet
  <2> QED
    BY <2>1, <2>2, <2>3
<1>7. ASSUME Distinct(s), Distinct(t), ToSet(s) \cap ToSet(t) = {}
      PROVE  Distinct(s \o t)
  <2>1. \A i \in 1 .. Len(s), j \in 1 .. Len(t) : s[i] # t[j]
    BY <1>2, <1>7 DEF ToSet
  <2> SUFFICES ASSUME NEW i \in 1 .. Len(s) + Len(t), NEW j \in 1 .. Len(s) + Len(t),
                      i # j
               PROVE  (s \o t)[i] # (s \o t)[j]
    BY <1>1 DEF Distinct
  <2>2. CASE i \in 1 .. Len(s) /\ j \in 1 .. Len(s)
    BY <1>1, <1>7, <2>2 DEF Distinct
  <2>3. CASE i \in 1 .. Len(s) /\ j \notin 1 .. Len(s)
    BY <1>5, <2>1, <2>3
  <2>4. CASE i \notin 1 .. Len(s) /\ j \in 1 .. Len(s)
    BY <1>5, <2>1, <2>4
  <2>5. CASE i \notin 1 .. Len(s) /\ j \notin 1 .. Len(s)
    <3>1. /\ i - Len(s) \in 1 .. Len(t) /\ (s \o t)[i] = t[i - Len(s)]
          /\ j - Len(s) \in 1 .. Len(t) /\ (s \o t)[j] = t[j - Len(s)]
      BY <1>5, <2>5
    <3>2. i - Len(s) # j - Len(s)
      BY <1>2
    <3> QED
      BY <1>7, <3>1, <3>2 DEF Distinct
  <2> QED
    BY <2>2, <2>3, <2>4, <2>5
<1> QED
  BY <1>6, <1>7

LEMMA DistinctSplit ==
    ASSUME NEW T, NEW s \in Seq(T), NEW n \in 0 .. Len(s)
    PROVE  LET a == SubSeq(s, 1, n)
               z == SubSeq(s, n + 1, Len(s))
           IN  /\ a \in Seq(T) /\ z \in Seq(T) /\ Len(a) = n
               /\ ToSet(a) \subseteq ToSet(s) /\ ToSet(z) \subseteq ToSet(s)
               /\ Distinct(s) => /\ Distinct(a) /\ Distinct(z)
                                 /\ ToSet(a) \cap ToSet(z) = {}
<1> DEFINE a == SubSeq(s, 1, n)
           z == SubSeq(s, n + 1, Len(s))
<1>1. /\ a \in Seq(T) /\ Len(a) = n
      /\ \A i \in 1 .. n : a[i] = s[i] /\ i \in 1 .. Len(s)
  OBVIOUS
<1>2. /\ z \in Seq(T) /\ Len(z) = Len(s) - n
      /\ \A i \in 1 .. Len(s) - n : z[i] = s[n + i] /\ n + i \in 1 .. Len(s)
  OBVIOUS
<1>3. DOMAIN s = 1 .. Len(s) /\ DOMAIN a = 1 .. n /\ DOMAIN z = 1 .. Len(s) - n
  BY <1>1, <1>2
<1> HIDE DEF a, z
<1>4. ToSet(a) \subseteq ToSet(s) /\ ToSet(z) \subseteq ToSet(s)
  <2>1. \A i \in 1 .. n : a[i] \in ToSet(s)
    BY <1>1, <1>3 DEF ToSet
  <2>2. \A i \in 1 .. Len(s) - n : z[i] \in ToSet(s)
    BY <1>2, <1>3 DEF ToSet
  <2> QED
    BY <2>1, <2>2, <1>3 DEF ToSet
<1>5. Distinct(s) => Distinct(a)
  BY <1>1 DEF Distinct
<1>6. ASSUME Distinct(s) PROVE Distinct(z)
  <2> SUFFICES ASSUME NEW i \in 1 .. Len(s) - n, NEW j \in 1 .. Len(s) - n, i # j
               PROVE  z[i] # z[j]
    BY <1>2 DEF Distinct
  <2>1. n + i # n + j
    OBVIOUS
  <2> QED
    BY <1>2, <1>6, <2>1 DEF Distinct
<1>7. Distinct(s) => ToSet(a) \cap ToSet(z) = {}
  <2>1. Distinct(s) => \A i \in 1 .. n, j \in 1 .. Len(s) - n : a[i] # z[j]
    BY <1>1, <1>2 DEF Distinct
  <2> QED
    BY <2>1, <1>3 DEF ToSet
<1> QED
  BY <1>1, <1>2, <1>4, <1>5, <1>6, <1>7 DEF a, z

LEMMA MinOfTwo ==
    ASSUME NEW a \in Nat, NEW b \in Nat
    PROVE  Min({a, b}) \in Nat /\ Min({a, b}) <= a /\ Min({a, b}) <= b
<1>1. \E x \in {a, b} : \A y \in {a, b} : x <= y
  <2>1. CASE a <= b
    BY <2>1
  <2>2. CASE b <= a
    BY <2>2
  <2> QED
    BY <2>1, <2>2
<1> QED
  BY <1>1 DEF Min

--------------------------------------------------------------------------------
(* Types *)

LEMMA RowFacts ==
    /\ Unread \notin Row \cup {NoRow}
    /\ NoRow \notin Row
    /\ ~Unread.finished /\ ~NoRow.finished
    /\ \A row \in Row \cup {NoRow, Unread}, news \in State :
           /\ Upserted(row, news) \in Row
           /\ row.finished => Upserted(row, news).finished
BY DEF Unread, NoRow, Row, State, Upserted

LEMMA CallFacts ==
    /\ NoCall \notin Call
    /\ \A c \in Call : c[1] \in Channel
    /\ "runs" \in Channel /\ "logs" \in Channel
    /\ Item("runs") = Record /\ Item("logs") = Line
BY DEF NoCall, Call, Channel, Item

LEMMA NestedExcept ==
    ASSUME NEW A, NEW B, NEW T, NEW f \in [A -> [B -> T]],
           NEW a \in A, NEW b \in B, NEW v \in T
    PROVE  [f EXCEPT ![a][b] = v] \in [A -> [B -> T]]
OBVIOUS

LEMMA CloseTypes ==
    ASSUME TypeOK, NEW c \in Call, Close(c)
    PROVE  /\ phase' \in [Call -> {"idle", "sent", "handling"}]
           /\ DOMAIN batch' = Call
           /\ \A d \in Call : batch'[d] \in Seq(Item(d[1])) /\ Len(batch'[d]) <= Batch
           /\ orig' \in [Call -> [Run -> Row \cup {NoRow, Unread}]]
           /\ edit' \in [Call -> [Run -> Row \cup {Unread}]]
<1>1. \A T : <<>> \in Seq(T) /\ Len(<<>>) <= Batch
  BY ReportingAssumption
<1>2. [r \in Run |-> Unread] \in [Run -> Row \cup {Unread}]
  OBVIOUS
<1>3. DOMAIN batch' = Call
      /\ \A d \in Call : batch'[d] = IF d = c THEN <<>> ELSE batch[d]
  BY DEF TypeOK, Close
<1>4. \A d \in Call : batch'[d] \in Seq(Item(d[1])) /\ Len(batch'[d]) <= Batch
  BY <1>1, <1>3 DEF TypeOK
<1> QED
  BY <1>2, <1>3, <1>4 DEF TypeOK, Close

LEMMA AnswerTypes ==
    ASSUME TypeOK, NEW c \in Call, NEW ok \in BOOLEAN, Answer(c, ok)
    PROVE  /\ loop' \in [Channel -> {"waiting", "sending", "pausing", "ended"}]
           /\ current' \in [Channel -> Call \cup {NoCall}]
           /\ \A ch \in Channel : loop'[ch] = "sending" => current'[ch] \in Call
           /\ lost' \in SUBSET Run
<1>1. FinalsOf(c) \subseteq Run
  BY DEF FinalsOf, Finals
<1>2. c[1] \in Channel
  BY CallFacts
<1>3. CASE current[c[1]] = c
  <2>1. /\ loop' = [loop EXCEPT ![c[1]] = "pausing"]
        /\ current' = [current EXCEPT ![c[1]] = NoCall]
    BY <1>3 DEF Answer, Pause
  <2>2. lost' \in SUBSET Run
    BY <1>1, <1>3 DEF TypeOK, Answer
  <2> QED
    BY <1>2, <2>1, <2>2 DEF TypeOK
<1>4. CASE current[c[1]] # c
  BY <1>4 DEF TypeOK, Answer
<1> QED
  BY <1>3, <1>4

LEMMA TryWriteTypes ==
    ASSUME TypeOK, NEW ch \in Channel, NEW item \in Item(ch), TryWrite(ch, item)
    PROVE  /\ DOMAIN queue' = Channel
           /\ \A d \in Channel : queue'[d] \in Seq(Item(d))
           /\ lost' \in SUBSET Run
<1>1. Finals(<<item>>) \subseteq Run
  BY DEF Finals
<1>2. Append(queue[ch], item) \in Seq(Item(ch))
  BY DEF TypeOK
<1> QED
  BY <1>1, <1>2 DEF TypeOK, TryWrite

LEMMA TypeInit == Init => TypeOK
<1> SUFFICES ASSUME Init PROVE TypeOK
  OBVIOUS
<1>1. \A T : <<>> \in Seq(T) /\ Len(<<>>) <= Batch
  BY ReportingAssumption
<1>2. DOMAIN queue = Channel /\ \A ch \in Channel : queue[ch] \in Seq(Item(ch))
  BY <1>1 DEF Init
<1>3. /\ DOMAIN batch = Call
      /\ \A c \in Call : batch[c] \in Seq(Item(c[1])) /\ Len(batch[c]) <= Batch
  BY <1>1 DEF Init
<1>4. written \in 0 .. Lines /\ shown \in Seq(Line)
  BY <1>1, ReportingAssumption DEF Init
<1>5. /\ orig \in [Call -> [Run -> Row \cup {NoRow, Unread}]]
      /\ edit \in [Call -> [Run -> Row \cup {Unread}]]
  BY DEF Init
<1> QED
  BY <1>2, <1>3, <1>4, <1>5 DEF Init, TypeOK

LEMMA TypeStep == TypeOK /\ EditInv /\ [Next]_vars => TypeOK'
<1> SUFFICES ASSUME TypeOK, EditInv, [Next]_vars PROVE TypeOK'
  OBVIOUS
<1>1. ASSUME NEW r \in Run, NEW news \in State, ReportRun(r, news) PROVE TypeOK'
  <2>1. [about |-> r, news |-> news] \in Item("runs")
    BY CallFacts DEF Record
  <2>2. /\ DOMAIN queue' = Channel
        /\ \A d \in Channel : queue'[d] \in Seq(Item(d))
        /\ lost' \in SUBSET Run
    BY <1>1, <2>1, CallFacts, TryWriteTypes DEF ReportRun
  <2> QED
    BY <1>1, <2>2 DEF ReportRun, handlers, database, TypeOK
<1>2. ASSUME ReportLog PROVE TypeOK'
  <2>1. written + 1 \in 1 .. Lines
    BY <1>2, ReportingAssumption DEF ReportLog, TypeOK
  <2>2. [about |-> written + 1, news |-> "line"] \in Item("logs")
    BY <2>1, CallFacts DEF Line
  <2>3. /\ DOMAIN queue' = Channel
        /\ \A d \in Channel : queue'[d] \in Seq(Item(d))
        /\ lost' \in SUBSET Run
    BY <1>2, <2>2, CallFacts, TryWriteTypes DEF ReportLog
  <2> QED
    BY <1>2, <2>1, <2>3, ReportingAssumption DEF ReportLog, handlers, database, TypeOK
<1>3. ASSUME StopAsync \/ RevokeAsync PROVE TypeOK'
  BY <1>3 DEF StopAsync, RevokeAsync, handlers, database, TypeOK
<1>4. ASSUME NEW ch \in Channel, NEW c \in Call, Send(ch, c) PROVE TypeOK'
  <2> DEFINE n == Min({Len(queue[ch]), Batch})
  <2>1. queue[ch] \in Seq(Item(ch)) /\ Len(queue[ch]) \in Nat
    BY DEF TypeOK
  <2>2. n \in 0 .. Len(queue[ch]) /\ n <= Batch
    BY <2>1, MinOfTwo, ReportingAssumption
  <2> HIDE DEF n
  <2>3. /\ SubSeq(queue[ch], 1, n) \in Seq(Item(ch)) /\ Len(SubSeq(queue[ch], 1, n)) = n
        /\ SubSeq(queue[ch], n + 1, Len(queue[ch])) \in Seq(Item(ch))
    BY <2>1, <2>2, DistinctSplit
  <2>4. /\ batch' = [batch EXCEPT ![c] = SubSeq(queue[ch], 1, n)]
        /\ queue' = [queue EXCEPT ![ch] = SubSeq(queue[ch], n + 1, Len(queue[ch]))]
        /\ c[1] = ch
    BY <1>4 DEF Send, n, TypeOK
  <2>5. /\ DOMAIN batch' = Call
        /\ \A d \in Call : batch'[d] \in Seq(Item(d[1])) /\ Len(batch'[d]) <= Batch
    BY <2>2, <2>3, <2>4 DEF TypeOK
  <2>6. DOMAIN queue' = Channel /\ \A d \in Channel : queue'[d] \in Seq(Item(d))
    BY <2>3, <2>4 DEF TypeOK
  <2>7. /\ phase' \in [Call -> {"idle", "sent", "handling"}]
        /\ current' \in [Channel -> Call \cup {NoCall}]
        /\ loop' \in [Channel -> {"waiting", "sending", "pausing", "ended"}]
        /\ \A d \in Channel : loop'[d] = "sending" => current'[d] \in Call
    BY <1>4 DEF Send, TypeOK
  <2> QED
    BY <1>4, <2>5, <2>6, <2>7 DEF Send, database, TypeOK
<1>5. ASSUME NEW ch \in Channel, DelayEnds(ch) PROVE TypeOK'
  BY <1>5 DEF DelayEnds, handlers, database, TypeOK
<1>6. ASSUME NEW ch \in Channel, LoopEnds(ch) PROVE TypeOK'
  <2>1. lost' \in SUBSET Run
    BY <1>6 DEF LoopEnds, Finals, FinalsOf, TypeOK
  <2>2. DOMAIN queue' = Channel /\ \A d \in Channel : queue'[d] \in Seq(Item(d))
    BY <1>6 DEF LoopEnds, TypeOK
  <2> QED
    BY <1>6, <2>1, <2>2 DEF LoopEnds, handlers, database, TypeOK
<1>7. ASSUME NEW ch \in Channel, CallFails(ch) PROVE TypeOK'
  <2>1. lost' \in SUBSET Run
    BY <1>7 DEF CallFails, Finals, FinalsOf, TypeOK
  <2>2. CASE UNCHANGED handlers
    BY <1>7, <2>1, <2>2 DEF CallFails, Pause, handlers, database, TypeOK
  <2>3. CASE Close(current[ch])
    <3>1. current[ch] \in Call
      BY <1>7 DEF CallFails, TypeOK
    <3> QED
      BY <1>7, <2>1, <2>3, <3>1, CloseTypes DEF CallFails, Pause, database, TypeOK
  <2> QED
    BY <1>7, <2>2, <2>3 DEF CallFails
<1>8. ASSUME NEW c \in Call, Authenticate(c) PROVE TypeOK'
  BY <1>8 DEF Authenticate, database, TypeOK
<1>9. ASSUME NEW c \in Call, RejectKey(c) \/ HandlerThrows(c) PROVE TypeOK'
  BY <1>9, CloseTypes, AnswerTypes DEF RejectKey, HandlerThrows, database, TypeOK
<1>10. ASSUME NEW c \in Call, FindAsync(c) PROVE TypeOK'
  <2>1. /\ batch[c] \in Seq(Record) /\ batch[c] # <<>> /\ Len(batch[c]) <= Batch
    BY <1>10, CallFacts DEF FindAsync, TypeOK
  <2>2. /\ Head(batch[c]) \in Record /\ Tail(batch[c]) \in Seq(Record)
        /\ Len(Tail(batch[c])) <= Batch
    BY <2>1, ReportingAssumption
  <2> PICK r \in Run, news \in State : Head(batch[c]) = [about |-> r, news |-> news]
    BY <2>2 DEF Record
  <2> DEFINE row == IF orig[c][r] = Unread THEN rows[r] ELSE edit[c][r]
  <2>3. row \in Row \cup {NoRow, Unread}
    BY DEF TypeOK
  <2>4. Upserted(row, news) \in Row
    BY <2>3, RowFacts
  <2>5. /\ orig' = [orig EXCEPT ![c][r] = IF orig[c][r] = Unread THEN row ELSE orig[c][r]]
        /\ edit' = [edit EXCEPT ![c][r] = Upserted(row, news)]
    <3>1. Head(batch[c]).about = r /\ Head(batch[c]).news = news
      OBVIOUS
    <3> QED
      BY <1>10, <3>1, Zenon DEF FindAsync
  <2>6. (IF orig[c][r] = Unread THEN row ELSE orig[c][r]) \in Row \cup {NoRow, Unread}
    BY DEF TypeOK
  <2> HIDE DEF row
  <2>7. /\ orig' \in [Call -> [Run -> Row \cup {NoRow, Unread}]]
        /\ edit' \in [Call -> [Run -> Row \cup {Unread}]]
    <3>1. /\ orig \in [Call -> [Run -> Row \cup {NoRow, Unread}]]
          /\ edit \in [Call -> [Run -> Row \cup {Unread}]]
      BY DEF TypeOK
    <3> QED
      BY <2>4, <2>5, <2>6, <3>1, NestedExcept
  <2>8. batch' = [batch EXCEPT ![c] = Tail(batch[c])] /\ c[1] = "runs"
    BY <1>10 DEF FindAsync
  <2>9. /\ DOMAIN batch' = Call
        /\ \A d \in Call : batch'[d] \in Seq(Item(d[1])) /\ Len(batch'[d]) <= Batch
    BY <2>2, <2>8, CallFacts DEF TypeOK
  <2> QED
    BY <1>10, <2>7, <2>9 DEF FindAsync, database, TypeOK
<1>11. ASSUME NEW c \in Call, SaveRuns(c) PROVE TypeOK'
  <2>1. ASSUME NEW r \in Run PROVE Written(c, r) \in Row \cup {NoRow}
    <3>1. /\ orig[c][r] \in Row \cup {NoRow, Unread}
          /\ edit[c][r] \in Row \cup {Unread}
          /\ rows[r] \in Row \cup {NoRow}
      BY DEF TypeOK
    <3>2. CASE orig[c][r] = Unread
      BY <3>1, <3>2 DEF Written
    <3>3. CASE orig[c][r] = NoRow
      BY <3>1, <3>3, RowFacts DEF Written, EditInv
    <3>4. CASE orig[c][r] \in Row
      <4>1. edit[c][r] \in Row /\ rows[r] \in Row
        BY <3>4, RowFacts DEF EditInv
      <4>2. orig[c][r] # Unread /\ orig[c][r] # NoRow
        BY <3>4, RowFacts
      <4> QED
        BY <3>4, <4>1, <4>2 DEF Written, Row
    <3> QED
      BY <3>1, <3>2, <3>3, <3>4
  <2> QED
    BY <1>11, <2>1, CloseTypes, AnswerTypes DEF SaveRuns, TypeOK
<1>12. ASSUME NEW c \in Call, SaveLogs(c) PROVE TypeOK'
  <2>1. shown \o batch[c] \in Seq(Line)
    BY <1>12, CallFacts DEF SaveLogs, TypeOK
  <2> QED
    BY <1>12, <2>1, CloseTypes, AnswerTypes DEF SaveLogs, TypeOK
<1>13. CASE UNCHANGED vars
  BY <1>13 DEF vars, handlers, database, TypeOK
<1> QED
  BY <1>1, <1>2, <1>3, <1>4, <1>5, <1>6, <1>7, <1>8, <1>9, <1>10, <1>11, <1>12, <1>13
     DEF Next, Report, Flush, Handle

LEMMA EditInit == Init => EditInv
BY RowFacts DEF Init, EditInv

LEMMA EditStep == TypeOK /\ EditInv /\ [Next]_vars => EditInv'
<1> SUFFICES ASSUME TypeOK, EditInv, [Next]_vars PROVE EditInv'
  OBVIOUS
<1>1. CASE UNCHANGED <<orig, edit, rows>>
  BY <1>1 DEF EditInv
<1>2. ASSUME NEW c \in Call, Close(c), UNCHANGED rows PROVE EditInv'
  BY <1>2, RowFacts DEF Close, EditInv, TypeOK
<1>3. ASSUME NEW c \in Call, FindAsync(c) PROVE EditInv'
  <2>1. batch[c] \in Seq(Record) /\ batch[c] # <<>>
    BY <1>3, CallFacts DEF FindAsync, TypeOK
  <2>2. Head(batch[c]) \in Record
    BY <2>1
  <2> PICK r \in Run, news \in State : Head(batch[c]) = [about |-> r, news |-> news]
    BY <2>2 DEF Record
  <2> DEFINE row == IF orig[c][r] = Unread THEN rows[r] ELSE edit[c][r]
  <2>3. row \in Row \cup {NoRow, Unread}
    BY DEF TypeOK
  <2>4. /\ Upserted(row, news) \in Row
        /\ row.finished => Upserted(row, news).finished
    BY <2>3, RowFacts
  <2>5. /\ orig' = [orig EXCEPT ![c][r] = IF orig[c][r] = Unread THEN row ELSE orig[c][r]]
        /\ edit' = [edit EXCEPT ![c][r] = Upserted(row, news)]
        /\ rows' = rows
    <3>1. Head(batch[c]).about = r /\ Head(batch[c]).news = news
      OBVIOUS
    <3> QED
      BY <1>3, <3>1, Zenon DEF FindAsync, database
  <2>6. orig[c][r] = Unread => row = rows[r]
    OBVIOUS
  <2>7. orig[c][r] # Unread => row = edit[c][r]
    OBVIOUS
  <2> HIDE DEF row
  <2>8. ASSUME NEW d \in Call, NEW s \in Run, d # c \/ s # r
        PROVE  orig'[d][s] = orig[d][s] /\ edit'[d][s] = edit[d][s]
    BY <2>5, <2>8 DEF TypeOK
  <2>9. /\ edit'[c][r] = Upserted(row, news)
        /\ orig'[c][r] = IF orig[c][r] = Unread THEN row ELSE orig[c][r]
    BY <2>5 DEF TypeOK
  <2>10. /\ edit'[c][r] \in Row
         /\ orig'[c][r] \in Row => rows'[r] \in Row
         /\ orig'[c][r].finished => edit'[c][r].finished
    BY <2>4, <2>5, <2>6, <2>7, <2>9 DEF EditInv
  <2> QED
    BY <2>5, <2>8, <2>10 DEF EditInv
<1>4. ASSUME NEW c \in Call, SaveRuns(c) PROVE EditInv'
  <2>1. \A r \in Run : rows[r] \in Row => rows'[r] \in Row
    <3> SUFFICES ASSUME NEW r \in Run, rows[r] \in Row PROVE Written(c, r) \in Row
      BY <1>4 DEF SaveRuns
    <3>1. CASE orig[c][r] = Unread
      BY <3>1, RowFacts DEF Written
    <3>2. CASE orig[c][r] = NoRow
      <4>1. edit[c][r] \in Row /\ orig[c][r] # Unread
        BY <3>2, RowFacts DEF EditInv
      <4> QED
        BY <3>2, <4>1 DEF Written
    <3>3. CASE orig[c][r] \in Row
      <4>1. edit[c][r] \in Row /\ orig[c][r] # Unread /\ orig[c][r] # NoRow
        BY <3>3, RowFacts DEF EditInv
      <4> QED
        BY <3>3, <4>1 DEF Written, Row
    <3> QED
      BY <3>1, <3>2, <3>3 DEF TypeOK
  <2> QED
    BY <1>4, <2>1, RowFacts DEF SaveRuns, Close, EditInv, TypeOK
<1>5. ASSUME NEW c \in Call, SaveLogs(c) \/ RejectKey(c) \/ HandlerThrows(c) PROVE EditInv'
  BY <1>2, <1>5 DEF SaveLogs, RejectKey, HandlerThrows, database
<1>6. ASSUME NEW ch \in Channel, CallFails(ch) PROVE EditInv'
  <2>1. current[ch] \in Call /\ UNCHANGED rows
    BY <1>6 DEF CallFails, database, TypeOK
  <2> QED
    BY <1>1, <1>2, <1>6, <2>1 DEF CallFails, handlers
<1>7. ASSUME Report \/ StopAsync \/ RevokeAsync PROVE EditInv'
  BY <1>1, <1>7 DEF Report, ReportRun, ReportLog, StopAsync, RevokeAsync, handlers, database
<1>8. ASSUME NEW ch \in Channel, Flush(ch) PROVE EditInv'
  BY <1>1, <1>8 DEF Flush, Send, DelayEnds, LoopEnds, handlers, database
<1>9. ASSUME NEW c \in Call, Authenticate(c) PROVE EditInv'
  BY <1>1, <1>9 DEF Authenticate, database
<1>10. CASE UNCHANGED vars
  BY <1>1, <1>10 DEF vars
<1> QED
  BY <1>3, <1>4, <1>5, <1>6, <1>7, <1>8, <1>9, <1>10 DEF Next, Handle

(* Every variable keeps its type and no call carries more than Batch records,
   whatever calls overlap or fail (GrpcDashboardReporter, IngestServiceImpl). *)
THEOREM TypeCorrect == Spec => []TypeOK
<1>1. Init => TypeOK /\ EditInv
  BY TypeInit, EditInit
<1>2. TypeOK /\ EditInv /\ [Next]_vars => (TypeOK /\ EditInv)'
  BY TypeStep, EditStep
<1> QED
  BY <1>1, <1>2, PTL DEF Spec

LEMMA FinishedKept ==
    ASSUME TypeOK, EditInv, [Next]_vars, NEW r \in Run, rows[r].finished
    PROVE  rows'[r].finished
<1>1. CASE \E c \in Call : SaveRuns(c)
  <2> PICK c \in Call : SaveRuns(c)
    BY <1>1
  <2>1. rows[r] \in Row /\ rows'[r] = Written(c, r) /\ orig[c][r] # NoRow
    BY RowFacts DEF SaveRuns, Conflict, TypeOK
  <2>2. CASE orig[c][r] = Unread
    BY <2>1, <2>2, RowFacts DEF Written
  <2>3. CASE orig[c][r] \in Row
    <3>1. edit[c][r] \in Row /\ orig[c][r] # Unread /\ orig[c][r] # NoRow
      BY <2>3, RowFacts DEF EditInv
    <3>2. Written(c, r).finished = IF edit[c][r].finished = orig[c][r].finished
                                   THEN rows[r].finished ELSE edit[c][r].finished
      BY <3>1, Zenon DEF Written
    <3> QED
      BY <2>1, <2>3, <3>1, <3>2 DEF EditInv, Row
  <2> QED
    BY <2>1, <2>2, <2>3 DEF TypeOK
<1>2. CASE \A c \in Call : ~SaveRuns(c)
  BY <1>2 DEF Next, Report, ReportRun, ReportLog, StopAsync, RevokeAsync, Flush, Send,
              DelayEnds, LoopEnds, CallFails, Handle, Authenticate, RejectKey,
              FindAsync, SaveLogs, HandlerThrows, database, vars
<1> QED
  BY <1>1, <1>2

(* A run that the dashboard shows as finished keeps its FinishedAt, in whatever
   order overlapping calls read and save it (IngestServiceImpl.SendRuns). *)
THEOREM FinishedNeverUndone == Spec => FinishedStays
<1>1. Init => TypeOK /\ EditInv
  BY TypeInit, EditInit
<1>2. TypeOK /\ EditInv /\ [Next]_vars => (TypeOK /\ EditInv)'
  BY TypeStep, EditStep
<1>3. TypeOK /\ EditInv /\ [Next]_vars
          => [\A r \in Run : rows[r].finished => rows'[r].finished]_vars
  BY FinishedKept
<1> QED
  BY <1>1, <1>2, <1>3, PTL DEF Spec, FinishedStays

--------------------------------------------------------------------------------
(* Console lines *)

LEMMA LineSets ==
    ASSUME TypeOK
    PROVE  /\ queue["logs"] \in Seq(Line)
           /\ \A c \in LogCall : batch[c] \in Seq(Line) /\ c \in Call
           /\ shown \in Seq(Line)
           /\ written \in Nat
BY CallFacts, ReportingAssumption DEF TypeOK, LogCall

(* Calls, and the channel, may lose what they hold. *)
LEMMA LinesKept ==
    ASSUME TypeOK, LinesInv, written' \in Nat, written <= written', shown' = shown,
           queue'["logs"] \in {queue["logs"], <<>>},
           \A c \in LogCall : batch'[c] \in {batch[c], <<>>}
    PROVE  LinesInv'
<1>1. WrittenLines \subseteq WrittenLines'
  BY LineSets DEF WrittenLines
<1>2. QueueLines'
  BY <1>1, DistinctEmpty DEF LinesInv, QueueLines
<1>3. ShownLines'
  BY <1>1 DEF LinesInv, ShownLines
<1>4. CallLines'
  BY <1>1, DistinctEmpty DEF LinesInv, CallLines, LogCall
<1>5. CallsApart'
  BY DistinctEmpty DEF LinesInv, CallsApart, LogCall
<1> QED
  BY <1>2, <1>3, <1>4, <1>5 DEF LinesInv

LEMMA CloseKeepsLines ==
    ASSUME TypeOK, NEW c \in Call, Close(c)
    PROVE  \A d \in LogCall : batch'[d] \in {batch[d], <<>>}
BY DEF Close, TypeOK, LogCall

LEMMA LinesInit == Init => LinesInv
BY DistinctEmpty, CallFacts
   DEF Init, LinesInv, QueueLines, ShownLines, CallLines, CallsApart, LogCall

LEMMA LinesStep == TypeOK /\ LinesInv /\ [Next]_vars => LinesInv'
<1> SUFFICES ASSUME TypeOK, LinesInv, [Next]_vars PROVE LinesInv'
  OBVIOUS
<1> USE LineSets, CallFacts
<1>1. CASE UNCHANGED <<written, shown, queue, batch>>
  BY <1>1, LinesKept
<1>2. ASSUME ReportLog PROVE LinesInv'
  <2>1. written' = written + 1 /\ UNCHANGED <<shown, batch>>
    BY <1>2 DEF ReportLog, handlers, database
  <2>2. CASE UNCHANGED queue
    BY <2>1, <2>2, LinesKept
  <2>3. CASE queue' = [queue EXCEPT !["logs"] =
                           Append(@, [about |-> written + 1, news |-> "line"])]
    <3> DEFINE line == [about |-> written + 1, news |-> "line"]
    <3>1. /\ queue'["logs"] = Append(queue["logs"], line)
          /\ WrittenLines' = WrittenLines \cup {line} /\ line \notin WrittenLines
      <4>1. /\ 1 .. written + 1 = (1 .. written) \cup {written + 1}
            /\ written + 1 \notin 1 .. written
        OBVIOUS
      <4>2. queue'["logs"] = Append(queue["logs"], line)
        BY <2>3 DEF TypeOK
      <4>3. WrittenLines' = [about : 1 .. written + 1, news : {"line"}]
        BY <2>1 DEF WrittenLines
      <4>4. \A x \in WrittenLines : x.about \in 1 .. written
        BY DEF WrittenLines
      <4>5. line.about = written + 1
        OBVIOUS
      <4>6. WrittenLines' = WrittenLines \cup {line}
        <5>1. ASSUME NEW x \in WrittenLines' PROVE x \in WrittenLines \cup {line}
          <6>1. PICK k \in 1 .. written + 1 : x = [about |-> k, news |-> "line"]
            BY <4>3
          <6> QED
            BY <4>1, <6>1 DEF WrittenLines
        <5>2. WrittenLines \subseteq WrittenLines'
          BY <4>1, <4>3 DEF WrittenLines
        <5>3. line \in WrittenLines'
          BY <4>1, <4>3
        <5> QED
          BY <5>1, <5>2, <5>3
      <4> QED
        BY <4>1, <4>2, <4>4, <4>5, <4>6
    <3>2. line \in Line
      <4>1. written < Lines
        BY <1>2 DEF ReportLog
      <4>2. written + 1 \in 1 .. Lines
        BY <4>1, ReportingAssumption
      <4> QED
        BY <4>2 DEF Line
    <3> HIDE DEF line
    <3>3. /\ ToSet(queue'["logs"]) = ToSet(queue["logs"]) \cup {line}
          /\ Distinct(queue'["logs"])
      <4>1. line \notin ToSet(queue["logs"]) /\ Distinct(queue["logs"])
        BY <3>1 DEF LinesInv, QueueLines
      <4> QED
        BY <3>1, <3>2, <4>1, DistinctAppend
    <3>4. QueueLines' /\ ShownLines'
      BY <2>1, <3>1, <3>3 DEF LinesInv, QueueLines, ShownLines
    <3>5. CallLines'
      BY <2>1, <3>1, <3>3 DEF LinesInv, CallLines, LogCall
    <3>6. CallsApart'
      BY <2>1 DEF LinesInv, CallsApart, LogCall
    <3> QED
      BY <3>4, <3>5, <3>6 DEF LinesInv
  <2> QED
    BY <1>2, <2>2, <2>3 DEF ReportLog, TryWrite
<1>3. ASSUME NEW r \in Run, NEW news \in State, ReportRun(r, news) PROVE LinesInv'
  <2>1. /\ UNCHANGED <<written, shown, batch>>
        /\ queue'["logs"] = queue["logs"]
    BY <1>3 DEF ReportRun, TryWrite, handlers, database, TypeOK
  <2> QED
    BY <2>1, LinesKept
<1>4. ASSUME NEW ch \in Channel, NEW c \in Call, Send(ch, c) PROVE LinesInv'
  <2>1. UNCHANGED <<written, shown>>
    BY <1>4 DEF Send, database
  <2>2. CASE ch # "logs"
    <3>1. queue'["logs"] = queue["logs"] /\ \A d \in LogCall : batch'[d] = batch[d]
      BY <1>4, <2>2 DEF Send, TypeOK, LogCall
    <3> QED
      BY <2>1, <3>1, LinesKept
  <2>3. CASE ch = "logs"
    <3> DEFINE n == Min({Len(queue["logs"]), Batch})
               a == SubSeq(queue["logs"], 1, n)
               z == SubSeq(queue["logs"], n + 1, Len(queue["logs"]))
    <3>1. n \in 0 .. Len(queue["logs"])
      BY MinOfTwo, ReportingAssumption
    <3>2. /\ queue'["logs"] = z /\ c \in LogCall /\ batch'[c] = a
          /\ \A d \in LogCall : d # c => batch'[d] = batch[d]
      BY <1>4, <2>3 DEF Send, TypeOK, LogCall
    <3> HIDE DEF n
    <3>3. /\ ToSet(a) \subseteq ToSet(queue["logs"]) /\ ToSet(z) \subseteq ToSet(queue["logs"])
          /\ Distinct(a) /\ Distinct(z) /\ ToSet(a) \cap ToSet(z) = {}
      BY <3>1, DistinctSplit DEF LinesInv, QueueLines
    <3> HIDE DEF a, z
    <3>4. QueueLines' /\ ShownLines'
      BY <2>1, <3>2, <3>3 DEF LinesInv, QueueLines, ShownLines, WrittenLines
    <3>5. CallLines'
      BY <2>1, <3>2, <3>3 DEF LinesInv, QueueLines, CallLines, WrittenLines, LogCall
    <3>6. CallsApart'
      BY <3>2, <3>3 DEF LinesInv, CallLines, CallsApart, LogCall
    <3> QED
      BY <3>4, <3>5, <3>6 DEF LinesInv
  <2> QED
    BY <2>2, <2>3
<1>5. ASSUME NEW ch \in Channel, LoopEnds(ch) PROVE LinesInv'
  <2>1. /\ UNCHANGED <<written, shown, batch>>
        /\ queue'["logs"] \in {queue["logs"], <<>>}
    BY <1>5 DEF LoopEnds, handlers, database, TypeOK
  <2> QED
    BY <2>1, LinesKept
<1>6. ASSUME NEW ch \in Channel, CallFails(ch) PROVE LinesInv'
  <2>1. UNCHANGED <<written, shown, queue>> /\ current[ch] \in Call
    BY <1>6 DEF CallFails, database, TypeOK
  <2>2. \A d \in LogCall : batch'[d] \in {batch[d], <<>>}
    BY <1>6, <2>1, CloseKeepsLines DEF CallFails, handlers
  <2> QED
    BY <2>1, <2>2, LinesKept
<1>7. ASSUME NEW c \in Call, RejectKey(c) \/ HandlerThrows(c) \/ SaveRuns(c) PROVE LinesInv'
  <2>1. UNCHANGED <<written, shown, queue>> /\ Close(c)
    BY <1>7 DEF RejectKey, HandlerThrows, SaveRuns, database
  <2> QED
    BY <2>1, CloseKeepsLines, LinesKept
<1>8. ASSUME NEW c \in Call, FindAsync(c) PROVE LinesInv'
  <2>1. /\ UNCHANGED <<written, shown, queue>>
        /\ \A d \in LogCall : batch'[d] = batch[d]
    BY <1>8 DEF FindAsync, database, TypeOK, LogCall
  <2> QED
    BY <2>1, LinesKept
<1>9. ASSUME NEW c \in Call, SaveLogs(c) PROVE LinesInv'
  <2>1. /\ UNCHANGED <<written, queue>> /\ shown' = shown \o batch[c] /\ c \in LogCall
        /\ batch'[c] = <<>> /\ \A d \in LogCall : d # c => batch'[d] = batch[d]
    BY <1>9 DEF SaveLogs, Close, TypeOK, LogCall
  <2>2. /\ ToSet(shown') = ToSet(shown) \cup ToSet(batch[c])
        /\ Distinct(shown')
    BY <2>1, DistinctConcat DEF LinesInv, ShownLines, CallLines
  <2>3. QueueLines' /\ ShownLines'
    BY <2>1, <2>2 DEF LinesInv, QueueLines, ShownLines, CallLines, WrittenLines
  <2>4. CallLines'
    BY <2>1, <2>2, DistinctEmpty DEF LinesInv, CallLines, CallsApart, WrittenLines, LogCall
  <2>5. CallsApart'
    BY <2>1, DistinctEmpty DEF LinesInv, CallsApart, LogCall
  <2> QED
    BY <2>3, <2>4, <2>5 DEF LinesInv
<1>10. ASSUME StopAsync \/ RevokeAsync PROVE LinesInv'
  BY <1>1, <1>10 DEF StopAsync, RevokeAsync, handlers, database
<1>11. ASSUME NEW ch \in Channel, DelayEnds(ch) PROVE LinesInv'
  BY <1>1, <1>11 DEF DelayEnds, handlers, database
<1>12. ASSUME NEW c \in Call, Authenticate(c) PROVE LinesInv'
  BY <1>1, <1>12 DEF Authenticate, database
<1>13. CASE UNCHANGED vars
  BY <1>1, <1>13 DEF vars, handlers, database
<1> QED
  BY <1>2, <1>3, <1>4, <1>5, <1>6, <1>7, <1>8, <1>9, <1>10, <1>11, <1>12, <1>13
     DEF Next, Report, Flush, Handle

(* No console line is stored twice, although calls fail on the client after the
   dashboard has saved them (FlushLogsAsync). *)
THEOREM NoLineTwice == Spec => []LinesOnce
<1>1. Init => TypeOK /\ EditInv /\ LinesInv
  BY TypeInit, EditInit, LinesInit
<1>2. TypeOK /\ EditInv /\ LinesInv /\ [Next]_vars => (TypeOK /\ EditInv /\ LinesInv)'
  BY TypeStep, EditStep, LinesStep
<1>3. LinesInv => LinesOnce
  BY DEF LinesInv, ShownLines, Distinct, LinesOnce
<1> QED
  BY <1>1, <1>2, <1>3, PTL DEF Spec

--------------------------------------------------------------------------------
(* The order of the records of a run *)

RunCall == {c \in Call : c[1] = "runs"}

(* The states of r that the channel holds, and those that call c holds. *)
Queued(r)  == {s \in State : [about |-> r, news |-> s] \in ToSet(queue["runs"])}
Held(c, r) == {s \in State : \/ [about |-> r, news |-> s] \in ToSet(batch[c])
                             \/ edit[c][r].state = s}

Before(S, T) == \A s \in S, t \in T : Rank(s) < Rank(t)

InOrder(q) ==
    \A i, j \in 1 .. Len(q) :
        i < j /\ q[i].about = q[j].about => Rank(q[i].news) < Rank(q[j].news)

(* The channel holds the records of a run in the order of its states. *)
SaidInOrder ==
    /\ InOrder(queue["runs"])
    /\ \A r \in Run : \A s \in Queued(r) : Rank(s) <= Rank(said[r])

(* What was sent is older than what is still queued, and so is what is stored. *)
CallsBehind ==
    \A r \in Run, c \in RunCall :
        /\ Before(Held(c, r), Queued(r))
        /\ \A s \in Held(c, r) : Rank(s) <= Rank(said[r])

RowsBehind ==
    \A r \in Run :
        /\ Before({rows[r].state}, Queued(r))
        /\ Rank(rows[r].state) <= Rank(said[r])

(* The call that the loop waits for carries the newest records of all calls,
   and newer ones than the database has. *)
CurrentAhead ==
    LET c == current["runs"]
    IN  c # NoCall =>
            /\ c \in RunCall
            /\ \A r \in Run :
                   /\ Before({rows[r].state}, Held(c, r))
                   /\ \A d \in RunCall \ {c} : Before(Held(d, r), Held(c, r))

IdleUnread == \A c \in Call, r \in Run : phase[c] = "idle" => edit[c][r] = Unread

OrderInv == SaidInOrder /\ CallsBehind /\ RowsBehind /\ CurrentAhead /\ IdleUnread

LEMMA RankFacts ==
    /\ \A s \in State \cup {"none", "absent", "unread"} : Rank(s) \in 0 .. 3
    /\ Rank("none") = 0 /\ Rank("absent") = 0
    /\ \A s \in State : Rank(s) > 0
    /\ "absent" \notin State /\ "unread" \notin State
BY DEF Rank, State

LEMMA RowStates ==
    ASSUME TypeOK, NEW r \in Run
    PROVE  /\ rows[r].state \in State \cup {"absent"}
           /\ said[r] \in State \cup {"none"}
BY DEF TypeOK, Row, NoRow

LEMMA InOrderAppend ==
    ASSUME NEW q \in Seq(Record), NEW x \in Record, InOrder(q),
           \A y \in ToSet(q) : y.about = x.about => Rank(y.news) < Rank(x.news)
    PROVE  InOrder(Append(q, x))
<1>1. /\ Len(Append(q, x)) = Len(q) + 1 /\ Len(q) \in Nat
      /\ \A i \in 1 .. Len(q) : Append(q, x)[i] = q[i]
      /\ Append(q, x)[Len(q) + 1] = x
  OBVIOUS
<1>2. \A i \in 1 .. Len(q) : q[i] \in ToSet(q)
  BY DEF ToSet
<1> DEFINE z == Append(q, x)
<1> SUFFICES ASSUME NEW i \in 1 .. Len(q) + 1, NEW j \in 1 .. Len(q) + 1,
                    i < j, z[i].about = z[j].about
             PROVE  Rank(z[i].news) < Rank(z[j].news)
  BY <1>1 DEF InOrder
<1> HIDE DEF z
<1>3. i \in 1 .. Len(q)
  BY <1>1
<1>4. CASE j \in 1 .. Len(q)
  BY <1>1, <1>3, <1>4 DEF InOrder, z
<1>5. CASE j = Len(q) + 1
  BY <1>1, <1>2, <1>3, <1>5 DEF z
<1> QED
  BY <1>1, <1>4, <1>5

LEMMA InOrderSplit ==
    ASSUME NEW q \in Seq(Record), NEW n \in 0 .. Len(q), InOrder(q)
    PROVE  LET a == SubSeq(q, 1, n)
               z == SubSeq(q, n + 1, Len(q))
           IN  /\ InOrder(a) /\ InOrder(z)
               /\ \A x \in ToSet(a), y \in ToSet(z) :
                      x.about = y.about => Rank(x.news) < Rank(y.news)
<1> DEFINE a == SubSeq(q, 1, n)
           z == SubSeq(q, n + 1, Len(q))
<1>1. /\ a \in Seq(Record) /\ Len(a) = n
      /\ \A i \in 1 .. n : a[i] = q[i] /\ i \in 1 .. Len(q)
  OBVIOUS
<1>2. /\ z \in Seq(Record) /\ Len(z) = Len(q) - n
      /\ \A i \in 1 .. Len(q) - n : z[i] = q[n + i] /\ n + i \in 1 .. Len(q)
  OBVIOUS
<1>3. DOMAIN a = 1 .. n /\ DOMAIN z = 1 .. Len(q) - n
  BY <1>1, <1>2
<1> HIDE DEF a, z
<1>4. InOrder(z)
  <2> SUFFICES ASSUME NEW i \in 1 .. Len(q) - n, NEW j \in 1 .. Len(q) - n,
                      i < j, z[i].about = z[j].about
               PROVE  Rank(z[i].news) < Rank(z[j].news)
    BY <1>2 DEF InOrder
  <2>1. n + i < n + j
    OBVIOUS
  <2> QED
    BY <1>2, <2>1 DEF InOrder
<1>5. ASSUME NEW x \in ToSet(a), NEW y \in ToSet(z), x.about = y.about
      PROVE  Rank(x.news) < Rank(y.news)
  <2> PICK i \in 1 .. n : x = a[i]
    BY <1>3 DEF ToSet
  <2> PICK j \in 1 .. Len(q) - n : y = z[j]
    BY <1>3 DEF ToSet
  <2>1. i < n + j
    OBVIOUS
  <2> QED
    BY <1>1, <1>2, <1>5, <2>1 DEF InOrder
<1>6. InOrder(a)
  BY <1>1 DEF InOrder
<1> QED
  BY <1>4, <1>5, <1>6 DEF a, z

(* Records leave the channel and the calls, the loop gives its call up. *)
LEMMA OrderKept ==
    ASSUME TypeOK, OrderInv, UNCHANGED <<said, rows>>,
           queue'["runs"] \in {queue["runs"], <<>>},
           current'["runs"] \in {current["runs"], NoCall},
           \A c \in RunCall, r \in Run : Held(c, r)' \subseteq Held(c, r),
           IdleUnread'
    PROVE  OrderInv'
<1>1. \A r \in Run : Queued(r)' \subseteq Queued(r)
  BY DistinctEmpty DEF Queued
<1>2. SaidInOrder'
  <2>1. InOrder(<<>>)
    BY DEF InOrder
  <2>2. InOrder(queue'["runs"])
    BY <2>1 DEF OrderInv, SaidInOrder
  <2> QED
    BY <1>1, <2>2 DEF OrderInv, SaidInOrder
<1>3. CallsBehind'
  BY <1>1 DEF OrderInv, CallsBehind, Before, RunCall
<1>4. RowsBehind'
  BY <1>1 DEF OrderInv, RowsBehind, Before
<1>5. CurrentAhead'
  BY DEF OrderInv, CurrentAhead, Before, RunCall
<1> QED
  BY <1>2, <1>3, <1>4, <1>5 DEF OrderInv

LEMMA CloseEmpties ==
    ASSUME TypeOK, NEW c \in Call, Close(c)
    PROVE  /\ \A r \in Run : Held(c, r)' = {}
           /\ \A d \in Call \ {c}, r \in Run : Held(d, r)' = Held(d, r)
           /\ IdleUnread => IdleUnread'
<1>1. /\ batch'[c] = <<>> /\ \A r \in Run : edit'[c][r] = Unread
      /\ \A d \in Call \ {c} : /\ batch'[d] = batch[d] /\ edit'[d] = edit[d]
                               /\ phase'[d] = phase[d]
  BY DEF Close, TypeOK
<1>2. \A r \in Run : Held(c, r)' = {}
  BY <1>1, DistinctEmpty, RankFacts DEF Held, Unread
<1>3. \A d \in Call \ {c}, r \in Run : Held(d, r)' = Held(d, r)
  BY <1>1 DEF Held
<1>4. IdleUnread => IdleUnread'
  BY <1>1 DEF IdleUnread
<1> QED
  BY <1>2, <1>3, <1>4

(* A call ends without having changed the database. *)
LEMMA OrderDropped ==
    ASSUME TypeOK, OrderInv, NEW c \in Call, Close(c), UNCHANGED <<said, rows, queue>>,
           current'["runs"] \in {current["runs"], NoCall}
    PROVE  OrderInv'
<1>1. \A d \in RunCall, r \in Run : Held(d, r)' \subseteq Held(d, r)
  BY CloseEmpties DEF RunCall
<1>2. IdleUnread'
  BY CloseEmpties DEF OrderInv
<1> QED
  BY <1>1, <1>2, OrderKept

LEMMA OrderInit == Init => OrderInv
<1> SUFFICES ASSUME Init PROVE OrderInv
  OBVIOUS
<1>1. queue["runs"] = <<>> /\ current["runs"] = NoCall
  BY CallFacts DEF Init
<1>2. \A r \in Run : Queued(r) = {}
  BY <1>1, DistinctEmpty DEF Queued
<1>3. \A c \in RunCall, r \in Run : Held(c, r) = {}
  BY DistinctEmpty, RankFacts DEF Init, Held, Unread, RunCall
<1>4. \A r \in Run : Rank(rows[r].state) = 0 /\ Rank(said[r]) = 0
  BY RankFacts DEF Init, NoRow
<1>5. InOrder(<<>>)
  BY DEF InOrder
<1> QED
  BY <1>1, <1>2, <1>3, <1>4, <1>5
     DEF OrderInv, SaidInOrder, CallsBehind, RowsBehind, CurrentAhead, Before, IdleUnread, Init

LEMMA OrderReport ==
    ASSUME TypeOK, OrderInv, NEW r \in Run, NEW news \in State, ReportRun(r, news)
    PROVE  OrderInv'
<1> DEFINE x == [about |-> r, news |-> news]
           q == queue["runs"]
<1>1. q \in Seq(Record) /\ x \in Record
  BY CallFacts DEF TypeOK, Record
<1>2. /\ UNCHANGED <<current, phase, batch, edit, rows>>
      /\ said' = [said EXCEPT ![r] = news]
      /\ queue'["runs"] = q \/ queue'["runs"] = Append(q, x)
  BY <1>1, CallFacts DEF ReportRun, TryWrite, handlers, database, TypeOK
<1>3. Rank(said[r]) < Rank(news)
  BY <1>2, RankFacts DEF ReportRun
<1>4. \A s \in Run : Rank(said[s]) <= Rank(said'[s]) /\ Rank(said[s]) \in 0 .. 3
                     /\ Rank(said'[s]) \in 0 .. 3
  <2>1. \A s \in Run : /\ said'[s] = IF s = r THEN news ELSE said[s]
                       /\ said[s] \in State \cup {"none"}
    BY <1>2, RowStates DEF TypeOK
  <2> QED
    BY <1>3, <2>1, RankFacts
<1>5. \A s \in Run : Queued(s)' \subseteq Queued(s) \cup (IF s = r THEN {news} ELSE {})
  <2>1. ToSet(queue'["runs"]) \subseteq ToSet(q) \cup {x}
    <3>1. ToSet(Append(q, x)) = ToSet(q) \cup {x}
      BY <1>1, DistinctAppend
    <3> HIDE DEF x, q
    <3> QED
      BY <1>2, <3>1
  <2> QED
    BY <2>1 DEF Queued
<1>6. \A c \in RunCall, s \in Run : Held(c, s)' = Held(c, s)
  BY <1>2 DEF Held
<1>7. \A s \in Run : \A k \in State : Rank(k) \in 0 .. 3
  BY RankFacts
<1>8. said'[r] = news /\ \A s \in Run : Rank(rows[s].state) \in 0 .. 3
  BY <1>2, RowStates, RankFacts DEF TypeOK
<1>9. SaidInOrder'
  <2>1. ASSUME NEW y \in ToSet(q), y.about = r PROVE Rank(y.news) < Rank(news)
    <3>1. y \in Record
      BY <1>1 DEF ToSet
    <3>2. y.news \in State /\ y = [about |-> r, news |-> y.news]
      BY <2>1, <3>1 DEF Record
    <3>3. y.news \in Queued(r)
      BY <2>1, <3>2 DEF Queued
    <3> QED
      BY <1>3, <1>4, <1>7, <3>2, <3>3 DEF OrderInv, SaidInOrder
  <2>2. InOrder(queue'["runs"])
    <3>1. InOrder(Append(q, x))
      BY <1>1, <2>1, InOrderAppend DEF OrderInv, SaidInOrder
    <3> QED
      BY <1>2, <3>1 DEF OrderInv, SaidInOrder
  <2>3. ASSUME NEW s \in Run, NEW k \in Queued(s)' PROVE Rank(k) <= Rank(said'[s])
    <3>1. k \in State
      BY DEF Queued
    <3>2. CASE k \in Queued(s)
      BY <1>4, <1>7, <3>1, <3>2 DEF OrderInv, SaidInOrder
    <3>3. CASE s = r /\ k = news
      BY <1>4, <1>8, <3>3
    <3> QED
      BY <1>5, <3>2, <3>3
  <2> QED
    BY <2>2, <2>3 DEF SaidInOrder
<1>10. ASSUME NEW c \in RunCall, NEW s \in Run, NEW h \in Held(c, s)
       PROVE  Rank(h) <= Rank(said'[s]) /\ \A k \in Queued(s)' : Rank(h) < Rank(k)
  <2>1. h \in State
    BY DEF Held
  <2>2. Rank(h) <= Rank(said[s]) /\ \A k \in Queued(s) : Rank(h) < Rank(k)
    BY DEF OrderInv, CallsBehind, Before
  <2> QED
    BY <1>3, <1>4, <1>5, <1>7, <2>1, <2>2
<1>11. CallsBehind'
  BY <1>6, <1>10 DEF CallsBehind, Before, RunCall
<1>12. RowsBehind'
  BY <1>2, <1>3, <1>4, <1>5, <1>7, <1>8 DEF OrderInv, RowsBehind, Before
<1>13. CurrentAhead'
  BY <1>2, <1>6 DEF OrderInv, CurrentAhead, Before, RunCall
<1>14. IdleUnread'
  BY <1>2 DEF OrderInv, IdleUnread
<1> QED
  BY <1>9, <1>11, <1>12, <1>13, <1>14 DEF OrderInv

LEMMA OrderSend ==
    ASSUME TypeOK, OrderInv, NEW c \in RunCall, Send("runs", c)
    PROVE  OrderInv'
<1> DEFINE q == queue["runs"]
           n == Min({Len(q), Batch})
           a == SubSeq(q, 1, n)
           z == SubSeq(q, n + 1, Len(q))
<1>1. q \in Seq(Record) /\ c \in Call /\ "runs" \in Channel
  BY CallFacts DEF TypeOK, RunCall
<1>2. n \in 0 .. Len(q)
  BY <1>1, MinOfTwo, ReportingAssumption
<1>3. /\ UNCHANGED <<said, rows, edit>>
      /\ queue'["runs"] = z /\ current'["runs"] = c
      /\ batch'[c] = a /\ \A d \in Call \ {c} : batch'[d] = batch[d]
      /\ phase[c] = "idle" /\ phase'[c] = "sent"
      /\ \A d \in Call \ {c} : phase'[d] = phase[d]
  BY <1>1 DEF Send, Open, database, TypeOK
<1> HIDE DEF n
<1>4. /\ a \in Seq(Record) /\ z \in Seq(Record)
      /\ ToSet(a) \subseteq ToSet(q) /\ ToSet(z) \subseteq ToSet(q)
  BY <1>1, <1>2, DistinctSplit
<1>5. /\ InOrder(z)
      /\ \A x \in ToSet(a), y \in ToSet(z) :
             x.about = y.about => Rank(x.news) < Rank(y.news)
  BY <1>1, <1>2, InOrderSplit DEF OrderInv, SaidInOrder
<1> HIDE DEF a, z
<1>6. \A r \in Run : edit[c][r].state = "unread"
  BY <1>1, <1>3 DEF OrderInv, IdleUnread, Unread
<1>7. \A r \in Run : /\ Held(c, r)' = {s \in State : [about |-> r, news |-> s] \in ToSet(a)}
                     /\ Queued(r)' = {s \in State : [about |-> r, news |-> s] \in ToSet(z)}
  BY <1>3, <1>6, RankFacts DEF Held, Queued
<1>8. \A d \in RunCall \ {c}, r \in Run : Held(d, r)' = Held(d, r)
  BY <1>3 DEF Held, RunCall
<1>9. \A r \in Run : /\ Held(c, r)' \subseteq Queued(r)
                     /\ Queued(r)' \subseteq Queued(r)
                     /\ \A s \in Held(c, r)', t \in Queued(r)' : Rank(s) < Rank(t)
  <2> TAKE r \in Run
  <2>1. Held(c, r)' \subseteq Queued(r) /\ Queued(r)' \subseteq Queued(r)
    BY <1>4, <1>7 DEF Queued
  <2>2. ASSUME NEW s \in Held(c, r)', NEW t \in Queued(r)' PROVE Rank(s) < Rank(t)
    <3>1. /\ [about |-> r, news |-> s] \in ToSet(a)
          /\ [about |-> r, news |-> t] \in ToSet(z)
      BY <1>7
    <3> QED
      BY <1>5, <3>1
  <2> QED
    BY <2>1, <2>2
<1>10. SaidInOrder'
  BY <1>3, <1>5, <1>9 DEF OrderInv, SaidInOrder
<1>11. CallsBehind'
  <2>1. ASSUME NEW r \in Run, NEW d \in RunCall
        PROVE  /\ Before(Held(d, r)', Queued(r)')
               /\ \A s \in Held(d, r)' : Rank(s) <= Rank(said[r])
    <3>1. CASE d = c
      BY <1>9, <3>1 DEF OrderInv, SaidInOrder, Before
    <3>2. CASE d # c
      BY <1>8, <1>9, <3>2 DEF OrderInv, CallsBehind, Before
    <3> QED
      BY <3>1, <3>2
  <2> QED
    BY <1>3, <2>1 DEF CallsBehind, Before, RunCall
<1>12. RowsBehind'
  BY <1>3, <1>9 DEF OrderInv, RowsBehind, Before
<1>13. CurrentAhead'
  <2>1. \A r \in Run : Before({rows[r].state}, Held(c, r)')
    BY <1>9 DEF OrderInv, RowsBehind, Before
  <2>2. \A r \in Run, d \in RunCall \ {c} : Before(Held(d, r)', Held(c, r)')
    BY <1>8, <1>9 DEF OrderInv, CallsBehind, Before
  <2> QED
    BY <1>3, <2>1, <2>2 DEF CurrentAhead, Before, RunCall
<1>14. IdleUnread'
  BY <1>1, <1>3 DEF OrderInv, IdleUnread
<1> QED
  BY <1>10, <1>11, <1>12, <1>13, <1>14 DEF OrderInv

(* A handler reads a record: its call holds what it held, or less. *)
LEMMA OrderFind ==
    ASSUME TypeOK, OrderInv, NEW c \in Call, FindAsync(c)
    PROVE  OrderInv'
<1>1. batch[c] \in Seq(Record) /\ batch[c] # <<>> /\ phase[c] = "handling"
  BY CallFacts DEF FindAsync, TypeOK
<1>2. Head(batch[c]) \in Record
  BY <1>1
<1> PICK r \in Run, news \in State : Head(batch[c]) = [about |-> r, news |-> news]
  BY <1>2 DEF Record
<1>3. /\ UNCHANGED <<said, rows, queue, current, phase>>
      /\ batch' = [batch EXCEPT ![c] = Tail(batch[c])]
  BY DEF FindAsync, database, TypeOK
<1>4. PICK row : edit' = [edit EXCEPT ![c][r] = Upserted(row, news)]
  <2>1. Head(batch[c]).about = r /\ Head(batch[c]).news = news
    OBVIOUS
  <2> QED
    BY <2>1, Zenon DEF FindAsync
<1>5. /\ edit'[c][r].state = news
      /\ \A s \in Run \ {r} : edit'[c][s] = edit[c][s]
      /\ \A d \in Call \ {c} : edit'[d] = edit[d]
  <2>1. edit'[c][r] = Upserted(row, news)
    BY <1>4 DEF TypeOK
  <2>2. /\ \A s \in Run \ {r} : edit'[c][s] = edit[c][s]
        /\ \A d \in Call \ {c} : edit'[d] = edit[d]
    BY <1>4 DEF TypeOK
  <2> QED
    BY <2>1, <2>2 DEF Upserted
<1>6. /\ batch'[c] = Tail(batch[c])
      /\ \A d \in Call \ {c} : batch'[d] = batch[d]
  BY <1>3 DEF TypeOK
<1>7. /\ ToSet(Tail(batch[c])) \subseteq ToSet(batch[c])
      /\ Head(batch[c]) \in ToSet(batch[c])
  <2> DEFINE b == batch[c]
             u == Tail(b)
  <2>1. /\ Len(u) = Len(b) - 1 /\ Len(b) \in Nat /\ Len(b) # 0
        /\ DOMAIN u = 1 .. Len(u)
        /\ \A i \in 1 .. Len(b) - 1 : u[i] = b[i + 1]
        /\ b[1] = Head(b) /\ DOMAIN b = 1 .. Len(b)
    BY <1>1
  <2> HIDE DEF b, u
  <2>2. \A i \in 1 .. Len(b) - 1 : i + 1 \in 1 .. Len(b)
    BY <2>1
  <2>3. 1 \in 1 .. Len(b)
    BY <2>1
  <2>4. ToSet(u) \subseteq ToSet(b) /\ Head(b) \in ToSet(b)
    BY <2>1, <2>2, <2>3 DEF ToSet
  <2> QED
    BY <2>4 DEF b, u
<1>8. \A d \in RunCall, s \in Run : Held(d, s)' \subseteq Held(d, s)
  <2> SUFFICES ASSUME NEW d \in RunCall, NEW s \in Run, NEW k \in Held(d, s)'
               PROVE  k \in Held(d, s)
    OBVIOUS
  <2>0. d \in Call /\ k \in State
    BY DEF RunCall, Held
  <2>1. CASE d # c
    BY <1>5, <1>6, <2>0, <2>1 DEF Held
  <2>2. CASE d = c /\ [about |-> s, news |-> k] \in ToSet(Tail(batch[c]))
    BY <1>7, <2>0, <2>2 DEF Held
  <2>3. CASE d = c /\ edit'[c][s].state = k
    <3>1. CASE s = r
      BY <1>5, <1>7, <2>0, <2>3, <3>1 DEF Held
    <3>2. CASE s # r
      BY <1>5, <2>0, <2>3, <3>2 DEF Held
    <3> QED
      BY <3>1, <3>2
  <2> QED
    BY <1>6, <2>1, <2>2, <2>3 DEF Held
<1>9. IdleUnread'
  BY <1>1, <1>3, <1>5 DEF OrderInv, IdleUnread
<1> QED
  BY <1>3, <1>8, <1>9, OrderKept

(* What the database gets is what it has, or what the call holds. *)
LEMMA WrittenState ==
    ASSUME TypeOK, EditInv, NEW c \in RunCall, NEW r \in Run
    PROVE  \/ Written(c, r).state = rows[r].state
           \/ Written(c, r).state \in Held(c, r)
<1>1. c \in Call
  BY DEF RunCall
<1>2. CASE orig[c][r] = Unread
  BY <1>2, RowFacts DEF Written
<1>3. CASE orig[c][r] # Unread
  <2>1. edit[c][r] \in Row
    BY <1>1, <1>3 DEF EditInv
  <2>2. edit[c][r].state \in Held(c, r)
    BY <2>1 DEF Held, Row
  <2>3. Written(c, r).state \in {rows[r].state, edit[c][r].state}
    BY <1>3, Zenon DEF Written
  <2> QED
    BY <2>2, <2>3
<1> QED
  BY <1>2, <1>3

LEMMA OrderSave ==
    ASSUME TypeOK, EditInv, OrderInv, NEW c \in Call, SaveRuns(c)
    PROVE  OrderInv'
<1>1. /\ c \in RunCall /\ UNCHANGED <<said, queue>> /\ Close(c)
      /\ \A r \in Run : rows'[r] = Written(c, r)
  BY DEF SaveRuns, RunCall
<1>2. IF current["runs"] = c THEN current'["runs"] = NoCall ELSE current' = current
  BY <1>1, CallFacts DEF SaveRuns, Answer, Pause, RunCall, TypeOK
<1>3. \A r \in Run : rows'[r].state \in {rows[r].state} \cup Held(c, r)
  BY <1>1, WrittenState
<1>4. /\ \A r \in Run : Held(c, r)' = {} /\ Queued(r)' = Queued(r)
      /\ \A d \in RunCall \ {c}, r \in Run : Held(d, r)' = Held(d, r)
      /\ RunCall' = RunCall
  BY <1>1, CloseEmpties DEF RunCall, Queued
<1>5. SaidInOrder'
  BY <1>1, <1>4 DEF OrderInv, SaidInOrder
<1>6. CallsBehind'
  BY <1>1, <1>4 DEF OrderInv, CallsBehind, Before
<1>7. RowsBehind'
  <2> SUFFICES ASSUME NEW r \in Run
               PROVE  /\ \A t \in Queued(r) : Rank(rows'[r].state) < Rank(t)
                      /\ Rank(rows'[r].state) <= Rank(said[r])
    BY <1>1, <1>4 DEF RowsBehind, Before
  <2> QED
    BY <1>1, <1>3 DEF OrderInv, RowsBehind, CallsBehind, Before
<1>8. CurrentAhead'
  <2>1. CASE current["runs"] = c
    BY <1>2, <2>1 DEF CurrentAhead
  <2>2. CASE current["runs"] # c /\ current["runs"] # NoCall
    <3>0. PICK d \in RunCall : d = current["runs"]
      BY <2>2 DEF OrderInv, CurrentAhead
    <3>1. d \in RunCall \ {c} /\ current'["runs"] = d
      BY <1>2, <2>2, <3>0
    <3>2. \A r \in Run : /\ Before({rows[r].state}, Held(d, r))
                         /\ \A b \in RunCall \ {d} : Before(Held(b, r), Held(d, r))
      BY <2>2, <3>0 DEF OrderInv, CurrentAhead
    <3>3. \A r \in Run : Before({rows'[r].state}, Held(d, r))
      BY <1>1, <1>3, <3>1, <3>2 DEF Before
    <3>4. \A r \in Run : \A b \in RunCall \ {d} : Before(Held(b, r)', Held(d, r))
      BY <1>4, <3>1, <3>2 DEF Before
    <3>5. \A r \in Run : Held(d, r)' = Held(d, r)
      BY <1>4, <3>1
    <3>6. \A r \in Run : /\ Before({rows'[r].state}, Held(d, r)')
                         /\ \A b \in RunCall \ {d} : Before(Held(b, r)', Held(d, r)')
      BY <3>3, <3>4, <3>5
    <3> QED
      BY <1>4, <3>1, <3>6 DEF CurrentAhead, Before
  <2>3. CASE current["runs"] = NoCall /\ current["runs"] # c
    BY <1>2, <2>3 DEF CurrentAhead
  <2> QED
    BY <2>1, <2>2, <2>3
<1>9. IdleUnread'
  BY <1>1, CloseEmpties DEF OrderInv
<1> QED
  BY <1>5, <1>6, <1>7, <1>8, <1>9 DEF OrderInv

LEMMA OrderStep == TypeOK /\ EditInv /\ OrderInv /\ [Next]_vars => OrderInv'
<1> SUFFICES ASSUME TypeOK, EditInv, OrderInv, [Next]_vars PROVE OrderInv'
  OBVIOUS
<1>1. CASE UNCHANGED <<said, rows, queue, current, phase, batch, edit>>
  <2>1. \A c \in RunCall, r \in Run : Held(c, r)' = Held(c, r)
    BY <1>1 DEF Held
  <2>2. IdleUnread'
    BY <1>1 DEF OrderInv, IdleUnread
  <2> QED
    BY <1>1, <2>1, <2>2, OrderKept
<1>2. ASSUME NEW r \in Run, NEW news \in State, ReportRun(r, news) PROVE OrderInv'
  BY <1>2, OrderReport
<1>3. ASSUME ReportLog PROVE OrderInv'
  <2>1. UNCHANGED <<said, rows, current, phase, batch, edit>>
    BY <1>3 DEF ReportLog, handlers, database
  <2>2. queue'["runs"] = queue["runs"]
    BY <1>3, CallFacts DEF ReportLog, TryWrite, TypeOK
  <2>3. \A c \in RunCall, r \in Run : Held(c, r)' = Held(c, r)
    BY <2>1 DEF Held
  <2>4. IdleUnread'
    BY <2>1 DEF OrderInv, IdleUnread
  <2> QED
    BY <2>1, <2>2, <2>3, <2>4, OrderKept
<1>4. ASSUME NEW ch \in Channel, NEW c \in Call, Send(ch, c) PROVE OrderInv'
  <2>1. CASE ch = "runs"
    BY <1>4, <2>1, OrderSend DEF Send, RunCall
  <2>2. CASE ch # "runs"
    <3>1. /\ UNCHANGED <<said, rows, edit>> /\ c \notin RunCall /\ phase[c] = "idle"
          /\ queue'["runs"] = queue["runs"] /\ current'["runs"] = current["runs"]
          /\ \A d \in Call \ {c} : batch'[d] = batch[d]
          /\ \A d \in Call : phase'[d] = "idle" => phase[d] = "idle"
      BY <1>4, <2>2, CallFacts DEF Send, Open, database, RunCall, TypeOK
    <3>2. \A d \in RunCall, r \in Run : Held(d, r)' = Held(d, r)
      BY <3>1 DEF Held, RunCall
    <3>3. IdleUnread'
      BY <3>1 DEF OrderInv, IdleUnread
    <3> QED
      BY <3>1, <3>2, <3>3, OrderKept
  <2> QED
    BY <2>1, <2>2
<1>5. ASSUME NEW ch \in Channel, LoopEnds(ch) PROVE OrderInv'
  <2>1. /\ UNCHANGED <<said, rows, phase, batch, edit>>
        /\ queue'["runs"] \in {queue["runs"], <<>>}
        /\ current'["runs"] \in {current["runs"], NoCall}
    BY <1>5, CallFacts DEF LoopEnds, handlers, database, TypeOK
  <2>2. \A c \in RunCall, r \in Run : Held(c, r)' = Held(c, r)
    BY <2>1 DEF Held
  <2>3. IdleUnread'
    BY <2>1 DEF OrderInv, IdleUnread
  <2> QED
    BY <2>1, <2>2, <2>3, OrderKept
<1>6. ASSUME NEW ch \in Channel, CallFails(ch) PROVE OrderInv'
  <2>1. /\ UNCHANGED <<said, rows, queue>> /\ current[ch] \in Call
        /\ current'["runs"] \in {current["runs"], NoCall}
    BY <1>6, CallFacts DEF CallFails, Pause, database, TypeOK
  <2>2. CASE Close(current[ch])
    BY <2>1, <2>2, OrderDropped
  <2>3. CASE UNCHANGED handlers
    <3>1. \A c \in RunCall, r \in Run : Held(c, r)' = Held(c, r)
      BY <2>3 DEF Held, handlers
    <3>2. IdleUnread'
      BY <2>3 DEF OrderInv, IdleUnread, handlers
    <3> QED
      BY <2>1, <3>1, <3>2, OrderKept
  <2> QED
    BY <1>6, <2>2, <2>3 DEF CallFails
<1>7. ASSUME NEW c \in Call, RejectKey(c) \/ HandlerThrows(c) \/ SaveLogs(c) PROVE OrderInv'
  <2>1. UNCHANGED <<said, rows, queue>> /\ Close(c)
    BY <1>7 DEF RejectKey, HandlerThrows, SaveLogs, database
  <2>2. current'["runs"] \in {current["runs"], NoCall}
    BY <1>7, CallFacts DEF RejectKey, HandlerThrows, SaveLogs, Answer, Pause, TypeOK
  <2> QED
    BY <2>1, <2>2, OrderDropped
<1>8. ASSUME NEW c \in Call, Authenticate(c) PROVE OrderInv'
  <2>1. /\ UNCHANGED <<said, rows, queue, current, batch, edit>>
        /\ \A d \in Call : phase'[d] = "idle" => phase[d] = "idle"
    BY <1>8 DEF Authenticate, database, TypeOK
  <2>2. \A d \in RunCall, r \in Run : Held(d, r)' = Held(d, r)
    BY <2>1 DEF Held
  <2>3. IdleUnread'
    BY <2>1 DEF OrderInv, IdleUnread
  <2> QED
    BY <2>1, <2>2, <2>3, OrderKept
<1>9. ASSUME StopAsync \/ RevokeAsync PROVE OrderInv'
  BY <1>1, <1>9 DEF StopAsync, RevokeAsync, handlers, database
<1>10. ASSUME NEW ch \in Channel, DelayEnds(ch) PROVE OrderInv'
  BY <1>1, <1>10 DEF DelayEnds, handlers, database
<1>11. CASE UNCHANGED vars
  BY <1>1, <1>11 DEF vars, handlers, database
<1> QED
  BY <1>2, <1>3, <1>4, <1>5, <1>6, <1>7, <1>8, <1>9, <1>10, <1>11, OrderFind, OrderSave
     DEF Next, Report, Flush, Handle

(* A row goes back to an earlier state only by a call that the loop has given
   up: FlushRunsAsync awaits each call, so that the call it waits for is newer
   than everything the dashboard still handles, and never sends a batch twice. *)
THEOREM OnlyStragglersRegress == Spec => OnlyAbandonedCallsRegress
<1>1. Init => TypeOK /\ EditInv /\ OrderInv
  BY TypeInit, EditInit, OrderInit
<1>2. TypeOK /\ EditInv /\ OrderInv /\ [Next]_vars => (TypeOK /\ EditInv /\ OrderInv)'
  BY TypeStep, EditStep, OrderStep
<1>3. TypeOK /\ EditInv /\ OrderInv /\ [Next]_vars
          => [\A r \in Run :
                 Rank(rows'[r].state) < Rank(rows[r].state) =>
                     \E c \in Call : /\ Open(c) /\ phase'[c] = "idle"
                                     /\ current[c[1]] # c]_vars
  <2> SUFFICES ASSUME TypeOK, EditInv, OrderInv, Next, NEW r \in Run,
                      Rank(rows'[r].state) < Rank(rows[r].state)
               PROVE  \E c \in Call : Open(c) /\ phase'[c] = "idle" /\ current[c[1]] # c
    OBVIOUS
  <2>1. Rank(rows[r].state) \in 0 .. 3
    BY RowStates, RankFacts
  <2>2. rows'[r] # rows[r]
    BY <2>1
  <2>3. PICK c \in Call : SaveRuns(c)
    BY <2>2 DEF Next, Report, ReportRun, ReportLog, StopAsync, RevokeAsync, Flush, Send,
                DelayEnds, LoopEnds, CallFails, Handle, Authenticate, RejectKey,
                FindAsync, SaveLogs, HandlerThrows, database
  <2>4. c \in RunCall /\ Open(c) /\ phase'[c] = "idle" /\ rows'[r] = Written(c, r)
    BY <2>3 DEF SaveRuns, RunCall, Open, Close, TypeOK
  <2>5. Written(c, r).state \in Held(c, r)
    BY <2>1, <2>4, WrittenState
  <2>6. current["runs"] = c => Rank(rows[r].state) < Rank(Written(c, r).state)
    <3>1. c # NoCall
      BY CallFacts
    <3> QED
      BY <2>5, <3>1 DEF OrderInv, CurrentAhead, Before
  <2>7. Written(c, r).state \in State
    BY <2>5 DEF Held
  <2>8. current["runs"] # c
    BY <2>1, <2>4, <2>6, <2>7, RankFacts
  <2> QED
    BY <2>4, <2>8 DEF RunCall
<1> QED
  BY <1>1, <1>2, <1>3, PTL DEF Spec, OnlyAbandonedCallsRegress

--------------------------------------------------------------------------------
(* The final record of a run *)

(* The dashboard has it, it is lost, or it is in the channel or in the call
   that the loop waits for. *)
Accounted(r) ==
    \/ rows[r].finished
    \/ r \in lost
    \/ "Finished" \in Queued(r)
    \/ current["runs"] # NoCall /\ "Finished" \in Held(current["runs"], r)

(* What a reporter that has not failed owes the dashboard: a run that it was
   told is finished is shown as finished, or its final record is on its way. *)
FinalAccounted == \A r \in Run : said[r] = "Finished" => Accounted(r)

(* Only a loop that sends waits for a call, and for one of its own. *)
CurrentSent ==
    \A ch \in Channel :
        current[ch] # NoCall => loop[ch] = "sending" /\ current[ch][1] = ch

(* The final record of a run is the last one about it in its call. *)
FinalLast ==
    \A c \in RunCall :
        /\ InOrder(batch[c])
        /\ \A r \in Run, s \in State :
               edit[c][r].state = "Finished"
                   => [about |-> r, news |-> s] \notin ToSet(batch[c])

(* An entity in the final state has a FinishedAt, which the row already has
   where the UPDATE leaves the column out. *)
FinalEdit ==
    \A c \in Call, r \in Run :
        /\ edit[c][r].state = "Finished" => edit[c][r].finished /\ orig[c][r] # Unread
        /\ orig[c][r].finished => rows[r].finished

FinalInv == FinalAccounted /\ CurrentSent /\ FinalLast /\ FinalEdit

LEMMA FinalSets ==
    ASSUME TypeOK, NEW r \in Run
    PROVE  /\ r \in Finals(queue["runs"]) <=> "Finished" \in Queued(r)
           /\ \A c \in RunCall : r \in FinalsOf(c) <=> "Finished" \in Held(c, r)
<1>1. \A q \in Seq(Record) :
          r \in Finals(q) <=> [about |-> r, news |-> "Finished"] \in ToSet(q)
  <2> TAKE q \in Seq(Record)
  <2>1. DOMAIN q = 1 .. Len(q)
    OBVIOUS
  <2> QED
    BY <2>1 DEF Finals, ToSet
<1>2. /\ queue["runs"] \in Seq(Record)
      /\ \A c \in RunCall : batch[c] \in Seq(Record)
  BY CallFacts DEF TypeOK, RunCall
<1>3. "Finished" \in State
  BY DEF State
<1> QED
  BY <1>1, <1>2, <1>3 DEF FinalsOf, Queued, Held

LEMMA CurrentSentStep == TypeOK /\ CurrentSent /\ [Next]_vars => CurrentSent'
<1> SUFFICES ASSUME TypeOK, CurrentSent, [Next]_vars PROVE CurrentSent'
  OBVIOUS
<1>1. CASE UNCHANGED <<loop, current>>
  BY <1>1 DEF CurrentSent
<1>2. ASSUME NEW ch \in Channel, Pause(ch) PROVE CurrentSent'
  BY <1>2 DEF CurrentSent, Pause, TypeOK
<1>3. ASSUME NEW ch \in Channel, NEW c \in Call, Send(ch, c) PROVE CurrentSent'
  BY <1>3 DEF CurrentSent, Send, TypeOK
<1>4. ASSUME NEW ch \in Channel, DelayEnds(ch) PROVE CurrentSent'
  BY <1>4 DEF CurrentSent, DelayEnds, TypeOK
<1>5. ASSUME NEW ch \in Channel, LoopEnds(ch) PROVE CurrentSent'
  BY <1>5 DEF CurrentSent, LoopEnds, TypeOK
<1>6. ASSUME NEW ch \in Channel, CallFails(ch) PROVE CurrentSent'
  BY <1>2, <1>6 DEF CallFails
<1>7. ASSUME NEW c \in Call, NEW ok \in BOOLEAN, Answer(c, ok) PROVE CurrentSent'
  BY <1>1, <1>2, <1>7, CallFacts DEF Answer
<1>8. ASSUME NEW c \in Call, Handle(c) PROVE CurrentSent'
  BY <1>1, <1>7, <1>8 DEF Handle, Authenticate, RejectKey, FindAsync, SaveRuns, SaveLogs,
                          HandlerThrows
<1>9. CASE Report \/ StopAsync \/ RevokeAsync \/ UNCHANGED vars
  BY <1>1, <1>9 DEF Report, ReportRun, ReportLog, StopAsync, RevokeAsync, vars
<1> QED
  BY <1>3, <1>4, <1>5, <1>6, <1>8, <1>9 DEF Next, Flush

LEMMA UpsertedFacts ==
    \A row, news : /\ Upserted(row, news).state = news
                   /\ news = "Finished" => Upserted(row, news).finished
<1> TAKE row, news
<1>1. /\ Upserted(row, news).state = news
      /\ Upserted(row, news).finished = (news = "Finished" \/ row.finished)
  BY Zenon DEF Upserted
<1> QED
  BY <1>1, Zenon

(* What FindAsync does to the call and the entities. *)
LEMMA FindFacts ==
    ASSUME TypeOK, NEW c \in Call, FindAsync(c)
    PROVE  \E r \in Run, news \in State, row \in Row \cup {NoRow, Unread} :
               /\ Head(batch[c]) = [about |-> r, news |-> news]
               /\ row = IF orig[c][r] = Unread THEN rows[r] ELSE edit[c][r]
               /\ orig'[c][r] = IF orig[c][r] = Unread THEN row ELSE orig[c][r]
               /\ edit'[c][r] = Upserted(row, news)
               /\ \A d \in Call, s \in Run : d # c \/ s # r =>
                      orig'[d][s] = orig[d][s] /\ edit'[d][s] = edit[d][s]
<1>1. batch[c] \in Seq(Record) /\ batch[c] # <<>>
  BY CallFacts DEF FindAsync, TypeOK
<1>2. Head(batch[c]) \in Record
  BY <1>1
<1> PICK r \in Run, news \in State : Head(batch[c]) = [about |-> r, news |-> news]
  BY <1>2 DEF Record
<1> DEFINE row == IF orig[c][r] = Unread THEN rows[r] ELSE edit[c][r]
<1>3. row \in Row \cup {NoRow, Unread}
  BY DEF TypeOK
<1>4. /\ orig' = [orig EXCEPT ![c][r] = IF orig[c][r] = Unread THEN row ELSE orig[c][r]]
      /\ edit' = [edit EXCEPT ![c][r] = Upserted(row, news)]
  <2>1. Head(batch[c]).about = r /\ Head(batch[c]).news = news
    OBVIOUS
  <2> QED
    BY <2>1, Zenon DEF FindAsync
<1>5. ASSUME NEW d \in Call, NEW s \in Run, d # c \/ s # r
      PROVE  orig'[d][s] = orig[d][s] /\ edit'[d][s] = edit[d][s]
  <2> HIDE DEF row
  <2> QED
    BY <1>4, <1>5 DEF TypeOK
<1>6. /\ edit'[c][r] = Upserted(row, news)
      /\ orig'[c][r] = IF orig[c][r] = Unread THEN row ELSE orig[c][r]
  <2> HIDE DEF row
  <2> QED
    BY <1>4 DEF TypeOK
<1> QED
  BY <1>3, <1>5, <1>6

LEMMA FinalEditStep ==
    TypeOK /\ EditInv /\ FinalEdit /\ [Next]_vars => FinalEdit'
<1> SUFFICES ASSUME TypeOK, EditInv, FinalEdit, [Next]_vars PROVE FinalEdit'
  OBVIOUS
<1>0. \A r \in Run : rows[r].finished => rows'[r].finished
  BY FinishedKept
<1>1. CASE UNCHANGED <<orig, edit>>
  BY <1>0, <1>1 DEF FinalEdit
<1>2. ASSUME NEW c \in Call, Close(c) PROVE FinalEdit'
  <2>1. /\ \A r \in Run : orig'[c][r] = Unread /\ edit'[c][r] = Unread
        /\ \A d \in Call \ {c} : orig'[d] = orig[d] /\ edit'[d] = edit[d]
    BY <1>2 DEF Close, TypeOK
  <2>2. Unread.state # "Finished" /\ ~Unread.finished
    BY DEF Unread
  <2> QED
    BY <1>0, <2>1, <2>2 DEF FinalEdit
<1>3. ASSUME NEW c \in Call, FindAsync(c) PROVE FinalEdit'
  <2> PICK r \in Run, news \in State, row \in Row \cup {NoRow, Unread} :
           /\ Head(batch[c]) = [about |-> r, news |-> news]
           /\ row = IF orig[c][r] = Unread THEN rows[r] ELSE edit[c][r]
           /\ orig'[c][r] = IF orig[c][r] = Unread THEN row ELSE orig[c][r]
           /\ edit'[c][r] = Upserted(row, news)
           /\ \A d \in Call, s \in Run : d # c \/ s # r =>
                  orig'[d][s] = orig[d][s] /\ edit'[d][s] = edit[d][s]
    BY <1>3, FindFacts, Zenon
  <2>1. edit'[c][r].state = "Finished" => edit'[c][r].finished
    BY UpsertedFacts
  <2>2. orig'[c][r] # Unread
    BY RowFacts DEF TypeOK
  <2>3. orig'[c][r].finished => rows[r].finished
    BY DEF FinalEdit
  <2>4. \A d \in Call, s \in Run : d # c \/ s # r =>
            /\ edit'[d][s].state = "Finished" => edit'[d][s].finished /\ orig'[d][s] # Unread
            /\ orig'[d][s].finished => rows[s].finished
    BY DEF FinalEdit
  <2> QED
    BY <1>0, <2>1, <2>2, <2>3, <2>4 DEF FinalEdit
<1>4. ASSUME NEW ch \in Channel, CallFails(ch) PROVE FinalEdit'
  <2>1. current[ch] \in Call
    BY <1>4 DEF CallFails, TypeOK
  <2> QED
    BY <1>1, <1>2, <1>4, <2>1 DEF CallFails, handlers
<1>5. ASSUME NEW c \in Call, SaveRuns(c) \/ SaveLogs(c) \/ RejectKey(c) \/ HandlerThrows(c)
      PROVE  FinalEdit'
  BY <1>2, <1>5 DEF SaveRuns, SaveLogs, RejectKey, HandlerThrows
<1>6. CASE Report \/ StopAsync \/ RevokeAsync \/ UNCHANGED vars
  BY <1>1, <1>6 DEF Report, ReportRun, ReportLog, StopAsync, RevokeAsync, handlers, vars
<1>7. ASSUME NEW ch \in Channel, Flush(ch) PROVE FinalEdit'
  BY <1>1, <1>7 DEF Flush, Send, DelayEnds, LoopEnds, handlers
<1>8. ASSUME NEW c \in Call, Authenticate(c) PROVE FinalEdit'
  BY <1>1, <1>8 DEF Authenticate
<1> QED
  BY <1>3, <1>4, <1>5, <1>6, <1>7, <1>8 DEF Next, Handle

(* The records of the call: the one that is read, and the ones behind it. *)
LEMMA FindBatch ==
    ASSUME TypeOK, FinalLast, NEW c \in Call, FindAsync(c)
    PROVE  /\ c \in RunCall /\ UNCHANGED <<said, rows, queue, loop, current, lost>>
           /\ \A d \in Call \ {c} : batch'[d] = batch[d]
           /\ ToSet(batch[c]) = {Head(batch[c])} \cup ToSet(batch'[c])
           /\ InOrder(batch'[c])
           /\ \A x \in ToSet(batch'[c]) :
                  x.about = Head(batch[c]).about => Rank(Head(batch[c]).news) < Rank(x.news)
<1> DEFINE b == batch[c]
           u == Tail(b)
<1>1. /\ b \in Seq(Record) /\ b # <<>> /\ c \in RunCall
      /\ batch' = [batch EXCEPT ![c] = u]
  BY CallFacts DEF FindAsync, TypeOK, RunCall
<1>2. UNCHANGED <<said, rows, queue, loop, current, lost>>
  BY DEF FindAsync, database
<1>3. batch'[c] = u /\ \A d \in Call \ {c} : batch'[d] = batch[d]
  BY <1>1 DEF TypeOK
<1>4. InOrder(b)
  BY <1>1 DEF FinalLast
<1> HIDE DEF b
<1>5. /\ u \in Seq(Record) /\ Len(u) = Len(b) - 1 /\ Len(b) \in Nat \ {0}
      /\ DOMAIN u = 1 .. Len(u) /\ DOMAIN b = 1 .. Len(b)
      /\ \A i \in 1 .. Len(b) - 1 : u[i] = b[i + 1] /\ i + 1 \in 1 .. Len(b)
      /\ b[1] = Head(b) /\ 1 \in 1 .. Len(b)
  BY <1>1
<1> HIDE DEF u
<1>6. \A i \in 2 .. Len(b) : i - 1 \in 1 .. Len(b) - 1 /\ b[i] = u[i - 1]
  BY <1>5
<1>7. ToSet(b) = {Head(b)} \cup ToSet(u)
  <2>1. ToSet(b) \subseteq {Head(b)} \cup ToSet(u)
    <3> SUFFICES ASSUME NEW i \in 1 .. Len(b) PROVE b[i] \in {Head(b)} \cup ToSet(u)
      BY <1>5 DEF ToSet
    <3>1. CASE i = 1
      BY <1>5, <3>1
    <3>2. CASE i \in 2 .. Len(b)
      BY <1>5, <1>6, <3>2 DEF ToSet
    <3> QED
      BY <1>5, <3>1, <3>2
  <2>2. {Head(b)} \cup ToSet(u) \subseteq ToSet(b)
    BY <1>5 DEF ToSet
  <2> QED
    BY <2>1, <2>2
<1>8. InOrder(u)
  <2> SUFFICES ASSUME NEW i \in 1 .. Len(b) - 1, NEW j \in 1 .. Len(b) - 1,
                      i < j, u[i].about = u[j].about
               PROVE  Rank(u[i].news) < Rank(u[j].news)
    BY <1>5 DEF InOrder
  <2>1. i + 1 < j + 1
    OBVIOUS
  <2> QED
    BY <1>4, <1>5, <2>1 DEF InOrder
<1>9. ASSUME NEW x \in ToSet(u), x.about = Head(b).about
      PROVE  Rank(Head(b).news) < Rank(x.news)
  <2> PICK i \in 1 .. Len(b) - 1 : x = u[i]
    BY <1>5 DEF ToSet
  <2>1. 1 < i + 1
    OBVIOUS
  <2> QED
    BY <1>4, <1>5, <1>9, <2>1 DEF InOrder
<1> QED
  BY <1>1, <1>2, <1>3, <1>7, <1>8, <1>9 DEF b

LEMMA FinalRank == \A s \in State : ~(Rank("Finished") < Rank(s))
BY DEF State, Rank

LEMMA FinalLastStep ==
    TypeOK /\ OrderInv /\ FinalLast /\ [Next]_vars => FinalLast'
<1> SUFFICES ASSUME TypeOK, OrderInv, FinalLast, [Next]_vars PROVE FinalLast'
  OBVIOUS
<1>1. CASE UNCHANGED <<batch, edit>>
  BY <1>1 DEF FinalLast, RunCall
<1>2. ASSUME NEW c \in Call, Close(c) PROVE FinalLast'
  <2>1. /\ batch'[c] = <<>>
        /\ \A d \in Call \ {c} : batch'[d] = batch[d] /\ edit'[d] = edit[d]
    BY <1>2 DEF Close, TypeOK
  <2>2. InOrder(<<>>) /\ ToSet(<<>>) = {}
    BY DistinctEmpty DEF InOrder
  <2> QED
    BY <2>1, <2>2 DEF FinalLast, RunCall
<1>3. ASSUME NEW ch \in Channel, NEW c \in Call, Send(ch, c) PROVE FinalLast'
  <2>1. /\ edit' = edit /\ c[1] = ch
        /\ \A d \in Call \ {c} : batch'[d] = batch[d]
    BY <1>3 DEF Send, TypeOK
  <2>2. CASE ch = "runs"
    <3> DEFINE q == queue["runs"]
               n == Min({Len(q), Batch})
    <3>1. q \in Seq(Record) /\ InOrder(q)
      BY CallFacts DEF TypeOK, OrderInv, SaidInOrder
    <3>2. n \in 0 .. Len(q)
      BY <3>1, MinOfTwo, ReportingAssumption
    <3>3. batch'[c] = SubSeq(q, 1, n) /\ phase[c] = "idle"
      BY <1>3, <2>2 DEF Send, Open, TypeOK
    <3> HIDE DEF n, q
    <3>4. InOrder(batch'[c])
      BY <3>1, <3>2, <3>3, InOrderSplit
    <3>5. \A r \in Run : edit[c][r].state # "Finished"
      BY <3>3 DEF OrderInv, IdleUnread, Unread
    <3> QED
      BY <2>1, <3>4, <3>5 DEF FinalLast, RunCall
  <2>3. CASE ch # "runs"
    BY <2>1, <2>3 DEF FinalLast, RunCall
  <2> QED
    BY <2>2, <2>3
<1>4. ASSUME NEW c \in Call, FindAsync(c) PROVE FinalLast'
  <2> PICK r \in Run, news \in State, row \in Row \cup {NoRow, Unread} :
           /\ Head(batch[c]) = [about |-> r, news |-> news]
           /\ row = IF orig[c][r] = Unread THEN rows[r] ELSE edit[c][r]
           /\ orig'[c][r] = IF orig[c][r] = Unread THEN row ELSE orig[c][r]
           /\ edit'[c][r] = Upserted(row, news)
           /\ \A d \in Call, s \in Run : d # c \/ s # r =>
                  orig'[d][s] = orig[d][s] /\ edit'[d][s] = edit[d][s]
    BY <1>4, FindFacts, Zenon
  <2>1. /\ \A d \in Call \ {c} : batch'[d] = batch[d]
        /\ InOrder(batch'[c]) /\ ToSet(batch'[c]) \subseteq ToSet(batch[c])
        /\ \A x \in ToSet(batch'[c]) : x.about = r => Rank(news) < Rank(x.news)
    BY <1>4, FindBatch
  <2>2. ASSUME NEW s \in Run, NEW k \in State, edit'[c][s].state = "Finished"
        PROVE  [about |-> s, news |-> k] \notin ToSet(batch'[c])
    <3>1. CASE s # r
      BY <1>4, <2>1, <2>2, <3>1, FindBatch DEF FinalLast
    <3>2. CASE s = r
      <4>1. news = "Finished"
        BY <2>2, <3>2, UpsertedFacts
      <4> QED
        BY <2>1, <3>2, <4>1, FinalRank
    <3> QED
      BY <3>1, <3>2
  <2> QED
    BY <2>1, <2>2 DEF FinalLast, RunCall
<1>5. ASSUME NEW ch \in Channel, CallFails(ch) PROVE FinalLast'
  <2>1. current[ch] \in Call
    BY <1>5 DEF CallFails, TypeOK
  <2> QED
    BY <1>1, <1>2, <1>5, <2>1 DEF CallFails, handlers
<1>6. ASSUME NEW c \in Call, SaveRuns(c) \/ SaveLogs(c) \/ RejectKey(c) \/ HandlerThrows(c)
      PROVE  FinalLast'
  BY <1>2, <1>6 DEF SaveRuns, SaveLogs, RejectKey, HandlerThrows
<1>7. CASE Report \/ StopAsync \/ RevokeAsync \/ UNCHANGED vars
  BY <1>1, <1>7 DEF Report, ReportRun, ReportLog, StopAsync, RevokeAsync, handlers, vars
<1>8. ASSUME NEW ch \in Channel, DelayEnds(ch) \/ LoopEnds(ch) PROVE FinalLast'
  BY <1>1, <1>8 DEF DelayEnds, LoopEnds, handlers
<1>9. ASSUME NEW c \in Call, Authenticate(c) PROVE FinalLast'
  BY <1>1, <1>9 DEF Authenticate
<1> QED
  BY <1>3, <1>4, <1>5, <1>6, <1>7, <1>8, <1>9 DEF Next, Handle, Flush

(* What SaveChanges writes for a final record has a FinishedAt. *)
LEMMA WrittenFinal ==
    ASSUME TypeOK, EditInv, FinalEdit, NEW c \in Call, NEW r \in Run,
           edit[c][r].state = "Finished"
    PROVE  Written(c, r).finished
<1>1. edit[c][r].finished /\ orig[c][r] # Unread
  BY DEF FinalEdit
<1>2. CASE orig[c][r] = NoRow
  BY <1>1, <1>2 DEF Written
<1>3. CASE orig[c][r] # NoRow
  <2>1. orig[c][r] \in Row
    BY <1>1, <1>3 DEF TypeOK
  <2>2. Written(c, r).finished = IF edit[c][r].finished = orig[c][r].finished
                                 THEN rows[r].finished ELSE edit[c][r].finished
    BY <1>1, <1>3, Zenon DEF Written
  <2>3. orig[c][r].finished => rows[r].finished
    BY DEF FinalEdit
  <2>4. edit[c][r].finished \in BOOLEAN /\ orig[c][r].finished \in BOOLEAN
    BY <1>1, <2>1 DEF EditInv, Row
  <2> QED
    BY <1>1, <2>2, <2>3, <2>4
<1> QED
  BY <1>2, <1>3

(* A call ends without having been saved: what it carried is lost, if the loop
   still waits for it. *)
LEMMA AccountedDropped ==
    ASSUME TypeOK, OrderInv, NEW c \in Call, Close(c), UNCHANGED <<rows, queue>>,
           lost \subseteq lost',
           current["runs"] # c => current'["runs"] = current["runs"],
           current["runs"] = c => FinalsOf(c) \subseteq lost',
           NEW r \in Run, Accounted(r)
    PROVE  Accounted(r)'
<1>1. CASE rows[r].finished \/ r \in lost \/ "Finished" \in Queued(r)
  BY <1>1 DEF Accounted, Queued
<1>2. CASE current["runs"] # NoCall /\ "Finished" \in Held(current["runs"], r)
  <2>1. current["runs"] \in RunCall
    BY <1>2 DEF OrderInv, CurrentAhead
  <2>2. CASE current["runs"] = c
    BY <1>2, <2>1, <2>2, FinalSets DEF Accounted
  <2>3. CASE current["runs"] # c
    <3>1. PICK d \in RunCall \ {c} : d = current["runs"]
      BY <2>1, <2>3
    <3>2. Held(d, r)' = Held(d, r) /\ current'["runs"] = d
      BY <2>3, <3>1, CloseEmpties DEF RunCall
    <3>3. "Finished" \in Held(d, r) /\ d # NoCall
      BY <1>2, <3>1
    <3> QED
      BY <3>2, <3>3 DEF Accounted, Held
  <2> QED
    BY <2>2, <2>3
<1> QED
  BY <1>1, <1>2 DEF Accounted

LEMMA AccountedFind ==
    ASSUME TypeOK, OrderInv, FinalLast, NEW c \in Call, FindAsync(c),
           NEW t \in Run, Accounted(t)
    PROVE  Accounted(t)'
<1>1. PICK r \in Run, news \in State, row \in Row \cup {NoRow, Unread} :
           /\ Head(batch[c]) = [about |-> r, news |-> news]
           /\ row = IF orig[c][r] = Unread THEN rows[r] ELSE edit[c][r]
           /\ orig'[c][r] = IF orig[c][r] = Unread THEN row ELSE orig[c][r]
           /\ edit'[c][r] = Upserted(row, news)
           /\ \A d \in Call, s \in Run : d # c \/ s # r =>
                  orig'[d][s] = orig[d][s] /\ edit'[d][s] = edit[d][s]
  BY FindFacts, Zenon
<1>2. /\ c \in RunCall /\ UNCHANGED <<said, rows, queue, current, lost>>
      /\ \A d \in Call \ {c} : batch'[d] = batch[d]
      /\ ToSet(batch[c]) = {[about |-> r, news |-> news]} \cup ToSet(batch'[c])
  BY <1>1, FindBatch
<1>3. edit'[c][r].state = news /\ "Finished" \in State
  BY <1>1, UpsertedFacts DEF State
<1>4. ASSUME NEW d \in RunCall, "Finished" \in Held(d, t) PROVE "Finished" \in Held(d, t)'
  <2>0. d \in Call
    BY DEF RunCall
  <2>1. CASE d # c
    BY <1>1, <1>2, <1>4, <2>0, <2>1 DEF Held
  <2>2. CASE d = c /\ edit[c][t].state = "Finished"
    <3>1. t # r
      BY <1>2, <2>2 DEF FinalLast
    <3> QED
      BY <1>1, <1>3, <2>0, <2>2, <3>1 DEF Held
  <2>3. CASE d = c /\ [about |-> t, news |-> "Finished"] \in ToSet(batch[c])
    <3>1. CASE [about |-> t, news |-> "Finished"] \in ToSet(batch'[c])
      BY <1>3, <2>3, <3>1 DEF Held
    <3>2. CASE [about |-> t, news |-> "Finished"] = [about |-> r, news |-> news]
      <4>1. t = r /\ news = "Finished"
        BY <3>2
      <4> QED
        BY <1>3, <2>3, <4>1 DEF Held
    <3> QED
      BY <1>2, <2>3, <3>1, <3>2
  <2> QED
    BY <1>4, <2>1, <2>2, <2>3 DEF Held
<1>5. CASE rows[t].finished \/ t \in lost \/ "Finished" \in Queued(t)
  BY <1>2, <1>5 DEF Accounted, Queued
<1>6. CASE current["runs"] # NoCall /\ "Finished" \in Held(current["runs"], t)
  <2>1. PICK d \in RunCall : d = current["runs"]
    BY <1>6 DEF OrderInv, CurrentAhead
  <2>2. "Finished" \in Held(d, t)' /\ current'["runs"] = d /\ d # NoCall
    BY <1>2, <1>4, <1>6, <2>1
  <2> QED
    BY <2>2 DEF Accounted, Held
<1> QED
  BY <1>5, <1>6 DEF Accounted

LEMMA AccountedSend ==
    ASSUME TypeOK, OrderInv, CurrentSent, NEW ch \in Channel, NEW c \in Call, Send(ch, c),
           NEW r \in Run, Accounted(r)
    PROVE  Accounted(r)'
<1>1. /\ UNCHANGED <<rows, lost, edit>> /\ c[1] = ch /\ loop[ch] = "waiting"
      /\ \A d \in Call \ {c} : batch'[d] = batch[d]
      /\ current' = [current EXCEPT ![ch] = c]
  BY DEF Send, database, TypeOK
<1>2. CASE rows[r].finished \/ r \in lost
  BY <1>1, <1>2 DEF Accounted
<1>3. CASE ch # "runs"
  <2>1. /\ queue'["runs"] = queue["runs"] /\ current'["runs"] = current["runs"]
        /\ c \notin RunCall
    BY <1>1, <1>3, CallFacts DEF Send, TypeOK, RunCall
  <2>2. Queued(r)' = Queued(r)
    BY <2>1 DEF Queued
  <2>3. \A d \in RunCall : Held(d, r)' = Held(d, r)
    BY <1>1, <2>1 DEF Held, RunCall
  <2>4. CASE "Finished" \in Queued(r)
    BY <2>2, <2>4 DEF Accounted
  <2>5. CASE current["runs"] # NoCall /\ "Finished" \in Held(current["runs"], r)
    <3>1. PICK d \in RunCall : d = current["runs"]
      BY <2>5 DEF OrderInv, CurrentAhead
    <3>2. "Finished" \in Held(d, r)' /\ current'["runs"] = d /\ d # NoCall
      BY <2>1, <2>3, <2>5, <3>1
    <3> QED
      BY <3>2 DEF Accounted, Held
  <2> QED
    BY <1>2, <2>4, <2>5 DEF Accounted
<1>4. CASE ch = "runs" /\ "Finished" \in Queued(r)
  <2> DEFINE q == queue["runs"]
             n == Min({Len(q), Batch})
             a == SubSeq(q, 1, n)
             z == SubSeq(q, n + 1, Len(q))
  <2>1. q \in Seq(Record)
    BY CallFacts DEF TypeOK
  <2>2. n \in 0 .. Len(q)
    BY <2>1, MinOfTwo, ReportingAssumption
  <2>3. queue'["runs"] = z /\ batch'[c] = a /\ current'["runs"] = c /\ c # NoCall
    <3>1. /\ queue' = [queue EXCEPT !["runs"] = z]
          /\ batch' = [batch EXCEPT ![c] = a]
      BY <1>4, Zenon DEF Send
    <3> HIDE DEF a, z
    <3> QED
      BY <1>1, <1>4, <3>1, CallFacts DEF TypeOK
  <2> HIDE DEF n
  <2>4. ToSet(q) \subseteq ToSet(a) \cup ToSet(z)
    <3>1. /\ Len(a) = n /\ DOMAIN a = 1 .. n
          /\ \A i \in 1 .. n : a[i] = q[i]
      BY <2>1, <2>2
    <3>2. /\ Len(z) = Len(q) - n /\ DOMAIN z = 1 .. Len(q) - n
          /\ \A i \in 1 .. Len(q) - n : z[i] = q[n + i]
      BY <2>1, <2>2
    <3>3. DOMAIN q = 1 .. Len(q) /\ Len(q) \in Nat
      BY <2>1
    <3> HIDE DEF a, z, q
    <3> SUFFICES ASSUME NEW i \in 1 .. Len(q) PROVE q[i] \in ToSet(a) \cup ToSet(z)
      BY <3>3 DEF ToSet
    <3>4. CASE i <= n
      BY <2>2, <3>1, <3>4 DEF ToSet
    <3>5. CASE i > n
      <4>1. i - n \in 1 .. Len(q) - n /\ q[i] = z[i - n]
        BY <2>2, <3>2, <3>3, <3>5
      <4> QED
        BY <3>2, <4>1 DEF ToSet
    <3> QED
      BY <2>2, <3>3, <3>4, <3>5
  <2> HIDE DEF a, z
  <2>5. "Finished" \in State /\ [about |-> r, news |-> "Finished"] \in ToSet(a) \cup ToSet(z)
    BY <1>4, <2>4 DEF Queued
  <2> QED
    BY <2>3, <2>5 DEF Accounted, Queued, Held
<1>5. CASE ch = "runs" /\ current["runs"] # NoCall
  BY <1>1, <1>5 DEF CurrentSent
<1> QED
  BY <1>2, <1>3, <1>4, <1>5 DEF Accounted

LEMMA AccountedSave ==
    ASSUME TypeOK, EditInv, OrderInv, FinalEdit, NEW c \in Call, SaveRuns(c),
           \A r \in Run : rows[r].finished => rows'[r].finished,
           NEW r \in Run, Accounted(r)
    PROVE  Accounted(r)'
<1>1. /\ c \in RunCall /\ Close(c) /\ UNCHANGED queue /\ batch[c] = <<>>
      /\ rows'[r] = Written(c, r)
  BY DEF SaveRuns, RunCall
<1>2. /\ lost' = lost
      /\ current["runs"] # c => current'["runs"] = current["runs"]
  BY <1>1, CallFacts DEF SaveRuns, Answer, Pause, RunCall
<1>3. CASE rows[r].finished \/ r \in lost \/ "Finished" \in Queued(r)
  BY <1>1, <1>2, <1>3 DEF Accounted, Queued
<1>4. CASE current["runs"] = c /\ "Finished" \in Held(c, r)
  <2>1. edit[c][r].state = "Finished"
    BY <1>1, <1>4, DistinctEmpty DEF Held
  <2> QED
    BY <1>1, <2>1, WrittenFinal DEF Accounted
<1>5. CASE current["runs"] \notin {c, NoCall} /\ "Finished" \in Held(current["runs"], r)
  <2>1. PICK d \in RunCall : d = current["runs"]
    BY <1>5 DEF OrderInv, CurrentAhead
  <2>2. "Finished" \in Held(d, r)' /\ current'["runs"] = d /\ d # NoCall
    BY <1>1, <1>2, <1>5, <2>1, CloseEmpties DEF RunCall
  <2> QED
    BY <2>2 DEF Accounted, Held
<1> QED
  BY <1>3, <1>4, <1>5 DEF Accounted

LEMMA AccountedLoopEnds ==
    ASSUME TypeOK, OrderInv, CurrentSent, NEW ch \in Channel, LoopEnds(ch),
           NEW r \in Run, Accounted(r)
    PROVE  Accounted(r)'
<1>1. /\ UNCHANGED <<rows, batch, edit>> /\ lost \subseteq lost'
      /\ Finals(queue[ch]) \subseteq lost'
      /\ loop[ch] = "sending" => FinalsOf(current[ch]) \subseteq lost'
      /\ ch # "runs" => /\ queue'["runs"] = queue["runs"]
                        /\ current'["runs"] = current["runs"]
  BY CallFacts DEF LoopEnds, handlers, database, TypeOK
<1>2. CASE rows[r].finished \/ r \in lost
  BY <1>1, <1>2 DEF Accounted
<1>3. CASE ch # "runs"
  BY <1>1, <1>3 DEF Accounted, Queued, Held
<1>4. CASE ch = "runs" /\ "Finished" \in Queued(r)
  BY <1>1, <1>4, FinalSets DEF Accounted
<1>5. CASE ch = "runs" /\ current["runs"] # NoCall /\ "Finished" \in Held(current["runs"], r)
  <2>1. current["runs"] \in RunCall /\ loop["runs"] = "sending"
    BY <1>5 DEF OrderInv, CurrentAhead, CurrentSent
  <2> QED
    BY <1>1, <1>5, <2>1, FinalSets DEF Accounted
<1> QED
  BY <1>2, <1>3, <1>4, <1>5 DEF Accounted

LEMMA AccountedStep ==
    TypeOK /\ EditInv /\ OrderInv /\ FinalInv /\ [Next]_vars => FinalAccounted'
<1> SUFFICES ASSUME TypeOK, EditInv, OrderInv, FinalInv, [Next]_vars PROVE FinalAccounted'
  OBVIOUS
<1> USE DEF FinalInv
<1>1. ASSUME said' = said, \A r \in Run : Accounted(r) => Accounted(r)' PROVE FinalAccounted'
  BY <1>1 DEF FinalAccounted
<1>2. CASE UNCHANGED <<said, rows, lost, queue, current, batch, edit>>
  BY <1>1, <1>2 DEF Accounted, Queued, Held
<1>3. ASSUME NEW r \in Run, NEW news \in State, ReportRun(r, news) PROVE FinalAccounted'
  <2> DEFINE x == [about |-> r, news |-> news]
  <2>1. /\ UNCHANGED <<rows, current, batch, edit>> /\ lost \subseteq lost'
        /\ said' = [said EXCEPT ![r] = news]
        /\ \/ Finals(<<x>>) \subseteq lost' /\ queue' = queue
           \/ queue'["runs"] = Append(queue["runs"], x)
    BY <1>3, CallFacts DEF ReportRun, TryWrite, handlers, database, TypeOK
  <2>2. queue["runs"] \in Seq(Record) /\ x \in Record
    BY CallFacts DEF TypeOK, Record
  <2>3. ToSet(Append(queue["runs"], x)) = ToSet(queue["runs"]) \cup {x}
    BY <2>2, DistinctAppend
  <2>4. news = "Finished" => r \in Finals(<<x>>)
    BY DEF Finals
  <2> HIDE DEF x
  <2>5. \A s \in Run : Queued(s) \subseteq Queued(s)'
    BY <2>1, <2>3 DEF Queued
  <2>6. \A s \in Run : Accounted(s) => Accounted(s)'
    BY <2>1, <2>5 DEF Accounted, Held
  <2>7. news = "Finished" => Accounted(r)'
    BY <2>1, <2>3, <2>4 DEF Accounted, Queued, x
  <2> QED
    BY <2>1, <2>6, <2>7 DEF FinalAccounted, TypeOK
<1>4. ASSUME ReportLog PROVE FinalAccounted'
  <2>1. UNCHANGED <<said, rows, current, batch, edit>> /\ lost \subseteq lost'
    BY <1>4 DEF ReportLog, TryWrite, handlers, database
  <2>2. queue'["runs"] = queue["runs"]
    BY <1>4, CallFacts DEF ReportLog, TryWrite, TypeOK
  <2> QED
    BY <1>1, <2>1, <2>2 DEF Accounted, Queued, Held
<1>5. ASSUME NEW ch \in Channel, NEW c \in Call, Send(ch, c) PROVE FinalAccounted'
  BY <1>1, <1>5, AccountedSend DEF Send
<1>6. ASSUME NEW ch \in Channel, LoopEnds(ch) PROVE FinalAccounted'
  BY <1>1, <1>6, AccountedLoopEnds DEF LoopEnds
<1>7. ASSUME NEW ch \in Channel, CallFails(ch) PROVE FinalAccounted'
  <2>1. /\ UNCHANGED <<said, rows, queue>> /\ current[ch] \in Call
        /\ lost \subseteq lost' /\ FinalsOf(current[ch]) \subseteq lost'
        /\ ch # "runs" => current'["runs"] = current["runs"]
        /\ current[ch][1] = ch
    BY <1>7, CallFacts DEF CallFails, Pause, database, TypeOK, CurrentSent
  <2>2. ch = "runs" \/ current["runs"] # current[ch]
    BY <2>1, CallFacts DEF OrderInv, CurrentAhead, RunCall
  <2>3. CASE Close(current[ch])
    BY <1>1, <2>1, <2>2, <2>3, AccountedDropped
  <2>4. CASE UNCHANGED handlers
    <3>1. \A r \in Run : Accounted(r) => Accounted(r)'
      <4> TAKE r \in Run
      <4>1. CASE ch # "runs"
        BY <2>1, <2>4, <4>1 DEF Accounted, Queued, Held, handlers
      <4>2. CASE ch = "runs"
        <5>1. current["runs"] \in RunCall
          BY <2>1, <4>2 DEF RunCall
        <5> QED
          BY <2>1, <2>4, <4>2, <5>1, FinalSets DEF Accounted, Queued, handlers
      <4> QED
        BY <4>1, <4>2
    <3> QED
      BY <1>1, <2>1, <3>1
  <2> QED
    BY <1>7, <2>3, <2>4 DEF CallFails
<1>8. ASSUME NEW c \in Call, RejectKey(c) \/ HandlerThrows(c) PROVE FinalAccounted'
  <2>1. Close(c) /\ UNCHANGED <<said, rows, queue>> /\ Answer(c, FALSE)
    BY <1>8 DEF RejectKey, HandlerThrows, database
  <2>2. current["runs"] = c => c[1] = "runs"
    BY CallFacts DEF OrderInv, CurrentAhead, RunCall
  <2>3. /\ lost \subseteq lost'
        /\ current["runs"] # c => current'["runs"] = current["runs"]
        /\ current["runs"] = c => FinalsOf(c) \subseteq lost'
    BY <2>1, <2>2, CallFacts DEF Answer, Pause, TypeOK
  <2> QED
    BY <1>1, <2>1, <2>3, AccountedDropped
<1>9. ASSUME NEW c \in Call, SaveLogs(c) PROVE FinalAccounted'
  <2>1. Close(c) /\ UNCHANGED <<said, rows, queue>> /\ Answer(c, TRUE) /\ c[1] = "logs"
    BY <1>9 DEF SaveLogs
  <2>2. current["runs"] # c
    BY <2>1, CallFacts DEF OrderInv, CurrentAhead, RunCall
  <2>3. lost' = lost /\ current'["runs"] = current["runs"]
    BY <2>1, <2>2, CallFacts DEF Answer, Pause, TypeOK
  <2> QED
    BY <1>1, <2>1, <2>2, <2>3, AccountedDropped
<1>10. ASSUME NEW c \in Call, FindAsync(c) PROVE FinalAccounted'
  BY <1>1, <1>10, AccountedFind DEF FindAsync
<1>11. ASSUME NEW c \in Call, SaveRuns(c) PROVE FinalAccounted'
  BY <1>1, <1>11, FinishedKept, AccountedSave DEF SaveRuns
<1>12. CASE StopAsync \/ RevokeAsync \/ (\E c \in Call : Authenticate(c))
            \/ (\E ch \in Channel : DelayEnds(ch)) \/ UNCHANGED vars
  BY <1>2, <1>12 DEF StopAsync, RevokeAsync, Authenticate, DelayEnds, handlers, database, vars
<1> QED
  BY <1>3, <1>4, <1>5, <1>6, <1>7, <1>8, <1>9, <1>10, <1>11, <1>12
     DEF Next, Report, Flush, Handle

LEMMA FinalInit == Init => FinalInv
<1> SUFFICES ASSUME Init PROVE FinalInv
  OBVIOUS
<1>1. FinalAccounted
  BY DEF Init, FinalAccounted
<1>2. CurrentSent
  BY DEF Init, CurrentSent
<1>3. FinalLast
  BY DistinctEmpty DEF Init, FinalLast, RunCall, InOrder
<1>4. FinalEdit
  BY DEF Init, FinalEdit, Unread
<1> QED
  BY <1>1, <1>2, <1>3, <1>4 DEF FinalInv

(* The final record of a run is never just forgotten: from the moment it is
   reported it is in the channel, in the call that the loop waits for, in the
   database, or among those that a failed call or the stop has cost.  No answer,
   no overlap of calls and no order of saves drops it silently (FlushRunsAsync,
   SendRuns). *)
THEOREM FinalNotForgotten == Spec => []FinalAccounted
<1>1. Init => TypeOK /\ EditInv /\ OrderInv /\ FinalInv
  BY TypeInit, EditInit, OrderInit, FinalInit
<1>2. TypeOK /\ EditInv /\ OrderInv /\ FinalInv /\ [Next]_vars
          => (TypeOK /\ EditInv /\ OrderInv /\ FinalInv)'
  BY TypeStep, EditStep, OrderStep, AccountedStep, CurrentSentStep, FinalLastStep,
     FinalEditStep DEF FinalInv
<1> QED
  BY <1>1, <1>2, PTL DEF Spec, FinalInv
==============================================================================
