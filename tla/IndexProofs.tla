----------------------------- MODULE IndexProofs -----------------------------
(***************************************************************************)
(* Proofs about the index side of ingestion: the registration of series    *)
(* and the per-day index with its caches.                                  *)
(***************************************************************************)
EXTENDS SeriesRegistry, PerDayIndex, FiniteSetTheorems, SequenceTheorems, TLAPS

----------------------------------------------------------------------------
(* The per-day index.                                                      *)

RowType ==
  [pc : {"publish", "check", "ahead", "write", "store"}, id : MetricIds, hour : Hours, known : BOOLEAN,
   month : Nat, note : BOOLEAN, need : SUBSET (Nat \X MetricIds), ahead : BOOLEAN]

Active(w) == writers[w].pc # "idle"
Entry(w)  == <<Day(writers[w].hour), writers[w].id>>

\* The entries that exist or that a thread is about to write.
Written == perDay \cup UNION {writers[w].need : w \in {x \in Writers : Active(x)}}

\* Those, and the entries that a thread will write unless it finds them written.
Unknown(w) == writers[w].pc \in {"publish", "check"} /\ ~writers[w].known
Solid      == Written \cup {Entry(w) : w \in {x \in Writers : Unknown(x)}}

WritersTyped ==
  /\ writers \in [Writers -> {Idle} \cup RowType]
  /\ \A w \in Writers : writers[w].pc \in {"publish", "check", "store"} => writers[w].need = {}

\* The hour caches are of consecutive hours, the later current.
HoursInOrder ==
  /\ hmCurr.hour = hour \/ hmCurr.hour + 1 = hour
  /\ hmPrev.hour <= hmCurr.hour
  /\ \A hm \in retired : hm.hour < hmCurr.hour

HoursSolid == \A hm \in {hmCurr, hmPrev} \cup retired : \A id \in hm.m : <<Day(hm.hour), id>> \in Solid

\* What is, or will be, noted for the current hour is an entry of its day.
PendingSolid ==
  /\ \A id \in pendingHour : <<Day(hmCurr.hour), id>> \in Solid
  /\ \A w \in Writers : writers[w].pc = "publish" /\ writers[w].note => writers[w].hour = hmCurr.hour

RowsSolid == \A w \in Writers : Active(w) => Entry(w) \in Solid

\* What is registered ahead is an entry of the day after that of the cache; what is pending
\* belongs to the cache only while it is that of today.
NextDaySolid ==
  /\ \A id \in nextDay.m : <<nextDay.date + 1, id>> \in Written
  /\ nextDay.date = Day(hour) =>
       /\ \A id \in pendingNextDay : <<nextDay.date + 1, id>> \in Written
       /\ \A w \in Writers : writers[w].pc = "ahead" /\ writers[w].ahead =>
            <<nextDay.date + 1, writers[w].id>> \in Written

NextDayTyped == nextDay \in [date : Nat, m : SUBSET MetricIds]

PerDayInv ==
  /\ PerDayTypeOK /\ NextDayTyped /\ WritersTyped /\ HoursInOrder
  /\ HoursSolid /\ PendingSolid /\ RowsSolid /\ NextDaySolid

\* Days are numbered in order, and only the first hour of a day starts a new one.
LEMMA Days ==
  /\ \A h \in Nat : Day(h) \in Nat
  /\ \A h, i \in Nat : h <= i => Day(h) <= Day(i)
  /\ \A h \in Nat : ~FirstHour(h + 1) => Day(h + 1) = Day(h)
<1>1. HoursPerDay \in Nat \ {0, 1}
  BY PerDayIndexAssumption
<1>2. \A h \in Nat : h \div HoursPerDay \in Nat
  BY <1>1
<1>3. \A h, i \in Nat : h <= i => h \div HoursPerDay <= i \div HoursPerDay
  BY <1>1
<1>4. ASSUME NEW h \in Nat, (h + 1) % HoursPerDay # 0
      PROVE  (h + 1) \div HoursPerDay = h \div HoursPerDay
  BY <1>1, <1>4
<1> QED BY <1>2, <1>3, <1>4 DEF Day, FirstHour

\* The entries that are in the per-day index, or that a writer at work has yet to create.
LEMMA InWritten ==
  ASSUME NEW x
  PROVE  x \in Written <=> x \in perDay \/ \E w \in Writers : Active(w) /\ x \in writers[w].need
BY DEF Written

\* The entries above, and those of writers that have still to find out what is missing.
LEMMA InSolid ==
  ASSUME NEW x
  PROVE  x \in Solid <=> x \in Written \/ \E w \in Writers : Unknown(w) /\ x = Entry(w)
BY DEF Solid

\* What the caches promise is what the threads owe.
LEMMA SolidIsOwed ==
  ASSUME WritersTyped
  PROVE  Solid \subseteq perDay \cup Owed
<1> SUFFICES ASSUME NEW x \in Solid PROVE x \in perDay \cup Owed
  OBVIOUS
<1>1. CASE x \in Written
  BY <1>1 DEF Written, Owed, Active
<1>2. CASE \E w \in Writers : Unknown(w) /\ x = Entry(w)
  BY <1>2 DEF Owed, Unknown, Entry
<1> QED BY <1>1, <1>2, InSolid

\* A step of thread w takes nothing away from what is promised.
LEMMA WrittenKept ==
  ASSUME WritersTyped, NEW w \in Writers, NEW n, writers' = [writers EXCEPT ![w] = n],
         perDay \subseteq perDay',
         Active(w) => writers[w].need \subseteq perDay' \/ (n.pc # "idle" /\ writers[w].need \subseteq n.need)
  PROVE  Written \subseteq Written'
<1>1. writers'[w] = n /\ \A v \in Writers \ {w} : writers'[v] = writers[v]
  BY DEF WritersTyped
<1> SUFFICES ASSUME NEW x \in Written PROVE x \in Written'
  OBVIOUS
<1>2. CASE x \in perDay
  BY <1>2 DEF Written
<1>3. ASSUME NEW v \in Writers, Active(v), x \in writers[v].need
      PROVE  x \in perDay' \/ \E u \in Writers : writers'[u].pc # "idle" /\ x \in writers'[u].need
  BY <1>1, <1>3 DEF Active
<1>4. x \in perDay' \/ \E u \in Writers : writers'[u].pc # "idle" /\ x \in writers'[u].need
  BY <1>2, <1>3, InWritten
<1> QED BY <1>4 DEF Written, Active

\* A writer that gives up no entry leaves all that is solid solid.
LEMMA SolidKept ==
  ASSUME WritersTyped, NEW w \in Writers, NEW n, writers' = [writers EXCEPT ![w] = n],
         Written \subseteq Written', Unknown(w) => Entry(w) \in Solid'
  PROVE  Solid \subseteq Solid'
<1>1. \A v \in Writers \ {w} : writers'[v] = writers[v]
  BY DEF WritersTyped
<1> SUFFICES ASSUME NEW x \in Solid PROVE x \in Solid'
  OBVIOUS
<1>2. CASE x \in Written
  BY <1>2 DEF Solid
<1>3. ASSUME NEW v \in Writers, Unknown(v), x = Entry(v)
      PROVE  x \in Solid'
  <2>1. CASE v = w
    BY <1>3, <2>1
  <2>2. CASE v # w
    <3>1. Unknown(v)' /\ x = Entry(v)'
      BY <1>1, <1>3, <2>2 DEF Unknown, Entry
    <3> QED BY <3>1 DEF Solid
  <2> QED BY <2>1, <2>2
<1> QED BY <1>2, <1>3, InSolid

\* A step of thread w, which becomes n.
LEMMA WriterMoves ==
  ASSUME PerDayInv, NEW w \in Writers, NEW n \in {Idle} \cup RowType, writers' = [writers EXCEPT ![w] = n],
         UNCHANGED <<hour, hmCurr, hmPrev, nextDay, retired, reopens>>,
         perDay' \subseteq Nat \X MetricIds, pendingHour' \subseteq MetricIds, pendingNextDay' \subseteq MetricIds,
         n.pc \in {"publish", "check", "store"} => n.need = {},
         Written \subseteq Written', Solid \subseteq Solid',
         n.pc # "idle" => <<Day(n.hour), n.id>> \in Solid',
         n.pc = "publish" /\ n.note => n.hour = hmCurr.hour,
         \A id \in pendingHour' \ pendingHour : <<Day(hmCurr.hour), id>> \in Solid',
         nextDay.date = Day(hour) =>
           /\ \A id \in pendingNextDay' \ pendingNextDay : <<nextDay.date + 1, id>> \in Written'
           /\ n.pc = "ahead" /\ n.ahead => <<nextDay.date + 1, n.id>> \in Written'
  PROVE  PerDayInv'
<1>1. /\ writers'[w] = n /\ (\A v \in Writers \ {w} : writers'[v] = writers[v])
      /\ writers' \in [Writers -> {Idle} \cup RowType]
  BY DEF PerDayInv, WritersTyped
<1>2. PerDayTypeOK' /\ NextDayTyped'
  BY DEF PerDayInv, PerDayTypeOK, NextDayTyped
<1>3. WritersTyped'
  BY <1>1 DEF PerDayInv, WritersTyped
<1>4. HoursInOrder'
  BY DEF PerDayInv, HoursInOrder
<1>5. HoursSolid'
  BY DEF PerDayInv, HoursSolid
<1>6. PendingSolid'
  BY <1>1 DEF PerDayInv, PendingSolid
<1>7. RowsSolid'
  <2> SUFFICES ASSUME NEW v \in Writers, Active(v)' PROVE Entry(v)' \in Solid'
    BY DEF RowsSolid
  <2>1. CASE v = w
    BY <1>1, <2>1 DEF Active, Entry
  <2>2. CASE v # w
    <3>1. Active(v) /\ Entry(v)' = Entry(v)
      BY <1>1, <2>2 DEF Active, Entry
    <3> QED BY <3>1 DEF PerDayInv, RowsSolid
  <2> QED BY <2>1, <2>2
<1>8. NextDaySolid'
  <2>1. \A id \in nextDay'.m : <<nextDay'.date + 1, id>> \in Written'
    BY DEF PerDayInv, NextDaySolid
  <2>2. ASSUME nextDay'.date = Day(hour)'
        PROVE  \A id \in pendingNextDay' : <<nextDay'.date + 1, id>> \in Written'
    BY <2>2 DEF PerDayInv, NextDaySolid, Day
  <2>3. ASSUME nextDay'.date = Day(hour)', NEW v \in Writers, writers'[v].pc = "ahead", writers'[v].ahead
        PROVE  <<nextDay'.date + 1, writers'[v].id>> \in Written'
    <3>0. nextDay.date = Day(hour)
      BY <2>3 DEF Day
    <3>1. CASE v = w
      BY <1>1, <2>3, <3>0, <3>1
    <3>2. CASE v # w
      BY <1>1, <2>3, <3>0, <3>2 DEF PerDayInv, NextDaySolid
    <3> QED BY <3>1, <3>2
  <2> QED BY <2>1, <2>2, <2>3 DEF NextDaySolid
<1> QED BY <1>2, <1>3, <1>4, <1>5, <1>6, <1>7, <1>8 DEF PerDayInv

\* The row of a thread that adds one.
LEMMA WriterParts ==
  ASSUME PerDayInv, NEW w \in Writers, Active(w)
  PROVE  /\ writers[w] \in RowType /\ writers[w].id \in MetricIds /\ writers[w].hour \in Nat
         /\ Day(writers[w].hour) \in Nat /\ writers[w].need \subseteq Nat \X MetricIds
         /\ Entry(w) \in Solid
<1>1. writers[w] \in RowType
  BY DEF PerDayInv, WritersTyped, Active, Idle
<1>2. writers[w].hour \in Nat
  BY <1>1, PerDayIndexAssumption DEF RowType, Hours
<1> QED BY <1>1, <1>2, Days DEF RowType, PerDayInv, RowsSolid

\* What the caches and the index hold are identifiers and pairs of dates and identifiers.
LEMMA PerDayTyped ==
  ASSUME PerDayInv
  PROVE  perDay \subseteq Nat \X MetricIds /\ pendingHour \subseteq MetricIds /\ pendingNextDay \subseteq MetricIds
BY DEF PerDayInv, PerDayTypeOK

\* New entries of thread w are promised.
LEMMA OwnNeeded ==
  ASSUME NEW w \in Writers, writers'[w].pc # "idle"
  PROVE  \A x \in writers'[w].need : x \in Written'
BY DEF Written, Active

\* A row is taken up.
LEMMA AddRowStep ==
  ASSUME PerDayInv, NEW w \in Writers, NEW id \in MetricIds, NEW h \in Hours, AddRow(w, id, h)
  PROVE  PerDayInv'
<1> DEFINE n == [pc |-> "publish", id |-> id, hour |-> h, known |-> InHourCaches(id, h),
                 month |-> Month(Day(hmCurr.hour)), note |-> h = hmCurr.hour /\ id \notin hmCurr.m,
                 need |-> {}, ahead |-> FALSE]
<1>1. /\ writers[w].pc = "idle" /\ writers' = [writers EXCEPT ![w] = n]
      /\ perDay' \in {perDay, perDay \cup {<<Day(h), id>>}}
      /\ UNCHANGED <<hour, hmCurr, hmPrev, nextDay, pendingHour, pendingNextDay, retired, reopens>>
  BY DEF AddRow, caches
<1>2. h \in Nat /\ Day(h) \in Nat /\ hmCurr.hour \in Nat /\ Day(hmCurr.hour) \in Nat
  <2>1. h \in Nat /\ hmCurr.hour \in Nat
    BY PerDayIndexAssumption DEF PerDayInv, PerDayTypeOK, HourCache, Hours
  <2> QED BY <2>1, Days
<1>3. Month(Day(hmCurr.hour)) \in Nat
  BY <1>2, PerDayIndexAssumption DEF Month
<1>4. InHourCaches(id, h) \in BOOLEAN
  BY DEF InHourCaches
<1>5. /\ n \in RowType /\ n.pc = "publish" /\ n.need = {} /\ n.hour = h /\ n.id = id
      /\ n.known = InHourCaches(id, h) /\ (n.note => h = hmCurr.hour)
  BY <1>3, <1>4 DEF RowType
<1> HIDE DEF n
<1>6. writers'[w] = n
  BY <1>1 DEF PerDayInv, WritersTyped
<1>7. Written \subseteq Written'
  BY <1>1, WrittenKept DEF PerDayInv, Active
<1>8. Solid \subseteq Solid'
  BY <1>1, <1>7, SolidKept DEF PerDayInv, Unknown
<1>9. <<Day(h), id>> \in Solid'
  <2>1. CASE InHourCaches(id, h)
    <3>1. PICK hm \in {hmCurr, hmPrev} : Day(h) = Day(hm.hour) /\ id \in hm.m
      BY <2>1 DEF InHourCaches
    <3>2. <<Day(hm.hour), id>> \in Solid
      BY <3>1 DEF PerDayInv, HoursSolid
    <3> QED BY <1>8, <3>1, <3>2
  <2>2. CASE ~InHourCaches(id, h)
    <3>1. Unknown(w)' /\ Entry(w)' = <<Day(h), id>>
      BY <1>5, <1>6, <2>2 DEF Unknown, Entry
    <3> QED BY <3>1 DEF Solid
  <2> QED BY <2>1, <2>2
<1>10. perDay' \subseteq Nat \X MetricIds /\ pendingHour' \subseteq MetricIds /\ pendingNextDay' \subseteq MetricIds
  BY <1>1, <1>2, PerDayTyped
<1> QED BY <1>1, <1>5, <1>7, <1>8, <1>9, <1>10, WriterMoves

\* The identifiers noted go to pending_hour_entries.
LEMMA PublishHourStep ==
  ASSUME PerDayInv, NEW w \in Writers, PublishHour(w)
  PROVE  PerDayInv'
<1> DEFINE n == [writers[w] EXCEPT !.pc = "check"]
<1>1. /\ writers[w].pc = "publish" /\ Active(w)
      /\ pendingHour' = IF writers[w].note THEN pendingHour \cup {writers[w].id} ELSE pendingHour
      /\ UNCHANGED <<hour, perDay, hmCurr, hmPrev, nextDay, pendingNextDay, retired, reopens>>
  BY DEF PublishHour, Active
<1>2. writers \in [Writers -> {Idle} \cup RowType] /\ writers[w] \in RowType /\ writers[w].need = {}
  BY <1>1, WriterParts DEF PerDayInv, WritersTyped
<1>3. writers' = [writers EXCEPT ![w] = n]
  BY <1>2 DEF PublishHour
<1>4. /\ n \in RowType /\ n.pc = "check" /\ n.need = {} /\ n.hour = writers[w].hour /\ n.id = writers[w].id
      /\ n.known = writers[w].known
  BY <1>2 DEF RowType
<1> HIDE DEF n
<1>5. writers'[w] = n
  BY <1>2, <1>3
<1>6. Written \subseteq Written'
  BY <1>1, <1>2, <1>3, WrittenKept DEF PerDayInv
<1>7. Unknown(w) => Entry(w) \in Solid'
  <2>1. Unknown(w) => Unknown(w)' /\ Entry(w)' = Entry(w)
    BY <1>4, <1>5 DEF Unknown, Entry
  <2> QED BY <2>1 DEF Solid
<1>8. Solid \subseteq Solid'
  BY <1>3, <1>6, <1>7, SolidKept DEF PerDayInv
<1>9. <<Day(writers[w].hour), writers[w].id>> \in Solid'
  BY <1>1, <1>8, WriterParts DEF Entry
<1>10. \A id \in pendingHour' \ pendingHour : <<Day(hmCurr.hour), id>> \in Solid'
  <2>1. \A id \in pendingHour' \ pendingHour : writers[w].note /\ id = writers[w].id
    BY <1>1
  <2>2. writers[w].note => writers[w].hour = hmCurr.hour
    BY <1>1 DEF PerDayInv, PendingSolid
  <2> QED BY <1>9, <2>1, <2>2
<1>11. perDay' \subseteq Nat \X MetricIds /\ pendingHour' \subseteq MetricIds /\ pendingNextDay' \subseteq MetricIds
  BY <1>1, PerDayTyped, WriterParts
<1> QED BY <1>1, <1>3, <1>4, <1>6, <1>8, <1>9, <1>10, <1>11, WriterMoves

\* A writer asks the caches which entries it may take for created.
LEMMA CheckCachesStep ==
  ASSUME PerDayInv, NEW w \in Writers, NEW prefill \in BOOLEAN, CheckCaches(w, prefill)
  PROVE  PerDayInv'
<1> DEFINE r     == writers[w]
           ahead == prefill /\ MayPrefill(r)
           own   == IF KnownToCaches(r) THEN {} ELSE {<<Day(r.hour), r.id>>}
           need  == own \cup (IF ahead THEN {<<Day(r.hour) + 1, r.id>>} ELSE {})
           n     == [r EXCEPT !.pc = "ahead", !.ahead = ahead, !.need = need]
<1>1. /\ r.pc = "check" /\ Active(w)
      /\ perDay' = IF prefill THEN perDay \cup NextMonth(r) ELSE perDay
      /\ UNCHANGED <<hour, hmCurr, hmPrev, nextDay, pendingHour, pendingNextDay, retired, reopens>>
  BY DEF CheckCaches, Active, caches
<1>2. /\ writers \in [Writers -> {Idle} \cup RowType] /\ r \in RowType /\ r.need = {}
      /\ r.id \in MetricIds /\ Day(r.hour) \in Nat /\ Entry(w) \in Solid
  BY <1>1, WriterParts DEF PerDayInv, WritersTyped
<1>3. writers' = [writers EXCEPT ![w] = n]
  BY <1>2 DEF CheckCaches
<1>4. need \in SUBSET (Nat \X MetricIds) /\ ahead \in BOOLEAN
  BY <1>2 DEF MayPrefill
<1> HIDE DEF need, ahead
<1>5. /\ n \in RowType /\ n.pc = "ahead" /\ n.need = need /\ n.ahead = ahead /\ n.hour = r.hour /\ n.id = r.id
  BY <1>2, <1>4 DEF RowType
<1> HIDE DEF n
<1>6. writers'[w] = n
  BY <1>2, <1>3
<1>7. Day(hour) \in Nat /\ perDay' \subseteq Nat \X MetricIds /\ perDay \subseteq perDay'
  <2>1. hour \in Nat
    BY PerDayIndexAssumption DEF PerDayInv, PerDayTypeOK
  <2>2. NextMonth(r) \subseteq Nat \X MetricIds
    BY <1>2, <2>1, Days DEF NextMonth
  <2> HIDE DEF r
  <2> QED BY <1>1, <2>1, <2>2, Days, PerDayTyped
<1>8. Written \subseteq Written'
  BY <1>2, <1>3, <1>7, <1>5, WrittenKept DEF PerDayInv
<1>9. \A x \in need : x \in Written'
  BY <1>5, <1>6, OwnNeeded
<1>10. Unknown(w) => Entry(w) \in Solid'
  <2> SUFFICES ASSUME Unknown(w) PROVE Entry(w) \in Written'
    BY DEF Solid
  <2>1. CASE ~KnownToCaches(r)
    BY <1>9, <2>1 DEF need, Entry
  <2>2. CASE KnownToCaches(r)
    <3>1. Day(r.hour) = nextDay.date + 1 /\ r.id \in nextDay.m
      BY <2>2 DEF KnownToCaches, Unknown
    <3>2. <<nextDay.date + 1, r.id>> \in Written
      BY <3>1 DEF PerDayInv, NextDaySolid
    <3> QED BY <1>8, <3>1, <3>2 DEF Entry
  <2> QED BY <2>1, <2>2
<1>11. Solid \subseteq Solid'
  BY <1>3, <1>8, <1>10, SolidKept DEF PerDayInv
<1>12. <<Day(n.hour), n.id>> \in Solid'
  BY <1>2, <1>5, <1>11 DEF Entry
<1>13. nextDay.date = Day(hour) => (n.ahead => <<nextDay.date + 1, n.id>> \in Written')
  <2> SUFFICES ASSUME nextDay.date = Day(hour), ahead PROVE <<nextDay.date + 1, r.id>> \in Written'
    BY <1>5
  <2>1. r.hour = hour /\ <<Day(r.hour) + 1, r.id>> \in need
    BY DEF ahead, need, MayPrefill
  <2> QED BY <1>9, <2>1
<1>14. pendingHour' \subseteq MetricIds /\ pendingNextDay' \subseteq MetricIds
  BY <1>1, PerDayTyped
<1> HIDE DEF r
<1> QED BY <1>1, <1>3, <1>5, <1>7, <1>8, <1>11, <1>12, <1>13, <1>14, WriterMoves

\* The identifiers prefilled go to pending_next_day_metric_ids.
LEMMA PublishNextDayStep ==
  ASSUME PerDayInv, NEW w \in Writers, PublishNextDay(w)
  PROVE  PerDayInv'
<1> DEFINE n == [writers[w] EXCEPT !.pc = "write"]
<1>1. /\ writers[w].pc = "ahead" /\ Active(w)
      /\ pendingNextDay' = IF writers[w].ahead THEN pendingNextDay \cup {writers[w].id} ELSE pendingNextDay
      /\ UNCHANGED <<hour, perDay, hmCurr, hmPrev, nextDay, pendingHour, retired, reopens>>
  BY DEF PublishNextDay, Active
<1>2. writers \in [Writers -> {Idle} \cup RowType] /\ writers[w] \in RowType /\ Entry(w) \in Solid
  BY <1>1, WriterParts DEF PerDayInv, WritersTyped
<1>3. writers' = [writers EXCEPT ![w] = n]
  BY <1>2 DEF PublishNextDay
<1>4. n \in RowType /\ n.pc = "write" /\ n.need = writers[w].need /\ n.hour = writers[w].hour /\ n.id = writers[w].id
  BY <1>2 DEF RowType
<1> HIDE DEF n
<1>5. Written \subseteq Written'
  BY <1>1, <1>2, <1>3, <1>4, WrittenKept DEF PerDayInv
<1>6. Solid \subseteq Solid'
  BY <1>1, <1>3, <1>5, SolidKept DEF PerDayInv, Unknown
<1>7. <<Day(n.hour), n.id>> \in Solid'
  BY <1>2, <1>4, <1>6 DEF Entry
<1>8. nextDay.date = Day(hour) => \A id \in pendingNextDay' \ pendingNextDay : <<nextDay.date + 1, id>> \in Written'
  BY <1>1, <1>5 DEF PerDayInv, NextDaySolid
<1>9. perDay' \subseteq Nat \X MetricIds /\ pendingHour' \subseteq MetricIds /\ pendingNextDay' \subseteq MetricIds
  BY <1>1, PerDayTyped, WriterParts
<1> QED BY <1>1, <1>3, <1>4, <1>5, <1>6, <1>7, <1>8, <1>9, WriterMoves

\* A writer creates the entries the caches do not have.
LEMMA CreateStep ==
  ASSUME PerDayInv, NEW w \in Writers, create_per_day_indexes(w)
  PROVE  PerDayInv'
<1> DEFINE n == [writers[w] EXCEPT !.pc = "store", !.need = {}]
<1>1. /\ writers[w].pc = "write" /\ Active(w) /\ perDay' = perDay \cup writers[w].need
      /\ UNCHANGED <<hour, hmCurr, hmPrev, nextDay, pendingHour, pendingNextDay, retired, reopens>>
  BY DEF create_per_day_indexes, Active, caches
<1>2. writers \in [Writers -> {Idle} \cup RowType] /\ writers[w] \in RowType /\ Entry(w) \in Solid
  BY <1>1, WriterParts DEF PerDayInv, WritersTyped
<1>3. writers' = [writers EXCEPT ![w] = n]
  BY <1>2 DEF create_per_day_indexes
<1>4. n \in RowType /\ n.pc = "store" /\ n.need = {} /\ n.hour = writers[w].hour /\ n.id = writers[w].id
  BY <1>2 DEF RowType
<1> HIDE DEF n
<1>5. Written \subseteq Written'
  BY <1>1, <1>3, WrittenKept DEF PerDayInv
<1>6. Solid \subseteq Solid'
  BY <1>1, <1>3, <1>5, SolidKept DEF PerDayInv, Unknown
<1>7. <<Day(n.hour), n.id>> \in Solid'
  BY <1>2, <1>4, <1>6 DEF Entry
<1>8. perDay' \subseteq Nat \X MetricIds /\ pendingHour' \subseteq MetricIds /\ pendingNextDay' \subseteq MetricIds
  BY <1>1, PerDayTyped, WriterParts
<1> QED BY <1>1, <1>3, <1>4, <1>5, <1>6, <1>7, <1>8, WriterMoves

\* The row is stored.
LEMMA StoreRowStep ==
  ASSUME PerDayInv, NEW w \in Writers, StoreRow(w)
  PROVE  PerDayInv'
<1>1. /\ writers[w].pc = "store" /\ Active(w) /\ writers' = [writers EXCEPT ![w] = Idle]
      /\ UNCHANGED <<hour, perDay, hmCurr, hmPrev, nextDay, pendingHour, pendingNextDay, retired, reopens>>
  BY DEF StoreRow, Active, caches
<1>2. writers[w].need = {} /\ Idle.pc = "idle"
  BY <1>1 DEF PerDayInv, WritersTyped, Idle
<1>3. Written \subseteq Written'
  BY <1>1, <1>2, WrittenKept DEF PerDayInv
<1>4. Solid \subseteq Solid'
  BY <1>1, <1>3, SolidKept DEF PerDayInv, Unknown
<1>5. perDay' \subseteq Nat \X MetricIds /\ pendingHour' \subseteq MetricIds /\ pendingNextDay' \subseteq MetricIds
  BY <1>1, PerDayTyped
<1> QED BY <1>1, <1>2, <1>3, <1>4, <1>5, WriterMoves

\* What is promised depends on the threads and on the index only.
LEMMA PromisesSame ==
  ASSUME UNCHANGED <<perDay, writers>>
  PROVE  Written' = Written /\ Solid' = Solid
BY DEF Written, Solid, Active, Unknown, Entry, Day

\* The clock and the hours of the caches.
LEMMA HoursTyped ==
  ASSUME PerDayInv
  PROVE  /\ hour \in 0..MaxHour /\ hour \in Nat /\ hour \in Hours /\ MaxHour \in Nat
         /\ hmCurr \in HourCache /\ hmCurr.hour \in Nat /\ hmCurr.m \subseteq MetricIds
         /\ hmPrev \in HourCache /\ hmPrev.hour \in Nat
         /\ \A hm \in retired : hm \in HourCache /\ hm.hour \in Nat
         /\ nextDay.date \in Nat /\ nextDay.date <= Day(hour) /\ Day(hour) \in Nat
<1>1. /\ hour \in 0..MaxHour /\ hmCurr \in HourCache /\ hmPrev \in HourCache /\ retired \subseteq HourCache
      /\ nextDay.date \in 0..Day(hour) /\ MaxHour \in Nat
  BY PerDayIndexAssumption DEF PerDayInv, PerDayTypeOK
<1>2. \A hm \in HourCache : hm.hour \in Nat /\ hm.m \subseteq MetricIds
  BY <1>1 DEF HourCache, Hours
<1>3. hour \in Nat /\ hour \in Hours /\ Day(hour) \in Nat
  BY <1>1, Days DEF Hours
<1> QED BY <1>1, <1>2, <1>3

\* The current hour's cache grows, or gives way to that of the new hour.
LEMMA CurrHourStep ==
  ASSUME ~Stragglers, PerDayInv, update_curr_hour_metric_ids
  PROVE  PerDayInv'
<1>1. /\ retired = {} /\ pendingHour' = {}
      /\ UNCHANGED <<hour, perDay, hmPrev, nextDay, pendingNextDay, writers, reopens>>
  BY DEF update_curr_hour_metric_ids
<1>2. Written' = Written /\ Solid' = Solid
  BY <1>1, PromisesSame
<1>3. WritersTyped' /\ NextDayTyped' /\ RowsSolid' /\ NextDaySolid'
  BY <1>1, <1>2 DEF PerDayInv, WritersTyped, NextDayTyped, RowsSolid, NextDaySolid, Active, Entry, Day
<1>4. pendingHour \subseteq MetricIds
  BY PerDayTyped
<1>5. CASE hmCurr.hour = hour
  <2> DEFINE c == [hmCurr EXCEPT !.m = @ \cup pendingHour]
  <2>1. hmCurr' = c /\ retired' = retired
    BY <1>5 DEF update_curr_hour_metric_ids
  <2>2. c \in HourCache /\ c.hour = hmCurr.hour /\ c.m = hmCurr.m \cup pendingHour
    BY <1>4, HoursTyped DEF HourCache
  <2> HIDE DEF c
  <2>3. PerDayTypeOK' /\ HoursInOrder'
    BY <1>1, <2>1, <2>2 DEF PerDayInv, PerDayTypeOK, HoursInOrder, Day
  <2>4. \A id \in c.m : <<Day(hmCurr.hour), id>> \in Solid
    BY <2>2 DEF PerDayInv, HoursSolid, PendingSolid
  <2>5. HoursSolid'
    BY <1>1, <1>2, <2>1, <2>2, <2>4 DEF PerDayInv, HoursSolid
  <2>6. PendingSolid'
    BY <1>1, <2>1, <2>2 DEF PerDayInv, PendingSolid
  <2> QED BY <1>3, <2>3, <2>5, <2>6 DEF PerDayInv
<1>6. CASE hmCurr.hour # hour
  <2> DEFINE c == [hour |-> hour, m |-> Carried(hour)]
  <2>1. hmCurr' = c /\ retired' = {hmCurr} /\ \A w \in Writers : writers[w].pc # "publish"
    BY <1>6 DEF update_curr_hour_metric_ids, InTime
  <2>2. c \in HourCache /\ c.hour = hour /\ c.m = Carried(hour)
    BY <1>4, HoursTyped DEF HourCache, Carried
  <2> HIDE DEF c
  <2>3. hmCurr.hour + 1 = hour /\ hmPrev.hour <= hmCurr.hour /\ hmPrev.hour < hour /\ hmCurr.hour < hour
    BY <1>6, HoursTyped DEF PerDayInv, HoursInOrder
  <2>4. PerDayTypeOK' /\ HoursInOrder'
    BY <1>1, <2>1, <2>2, <2>3, HoursTyped DEF PerDayInv, PerDayTypeOK, HoursInOrder, Day
  <2>5. \A id \in Carried(hour) : <<Day(hour), id>> \in Solid
    <3> SUFFICES ASSUME NEW id \in Carried(hour) PROVE <<Day(hour), id>> \in Solid
      OBVIOUS
    <3>1. id \in pendingHour /\ ~FirstHour(hour)
      BY DEF Carried
    <3>2. Day(hour) = Day(hmCurr.hour)
      BY <2>3, <3>1, HoursTyped, Days
    <3> QED BY <3>1, <3>2 DEF PerDayInv, PendingSolid
  <2>6. HoursSolid'
    BY <1>1, <1>2, <2>1, <2>2, <2>5 DEF PerDayInv, HoursSolid
  <2>7. PendingSolid'
    BY <1>1, <2>1 DEF PendingSolid
  <2> QED BY <1>3, <2>4, <2>6, <2>7 DEF PerDayInv
<1> QED BY <1>5, <1>6

\* The current hour's identifiers become the previous hour's.
LEMMA RetireHourStep ==
  ASSUME PerDayInv, RetireHour
  PROVE  PerDayInv'
<1>1. PICK hm \in retired : hmPrev' = hm
  BY DEF RetireHour
<1>2. /\ retired' = {} 
      /\ UNCHANGED <<hour, perDay, hmCurr, nextDay, pendingHour, pendingNextDay, writers, reopens>>
  BY DEF RetireHour
<1>3. Written' = Written /\ Solid' = Solid
  BY <1>2, PromisesSame
<1>4. WritersTyped' /\ NextDayTyped' /\ RowsSolid' /\ NextDaySolid' /\ PendingSolid'
  BY <1>2, <1>3 DEF PerDayInv, WritersTyped, NextDayTyped, RowsSolid, NextDaySolid, PendingSolid, Active, Entry, Day
<1>5. hm \in HourCache /\ hm.hour < hmCurr.hour /\ hm.hour <= hmCurr.hour
  BY HoursTyped DEF PerDayInv, HoursInOrder
<1>6. PerDayTypeOK' /\ HoursInOrder'
  BY <1>1, <1>2, <1>5 DEF PerDayInv, PerDayTypeOK, HoursInOrder, Day
<1>7. HoursSolid'
  BY <1>1, <1>2, <1>3 DEF PerDayInv, HoursSolid
<1> QED BY <1>4, <1>6, <1>7 DEF PerDayInv

\* The identifiers prefilled become the cache of the next day.
LEMMA NextDayStep ==
  ASSUME ~Stragglers, PerDayInv, update_next_day_metric_ids
  PROVE  PerDayInv'
<1> DEFINE d == Day(hour)
<1>1. /\ pendingNextDay' = {}
      /\ UNCHANGED <<hour, perDay, hmCurr, hmPrev, pendingHour, retired, writers, reopens>>
  BY DEF update_next_day_metric_ids
<1>2. Written' = Written /\ Solid' = Solid
  BY <1>1, PromisesSame
<1>3. WritersTyped' /\ RowsSolid' /\ PendingSolid' /\ HoursSolid' /\ HoursInOrder'
  BY <1>1, <1>2 DEF PerDayInv, WritersTyped, RowsSolid, PendingSolid, HoursSolid, HoursInOrder, Active, Entry, Day
<1>4. CASE nextDay' = nextDay
  <2>1. PerDayTypeOK' /\ NextDayTyped'
    BY <1>1, <1>4 DEF PerDayInv, PerDayTypeOK, NextDayTyped, Day
  <2>2. NextDaySolid'
    BY <1>1, <1>2, <1>4 DEF PerDayInv, NextDaySolid, Day
  <2> QED BY <1>3, <2>1, <2>2 DEF PerDayInv
<1>5. CASE nextDay' = [date |-> d, m |-> NextDayIds(d)] /\ (nextDay.date # d => \A w \in Writers : writers[w].pc # "ahead")
  <2>1. d \in Nat /\ NextDayIds(d) \subseteq MetricIds
    BY HoursTyped, PerDayTyped DEF NextDayIds, PerDayInv, NextDayTyped
  <2>2. nextDay'.date = d /\ nextDay'.m = NextDayIds(d)
    BY <1>5
  <2>3. PerDayTypeOK' /\ NextDayTyped'
    BY <1>1, <1>5, <2>1, <2>2 DEF PerDayInv, PerDayTypeOK, NextDayTyped, Day
  <2>4. ASSUME NEW id \in NextDayIds(d) PROVE <<d + 1, id>> \in Written
    <3>1. nextDay.date = d /\ id \in pendingNextDay \cup nextDay.m
      BY <2>4 DEF NextDayIds
    <3> QED BY <3>1 DEF PerDayInv, NextDaySolid
  <2>5. ASSUME NEW w \in Writers, writers[w].pc = "ahead" /\ writers[w].ahead
        PROVE  <<d + 1, writers[w].id>> \in Written
    <3>1. nextDay.date = d
      BY <1>5, <2>5
    <3> QED BY <2>5, <3>1 DEF PerDayInv, NextDaySolid
  <2>6. NextDaySolid'
    BY <1>1, <1>2, <2>2, <2>4, <2>5 DEF NextDaySolid
  <2> QED BY <1>3, <2>3, <2>6 DEF PerDayInv
<1> QED BY <1>4, <1>5 DEF update_next_day_metric_ids, InTime

\* An hour passes.
LEMMA HourPasses ==
  ASSUME PerDayInv, Tick
  PROVE  PerDayInv'
<1>1. /\ hour < MaxHour /\ hmCurr.hour = hour /\ retired = {} /\ hour' = hour + 1
      /\ UNCHANGED <<perDay, hmCurr, hmPrev, nextDay, pendingHour, pendingNextDay, retired, writers, reopens>>
  BY DEF Tick, caches
<1>2. Written' = Written /\ Solid' = Solid
  BY <1>1, PromisesSame
<1>3. WritersTyped' /\ NextDayTyped' /\ RowsSolid' /\ PendingSolid' /\ HoursSolid' /\ HoursInOrder'
  BY <1>1, <1>2, HoursTyped DEF PerDayInv, WritersTyped, NextDayTyped, RowsSolid, PendingSolid, HoursSolid, HoursInOrder,
     Active, Entry, Day
<1>4. /\ hour + 1 \in 0..MaxHour /\ Day(hour) <= Day(hour + 1) /\ Day(hour + 1) \in Nat
      /\ nextDay.date \in 0..Day(hour + 1) /\ hmCurr.hour <= hour + 1
  BY <1>1, HoursTyped, Days
<1>5. PerDayTypeOK'
  BY <1>1, <1>4 DEF PerDayInv, PerDayTypeOK
<1>6. nextDay.date = Day(hour + 1) => nextDay.date = Day(hour)
  BY <1>4, HoursTyped
<1>7. NextDaySolid'
  BY <1>1, <1>2, <1>6 DEF PerDayInv, NextDaySolid
<1> QED BY <1>3, <1>5, <1>7 DEF PerDayInv

\* The storage starts with empty caches, in any hour.
LEMMA ReopenStep ==
  ASSUME PerDayInv, ReopenPerDay
  PROVE  PerDayInv'
<1> DEFINE d == IF FirstHour(hour) THEN Pred(Day(hour)) ELSE Day(hour)
<1>1. /\ hmCurr' = [hour |-> hour, m |-> {}] /\ hmPrev' = [hour |-> Pred(hour), m |-> {}]
      /\ nextDay' = [date |-> d, m |-> {}]
      /\ pendingHour' = {} /\ pendingNextDay' = {} /\ retired' = {}
      /\ UNCHANGED <<hour, perDay, writers>> /\ reopens < MaxReopens /\ reopens' = reopens + 1
      /\ \A w \in Writers : writers[w].pc = "idle"
  BY DEF ReopenPerDay, Fresh
<1>2. /\ hmCurr'.hour = hour /\ hmCurr'.m = {} /\ hmPrev'.hour = Pred(hour) /\ hmPrev'.m = {}
      /\ nextDay'.date = d /\ nextDay'.m = {}
  BY <1>1
<1>3. Pred(hour) \in Hours /\ Pred(hour) <= hour /\ (Pred(hour) < hour \/ hour = 0) /\ d \in 0..Day(hour) /\ d \in Nat
  BY HoursTyped DEF Pred, Hours
<1>4. hmCurr' \in HourCache /\ hmPrev' \in HourCache
  BY <1>1, <1>3, HoursTyped DEF HourCache
<1>5. PerDayTypeOK'
  <2>1. reopens' \in 0..MaxReopens
    BY <1>1, PerDayIndexAssumption DEF PerDayInv, PerDayTypeOK
  <2> HIDE DEF d
  <2> QED BY <1>1, <1>2, <1>3, <1>4, <2>1, HoursTyped DEF PerDayInv, PerDayTypeOK, Day
<1>6. NextDayTyped' /\ HoursInOrder'
  BY <1>1, <1>2, <1>3 DEF NextDayTyped, HoursInOrder
<1>7. WritersTyped' /\ RowsSolid'
  BY <1>1 DEF PerDayInv, WritersTyped, RowsSolid, Active
<1>8. HoursSolid' /\ PendingSolid'
  BY <1>1, <1>2 DEF HoursSolid, PendingSolid
<1>9. NextDaySolid'
  BY <1>1, <1>2 DEF NextDaySolid
<1> QED BY <1>5, <1>6, <1>7, <1>8, <1>9 DEF PerDayInv

\* The invariant holds initially.
LEMMA PerDayStart ==
  ASSUME PerDayInit
  PROVE  PerDayInv
<1>1. /\ hour \in 0..HoursPerDay - 1 /\ perDay = {}
      /\ hmCurr = [hour |-> hour, m |-> {}] /\ hmPrev = [hour |-> Pred(hour), m |-> {}]
      /\ nextDay = [date |-> 0, m |-> {}]
      /\ pendingHour = {} /\ pendingNextDay = {} /\ retired = {}
      /\ writers = [w \in Writers |-> Idle] /\ reopens = 0
  BY DEF PerDayInit
<1>2. /\ hmCurr.hour = hour /\ hmCurr.m = {} /\ hmPrev.hour = Pred(hour) /\ hmPrev.m = {}
      /\ nextDay.date = 0 /\ nextDay.m = {}
  BY <1>1
<1>3. hour \in 0..MaxHour /\ hour \in Nat /\ hour \in Hours /\ Day(hour) \in Nat /\ MaxReopens \in Nat
  BY <1>1, PerDayIndexAssumption, Days DEF Hours
<1>4. Pred(hour) \in Hours /\ Pred(hour) <= hour /\ (Pred(hour) < hour \/ hour = 0)
  BY <1>3, PerDayIndexAssumption DEF Pred, Hours
<1>5. hmCurr \in HourCache /\ hmPrev \in HourCache
  BY <1>1, <1>3, <1>4 DEF HourCache
<1>6. PerDayTypeOK /\ NextDayTyped /\ HoursInOrder
  BY <1>1, <1>2, <1>3, <1>4, <1>5 DEF PerDayTypeOK, NextDayTyped, HoursInOrder
<1>7. WritersTyped /\ RowsSolid
  BY <1>1 DEF WritersTyped, RowsSolid, Active, Idle
<1>8. HoursSolid /\ PendingSolid /\ NextDaySolid
  BY <1>1, <1>2 DEF HoursSolid, PendingSolid, NextDaySolid, Idle
<1> QED BY <1>6, <1>7, <1>8 DEF PerDayInv

\* Every step keeps the invariant.
LEMMA PerDayStep ==
  ASSUME ~Stragglers, PerDayInv, [PerDayNext]_perDayVars
  PROVE  PerDayInv'
<1>1. CASE UNCHANGED perDayVars
  <2>1. UNCHANGED <<hour, perDay, hmCurr, hmPrev, nextDay, pendingHour, pendingNextDay, retired, writers, reopens>>
    BY <1>1 DEF perDayVars, caches
  <2>2. Written' = Written /\ Solid' = Solid
    BY <2>1, PromisesSame
  <2> QED BY <2>1, <2>2 DEF PerDayInv, PerDayTypeOK, NextDayTyped, WritersTyped, HoursInOrder, HoursSolid, PendingSolid,
                            RowsSolid, NextDaySolid, Active, Entry, Day
<1> QED BY <1>1, AddRowStep, PublishHourStep, PublishNextDayStep, CreateStep, StoreRowStep, CheckCachesStep,
           CurrHourStep, RetireHourStep, NextDayStep, HourPasses, ReopenStep DEF PerDayNext

\* Where no thread is so slow that an updater overtakes it, for all numbers of threads and
\* series and all lengths of the day: the hour caches and the next-day cache never promise an
\* entry that neither exists nor is about to be written, over the changes of hour, day and
\* month and restarts, and every row that update_per_date_data lets through is found on its day.
THEOREM PerDayIsSound ==
  ASSUME ~Stragglers
  PROVE  PerDaySpec => []PerDaySound
<1>1. PerDayInit => PerDayInv
  BY PerDayStart
<1>2. PerDayInv /\ [PerDayNext]_perDayVars => PerDayInv'
  BY PerDayStep
<1>3. PerDayInv => PerDaySound
  <2> SUFFICES ASSUME PerDayInv PROVE PerDaySound
    OBVIOUS
  <2>1. Solid \subseteq perDay \cup Owed
    BY SolidIsOwed DEF PerDayInv
  <2>2. RowsFindable
    BY <2>1 DEF RowsFindable, PerDayInv, RowsSolid, Active, Entry
  <2>3. Written \subseteq Solid
    BY DEF Solid
  <2>4. CachesSound
    BY <2>1, <2>3 DEF CachesSound, PerDayInv, HoursSolid, NextDaySolid
  <2> QED BY <2>2, <2>4 DEF PerDaySound, PerDayInv
<1> QED BY <1>1, <1>2, <1>3, PTL DEF PerDaySpec

----------------------------------------------------------------------------
(* The registration of series.                                             *)

AddType ==
  [pc : {"idle", "switch", "row", "lock", "locked", "put", "perday", "store"},
   batch : Seq(Names \X Dates), atStart : [Partitions -> SUBSET Nat], part : Int,
   dmis : SUBSET Nat, cursor : SUBSET (Int \X Nat), prev : {<<>>} \cup (Names \X Nat),
   hit : Nat, rows : Seq(Dates \X Nat)]

DelType ==
  [todo : SUBSET Partitions, names : SUBSET Names, found : BOOLEAN, pc : {"idle", "mark"},
   before : [Partitions -> SUBSET Nat]]

IndexTyped ==
  /\ nameOf \in Seq(Names)
  /\ items \in [Partitions -> SUBSET (Int \X Nat)] /\ searchable \in [Partitions -> SUBSET (Int \X Nat)]
  /\ deleted \in [Partitions -> SUBSET Nat]

CountsTyped == adds \in 0..MaxAdds /\ deletes \in 0..MaxDeletes /\ forgets \in 0..MaxForgets

\* Every entry has an id, a day of its partition and its global entry beside it.
EntrySound(p, x) == x[2] \in Ids /\ (x[1] = -1 \/ PartOf(x[1]) = p) /\ Global(x[2]) \in items[p]

IndexSound ==
  \A p \in Partitions :
    /\ searchable[p] \subseteq items[p] /\ deleted[p] \subseteq Ids
    /\ \A x \in items[p] : EntrySound(p, x)

CacheSound ==
  /\ tsidCache \in [Names -> Nat]
  /\ \A n \in Names : tsidCache[n] # 0 => tsidCache[n] \in Ids /\ nameOf[tsidCache[n]] = n

\* A lock has one owner.
Holds(r)    == r.pc \in {"locked", "put"}
RowName(r)  == Head(r.batch)[1]
LocksHeld ==
  /\ \A n \in Names : n \in locked <=> \E a \in Inserters : Holds(adding[a]) /\ RowName(adding[a]) = n
  /\ \A a, b \in Inserters : Holds(adding[a]) /\ Holds(adding[b]) /\ RowName(adding[a]) = RowName(adding[b]) => a = b

\* What is known of an inserter's record, while the index grows.
RunSound(r) ==
  r.pc \in {"row", "lock", "locked", "put"} =>
    /\ r.batch # <<>> /\ r.part = PartOf(Head(r.batch)[2])
    /\ r.cursor \subseteq items[r.part] /\ r.atStart[r.part] \subseteq r.dmis

HitSound(r) ==
  r.pc = "put" =>
    /\ r.hit \in Ids /\ nameOf[r.hit] = RowName(r) /\ Global(r.hit) \in items[r.part]
    /\ r.hit \notin r.atStart[r.part]

PrevSound(r) == r.prev # <<>> => r.prev[2] \in Ids /\ nameOf[r.prev[2]] = r.prev[1]

RowIndexed(r, x) ==
  /\ x[2] \in Ids /\ Global(x[2]) \in items[PartOf(x[1])]
  /\ r.pc = "store" => x \in items[PartOf(x[1])]

RowsIndexed(r) == \A i \in DOMAIN r.rows : RowIndexed(r, r.rows[i])

AtStartKept(r) ==
  /\ \A p \in Partitions : r.atStart[p] \subseteq deleted[p]
  /\ deletes = 0 => r.dmis = {}

AddSound(r) ==
  r \in AddType /\ RunSound(r) /\ HitSound(r) /\ PrevSound(r) /\ RowsIndexed(r) /\ AtStartKept(r)

AddsSound == adding \in [Inserters -> AddType] /\ \A a \in Inserters : AddSound(adding[a])

DelSound ==
  /\ del \in DelType
  /\ del.pc # "idle" => \A p \in Partitions : del.before[p] \subseteq deleted[p]
  /\ deletes = 0 => del.pc = "idle" /\ \A p \in Partitions : deleted[p] = {}

\* As long as the cache has lost nothing, every id is cached or on its way to the cache.
Cached(id) ==
  \/ tsidCache[nameOf[id]] # 0
  \/ \E a \in Inserters : adding[a].pc = "put" /\ RowName(adding[a]) = nameOf[id]

Registered ==
  forgets = 0 /\ deletes = 0 =>
    /\ \A i, j \in Ids : nameOf[i] = nameOf[j] => i = j
    /\ \A id \in Ids : Cached(id)

RegistryInv ==
  IndexTyped /\ CountsTyped /\ IndexSound /\ CacheSound /\ LocksHeld /\ AddsSound /\ DelSound /\ Registered

\* The index only grows.
Grows ==
  /\ nameOf' \in Seq(Names) /\ Len(nameOf) <= Len(nameOf') /\ \A i \in Ids : nameOf'[i] = nameOf[i]
  /\ \A p \in Partitions : items[p] \subseteq items'[p] /\ deleted[p] \subseteq deleted'[p]
  /\ deletes' = 0 => deletes = 0

\* Identifiers in use stay in use.
LEMMA IdsGrow ==
  ASSUME RegistryInv, Grows
  PROVE  Ids \subseteq Ids'
BY LenProperties DEF RegistryInv, IndexTyped, Grows, Ids

\* Every date has its partition.
LEMMA PartitionOf ==
  ASSUME NEW d \in Dates
  PROVE  PartOf(d) \in Partitions /\ d \in Nat /\ PartOf(d) \in Nat
BY SeriesRegistryAssumption DEF PartOf, Partitions

\* Partitions are numbered.
LEMMA PartitionsAreNat == \A p \in Partitions : p \in Nat
BY PartitionOf DEF Partitions

\* The rows and the head of the batch of a typed record.
LEMMA RecordParts ==
  ASSUME NEW r \in AddType
  PROVE  /\ \A i \in DOMAIN r.rows : r.rows[i][1] \in Dates /\ r.rows[i][2] \in Nat /\ r.rows[i] = <<r.rows[i][1], r.rows[i][2]>>
         /\ r.batch # <<>> => Head(r.batch)[1] \in Names /\ Head(r.batch)[2] \in Dates
         /\ r.prev # <<>> => r.prev[1] \in Names /\ r.prev[2] \in Nat
<1>1. r.rows \in Seq(Dates \X Nat) /\ r.batch \in Seq(Names \X Dates) /\ r.prev \in {<<>>} \cup (Names \X Nat)
  BY DEF AddType
<1>2. \A i \in DOMAIN r.rows : r.rows[i] \in Dates \X Nat
  BY <1>1, LenProperties, ElementOfSeq
<1>3. r.batch # <<>> => Head(r.batch) \in Names \X Dates
  BY <1>1, HeadTailProperties
<1> QED BY <1>1, <1>2, <1>3

\* What is known of a record stays true as the index grows.
LEMMA AddSoundKept ==
  ASSUME RegistryInv, Grows, NEW r, AddSound(r)
  PROVE  AddSound(r)'
<1>1. r \in AddType
  BY DEF AddSound
<1>2. Ids \subseteq Ids'
  BY IdsGrow
<1>3. RunSound(r)'
  <2> SUFFICES ASSUME r.pc \in {"row", "lock", "locked", "put"} PROVE r.cursor \subseteq items'[r.part]
    BY DEF RunSound, AddSound
  <2>1. r.batch # <<>> /\ r.part = PartOf(Head(r.batch)[2]) /\ r.cursor \subseteq items[r.part]
    BY DEF RunSound, AddSound
  <2>2. r.part \in Partitions
    BY <1>1, <2>1, RecordParts, PartitionOf
  <2> QED BY <2>1, <2>2 DEF Grows
<1>4. HitSound(r)'
  <2> SUFFICES ASSUME r.pc = "put"
               PROVE  /\ r.hit \in Ids' /\ nameOf'[r.hit] = RowName(r) /\ Global(r.hit) \in items'[r.part]
                      /\ r.hit \notin r.atStart[r.part]
    BY DEF HitSound, RowName, Global
  <2>1. r.hit \in Ids /\ nameOf[r.hit] = RowName(r) /\ Global(r.hit) \in items[r.part] /\ r.hit \notin r.atStart[r.part]
    BY DEF HitSound, AddSound
  <2>2. r.batch # <<>> /\ r.part = PartOf(Head(r.batch)[2])
    BY DEF RunSound, AddSound
  <2>3. r.part \in Partitions
    BY <1>1, <2>2, RecordParts, PartitionOf
  <2> QED BY <1>2, <2>1, <2>3 DEF Grows
<1>5. PrevSound(r)'
  BY <1>2 DEF PrevSound, AddSound, Grows
<1>6. RowsIndexed(r)'
  <2> SUFFICES ASSUME NEW i \in DOMAIN r.rows PROVE RowIndexed(r, r.rows[i])'
    BY DEF RowsIndexed
  <2>1. PartOf(r.rows[i][1]) \in Partitions
    BY <1>1, RecordParts, PartitionOf
  <2>2. RowIndexed(r, r.rows[i])
    BY DEF AddSound, RowsIndexed
  <2> QED BY <1>2, <2>1, <2>2 DEF RowIndexed, Grows, Global
<1>7. AtStartKept(r)'
  BY DEF AtStartKept, AddSound, Grows
<1> QED BY <1>1, <1>3, <1>4, <1>5, <1>6, <1>7 DEF AddSound

\* Inserter a becomes n.
LEMMA AddsMove ==
  ASSUME RegistryInv, Grows, NEW a \in Inserters, NEW n, adding' = [adding EXCEPT ![a] = n], AddSound(n)'
  PROVE  AddsSound'
<1>1. adding'[a] = n /\ (\A b \in Inserters \ {a} : adding'[b] = adding[b]) /\ DOMAIN adding' = Inserters
  BY DEF RegistryInv, AddsSound
<1>2. ASSUME NEW b \in Inserters PROVE AddSound(adding[b])'
  <2>1. PICK x : x = adding'[b]
    OBVIOUS
  <2>2. AddSound(x)'
    <3>1. CASE b = a
      BY <1>1, <2>1, <3>1
    <3>2. CASE b # a
      <4>1. x = adding[b]
        BY <1>1, <2>1, <3>2
      <4>2. AddSound(x)
        BY <4>1 DEF RegistryInv, AddsSound
      <4> QED BY <4>2, AddSoundKept
    <3> QED BY <3>1, <3>2
  <2> QED BY <2>1, <2>2 DEF AddSound, RunSound, HitSound, PrevSound, RowsIndexed, RowIndexed, AtStartKept, RowName
<1>3. adding' \in [Inserters -> AddType]
  <2>1. \A b \in Inserters : adding'[b] \in AddType
    BY <1>2 DEF AddSound
  <2>2. adding' = [b \in Inserters |-> adding'[b]]
    BY <1>1 DEF RegistryInv, AddsSound
  <2> QED BY <2>1, <2>2
<1> QED BY <1>2, <1>3 DEF AddsSound

\* The index with entries that are sound, or were there.
LEMMA IndexMoves ==
  ASSUME RegistryInv, Grows, items' \in [Partitions -> SUBSET (Int \X Nat)], UNCHANGED <<searchable, deleted>>,
         \A p \in Partitions : \A x \in items'[p] \ items[p] : EntrySound(p, x)'
  PROVE  IndexTyped' /\ IndexSound'
<1>1. Ids \subseteq Ids'
  BY IdsGrow
<1>2. IndexTyped'
  BY DEF RegistryInv, IndexTyped, Grows
<1>3. ASSUME NEW p \in Partitions, NEW x \in items'[p] PROVE EntrySound(p, x)'
  <2>1. CASE x \in items[p]
    <3>1. EntrySound(p, x)
      BY <2>1 DEF RegistryInv, IndexSound
    <3> QED BY <1>1, <3>1 DEF EntrySound, Grows, Global
  <2> QED BY <1>3, <2>1
<1>4. \A p \in Partitions : searchable'[p] \subseteq items'[p] /\ deleted'[p] \subseteq Ids'
  BY <1>1 DEF RegistryInv, IndexSound, Grows
<1> QED BY <1>2, <1>3, <1>4 DEF IndexSound

\* Locks and a step of inserter a that takes and releases none ...
LEMMA LocksSame ==
  ASSUME RegistryInv, NEW a \in Inserters, NEW n, adding' = [adding EXCEPT ![a] = n], locked' = locked,
         Holds(n) <=> Holds(adding[a]), Holds(n) => RowName(n) = RowName(adding[a])
  PROVE  LocksHeld'
<1>1. adding'[a] = n /\ (\A b \in Inserters \ {a} : adding'[b] = adding[b])
  BY DEF RegistryInv, AddsSound
<1>2. \A b \in Inserters : /\ Holds(adding'[b]) <=> Holds(adding[b])
                           /\ Holds(adding'[b]) => RowName(adding'[b]) = RowName(adding[b])
  BY <1>1
<1>3. /\ \A i \in Names : i \in locked' <=> \E b \in Inserters : Holds(adding'[b]) /\ RowName(adding'[b]) = i
      /\ \A b, c \in Inserters : Holds(adding'[b]) /\ Holds(adding'[c]) /\ RowName(adding'[b]) = RowName(adding'[c]) => b = c
  BY <1>2 DEF RegistryInv, LocksHeld
<1> QED BY <1>3 DEF LocksHeld, Holds, RowName

\* ... that takes one ...
LEMMA LockTaken ==
  ASSUME RegistryInv, NEW a \in Inserters, NEW n, adding' = [adding EXCEPT ![a] = n],
         RowName(n) \in Names, RowName(n) \notin locked, locked' = locked \cup {RowName(n)},
         Holds(n), ~Holds(adding[a])
  PROVE  LocksHeld'
<1>1. adding'[a] = n /\ (\A b \in Inserters \ {a} : adding'[b] = adding[b])
  BY DEF RegistryInv, AddsSound
<1>2. \A b \in Inserters \ {a} : Holds(adding[b]) => RowName(adding[b]) # RowName(n)
  BY DEF RegistryInv, LocksHeld
<1>3. ASSUME NEW i \in Names
      PROVE  i \in locked' <=> \E b \in Inserters : Holds(adding'[b]) /\ RowName(adding'[b]) = i
  <2>1. i \in locked <=> \E b \in Inserters : Holds(adding[b]) /\ RowName(adding[b]) = i
    BY DEF RegistryInv, LocksHeld
  <2> QED BY <1>1, <2>1
<1>4. ASSUME NEW b \in Inserters, NEW c \in Inserters, Holds(adding'[b]), Holds(adding'[c]),
             RowName(adding'[b]) = RowName(adding'[c])
      PROVE  b = c
  BY <1>1, <1>2, <1>4 DEF RegistryInv, LocksHeld
<1> QED BY <1>3, <1>4 DEF LocksHeld, Holds, RowName

\* ... and that releases one.
LEMMA LockReleased ==
  ASSUME RegistryInv, NEW a \in Inserters, NEW n, adding' = [adding EXCEPT ![a] = n],
         locked' = locked \ {RowName(adding[a])}, ~Holds(n), Holds(adding[a])
  PROVE  LocksHeld'
<1>1. adding'[a] = n /\ (\A b \in Inserters \ {a} : adding'[b] = adding[b])
  BY DEF RegistryInv, AddsSound
<1>2. \A b \in Inserters \ {a} : Holds(adding[b]) => RowName(adding[b]) # RowName(adding[a])
  BY DEF RegistryInv, LocksHeld
<1>3. ASSUME NEW i \in Names
      PROVE  i \in locked' <=> \E b \in Inserters : Holds(adding'[b]) /\ RowName(adding'[b]) = i
  <2>1. i \in locked <=> \E b \in Inserters : Holds(adding[b]) /\ RowName(adding[b]) = i
    BY DEF RegistryInv, LocksHeld
  <2> QED BY <1>1, <1>2, <2>1
<1>4. ASSUME NEW b \in Inserters, NEW c \in Inserters, Holds(adding'[b]), Holds(adding'[c]),
             RowName(adding'[b]) = RowName(adding'[c])
      PROVE  b = c
  BY <1>1, <1>4 DEF RegistryInv, LocksHeld
<1> QED BY <1>3, <1>4 DEF LocksHeld, Holds, RowName

\* A step of inserter a that registers no id and does not touch the cache.
LEMMA AddMoves ==
  ASSUME RegistryInv, NEW a \in Inserters, NEW n, adding' = [adding EXCEPT ![a] = n], adding[a].pc # "put",
         AddSound(n)', LocksHeld', adds' \in 0..MaxAdds,
         UNCHANGED <<nameOf, searchable, deleted, tsidCache, del, deletes, forgets>>,
         items' \in [Partitions -> SUBSET (Int \X Nat)], \A p \in Partitions : items[p] \subseteq items'[p],
         \A p \in Partitions : \A x \in items'[p] \ items[p] : EntrySound(p, x)'
  PROVE  RegistryInv'
<1>1. Grows
  BY LenProperties DEF Grows, RegistryInv, IndexTyped
<1>2. AddsSound'
  BY <1>1, AddsMove
<1>3. IndexTyped' /\ IndexSound'
  BY <1>1, IndexMoves
<1>4. CountsTyped' /\ DelSound' /\ CacheSound'
  BY DEF RegistryInv, CountsTyped, DelSound, CacheSound, Ids
<1>5. Registered'
  <2>1. \A b \in Inserters : adding[b].pc = "put" => adding'[b] = adding[b]
    BY DEF RegistryInv, AddsSound
  <2>2. \A id \in Ids : Cached(id) => Cached(id)'
    BY <2>1 DEF Cached, RowName
  <2> QED BY <2>2 DEF RegistryInv, Registered, Ids
<1> QED BY <1>2, <1>3, <1>4, <1>5 DEF RegistryInv

\* The record of inserter a.
LEMMA InserterParts ==
  ASSUME RegistryInv, NEW a \in Inserters
  PROVE  /\ adding[a] \in AddType /\ AddSound(adding[a]) /\ adding \in [Inserters -> AddType]
         /\ RowName(adding[a]) = Name(a)
         /\ adding[a].batch # <<>> => Name(a) \in Names /\ Date(a) \in Dates
<1>1. adding[a] \in AddType /\ AddSound(adding[a]) /\ adding \in [Inserters -> AddType]
  BY DEF RegistryInv, AddsSound
<1> QED BY <1>1, RecordParts DEF RowName, Name, Date, Row

\* An inserter that is in a run of rows.
LEMMA RunParts ==
  ASSUME RegistryInv, NEW a \in Inserters, adding[a].pc \in {"row", "lock", "locked", "put"}
  PROVE  /\ adding[a].batch # <<>> /\ Name(a) \in Names /\ Date(a) \in Dates
         /\ adding[a].part = PartOf(Date(a)) /\ adding[a].part \in Partitions
         /\ adding[a].cursor \subseteq items[adding[a].part]
         /\ adding[a].atStart[adding[a].part] \subseteq adding[a].dmis
<1>1. RunSound(adding[a])
  BY InserterParts DEF AddSound
<1>2. /\ adding[a].batch # <<>> /\ adding[a].part = PartOf(Date(a))
      /\ adding[a].cursor \subseteq items[adding[a].part]
      /\ adding[a].atStart[adding[a].part] \subseteq adding[a].dmis
  BY <1>1 DEF RunSound, Date, Row
<1> QED BY <1>2, InserterParts, PartitionOf

\* A step that leaves the index alone adds no entry to it.
LEMMA ItemsSame ==
  ASSUME RegistryInv, items' = items
  PROVE  /\ items' \in [Partitions -> SUBSET (Int \X Nat)] /\ \A p \in Partitions : items[p] \subseteq items'[p]
         /\ \A p \in Partitions : \A x \in items'[p] \ items[p] : EntrySound(p, x)'
BY DEF RegistryInv, IndexTyped

\* A step of inserter a that changes nothing but its record and the locks.
LEMMA RecordMoves ==
  ASSUME RegistryInv, NEW a \in Inserters, NEW n, adding' = [adding EXCEPT ![a] = n], adding[a].pc # "put",
         AddSound(n), LocksHeld', adds' \in 0..MaxAdds,
         UNCHANGED <<nameOf, items, searchable, deleted, tsidCache, del, deletes, forgets>>
  PROVE  RegistryInv'
<1>1. Grows
  BY LenProperties DEF Grows, RegistryInv, IndexTyped
<1>2. AddSound(n)'
  BY <1>1, AddSoundKept
<1>3. /\ items' \in [Partitions -> SUBSET (Int \X Nat)] /\ \A p \in Partitions : items[p] \subseteq items'[p]
      /\ \A p \in Partitions : \A x \in items'[p] \ items[p] : EntrySound(p, x)'
  BY ItemsSame
<1> QED BY <1>2, <1>3, AddMoves

\* The bounds on adds, deletions and cache resets.
LEMMA CountsHold ==
  ASSUME RegistryInv
  PROVE  /\ adds \in 0..MaxAdds /\ (adds < MaxAdds => adds + 1 \in 0..MaxAdds)
         /\ deletes \in 0..MaxDeletes /\ (deletes < MaxDeletes => deletes + 1 \in 0..MaxDeletes)
         /\ forgets \in 0..MaxForgets /\ (forgets < MaxForgets => forgets + 1 \in 0..MaxForgets)
BY SeriesRegistryAssumption DEF RegistryInv, CountsTyped

\* The fields of an inserter at rest.
LEMMA NoAddParts ==
  /\ NoAdd \in AddType /\ NoAdd.pc = "idle" /\ NoAdd.rows = <<>> /\ NoAdd.prev = <<>> /\ NoAdd.dmis = {}
  /\ NoAdd.atStart = [p \in Partitions |-> {}] /\ NoAdd.batch = <<>>
<1>1. <<>> \in Seq(Names \X Dates) /\ <<>> \in Seq(Dates \X Nat)
  BY EmptySeq
<1> QED BY <1>1 DEF NoAdd, AddType

\* A batch arrives.
LEMMA AddBeginsStep ==
  ASSUME RegistryInv, NEW a \in Inserters, NEW b \in Batches, AddBegins(a, b)
  PROVE  RegistryInv'
<1> DEFINE n == [NoAdd EXCEPT !.pc = "switch", !.batch = b, !.atStart = DeletedForGood]
<1>1. /\ adding[a].pc = "idle" /\ adding' = [adding EXCEPT ![a] = n] /\ adds < MaxAdds /\ adds' = adds + 1
      /\ UNCHANGED <<nameOf, items, searchable, deleted, tsidCache, locked, del, deletes, forgets>>
  BY DEF AddBegins, index
<1>2. b \in Seq(Names \X Dates)
  BY SeriesRegistryAssumption
<1>3. DeletedForGood \in [Partitions -> SUBSET Nat] /\ \A p \in Partitions : DeletedForGood[p] \subseteq deleted[p]
  BY DEF DeletedForGood, RegistryInv, IndexTyped, DelSound, DelType
<1>4. /\ n \in AddType /\ n.pc = "switch" /\ n.batch = b /\ n.atStart = DeletedForGood /\ n.rows = <<>>
      /\ n.prev = <<>> /\ n.dmis = {}
  BY <1>2, <1>3, NoAddParts DEF AddType
<1> HIDE DEF n
<1>5. AddSound(n)
  <2>1. RunSound(n) /\ HitSound(n) /\ PrevSound(n) /\ AtStartKept(n)
    BY <1>3, <1>4 DEF RunSound, HitSound, PrevSound, AtStartKept
  <2>2. RowsIndexed(n)
    BY <1>4 DEF RowsIndexed
  <2> QED BY <1>4, <2>1, <2>2 DEF AddSound
<1>6. LocksHeld'
  BY <1>1, <1>4, LocksSame DEF Holds
<1>7. adds' \in 0..MaxAdds
  BY <1>1, CountsHold
<1> QED BY <1>1, <1>5, <1>6, <1>7, RecordMoves

\* The inserter turns to one partition of the batch.
LEMMA PickPartitionStep ==
  ASSUME RegistryInv, NEW a \in Inserters, PickPartition(a)
  PROVE  RegistryInv'
<1> DEFINE p == PartOf(Date(a))
           n == [adding[a] EXCEPT !.pc = "row", !.part = p, !.dmis = deleted[p], !.cursor = searchable[p]]
<1>1. /\ adding[a].pc = "switch" /\ adding[a].batch # <<>>
      /\ UNCHANGED <<nameOf, items, searchable, deleted, tsidCache, locked, del, adds, deletes, forgets>>
  BY DEF PickPartition, index, counts
<1>2. adding[a] \in AddType /\ AddSound(adding[a]) /\ adding \in [Inserters -> AddType] /\ Date(a) \in Dates
  BY <1>1, InserterParts
<1>3. p \in Partitions /\ p \in Int
  BY <1>2, PartitionOf
<1>4. adding' = [adding EXCEPT ![a] = n]
  BY <1>2 DEF PickPartition
<1>5. /\ deleted[p] \in SUBSET Nat /\ searchable[p] \in SUBSET (Int \X Nat) /\ searchable[p] \subseteq items[p]
      /\ deletes = 0 => deleted[p] = {}
  BY <1>3 DEF RegistryInv, IndexTyped, IndexSound, DelSound
<1>0. p = PartOf(Head(adding[a].batch)[2])
  BY DEF Date, Row
<1> HIDE DEF p
<1>6. /\ n \in AddType /\ n.pc = "row" /\ n.part = p /\ n.dmis = deleted[p] /\ n.cursor = searchable[p]
      /\ n.batch = adding[a].batch /\ n.atStart = adding[a].atStart /\ n.rows = adding[a].rows /\ n.prev = adding[a].prev
  BY <1>2, <1>3, <1>5 DEF AddType
<1> HIDE DEF n
<1>7. AddSound(n)
  <2>1. AtStartKept(n) /\ PrevSound(n) /\ HitSound(n)
    BY <1>2, <1>5, <1>6 DEF AddSound, AtStartKept, PrevSound, HitSound
  <2>2. RunSound(n)
    BY <1>0, <1>1, <1>3, <1>5, <1>6, <2>1 DEF RunSound, AtStartKept
  <2>3. RowsIndexed(n)
    BY <1>1, <1>2, <1>6 DEF AddSound, RowsIndexed, RowIndexed
  <2> QED BY <1>6, <2>1, <2>2, <2>3 DEF AddSound
<1>8. LocksHeld'
  BY <1>1, <1>4, <1>6, LocksSame DEF Holds
<1> QED BY <1>1, <1>4, <1>7, <1>8, CountsHold, RecordMoves

\* The record of an inserter whose pc and hit change while it is in a run.
LEMMA PcSound ==
  ASSUME RegistryInv, NEW a \in Inserters, NEW n \in AddType, adding[a].pc \in {"row", "lock", "locked"},
         n.pc \in {"row", "lock", "locked", "put"},
         n.batch = adding[a].batch, n.atStart = adding[a].atStart, n.part = adding[a].part, n.dmis = adding[a].dmis,
         n.cursor = adding[a].cursor, n.prev = adding[a].prev, n.rows = adding[a].rows, HitSound(n)
  PROVE  AddSound(n)
<1>1. AddSound(adding[a])
  BY InserterParts
<1>2. RunSound(n) /\ PrevSound(n) /\ AtStartKept(n)
  BY <1>1 DEF AddSound, RunSound, PrevSound, AtStartKept
<1>3. RowsIndexed(n)
  BY <1>1 DEF AddSound, RowsIndexed, RowIndexed
<1> QED BY <1>2, <1>3 DEF AddSound

\* The cache does not know a name.
LEMMA CacheMissStep ==
  ASSUME RegistryInv, NEW a \in Inserters, CacheMiss(a)
  PROVE  RegistryInv'
<1> DEFINE n == [adding[a] EXCEPT !.pc = "lock"]
<1>1. /\ adding[a].pc = "row"
      /\ UNCHANGED <<nameOf, items, searchable, deleted, tsidCache, locked, del, adds, deletes, forgets>>
  BY DEF CacheMiss, index, counts
<1>2. adding[a] \in AddType /\ adding \in [Inserters -> AddType]
  BY InserterParts
<1>3. adding' = [adding EXCEPT ![a] = n]
  BY <1>2 DEF CacheMiss
<1>4. /\ n \in AddType /\ n.pc = "lock" /\ n.batch = adding[a].batch /\ n.atStart = adding[a].atStart
      /\ n.part = adding[a].part /\ n.dmis = adding[a].dmis /\ n.cursor = adding[a].cursor
      /\ n.prev = adding[a].prev /\ n.rows = adding[a].rows
  BY <1>2 DEF AddType
<1> HIDE DEF n
<1>5. AddSound(n)
  BY <1>1, <1>4, PcSound DEF HitSound
<1>6. LocksHeld'
  BY <1>1, <1>3, <1>4, LocksSame DEF Holds
<1> QED BY <1>1, <1>3, <1>5, <1>6, CountsHold, RecordMoves

\* The inserter locks a name to register it.
LEMMA LockNameStep ==
  ASSUME RegistryInv, NEW a \in Inserters, LockName(a)
  PROVE  RegistryInv'
<1> DEFINE n == [adding[a] EXCEPT !.pc = "locked"]
<1>1. /\ adding[a].pc = "lock" /\ Name(a) \notin locked /\ locked' = locked \cup {Name(a)}
      /\ UNCHANGED <<nameOf, items, searchable, deleted, tsidCache, del, adds, deletes, forgets>>
  BY DEF LockName, index, counts
<1>2. adding[a] \in AddType /\ adding \in [Inserters -> AddType] /\ RowName(adding[a]) = Name(a) /\ Name(a) \in Names
  BY <1>1, InserterParts, RunParts
<1>3. adding' = [adding EXCEPT ![a] = n]
  BY <1>2 DEF LockName
<1>4. /\ n \in AddType /\ n.pc = "locked" /\ n.batch = adding[a].batch /\ n.atStart = adding[a].atStart
      /\ n.part = adding[a].part /\ n.dmis = adding[a].dmis /\ n.cursor = adding[a].cursor
      /\ n.prev = adding[a].prev /\ n.rows = adding[a].rows
  BY <1>2 DEF AddType
<1> HIDE DEF n
<1>5. AddSound(n)
  BY <1>1, <1>4, PcSound DEF HitSound
<1>6. RowName(n) = Name(a) /\ Holds(n) /\ ~Holds(adding[a])
  BY <1>1, <1>2, <1>4 DEF Holds, RowName
<1>7. LocksHeld'
  BY <1>1, <1>2, <1>3, <1>6, LockTaken
<1> QED BY <1>1, <1>3, <1>5, <1>7, CountsHold, RecordMoves

\* Under the lock, the index is asked for the name.
LEMMA GetTsidStep ==
  ASSUME RegistryInv, NEW a \in Inserters, NEW id \in Ids, get_tsid_by_metric_name(a, id)
  PROVE  RegistryInv'
<1> DEFINE n == [adding[a] EXCEPT !.pc = "put", !.hit = id]
<1>1. /\ adding[a].pc = "locked" /\ id \in Indexed(a)
      /\ UNCHANGED <<nameOf, items, searchable, deleted, tsidCache, locked, del, adds, deletes, forgets>>
  BY DEF get_tsid_by_metric_name, index, counts
<1>2. /\ adding[a] \in AddType /\ AddSound(adding[a]) /\ adding \in [Inserters -> AddType]
      /\ RowName(adding[a]) = Name(a)
  BY InserterParts
<1>3. adding' = [adding EXCEPT ![a] = n]
  BY <1>2 DEF get_tsid_by_metric_name
<1>4. id \in Nat
  BY LenProperties DEF RegistryInv, IndexTyped, Ids
<1>5. /\ n \in AddType /\ n.pc = "put" /\ n.hit = id /\ n.batch = adding[a].batch /\ n.atStart = adding[a].atStart
      /\ n.part = adding[a].part /\ n.dmis = adding[a].dmis /\ n.cursor = adding[a].cursor
      /\ n.prev = adding[a].prev /\ n.rows = adding[a].rows
  BY <1>2, <1>4 DEF AddType
<1> HIDE DEF n
<1>6. RowName(n) = Name(a) /\ Holds(n) /\ Holds(adding[a])
  BY <1>1, <1>2, <1>5 DEF Holds, RowName
<1>7. /\ adding[a].part \in Partitions /\ adding[a].cursor \subseteq items[adding[a].part]
  BY <1>1, RunParts
<1>8. HitSound(n)
  <2>1. <<Date(a), id>> \in adding[a].cursor /\ nameOf[id] = Name(a) /\ id \notin deleted[adding[a].part]
    BY <1>1 DEF Indexed
  <2>2. EntrySound(adding[a].part, <<Date(a), id>>)
    BY <1>7, <2>1 DEF RegistryInv, IndexSound
  <2>3. Global(id) \in items[adding[a].part]
    BY <2>2 DEF EntrySound
  <2>4. adding[a].atStart[adding[a].part] \subseteq deleted[adding[a].part]
    BY <1>2, <1>7 DEF AddSound, AtStartKept
  <2> QED BY <1>5, <1>6, <2>1, <2>3, <2>4 DEF HitSound
<1>9. AddSound(n)
  BY <1>1, <1>5, <1>8, PcSound
<1>10. LocksHeld'
  BY <1>1, <1>2, <1>3, <1>6, LocksSame
<1> QED BY <1>1, <1>3, <1>9, <1>10, CountsHold, RecordMoves

\* The rows of the batch are stored.
LEMMA MustAddRowsStep ==
  ASSUME RegistryInv, NEW a \in Inserters, must_add_rows(a)
  PROVE  RegistryInv'
<1>1. /\ adding[a].pc = "store" /\ adding' = [adding EXCEPT ![a] = NoAdd]
      /\ UNCHANGED <<nameOf, items, searchable, deleted, tsidCache, locked, del, adds, deletes, forgets>>
  BY DEF must_add_rows, index, counts
<1>2. AddSound(NoAdd)
  BY NoAddParts DEF AddSound, RunSound, HitSound, PrevSound, RowsIndexed, AtStartKept
<1>3. LocksHeld'
  BY <1>1, NoAddParts, LocksSame DEF Holds
<1> QED BY <1>1, <1>2, <1>3, CountsHold, RecordMoves

\* The record of an inserter whose row at hand gets id.
LEMMA ResolvedParts ==
  ASSUME RegistryInv, NEW a \in Inserters, adding[a].pc \in {"row", "locked", "put"}, NEW id \in Nat
  PROVE  \E n \in AddType :
           /\ Resolved(a, id) = [adding EXCEPT ![a] = n]
           /\ n.batch = Tail(adding[a].batch) /\ n.rows = Append(adding[a].rows, <<Date(a), id>>)
           /\ n.prev = <<Name(a), id>> /\ n.pc \in {"row", "switch", "perday"}
           /\ n.pc = "row" => n.batch # <<>> /\ PartOf(Head(n.batch)[2]) = n.part
           /\ n.atStart = adding[a].atStart /\ n.part = adding[a].part /\ n.dmis = adding[a].dmis
           /\ n.cursor = adding[a].cursor
<1> DEFINE rest == Tail(adding[a].batch)
           rows == Append(adding[a].rows, <<Date(a), id>>)
           pc   == IF rest = <<>> THEN "perday"
                   ELSE IF PartOf(rest[1][2]) = adding[a].part THEN "row" ELSE "switch"
           n    == [adding[a] EXCEPT !.rows = rows, !.prev = <<Name(a), id>>, !.batch = rest, !.hit = 0, !.pc = pc]
<1>1. adding[a] \in AddType /\ adding \in [Inserters -> AddType]
  BY InserterParts
<1>2. adding[a].batch # <<>> /\ Name(a) \in Names /\ Date(a) \in Dates
  BY RunParts
<1>3. adding[a].batch \in Seq(Names \X Dates) /\ adding[a].rows \in Seq(Dates \X Nat)
  BY <1>1 DEF AddType
<1>4. rest \in Seq(Names \X Dates)
  BY <1>2, <1>3, HeadTailProperties
<1>5. rows \in Seq(Dates \X Nat)
  BY <1>2, <1>3, AppendProperties
<1>6. /\ pc \in {"row", "switch", "perday"}
      /\ pc = "row" => rest # <<>> /\ PartOf(rest[1][2]) = adding[a].part
  OBVIOUS
<1>7. Resolved(a, id) = [adding EXCEPT ![a] = n]
  BY <1>1 DEF Resolved
<1>8. rest # <<>> => Head(rest) = rest[1]
  BY <1>4, HeadTailProperties
<1> HIDE DEF rest, rows, pc
<1>9. /\ n \in AddType /\ n.batch = rest /\ n.rows = rows /\ n.prev = <<Name(a), id>> /\ n.pc = pc
      /\ n.atStart = adding[a].atStart /\ n.part = adding[a].part /\ n.dmis = adding[a].dmis
      /\ n.cursor = adding[a].cursor
  BY <1>1, <1>2, <1>4, <1>5, <1>6 DEF AddType
<1> HIDE DEF n
<1>10. n.pc = "row" => n.batch # <<>> /\ PartOf(Head(n.batch)[2]) = n.part
  BY <1>6, <1>8, <1>9
<1>11. n.batch = Tail(adding[a].batch) /\ n.rows = Append(adding[a].rows, <<Date(a), id>>)
  BY <1>9 DEF rest, rows
<1> QED BY <1>6, <1>7, <1>9, <1>10, <1>11

\* That record is sound if the index of the partition has the id by then.
LEMMA ResolvedSound ==
  ASSUME RegistryInv, Grows, NEW a \in Inserters, adding[a].pc \in {"row", "locked", "put"}, NEW id \in Ids,
         nameOf[id] = Name(a), Global(id) \in items'[adding[a].part], NEW n \in AddType,
         n.rows = Append(adding[a].rows, <<Date(a), id>>), n.prev = <<Name(a), id>>,
         n.pc \in {"row", "switch", "perday"},
         n.pc = "row" => n.batch # <<>> /\ PartOf(Head(n.batch)[2]) = n.part,
         n.atStart = adding[a].atStart, n.part = adding[a].part, n.dmis = adding[a].dmis,
         n.cursor = adding[a].cursor
  PROVE  AddSound(n)'
<1>1. AddSound(adding[a]) /\ adding[a] \in AddType
  BY InserterParts
<1>2. /\ adding[a].part = PartOf(Date(a)) /\ adding[a].part \in Partitions
      /\ adding[a].cursor \subseteq items[adding[a].part]
      /\ adding[a].atStart[adding[a].part] \subseteq adding[a].dmis
      /\ Date(a) \in Dates
  BY RunParts
<1>3. id \in Ids' /\ nameOf'[id] = Name(a)
  BY IdsGrow DEF Grows
<1>4. items[adding[a].part] \subseteq items'[adding[a].part]
  BY <1>2 DEF Grows
<1>5. RunSound(n)'
  BY <1>2, <1>4 DEF RunSound
<1>6. HitSound(n)' /\ PrevSound(n)'
  BY <1>3 DEF HitSound, PrevSound
<1>7. AtStartKept(n)'
  <2>1. AtStartKept(adding[a])
    BY <1>1 DEF AddSound
  <2> QED BY <2>1 DEF AtStartKept, Grows
<1>8. RowsIndexed(n)'
  <2> SUFFICES ASSUME NEW i \in DOMAIN n.rows PROVE RowIndexed(n, n.rows[i])'
    BY DEF RowsIndexed
  <2>1. adding[a].rows \in Seq(Dates \X Nat)
    BY <1>1 DEF AddType
  <2>2. id \in Nat
    BY LenProperties DEF RegistryInv, IndexTyped, Ids
  <2>3. /\ DOMAIN n.rows = 1..(Len(adding[a].rows) + 1) /\ DOMAIN adding[a].rows = 1..Len(adding[a].rows)
        /\ Len(adding[a].rows) \in Nat
        /\ \A j \in 1..Len(adding[a].rows) : n.rows[j] = adding[a].rows[j]
        /\ n.rows[Len(adding[a].rows) + 1] = <<Date(a), id>>
    BY <1>2, <2>1, <2>2, AppendProperties, LenProperties
  <2>4. CASE i = Len(adding[a].rows) + 1
    BY <1>2, <1>3, <2>3, <2>4 DEF RowIndexed, Global
  <2>5. CASE i # Len(adding[a].rows) + 1
    <3>1. i \in DOMAIN adding[a].rows /\ n.rows[i] = adding[a].rows[i]
      BY <2>3, <2>5
    <3>2. RowIndexed(adding[a], n.rows[i])
      BY <1>1, <3>1 DEF AddSound, RowsIndexed
    <3>3. PartOf(n.rows[i][1]) \in Partitions
      BY <1>1, <3>1, RecordParts, PartitionOf
    <3> QED BY <3>2, <3>3, IdsGrow DEF RowIndexed, Grows, Global
  <2> QED BY <2>4, <2>5
<1> QED BY <1>5, <1>6, <1>7, <1>8 DEF AddSound

\* create_global_indexes of an id of the registry.
LEMMA CreateGlobalSound ==
  ASSUME RegistryInv, NEW a \in Inserters, adding[a].part \in Partitions, NEW id \in Ids, CreateGlobal(a, id),
         UNCHANGED nameOf
  PROVE  /\ items' \in [Partitions -> SUBSET (Int \X Nat)] /\ \A p \in Partitions : items[p] \subseteq items'[p]
         /\ \A p \in Partitions : \A x \in items'[p] \ items[p] : EntrySound(p, x)'
         /\ Global(id) \in items'[adding[a].part]
<1>1. id \in Nat
  BY LenProperties DEF RegistryInv, IndexTyped, Ids
<1>2. items \in [Partitions -> SUBSET (Int \X Nat)]
  BY DEF RegistryInv, IndexTyped
<1>3. \A p \in Partitions : items'[p] = IF p = adding[a].part THEN items[p] \cup {Global(id)} ELSE items[p]
  BY <1>2 DEF CreateGlobal
<1>4. Global(id) \in Int \X Nat
  BY <1>1 DEF Global
<1>5. items' \in [Partitions -> SUBSET (Int \X Nat)]
  BY <1>2, <1>4 DEF CreateGlobal
<1>6. ASSUME NEW p \in Partitions, NEW x \in items'[p] \ items[p] PROVE EntrySound(p, x)'
  <2>1. p = adding[a].part /\ x = Global(id) /\ x \in items'[p]
    BY <1>3
  <2>2. x[1] = -1 /\ x[2] = id /\ Global(x[2]) = x
    BY <2>1 DEF Global
  <2>3. id \in Ids'
    BY DEF Ids
  <2> QED BY <2>1, <2>2, <2>3 DEF EntrySound, Global
<1> QED BY <1>3, <1>5, <1>6

\* The row is resolved with an id that is known, in the three ways of add.
LEMMA KnownIdStep ==
  ASSUME RegistryInv, NEW a \in Inserters, adding[a].pc \in {"row", "locked"}, NEW id \in Ids,
         nameOf[id] = Name(a), CreateGlobal(a, id), adding' = Resolved(a, id),
         locked' = IF adding[a].pc = "locked" THEN locked \ {Name(a)} ELSE locked,
         UNCHANGED <<nameOf, searchable, deleted, tsidCache, del, counts>>
  PROVE  RegistryInv'
<1>1. id \in Nat
  BY LenProperties DEF RegistryInv, IndexTyped, Ids
<1>2. PICK n \in AddType :
        /\ Resolved(a, id) = [adding EXCEPT ![a] = n]
        /\ n.batch = Tail(adding[a].batch) /\ n.rows = Append(adding[a].rows, <<Date(a), id>>)
        /\ n.prev = <<Name(a), id>> /\ n.pc \in {"row", "switch", "perday"}
        /\ n.pc = "row" => n.batch # <<>> /\ PartOf(Head(n.batch)[2]) = n.part
        /\ n.atStart = adding[a].atStart /\ n.part = adding[a].part /\ n.dmis = adding[a].dmis
        /\ n.cursor = adding[a].cursor
  BY <1>1, ResolvedParts
<1>3. adding[a].part \in Partitions
  BY RunParts
<1>4. /\ items' \in [Partitions -> SUBSET (Int \X Nat)] /\ \A p \in Partitions : items[p] \subseteq items'[p]
      /\ \A p \in Partitions : \A x \in items'[p] \ items[p] : EntrySound(p, x)'
      /\ Global(id) \in items'[adding[a].part]
  BY <1>3, CreateGlobalSound
<1>5. UNCHANGED <<nameOf, searchable, deleted, tsidCache, del, adds, deletes, forgets>>
  BY DEF counts
<1>6. Grows
  BY <1>4, <1>5, LenProperties DEF Grows, RegistryInv, IndexTyped
<1>7. AddSound(n)'
  BY <1>2, <1>4, <1>6, ResolvedSound
<1>8. ~Holds(n) /\ RowName(adding[a]) = Name(a) /\ (Holds(adding[a]) <=> adding[a].pc = "locked")
  BY <1>2, InserterParts DEF Holds
<1>9. LocksHeld'
  <2>1. CASE adding[a].pc = "locked"
    BY <1>2, <1>8, <2>1, LockReleased
  <2>2. CASE adding[a].pc # "locked"
    BY <1>2, <1>8, <2>2, LocksSame
  <2> QED BY <2>1, <2>2
<1> QED BY <1>2, <1>4, <1>5, <1>7, <1>9, CountsHold, AddMoves

\* A row has the name of the row before it.
LEMMA FromPreviousStep ==
  ASSUME RegistryInv, NEW a \in Inserters, FromPrevious(a)
  PROVE  RegistryInv'
<1>1. PrevSound(adding[a])
  BY InserterParts DEF AddSound
<1>2. adding[a].prev[2] \in Ids /\ nameOf[adding[a].prev[2]] = Name(a)
  BY <1>1 DEF PrevSound, FromPrevious, SamePrev
<1> QED BY <1>2, KnownIdStep DEF FromPrevious

\* The cache knows the name.
LEMMA FromCacheStep ==
  ASSUME RegistryInv, NEW a \in Inserters, FromCache(a) \/ FromCacheLocked(a)
  PROVE  RegistryInv'
<1>1. adding[a].pc \in {"row", "locked"} /\ CacheHit(a)
  BY DEF FromCache, FromCacheLocked, CacheHitAgain
<1>2. tsidCache[Name(a)] \in Ids /\ nameOf[tsidCache[Name(a)]] = Name(a)
  BY <1>1, RunParts DEF RegistryInv, CacheSound, CacheHit
<1> QED BY <1>1, <1>2, KnownIdStep DEF FromCache, FromCacheLocked

\* A TSID is generated under the lock of its name.
LEMMA GenerateTsidStep ==
  ASSUME RegistryInv, NEW a \in Inserters, generate_tsid(a)
  PROVE  RegistryInv'
<1>1. PICK id : id = Len(nameOf) + 1
  OBVIOUS
<1>2. /\ adding[a].pc = "locked" /\ ~CacheHit(a)
      /\ nameOf' = Append(nameOf, Name(a))
      /\ items' = [items EXCEPT ![adding[a].part] = @ \cup {Global(id), <<Date(a), id>>}]
      /\ adding' = [adding EXCEPT ![a].pc = "put", ![a].hit = id]
      /\ UNCHANGED <<searchable, deleted, tsidCache, locked, del, adds, deletes, forgets>>
  BY <1>1 DEF generate_tsid, CacheHitAgain, counts
<1>3. /\ adding[a] \in AddType /\ AddSound(adding[a]) /\ adding \in [Inserters -> AddType]
      /\ RowName(adding[a]) = Name(a)
  BY InserterParts
<1>4. /\ adding[a].part \in Partitions /\ adding[a].part = PartOf(Date(a)) /\ Name(a) \in Names /\ Date(a) \in Dates
  BY <1>2, RunParts
<1>5. nameOf \in Seq(Names) /\ items \in [Partitions -> SUBSET (Int \X Nat)] /\ Len(nameOf) \in Nat /\ id \in Nat
  BY <1>1, LenProperties DEF RegistryInv, IndexTyped
<1>6. /\ nameOf' \in Seq(Names) /\ Len(nameOf') = id /\ nameOf'[id] = Name(a)
      /\ \A i \in 1..Len(nameOf) : nameOf'[i] = nameOf[i]
  BY <1>1, <1>2, <1>4, <1>5, AppendProperties
<1>7. Ids' = Ids \cup {id} /\ id \notin Ids
  BY <1>1, <1>5, <1>6 DEF Ids
<1>8. \A p \in Partitions :
        items'[p] = IF p = adding[a].part THEN items[p] \cup {Global(id), <<Date(a), id>>} ELSE items[p]
  BY <1>2, <1>5
<1>9. Date(a) \in Nat /\ Global(id) \in Int \X Nat /\ <<Date(a), id>> \in Int \X Nat
  BY <1>4, <1>5, PartitionOf DEF Global
<1>10. items' \in [Partitions -> SUBSET (Int \X Nat)]
  BY <1>2, <1>5, <1>9
<1>11. Grows
  BY <1>1, <1>2, <1>5, <1>6, <1>8 DEF Grows, Ids
<1>12. ASSUME NEW p \in Partitions, NEW x \in items'[p] \ items[p] PROVE EntrySound(p, x)'
  <2>1. p = adding[a].part /\ (x = Global(id) \/ x = <<Date(a), id>>) /\ Global(id) \in items'[p]
    BY <1>8
  <2>2. x[2] = id /\ (x[1] = -1 \/ PartOf(x[1]) = p)
    BY <1>4, <2>1 DEF Global
  <2>3. id \in Ids'
    BY <1>7
  <2> QED BY <2>1, <2>2, <2>3 DEF EntrySound, Global
<1>13. IndexTyped' /\ IndexSound'
  BY <1>2, <1>10, <1>11, <1>12, IndexMoves
<1> DEFINE n == [adding[a] EXCEPT !.pc = "put", !.hit = id]
<1>14. adding' = [adding EXCEPT ![a] = n]
  BY <1>2, <1>3
<1>15. /\ n \in AddType /\ n.pc = "put" /\ n.hit = id /\ n.batch = adding[a].batch /\ n.atStart = adding[a].atStart
       /\ n.part = adding[a].part /\ n.dmis = adding[a].dmis /\ n.cursor = adding[a].cursor
       /\ n.prev = adding[a].prev /\ n.rows = adding[a].rows
  BY <1>3, <1>5 DEF AddType
<1> HIDE DEF n
<1>16. PICK k : k = n
  OBVIOUS
<1>17. RowName(k) = Name(a) /\ Holds(k) /\ Holds(adding[a])
  BY <1>2, <1>3, <1>15, <1>16 DEF Holds, RowName
<1>18. AddSound(k)'
  <2>1. PICK x : x = adding[a]
    OBVIOUS
  <2>2. AddSound(x)'
    BY <1>3, <1>11, <2>1, AddSoundKept
  <2>3. RunSound(x)' /\ PrevSound(x)' /\ RowsIndexed(x)' /\ AtStartKept(x)'
    BY <2>2 DEF AddSound
  <2>4. RunSound(k)' /\ PrevSound(k)' /\ AtStartKept(k)'
    BY <1>2, <1>15, <1>16, <2>1, <2>3 DEF RunSound, PrevSound, AtStartKept
  <2>5. RowsIndexed(k)'
    BY <1>2, <1>15, <1>16, <2>1, <2>3 DEF RowsIndexed, RowIndexed
  <2>6. HitSound(k)'
    <3>1. id \notin deleted[adding[a].part] /\ adding[a].atStart[adding[a].part] \subseteq deleted[adding[a].part]
      BY <1>3, <1>4, <1>7 DEF RegistryInv, IndexSound, AddSound, AtStartKept
    <3> QED BY <1>4, <1>6, <1>7, <1>8, <1>15, <1>16, <1>17, <3>1 DEF HitSound, RowName, Global
  <2> QED BY <1>15, <1>16, <2>4, <2>5, <2>6 DEF AddSound
<1>19. AddsSound'
  BY <1>11, <1>14, <1>16, <1>18, AddsMove
<1>20. LocksHeld'
  BY <1>2, <1>3, <1>14, <1>16, <1>17, LocksSame
<1>21. CountsTyped' /\ DelSound'
  BY <1>2 DEF RegistryInv, CountsTyped, DelSound
<1>22. CacheSound'
  BY <1>2, <1>6, <1>7 DEF RegistryInv, CacheSound, Ids
<1>23. Registered'
  <2> SUFFICES ASSUME forgets = 0, deletes = 0
               PROVE  /\ \A i, j \in Ids' : nameOf'[i] = nameOf'[j] => i = j
                      /\ \A i \in Ids' : Cached(i)'
    BY <1>2 DEF Registered
  <2>1. adding'[a] = n /\ (\A b \in Inserters \ {a} : adding'[b] = adding[b])
    BY <1>3, <1>14
  <2>2. adding'[a].pc = "put" /\ RowName(adding'[a]) = Name(a)
    BY <1>15, <1>16, <1>17, <2>1
  <2>3. tsidCache[Name(a)] = 0
    BY <1>2, <1>3 DEF AddSound, AtStartKept, CacheHit
  <2>4. \A i \in Ids : nameOf[i] # Name(a)
    <3> SUFFICES ASSUME NEW i \in Ids, nameOf[i] = Name(a) PROVE FALSE
      OBVIOUS
    <3>1. Cached(i)
      BY DEF RegistryInv, Registered
    <3>2. PICK b \in Inserters : adding[b].pc = "put" /\ RowName(adding[b]) = Name(a)
      BY <2>3, <3>1 DEF Cached
    <3>3. b = a
      BY <1>2, <1>3, <3>2 DEF RegistryInv, LocksHeld, Holds
    <3> QED BY <1>2, <3>2, <3>3
  <2>5. \A i \in Ids : nameOf'[i] = nameOf[i]
    BY <1>6 DEF Ids
  <2>6. \A i, j \in Ids' : nameOf'[i] = nameOf'[j] => i = j
    BY <1>6, <1>7, <2>4, <2>5 DEF RegistryInv, Registered
  <2>7. ASSUME NEW i \in Ids' PROVE Cached(i)'
    <3>1. CASE i = id
      BY <1>6, <2>2, <3>1 DEF Cached, RowName
    <3>2. CASE i \in Ids
      <4>1. Cached(i)
        BY <3>2 DEF RegistryInv, Registered
      <4>2. \A b \in Inserters : adding[b].pc = "put" => adding'[b] = adding[b]
        BY <1>2, <2>1
      <4> QED BY <1>2, <2>5, <3>2, <4>1, <4>2 DEF Cached, RowName
    <3> QED BY <1>7, <3>1, <3>2
  <2> QED BY <2>6, <2>7
<1> QED BY <1>13, <1>19, <1>20, <1>21, <1>22, <1>23 DEF RegistryInv

\* The id reaches the cache and the lock is released.
LEMMA PutTsidStep ==
  ASSUME RegistryInv, NEW a \in Inserters, put_tsid_by_metric_name_to_cache(a)
  PROVE  RegistryInv'
<1>1. PICK id : id = adding[a].hit
  OBVIOUS
<1>2. /\ adding[a].pc = "put" /\ tsidCache' = [tsidCache EXCEPT ![Name(a)] = id]
      /\ locked' = locked \ {Name(a)} /\ adding' = Resolved(a, id)
      /\ UNCHANGED <<nameOf, items, searchable, deleted, del, adds, deletes, forgets>>
  BY <1>1 DEF put_tsid_by_metric_name_to_cache, index, counts
<1>3. AddSound(adding[a]) /\ adding \in [Inserters -> AddType] /\ RowName(adding[a]) = Name(a)
  BY InserterParts
<1>4. Name(a) \in Names /\ adding[a].part \in Partitions
  BY <1>2, RunParts
<1>5. id \in Ids /\ nameOf[id] = Name(a) /\ Global(id) \in items'[adding[a].part]
  BY <1>1, <1>2, <1>3 DEF AddSound, HitSound
<1>6. id \in Nat /\ id # 0
  BY <1>5, LenProperties DEF RegistryInv, IndexTyped, Ids
<1>7. PICK n \in AddType :
        /\ Resolved(a, id) = [adding EXCEPT ![a] = n]
        /\ n.batch = Tail(adding[a].batch) /\ n.rows = Append(adding[a].rows, <<Date(a), id>>)
        /\ n.prev = <<Name(a), id>> /\ n.pc \in {"row", "switch", "perday"}
        /\ n.pc = "row" => n.batch # <<>> /\ PartOf(Head(n.batch)[2]) = n.part
        /\ n.atStart = adding[a].atStart /\ n.part = adding[a].part /\ n.dmis = adding[a].dmis
        /\ n.cursor = adding[a].cursor
  BY <1>2, <1>6, ResolvedParts
<1>8. Grows
  BY <1>2, LenProperties DEF Grows, RegistryInv, IndexTyped
<1>9. AddSound(n)'
  BY <1>2, <1>5, <1>7, <1>8, ResolvedSound
<1>10. AddsSound'
  BY <1>2, <1>7, <1>8, <1>9, AddsMove
<1>11. ~Holds(n) /\ Holds(adding[a])
  BY <1>2, <1>7 DEF Holds
<1>12. LocksHeld'
  BY <1>2, <1>3, <1>7, <1>11, LockReleased
<1>13. IndexTyped' /\ IndexSound' /\ CountsTyped' /\ DelSound'
  BY <1>2 DEF RegistryInv, IndexTyped, IndexSound, EntrySound, Ids, CountsTyped, DelSound
<1>14. tsidCache \in [Names -> Nat] /\ \A m \in Names : tsidCache'[m] = IF m = Name(a) THEN id ELSE tsidCache[m]
  BY <1>2 DEF RegistryInv, CacheSound
<1>15. CacheSound'
  <2>1. tsidCache' \in [Names -> Nat]
    BY <1>2, <1>6, <1>14
  <2> QED BY <1>2, <1>5, <1>14, <2>1 DEF RegistryInv, CacheSound, Ids
<1>16. Registered'
  <2>1. \A b \in Inserters \ {a} : adding'[b] = adding[b]
    BY <1>2, <1>3, <1>7
  <2>2. ASSUME NEW i \in Ids, Cached(i) PROVE Cached(i)'
    <3>1. nameOf[i] \in Names
      BY ElementOfSeq DEF RegistryInv, IndexTyped, Ids
    <3>2. CASE nameOf[i] = Name(a)
      BY <1>2, <1>4, <1>6, <1>14, <3>2 DEF Cached
    <3>3. CASE nameOf[i] # Name(a)
      <4>1. CASE tsidCache[nameOf[i]] # 0
        BY <1>2, <1>14, <3>1, <3>3, <4>1 DEF Cached
      <4>2. CASE \E b \in Inserters : adding[b].pc = "put" /\ RowName(adding[b]) = nameOf[i]
        <5>1. PICK b \in Inserters : adding[b].pc = "put" /\ RowName(adding[b]) = nameOf[i]
          BY <4>2
        <5>2. b # a
          BY <1>3, <3>3, <5>1
        <5> QED BY <1>2, <2>1, <5>1, <5>2 DEF Cached, RowName
      <4> QED BY <2>2, <4>1, <4>2 DEF Cached
    <3> QED BY <3>2, <3>3
  <2> QED BY <1>2, <2>2 DEF RegistryInv, Registered, Ids
<1> QED BY <1>10, <1>12, <1>13, <1>15, <1>16 DEF RegistryInv

\* The first day of a partition is one of its days.
LEMMA FirstDateOf ==
  ASSUME NEW p \in Partitions
  PROVE  FirstDate(p) \in Nat /\ PartOf(FirstDate(p)) = p
<1>1. p \in Nat /\ DaysPerMonth \in Nat /\ DaysPerMonth > 0
  BY PartitionsAreNat, SeriesRegistryAssumption
<1>2. (p * DaysPerMonth) \in Nat
  BY <1>1
<1>3. (p * DaysPerMonth) \div DaysPerMonth = p
  BY <1>1
<1> QED BY <1>2, <1>3 DEF FirstDate, PartOf

\* The ids of the rows are created in the next month, and the days of all rows in theirs.
LEMMA UpdatePerDateDataStep ==
  ASSUME RegistryInv, NEW a \in Inserters, NEW pre, update_per_date_data(a, pre)
  PROVE  RegistryInv'
<1>1. PICK rows : rows = {adding[a].rows[i] : i \in DOMAIN adding[a].rows}
  OBVIOUS
<1> DEFINE New(p) == UNION {{Global(r[2]), <<FirstDate(p), r[2]>>} : r \in Prefilled({r \in pre : PartOf(r[1]) + 1 = p})}
<1>2. /\ adding[a].pc = "perday" /\ adding' = [adding EXCEPT ![a].pc = "store"] /\ pre \subseteq rows
      /\ items' = [p \in Partitions |-> items[p] \cup {r \in rows : PartOf(r[1]) = p} \cup New(p)]
      /\ UNCHANGED <<nameOf, searchable, deleted, tsidCache, locked, del, adds, deletes, forgets>>
  BY <1>1 DEF update_per_date_data, counts
<1>3. adding[a] \in AddType /\ AddSound(adding[a]) /\ adding \in [Inserters -> AddType]
  BY InserterParts
<1>4. \A r \in rows : /\ r[1] \in Dates /\ r[2] \in Nat /\ r = <<r[1], r[2]>> /\ r[1] \in Nat /\ PartOf(r[1]) \in Partitions
                      /\ r[2] \in Ids /\ Global(r[2]) \in items[PartOf(r[1])]
  BY ZenonT(40), <1>1, <1>3, RecordParts, PartitionOf DEF AddSound, RowsIndexed, RowIndexed
<1>5. ASSUME NEW p \in Partitions, NEW x \in New(p)
      PROVE  \E r \in rows : (x = Global(r[2]) \/ x = <<FirstDate(p), r[2]>>) /\ Global(r[2]) \in New(p)
  BY <1>2, <1>5 DEF Prefilled
<1> HIDE DEF New
<1>6. \A p \in Partitions : items'[p] = items[p] \cup {r \in rows : PartOf(r[1]) = p} \cup New(p)
  BY <1>2
<1>7. items \in [Partitions -> SUBSET (Int \X Nat)]
  BY DEF RegistryInv, IndexTyped
<1>8. ASSUME NEW p \in Partitions PROVE items'[p] \in SUBSET (Int \X Nat)
  <2>1. ASSUME NEW x \in New(p) PROVE x \in Int \X Nat
    <3>1. PICK r \in rows : x = Global(r[2]) \/ x = <<FirstDate(p), r[2]>>
      BY <1>5
    <3>2. r[2] \in Nat /\ FirstDate(p) \in Nat
      BY <1>4, FirstDateOf
    <3> QED BY <3>1, <3>2 DEF Global
  <2>2. \A x \in {r \in rows : PartOf(r[1]) = p} : x \in Int \X Nat
    BY <1>4
  <2> QED BY <1>6, <1>7, <2>1, <2>2
<1>9. items' \in [Partitions -> SUBSET (Int \X Nat)]
  <2>1. items' = [p \in Partitions |-> items'[p]]
    BY <1>2
  <2> QED BY <1>8, <2>1
<1>10. ASSUME NEW p \in Partitions, NEW x \in items'[p] \ items[p] PROVE EntrySound(p, x)'
  <2>1. CASE x \in rows /\ PartOf(x[1]) = p
    <3>1. x[2] \in Ids /\ Global(x[2]) \in items'[p]
      BY <1>4, <1>6, <2>1
    <3> QED BY <1>2, <2>1, <3>1 DEF EntrySound, Global, Ids
  <2>2. CASE x \in New(p)
    <3>1. PICK r \in rows : (x = Global(r[2]) \/ x = <<FirstDate(p), r[2]>>) /\ Global(r[2]) \in New(p)
      BY <1>5, <2>2
    <3>2. x[2] = r[2] /\ (x[1] = -1 \/ PartOf(x[1]) = p) /\ Global(r[2]) \in items'[p] /\ r[2] \in Ids
      BY <1>4, <1>6, <3>1, FirstDateOf DEF Global
    <3> QED BY <1>2, <3>2 DEF EntrySound, Global, Ids
  <2> QED BY <1>6, <2>1, <2>2
<1> DEFINE n == [adding[a] EXCEPT !.pc = "store"]
<1>11. adding' = [adding EXCEPT ![a] = n]
  BY <1>2, <1>3
<1>12. /\ n \in AddType /\ n.pc = "store" /\ n.batch = adding[a].batch /\ n.atStart = adding[a].atStart
       /\ n.dmis = adding[a].dmis /\ n.prev = adding[a].prev /\ n.rows = adding[a].rows
  BY <1>3 DEF AddType
<1> HIDE DEF n
<1>13. PICK k : k = n
  OBVIOUS
<1>14. AddSound(k)'
  <2>1. RunSound(k)' /\ HitSound(k)'
    BY <1>12, <1>13 DEF RunSound, HitSound
  <2>2. PrevSound(k)' /\ AtStartKept(k)'
    BY <1>2, <1>3, <1>12, <1>13 DEF AddSound, PrevSound, AtStartKept, Ids
  <2>3. RowsIndexed(k)'
    <3> SUFFICES ASSUME NEW i \in DOMAIN k.rows PROVE RowIndexed(k, k.rows[i])'
      BY DEF RowsIndexed
    <3>1. k.rows[i] \in rows
      BY <1>1, <1>12, <1>13
    <3> QED BY <1>2, <1>4, <1>6, <3>1 DEF RowIndexed, Global, Ids
  <2> QED BY <1>12, <1>13, <2>1, <2>2, <2>3 DEF AddSound
<1>15. LocksHeld'
  BY <1>2, <1>11, <1>12, LocksSame DEF Holds
<1>16. \A p \in Partitions : items[p] \subseteq items'[p]
  BY <1>6
<1> QED BY <1>2, <1>9, <1>10, <1>11, <1>13, <1>14, <1>15, <1>16, CountsHold, AddMoves

----------------------------------------------------------------------------
(* Deletion, and what happens to the index and the cache by itself.        *)

\* A step that leaves the inserters and the entries alone.
LEMMA OthersKept ==
  ASSUME RegistryInv, UNCHANGED <<nameOf, items, adding, locked, adds>>,
         \A p \in Partitions : deleted[p] \subseteq deleted'[p], deletes' = 0 => deletes = 0
  PROVE  AddsSound' /\ LocksHeld'
<1>1. Grows
  BY LenProperties DEF Grows, RegistryInv, IndexTyped
<1>2. ASSUME NEW b \in Inserters PROVE AddSound(adding[b])'
  <2>1. PICK x : x = adding[b]
    OBVIOUS
  <2>2. AddSound(x)'
    BY <1>1, <2>1, AddSoundKept DEF RegistryInv, AddsSound
  <2> QED BY <2>1, <2>2 DEF AddSound, RunSound, HitSound, PrevSound, RowsIndexed, RowIndexed, AtStartKept, RowName
<1>3. LocksHeld'
  BY DEF RegistryInv, LocksHeld, Holds, RowName
<1> QED BY <1>2, <1>3 DEF RegistryInv, AddsSound

\* A deletion looks for its series.
LEMMA DeleteSeriesStep ==
  ASSUME RegistryInv, NEW N \in SUBSET Names, delete_series(N)
  PROVE  RegistryInv'
<1>1. /\ del.pc = "idle" /\ deletes < MaxDeletes /\ deletes' = deletes + 1
      /\ del' = [todo |-> Partitions, names |-> N, found |-> FALSE, pc |-> "mark", before |-> deleted]
      /\ UNCHANGED <<nameOf, items, searchable, deleted, tsidCache, locked, adding, adds, forgets>>
  BY DEF delete_series, index
<1>2. deletes' \in 0..MaxDeletes /\ deletes' # 0
  BY <1>1, CountsHold
<1>3. AddsSound' /\ LocksHeld'
  BY <1>1, <1>2, OthersKept
<1>4. IndexTyped' /\ IndexSound' /\ CacheSound' /\ CountsTyped'
  BY <1>1, <1>2 DEF RegistryInv, IndexTyped, IndexSound, EntrySound, Ids, CacheSound, CountsTyped
<1>5. DelSound'
  BY <1>1, <1>2 DEF RegistryInv, IndexTyped, DelSound, DelType
<1>6. Registered'
  BY <1>2 DEF Registered
<1> QED BY <1>3, <1>4, <1>5, <1>6 DEF RegistryInv

\* The identifiers are marked as deleted.
LEMMA MarkDeletedStep ==
  ASSUME RegistryInv, NEW p \in Partitions, MarkDeleted(p)
  PROVE  RegistryInv'
<1>1. PICK ids : ids = {id \in Ids : /\ Global(id) \in searchable[p]
                                     /\ nameOf[id] \in del.names /\ id \notin deleted[p]}
  OBVIOUS
<1>2. /\ del.pc = "mark" /\ deleted' = [deleted EXCEPT ![p] = @ \cup ids]
      /\ del' = [del EXCEPT !.todo = @ \ {p}, !.found = @ \/ ids # {}]
      /\ UNCHANGED <<nameOf, items, searchable, tsidCache, locked, adding, adds, deletes, forgets>>
  BY <1>1 DEF MarkDeleted, counts
<1>3. ids \subseteq Ids /\ Ids \subseteq Nat
  BY <1>1, LenProperties DEF RegistryInv, IndexTyped, Ids
<1>4. deleted \in [Partitions -> SUBSET Nat]
  BY DEF RegistryInv, IndexTyped
<1>5. \A q \in Partitions : deleted'[q] = IF q = p THEN deleted[q] \cup ids ELSE deleted[q]
  BY <1>2, <1>4
<1>6. deleted' \in [Partitions -> SUBSET Nat]
  BY <1>2, <1>3, <1>4
<1>7. AddsSound' /\ LocksHeld'
  BY <1>2, <1>5, OthersKept
<1>8. IndexTyped' /\ CacheSound' /\ CountsTyped'
  BY <1>2, <1>6 DEF RegistryInv, IndexTyped, Ids, CacheSound, CountsTyped
<1>9. IndexSound'
  BY <1>2, <1>3, <1>5 DEF RegistryInv, IndexSound, EntrySound, Ids
<1>10. deletes # 0
  BY <1>2 DEF RegistryInv, DelSound
<1>11. DelSound'
  <2>1. del \in DelType
    BY DEF RegistryInv, DelSound
  <2>2. del' \in DelType /\ del'.before = del.before
    BY <1>2, <2>1 DEF DelType
  <2> QED BY <1>2, <1>5, <1>10, <2>2 DEF RegistryInv, DelSound
<1>12. Registered'
  BY <1>2, <1>10 DEF Registered
<1> QED BY <1>7, <1>8, <1>9, <1>11, <1>12 DEF RegistryInv

\* The fields of a deletion at rest.
LEMMA NoDelParts == NoDel \in DelType /\ NoDel.pc = "idle"
BY DEF NoDel, DelType

\* The cache of names is emptied after a deletion.
LEMMA ResetCacheStep ==
  ASSUME RegistryInv, ResetCache
  PROVE  RegistryInv'
<1>1. /\ del.pc = "mark" /\ tsidCache' = (IF del.found THEN [n \in Names |-> 0] ELSE tsidCache) /\ del' = NoDel
      /\ UNCHANGED <<nameOf, items, searchable, deleted, locked, adding, adds, deletes, forgets>>
  BY DEF ResetCache, index, counts
<1>2. deletes # 0
  BY <1>1 DEF RegistryInv, DelSound
<1>3. AddsSound' /\ LocksHeld'
  BY <1>1, OthersKept
<1>4. IndexTyped' /\ IndexSound' /\ CountsTyped'
  BY <1>1 DEF RegistryInv, IndexTyped, IndexSound, EntrySound, Ids, CountsTyped
<1>5. CacheSound'
  BY <1>1 DEF RegistryInv, CacheSound, Ids
<1>6. DelSound'
  BY <1>1, <1>2, NoDelParts DEF DelSound
<1>7. Registered'
  BY <1>1, <1>2 DEF Registered
<1> QED BY <1>3, <1>4, <1>5, <1>6, <1>7 DEF RegistryInv

\* The index flushes its items, which searches see from then on.
LEMMA FlushIndexStep ==
  ASSUME RegistryInv, NEW p \in Partitions, FlushIndex(p)
  PROVE  RegistryInv'
<1>1. /\ searchable' = [searchable EXCEPT ![p] = items[p]]
      /\ UNCHANGED <<nameOf, items, deleted, tsidCache, locked, adding, del, adds, deletes, forgets>>
  BY DEF FlushIndex, counts
<1>2. AddsSound' /\ LocksHeld'
  BY <1>1, OthersKept
<1>3. searchable \in [Partitions -> SUBSET (Int \X Nat)] /\ items[p] \in SUBSET (Int \X Nat)
  BY DEF RegistryInv, IndexTyped
<1>4. searchable' \in [Partitions -> SUBSET (Int \X Nat)]
      /\ \A q \in Partitions : searchable'[q] = IF q = p THEN items[q] ELSE searchable[q]
  BY <1>1, <1>3
<1>5. IndexTyped' /\ IndexSound'
  BY <1>1, <1>4 DEF RegistryInv, IndexTyped, IndexSound, EntrySound, Ids
<1>6. CountsTyped' /\ CacheSound' /\ DelSound' /\ Registered'
  BY <1>1 DEF RegistryInv, CountsTyped, CacheSound, DelSound, Registered, Cached, RowName, Ids
<1> QED BY <1>2, <1>5, <1>6 DEF RegistryInv

\* The cache forgets an entry, or everything at a restart.
LEMMA ForgetStep ==
  ASSUME RegistryInv, (\E m \in Names : RotateCache(m)) \/ Reopen
  PROVE  RegistryInv'
<1>1. /\ forgets < MaxForgets /\ forgets' = forgets + 1 /\ searchable' \in {searchable, items}
      /\ UNCHANGED <<nameOf, items, deleted, locked, adding, del, adds, deletes>>
  BY DEF RotateCache, Reopen, index
<1>2. forgets' \in 0..MaxForgets /\ forgets' # 0
  BY <1>1, CountsHold
<1>3. AddsSound' /\ LocksHeld'
  BY <1>1, OthersKept
<1>4. IndexTyped' /\ IndexSound' /\ CountsTyped'
  BY <1>1, <1>2 DEF RegistryInv, IndexTyped, IndexSound, EntrySound, Ids, CountsTyped
<1>5. CacheSound'
  <2>1. tsidCache \in [Names -> Nat]
    BY DEF RegistryInv, CacheSound
  <2>2. tsidCache' \in [Names -> Nat] /\ \A m \in Names : tsidCache'[m] \in {0, tsidCache[m]}
    BY <2>1 DEF RotateCache, Reopen
  <2> QED BY <1>1, <2>2 DEF RegistryInv, CacheSound, Ids
<1>6. DelSound' /\ Registered'
  BY <1>1, <1>2 DEF RegistryInv, DelSound, Registered
<1> QED BY <1>3, <1>4, <1>5, <1>6 DEF RegistryInv

\* The invariant holds initially.
LEMMA RegistryStart == RegistryInit => RegistryInv
<1> SUFFICES ASSUME RegistryInit PROVE RegistryInv
  OBVIOUS
<1>1. nameOf = <<>> /\ Len(nameOf) = 0 /\ nameOf \in Seq(Names) /\ Ids = {}
  BY EmptySeq, LenProperties DEF RegistryInit, Ids
<1>2. IndexTyped /\ IndexSound
  BY <1>1 DEF RegistryInit, IndexTyped, IndexSound
<1>3. CountsTyped /\ CacheSound
  BY SeriesRegistryAssumption DEF RegistryInit, CountsTyped, CacheSound
<1>4. \A a \in Inserters : adding[a] = NoAdd
  BY DEF RegistryInit
<1>5. LocksHeld
  BY <1>4, NoAddParts DEF RegistryInit, LocksHeld, Holds
<1>6. AddSound(NoAdd)
  BY NoAddParts DEF RegistryInit, AddSound, RunSound, HitSound, PrevSound, RowsIndexed, AtStartKept
<1>7. AddsSound
  BY <1>4, <1>6, NoAddParts DEF RegistryInit, AddsSound
<1>8. DelSound
  BY NoDelParts DEF RegistryInit, DelSound
<1>9. Registered
  BY <1>1 DEF Registered
<1> QED BY <1>2, <1>3, <1>5, <1>7, <1>8, <1>9 DEF RegistryInv

\* Every step of an inserter keeps the invariant.
LEMMA AddStepInv ==
  ASSUME RegistryInv, NEW a \in Inserters, AddStep(a)
  PROVE  RegistryInv'
BY AddBeginsStep, PickPartitionStep, FromPreviousStep, FromCacheStep, CacheMissStep, LockNameStep, GenerateTsidStep,
   PutTsidStep, GetTsidStep, UpdatePerDateDataStep, MustAddRowsStep DEF AddStep

\* Every step keeps the invariant.
LEMMA RegistryStep == RegistryInv /\ [RegistryNext]_registryVars => RegistryInv'
<1> SUFFICES ASSUME RegistryInv, [RegistryNext]_registryVars PROVE RegistryInv'
  OBVIOUS
<1>1. CASE \E a \in Inserters : AddStep(a)
  BY <1>1, AddStepInv
<1>2. CASE \E N \in (SUBSET Names) \ {{}} : delete_series(N)
  BY <1>2, DeleteSeriesStep
<1>3. CASE \E p \in Partitions : MarkDeleted(p) \/ FlushIndex(p)
  BY <1>3, MarkDeletedStep, FlushIndexStep
<1>4. CASE ResetCache
  BY <1>4, ResetCacheStep
<1>5. CASE (\E m \in Names : RotateCache(m)) \/ Reopen
  BY <1>5, ForgetStep
<1>6. CASE UNCHANGED registryVars
  <2>1. UNCHANGED <<nameOf, items, searchable, deleted, tsidCache, locked, adding, del, adds, deletes, forgets>>
    BY <1>6 DEF registryVars, index, counts
  <2>2. AddsSound' /\ LocksHeld'
    BY <2>1, OthersKept
  <2>3. IndexTyped' /\ IndexSound' /\ CountsTyped' /\ CacheSound' /\ DelSound' /\ Registered'
    BY <2>1 DEF RegistryInv, IndexTyped, IndexSound, EntrySound, Ids, CountsTyped, CacheSound, DelSound, Registered,
                Cached, RowName
  <2> QED BY <2>2, <2>3 DEF RegistryInv
<1> QED BY <1>1, <1>2, <1>3, <1>4, <1>5, <1>6 DEF RegistryNext

\* One owner per lock, counted.
LEMMA LockOwners ==
  ASSUME LocksHeld, NEW n \in Names
  PROVE  (n \in locked) <=>
           Cardinality({a \in Inserters : adding[a].pc \in {"locked", "put"} /\ Head(adding[a].batch)[1] = n}) = 1
<1> DEFINE Owners == {a \in Inserters : adding[a].pc \in {"locked", "put"} /\ Head(adding[a].batch)[1] = n}
<1>1. n \in locked <=> Owners # {}
  BY DEF LocksHeld, Holds, RowName
<1>2. ASSUME NEW a \in Owners PROVE Owners = {a}
  BY DEF LocksHeld, Holds, RowName
<1> HIDE DEF Owners
<1>3. Owners = {} => Cardinality(Owners) = 0
  BY FS_EmptySet
<1>4. ASSUME NEW a \in Owners PROVE Cardinality(Owners) = 1
  BY <1>2, FS_Singleton
<1>5. (n \in locked) <=> Cardinality(Owners) = 1
  BY <1>1, <1>3, <1>4
<1> QED BY <1>5 DEF Owners

\* The invariant contains the types.
LEMMA RegistryTyped == RegistryInv => RegistryTypeOK
<1> SUFFICES ASSUME RegistryInv PROVE RegistryTypeOK
  OBVIOUS
<1>1. nameOf \in Seq(Names) /\ adds \in 0..MaxAdds /\ deletes \in 0..MaxDeletes /\ forgets \in 0..MaxForgets
  BY DEF RegistryInv, IndexTyped, CountsTyped
<1>2. \A p \in Partitions :
        /\ searchable[p] \subseteq items[p] /\ deleted[p] \subseteq Ids
        /\ \A x \in items[p] : x[2] \in Ids /\ (x[1] = -1 \/ PartOf(x[1]) = p)
  BY DEF RegistryInv, IndexSound, EntrySound
<1>3. \A n \in Names : tsidCache[n] # 0 => tsidCache[n] \in Ids /\ nameOf[tsidCache[n]] = n
  BY DEF RegistryInv, CacheSound
<1>4. \A n \in Names : (n \in locked) <=>
        Cardinality({a \in Inserters : adding[a].pc \in {"locked", "put"} /\ Head(adding[a].batch)[1] = n}) = 1
  BY LockOwners DEF RegistryInv
<1> QED BY <1>1, <1>2, <1>3, <1>4 DEF RegistryTypeOK

\* Stored rows have their entries, and without deletions and cache losses a name has one series.
LEMMA RowsAreIndexed == RegistryInv => StoredRowsIndexed /\ NoShadowSeries
<1> SUFFICES ASSUME RegistryInv PROVE StoredRowsIndexed /\ NoShadowSeries
  OBVIOUS
<1>1. NoShadowSeries
  BY DEF RegistryInv, Registered, NoShadowSeries
<1>2. ASSUME NEW a \in Inserters, adding[a].pc = "store", NEW i \in DOMAIN adding[a].rows
      PROVE  {Global(adding[a].rows[i][2]), adding[a].rows[i]} \subseteq items[PartOf(adding[a].rows[i][1])]
  BY <1>2, InserterParts DEF AddSound, RowsIndexed, RowIndexed
<1> QED BY <1>1, <1>2 DEF StoredRowsIndexed

\* Whatever batches arrive, however inserts, deletions, lost cache entries and restarts
\* interleave: every row that reaches must_add_rows is in the index of its partition with
\* its id and its day, a creation lock has one owner, and a name is registered once as long
\* as the TSID cache has lost nothing (StorageInner::add).
THEOREM RowsFoundAgain == RegistrySpec => [](RegistryTypeOK /\ StoredRowsIndexed /\ NoShadowSeries)
<1>1. RegistryInv => RegistryTypeOK /\ StoredRowsIndexed /\ NoShadowSeries
  BY RegistryTyped, RowsAreIndexed
<1> QED BY <1>1, RegistryStart, RegistryStep, PTL DEF RegistrySpec

----------------------------------------------------------------------------
(* The ids of rows are live, for batches in which rows that follow each    *)
(* other have one name only within a partition.                            *)

Apart(b) ==
  \A i \in 1..(Len(b) - 1) : b[i][1] = b[i + 1][1] => PartOf(b[i][2]) = PartOf(b[i + 1][2])

\* The rows so far have ids that are live in their partition, and so has the row at hand,
\* if it takes the id of the row before it.
LiveRecord(r) ==
  /\ \A i \in DOMAIN r.rows : r.rows[i][2] \notin r.atStart[PartOf(r.rows[i][1])]
  /\ r.prev # <<>> /\ r.batch # <<>> /\ Head(r.batch)[1] = r.prev[1] =>
       r.prev[2] \notin r.atStart[PartOf(Head(r.batch)[2])]
  /\ Apart(r.batch)

LiveRecords == \A a \in Inserters : LiveRecord(adding[a])

\* One inserter moves, to a record that is live again.
LEMMA LiveMoves ==
  ASSUME RegistryInv, LiveRecords, NEW a \in Inserters, NEW n, adding' = [adding EXCEPT ![a] = n], LiveRecord(n)
  PROVE  LiveRecords'
<1>1. \A b \in Inserters : adding'[b] = IF b = a THEN n ELSE adding[b]
  BY DEF RegistryInv, AddsSound
<1>2. \A b \in Inserters : LiveRecord(adding'[b])
  BY <1>1 DEF LiveRecords
<1> QED BY <1>2 DEF LiveRecords, LiveRecord

\* A record whose rows, batch and id of the row before stay.
LEMMA LiveSame ==
  ASSUME RegistryInv, LiveRecords, NEW a \in Inserters, NEW n, adding' = [adding EXCEPT ![a] = n],
         n.rows = adding[a].rows, n.atStart = adding[a].atStart, n.prev = adding[a].prev, n.batch = adding[a].batch
  PROVE  LiveRecords'
<1>1. LiveRecord(n)
  BY DEF LiveRecords, LiveRecord
<1> QED BY <1>1, LiveMoves

\* The row at hand gets an id that is live in its partition.
LEMMA LiveResolved ==
  ASSUME RegistryInv, LiveRecords, NEW a \in Inserters, adding[a].pc \in {"row", "locked", "put"}, NEW id \in Nat,
         adding' = Resolved(a, id), id \notin adding[a].atStart[PartOf(Date(a))]
  PROVE  LiveRecords'
<1>1. PICK n \in AddType :
        /\ Resolved(a, id) = [adding EXCEPT ![a] = n]
        /\ n.batch = Tail(adding[a].batch) /\ n.rows = Append(adding[a].rows, <<Date(a), id>>)
        /\ n.prev = <<Name(a), id>> /\ n.atStart = adding[a].atStart
  BY ResolvedParts
<1>2. adding[a] \in AddType
  BY InserterParts
<1>3. adding[a].batch # <<>> /\ Date(a) \in Dates
  BY RunParts
<1>4. PICK b : b = adding[a].batch
  OBVIOUS
<1>5. b \in Seq(Names \X Dates) /\ b # <<>> /\ Apart(b) /\ n.batch = Tail(b) /\ Name(a) = b[1][1] /\ Date(a) = b[1][2]
  BY <1>1, <1>2, <1>3, <1>4, HeadTailProperties DEF AddType, LiveRecords, LiveRecord, Name, Date, Row
<1>6. /\ Tail(b) \in Seq(Names \X Dates) /\ Len(Tail(b)) = Len(b) - 1 /\ Len(b) \in Nat /\ Len(b) >= 1
      /\ \A i \in 1..Len(Tail(b)) : Tail(b)[i] = b[i + 1]
  BY <1>5, HeadTailProperties, LenProperties, EmptySeq
<1>7. Apart(Tail(b))
  <2> SUFFICES ASSUME NEW i \in 1..(Len(Tail(b)) - 1), Tail(b)[i][1] = Tail(b)[i + 1][1]
               PROVE  PartOf(Tail(b)[i][2]) = PartOf(Tail(b)[i + 1][2])
    BY DEF Apart
  <2>1. i + 1 \in 1..(Len(b) - 1) /\ i \in 1..Len(Tail(b)) /\ i + 1 \in 1..Len(Tail(b))
    BY <1>6
  <2>2. Tail(b)[i] = b[i + 1] /\ Tail(b)[i + 1] = b[(i + 1) + 1]
    BY <1>6, <2>1
  <2> QED BY <1>5, <2>1, <2>2 DEF Apart
<1>8. ASSUME n.batch # <<>>, Head(n.batch)[1] = Name(a) PROVE PartOf(Head(n.batch)[2]) = PartOf(Date(a))
  <2>1. Len(Tail(b)) \in Nat /\ Len(Tail(b)) # 0
    BY <1>5, <1>6, <1>8, LenProperties, EmptySeq
  <2>2. 1 \in 1..(Len(b) - 1) /\ 1 \in 1..Len(Tail(b))
    BY <1>6, <2>1
  <2>3. Head(n.batch) = b[1 + 1]
    BY <1>5, <1>6, <1>8, <2>2, HeadTailProperties
  <2> QED BY <1>5, <1>8, <2>2, <2>3 DEF Apart
<1>9. adding[a].rows \in Seq(Dates \X Nat)
  BY <1>2 DEF AddType
<1>10. /\ DOMAIN n.rows = 1..(Len(adding[a].rows) + 1) /\ DOMAIN adding[a].rows = 1..Len(adding[a].rows)
       /\ Len(adding[a].rows) \in Nat
       /\ \A j \in 1..Len(adding[a].rows) : n.rows[j] = adding[a].rows[j]
       /\ n.rows[Len(adding[a].rows) + 1] = <<Date(a), id>>
  BY <1>1, <1>3, <1>9, AppendProperties, LenProperties
<1>11. ASSUME NEW i \in DOMAIN n.rows PROVE n.rows[i][2] \notin n.atStart[PartOf(n.rows[i][1])]
  <2>1. CASE i = Len(adding[a].rows) + 1
    BY <1>1, <1>10, <2>1
  <2>2. CASE i # Len(adding[a].rows) + 1
    <3>1. i \in DOMAIN adding[a].rows /\ n.rows[i] = adding[a].rows[i]
      BY <1>10, <2>2
    <3> QED BY <1>1, <3>1 DEF LiveRecords, LiveRecord
  <2> QED BY <2>1, <2>2
<1>12. n.prev[1] = Name(a) /\ n.prev[2] = id
  BY <1>1
<1>13. n.batch # <<>> /\ Head(n.batch)[1] = n.prev[1] => n.prev[2] \notin n.atStart[PartOf(Head(n.batch)[2])]
  BY <1>1, <1>8, <1>12
<1>14. LiveRecord(n)
  BY <1>5, <1>7, <1>11, <1>13 DEF LiveRecord
<1> QED BY <1>1, <1>14, LiveMoves

\* Nobody holds a deleted identifier initially.
LEMMA LiveStart ==
  ASSUME \A b \in Batches : Apart(b)
  PROVE  RegistryInit => LiveRecords
<1>1. Len(NoAdd.batch) = 0
  BY NoAddParts, LenProperties, EmptySeq
<1>2. LiveRecord(NoAdd)
  BY <1>1, NoAddParts DEF LiveRecord, Apart
<1> QED BY <1>2 DEF RegistryInit, LiveRecords

\* With batches that keep their names apart, an inserter never holds on to a dead identifier.
LEMMA LiveAddStep ==
  ASSUME \A b \in Batches : Apart(b), RegistryInv, LiveRecords, NEW a \in Inserters, AddStep(a)
  PROVE  LiveRecords'
<1>0. /\ adding[a] \in AddType /\ AddSound(adding[a]) /\ adding \in [Inserters -> AddType] /\ LiveRecord(adding[a])
  BY InserterParts DEF LiveRecords
<1>1. ASSUME NEW b \in Batches, AddBegins(a, b) PROVE LiveRecords'
  <2> DEFINE n == [NoAdd EXCEPT !.pc = "switch", !.batch = b, !.atStart = DeletedForGood]
  <2>1. adding' = [adding EXCEPT ![a] = n]
    BY <1>1 DEF AddBegins
  <2>2. n.batch = b /\ n.rows = <<>> /\ n.prev = <<>>
    BY NoAddParts DEF AddType
  <2> HIDE DEF n
  <2>3. LiveRecord(n)
    BY <2>2 DEF LiveRecord
  <2> QED BY <2>1, <2>3, LiveMoves
<1>2. CASE PickPartition(a)
  <2> DEFINE p == PartOf(Date(a))
             n == [adding[a] EXCEPT !.pc = "row", !.part = p, !.dmis = deleted[p], !.cursor = searchable[p]]
  <2>1. adding' = [adding EXCEPT ![a] = n]
    BY <1>0, <1>2 DEF PickPartition
  <2>2. n.rows = adding[a].rows /\ n.atStart = adding[a].atStart /\ n.prev = adding[a].prev /\ n.batch = adding[a].batch
    BY <1>0 DEF AddType
  <2> HIDE DEF n
  <2> QED BY <2>1, <2>2, LiveSame
<1>3. CASE FromPrevious(a)
  <2>1. adding[a].pc = "row" /\ adding' = Resolved(a, adding[a].prev[2]) /\ adding[a].prev # <<>> /\ adding[a].prev[1] = Name(a)
    BY <1>3 DEF FromPrevious, SamePrev
  <2>2. adding[a].prev[2] \in Nat /\ adding[a].batch # <<>>
    BY <1>0, <2>1, RecordParts, RunParts
  <2>3. adding[a].prev[2] \notin adding[a].atStart[PartOf(Date(a))]
    BY <1>0, <2>1, <2>2 DEF LiveRecord, Name, Date, Row
  <2> QED BY <2>1, <2>2, <2>3, LiveResolved
<1>4. CASE FromCache(a) \/ FromCacheLocked(a)
  <2>1. adding[a].pc \in {"row", "locked"} /\ adding' = Resolved(a, tsidCache[Name(a)]) /\ CacheHit(a)
    BY <1>4 DEF FromCache, FromCacheLocked, CacheHitAgain
  <2>2. tsidCache[Name(a)] \in Nat
    BY <2>1, RunParts DEF RegistryInv, CacheSound
  <2>3. tsidCache[Name(a)] \notin adding[a].atStart[PartOf(Date(a))]
    BY <2>1, RunParts DEF CacheHit
  <2> QED BY <2>1, <2>2, <2>3, LiveResolved
<1>5. CASE put_tsid_by_metric_name_to_cache(a)
  <2>1. adding[a].pc = "put" /\ adding' = Resolved(a, adding[a].hit)
    BY <1>5 DEF put_tsid_by_metric_name_to_cache
  <2>2. adding[a].hit \in Nat /\ adding[a].hit \notin adding[a].atStart[adding[a].part]
    BY <1>0, <2>1 DEF AddSound, HitSound, AddType
  <2>3. adding[a].part = PartOf(Date(a))
    BY <2>1, RunParts
  <2> QED BY <2>1, <2>2, <2>3, LiveResolved
<1>6. ASSUME NEW pc \in {"lock", "locked", "put", "store"}, adding' = [adding EXCEPT ![a].pc = pc] PROVE LiveRecords'
  <2> DEFINE n == [adding[a] EXCEPT !.pc = pc]
  <2>1. adding' = [adding EXCEPT ![a] = n]
    BY <1>0, <1>6
  <2>2. n.rows = adding[a].rows /\ n.atStart = adding[a].atStart /\ n.prev = adding[a].prev /\ n.batch = adding[a].batch
    BY <1>0 DEF AddType
  <2> HIDE DEF n
  <2> QED BY <2>1, <2>2, LiveSame
<1>7. ASSUME NEW id, adding' = [adding EXCEPT ![a].pc = "put", ![a].hit = id] PROVE LiveRecords'
  <2> DEFINE n == [adding[a] EXCEPT !.pc = "put", !.hit = id]
  <2>1. adding' = [adding EXCEPT ![a] = n]
    BY <1>0, <1>7
  <2>2. n.rows = adding[a].rows /\ n.atStart = adding[a].atStart /\ n.prev = adding[a].prev /\ n.batch = adding[a].batch
    BY <1>0 DEF AddType
  <2> HIDE DEF n
  <2> QED BY <2>1, <2>2, LiveSame
<1>8. CASE CacheMiss(a) \/ LockName(a)
  BY <1>6, <1>8 DEF CacheMiss, LockName
<1>9. ASSUME NEW pre, update_per_date_data(a, pre) PROVE LiveRecords'
  BY <1>6, <1>9 DEF update_per_date_data
<1>10. CASE generate_tsid(a)
  BY <1>7, <1>10 DEF generate_tsid
<1>11. ASSUME NEW id, get_tsid_by_metric_name(a, id) PROVE LiveRecords'
  BY <1>7, <1>11 DEF get_tsid_by_metric_name
<1>12. CASE must_add_rows(a)
  <2>1. adding' = [adding EXCEPT ![a] = NoAdd]
    BY <1>12 DEF must_add_rows
  <2>2. Len(NoAdd.batch) = 0
    BY NoAddParts, LenProperties, EmptySeq
  <2>3. LiveRecord(NoAdd)
    BY <2>2, NoAddParts DEF LiveRecord, Apart
  <2> QED BY <2>1, <2>3, LiveMoves
<1> QED BY <1>1, <1>2, <1>3, <1>4, <1>5, <1>8, <1>9, <1>10, <1>11, <1>12 DEF AddStep

\* What StorageInner::add promises of every row, for batches in which two rows that follow
\* each other have one name only within a partition: besides what RowsFoundAgain says, no
\* row gets an id that was deleted in its partition before its add began.  The condition is
\* needed: the row after a switch of partitions takes the id of the row before it unseen.
THEOREM RegistryIsSound ==
  ASSUME \A b \in Batches : Apart(b)
  PROVE  RegistrySpec => []RegistrySound
<1>1. RegistryInit => RegistryInv /\ LiveRecords
  BY RegistryStart, LiveStart
<1>2. RegistryInv /\ LiveRecords /\ [RegistryNext]_registryVars => (RegistryInv /\ LiveRecords)'
  <2> SUFFICES ASSUME RegistryInv, LiveRecords, [RegistryNext]_registryVars PROVE LiveRecords'
    BY RegistryStep
  <2>1. CASE \E a \in Inserters : AddStep(a)
    BY <2>1, LiveAddStep
  <2>2. CASE UNCHANGED adding
    BY <2>2 DEF LiveRecords, LiveRecord
  <2>3. CASE RegistryNext /\ ~\E a \in Inserters : AddStep(a)
    <3>1. UNCHANGED adding
      BY <2>3 DEF RegistryNext, delete_series, MarkDeleted, FlushIndex, ResetCache, RotateCache, Reopen
    <3> QED BY <2>2, <3>1
  <2>4. CASE UNCHANGED registryVars
    BY <2>2, <2>4 DEF registryVars
  <2> QED BY <2>1, <2>3, <2>4
<1>3. RegistryInv /\ LiveRecords => RegistrySound
  <2>1. LiveRecords => RowsUnderLiveIds
    BY DEF LiveRecords, LiveRecord, RowsUnderLiveIds
  <2> QED BY <2>1, RegistryTyped, RowsAreIndexed DEF RegistrySound
<1> QED BY <1>1, <1>2, <1>3, PTL DEF RegistrySpec

=============================================================================
