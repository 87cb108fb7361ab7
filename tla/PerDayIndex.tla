---------------------------- MODULE PerDayIndex -----------------------------
(***************************************************************************)
(* The per-day index and the caches that let ingestion skip it: the ids    *)
(* seen in the current and in the previous hour, and the ids that were     *)
(* registered for the next day ahead of time (storage/per_day.rs).         *)
(*                                                                         *)
(* An index entry is <<date, id>>.  dateMetricIDCache only ever holds      *)
(* entries that exist, so a miss there costs a second, harmless creation;  *)
(* it is the index itself here.  Creation is not lost: crashes are not     *)
(* modelled, an orderly restart starts with empty caches.                  *)
(***************************************************************************)
EXTENDS Integers, FiniteSets

CONSTANTS
  MetricIds,      \* the series
  Writers,        \* ingestion threads
  HoursPerDay,    \* 24 in the code
  MonthDays,      \* days in a partition
  MaxHour,        \* bound on the clock
  Stragglers,     \* whether a batch may be so slow that an updater moves on to a new hour meanwhile
  MaxReopens      \* bound on the restarts

ASSUME PerDayIndexAssumption ==
  /\ HoursPerDay \in Nat \ {0, 1} /\ MonthDays \in Nat \ {0}
  /\ MaxHour \in Nat /\ HoursPerDay <= MaxHour + 1 /\ MaxReopens \in Nat /\ Stragglers \in BOOLEAN

VARIABLES
  hour,            \* the clock, in hours
  perDay,          \* the entries of the per-day index
  hmCurr, hmPrev,  \* curr_hour_metric_ids, prev_hour_metric_ids
  nextDay,         \* next_day_metric_ids
  pendingHour,     \* pending_hour_entries
  pendingNextDay,  \* pending_next_day_metric_ids
  writers,         \* per thread: the row it adds
  retired,         \* the hour cache the updater still has to make hm_prev, if any
  reopens          \* history: restarts

caches     == <<hmCurr, hmPrev, nextDay, pendingHour, pendingNextDay, retired>>
perDayVars == <<hour, perDay, caches, writers, reopens>>

Hours        == 0..MaxHour + 1
Day(h)       == h \div HoursPerDay
Month(d)     == d \div MonthDays
FirstHour(h) == h % HoursPerDay = 0
LastHour(h)  == h % HoursPerDay = HoursPerDay - 1
Pred(n)      == IF n = 0 THEN 0 ELSE n - 1

HourCache == [hour : Hours, m : SUBSET MetricIds]
Idle      == [pc |-> "idle"]

\* The type of every variable; the hour caches are of different hours, the later current.
PerDayTypeOK ==
  /\ hour \in 0..MaxHour
  /\ perDay \subseteq Nat \X MetricIds
  /\ hmCurr \in HourCache /\ hmPrev \in HourCache
  /\ hmCurr.hour <= hour /\ (hmPrev.hour < hmCurr.hour \/ hmCurr.hour = 0)
  /\ nextDay.date \in 0..Day(hour) /\ nextDay.m \subseteq MetricIds
  /\ pendingHour \subseteq MetricIds /\ pendingNextDay \subseteq MetricIds
  /\ retired \subseteq HourCache /\ reopens \in 0..MaxReopens

\* What must_open makes of the caches at hour h.
Fresh(h) ==
  /\ hmCurr' = [hour |-> h, m |-> {}]
  /\ hmPrev' = [hour |-> Pred(h), m |-> {}]
  /\ nextDay' = [date |-> IF FirstHour(h) THEN Pred(Day(h)) ELSE Day(h), m |-> {}]
  /\ pendingHour' = {} /\ pendingNextDay' = {} /\ retired' = {}

\* The storage is opened in any hour of the first day.
PerDayInit ==
  /\ hour \in 0..HoursPerDay - 1
  /\ perDay = {}
  /\ hmCurr = [hour |-> hour, m |-> {}] /\ hmPrev = [hour |-> Pred(hour), m |-> {}]
  /\ nextDay = [date |-> 0, m |-> {}]
  /\ pendingHour = {} /\ pendingNextDay = {} /\ retired = {}
  /\ writers = [w \in Writers |-> Idle] /\ reopens = 0

----------------------------------------------------------------------------
(* add, for a row of series id at hour h.                                  *)

\* Mutant: an hour cache is taken for another day too.
InHourCaches_AnyDay(id, h) == id \in hmCurr.m \/ id \in hmPrev.m

\* An hour cache says that the entry of a row exists.
InHourCaches(id, h) ==
  \E hm \in {hmCurr, hmPrev} : Day(h) = Day(hm.hour) /\ id \in hm.m

\* add takes the hour caches once; what they say of the row is kept.  A new series gets its
\* per-day entry with its TSID; a row of the current hour is noted for the hour cache.
AddRow(w, id, h) ==
  /\ writers[w].pc = "idle" /\ h \in Hours /\ h <= hour + 1
  /\ writers' = [writers EXCEPT ![w] =
       [pc |-> "publish", id |-> id, hour |-> h, known |-> InHourCaches(id, h),
        month |-> Month(Day(hmCurr.hour)), note |-> h = hmCurr.hour /\ id \notin hmCurr.m,
        need |-> {}, ahead |-> FALSE]]
  /\ perDay' = IF \E d \in 0..Day(MaxHour) + 1 : <<d, id>> \in perDay
               THEN perDay ELSE perDay \cup {<<Day(h), id>>}
  /\ UNCHANGED <<hour, caches, reopens>>

\* The ids noted go to pending_hour_entries.
PublishHour(w) ==
  /\ writers[w].pc = "publish"
  /\ pendingHour' = IF writers[w].note THEN pendingHour \cup {writers[w].id} ELSE pendingHour
  /\ writers' = [writers EXCEPT ![w].pc = "check"]
  /\ UNCHANGED <<hour, perDay, hmCurr, hmPrev, nextDay, pendingNextDay, retired, reopens>>

\* The caches say that the row's entry exists; in the first hour of a day also the ids
\* that were registered ahead of it.
KnownToCaches(r) ==
  \/ FirstHour(hour) /\ Day(r.hour) = nextDay.date + 1 /\ r.id \in nextDay.m
  \/ r.known

\* In the last hour of a day that is not the last of its month, a row of that hour may
\* have its series registered for the next day.
MayPrefill(r) ==
  /\ r.month = Month(nextDay.date + 1)
  /\ LastHour(hour) /\ r.hour = hour /\ r.id \notin nextDay.m

\* prefill_next_index_db: the same for the first day of the next month.
NextMonth(r) ==
  IF LastHour(hour) /\ r.hour = hour /\ Month(Day(hour)) # Month(Day(hour) + 1)
  THEN {<<Day(hour) + 1, r.id>>} ELSE {}

\* prefill_next_index_db and the first half of update_per_date_data: which entries have
\* to be made.  Whether an id is prefilled depends on its hash and the minute.
CheckCaches(w, prefill) ==
  /\ writers[w].pc = "check"
  /\ LET r     == writers[w]
         ahead == prefill /\ MayPrefill(r)
         own   == IF KnownToCaches(r) THEN {} ELSE {<<Day(r.hour), r.id>>}
     IN /\ writers' = [writers EXCEPT ![w].pc = "ahead", ![w].ahead = ahead,
                                      ![w].need = own \cup (IF ahead THEN {<<Day(r.hour) + 1, r.id>>} ELSE {})]
        /\ perDay' = IF prefill THEN perDay \cup NextMonth(r) ELSE perDay
  /\ UNCHANGED <<hour, caches, reopens>>

\* The ids prefilled go to pending_next_day_metric_ids ...
PublishNextDay(w) ==
  /\ writers[w].pc = "ahead"
  /\ pendingNextDay' = IF writers[w].ahead THEN pendingNextDay \cup {writers[w].id} ELSE pendingNextDay
  /\ writers' = [writers EXCEPT ![w].pc = "write"]
  /\ UNCHANGED <<hour, perDay, hmCurr, hmPrev, nextDay, pendingHour, retired, reopens>>

\* ... and then the entries to the index.
create_per_day_indexes(w) ==
  /\ writers[w].pc = "write"
  /\ perDay' = perDay \cup writers[w].need
  /\ writers' = [writers EXCEPT ![w].pc = "store", ![w].need = {}]
  /\ UNCHANGED <<hour, caches, reopens>>

\* must_add_rows, the last call of add.
StoreRow(w) ==
  /\ writers[w].pc = "store"
  /\ writers' = [writers EXCEPT ![w] = Idle]
  /\ UNCHANGED <<hour, perDay, caches, reopens>>

----------------------------------------------------------------------------
(* The updaters, the clock and a restart.                                  *)

\* No batch is slower than the period of the updaters, unless Stragglers.
InTime(pcs) == Stragglers \/ \A w \in Writers : writers[w].pc \notin pcs

\* Mutant: what is pending is carried over to the first hour of a day.
Carried_Always(h) == pendingHour

\* The pending ids that go along to the new hour h.
Carried(h) == IF FirstHour(h) THEN {} ELSE pendingHour

\* update_curr_hour_metric_ids: the current cache grows, or that of the new hour replaces
\* it ...
update_curr_hour_metric_ids ==
  /\ retired = {}
  /\ IF hmCurr.hour = hour
     THEN /\ pendingHour # {}
          /\ hmCurr' = [hmCurr EXCEPT !.m = @ \cup pendingHour]
          /\ UNCHANGED retired
     ELSE /\ InTime({"publish"})
          /\ hmCurr' = [hour |-> hour, m |-> Carried(hour)]
          /\ retired' = {hmCurr}
  /\ pendingHour' = {}
  /\ UNCHANGED <<hour, perDay, hmPrev, nextDay, pendingNextDay, writers, reopens>>

\* Mutant: the new hour's cache becomes that of the previous hour.
RetireHour_New ==
  /\ retired # {} /\ hmPrev' = hmCurr
  /\ retired' = {}
  /\ UNCHANGED <<hour, perDay, hmCurr, nextDay, pendingHour, pendingNextDay, writers, reopens>>

\* ... and then becomes that of the previous hour.
RetireHour ==
  /\ \E hm \in retired : hmPrev' = hm
  /\ retired' = {}
  /\ UNCHANGED <<hour, perDay, hmCurr, nextDay, pendingHour, pendingNextDay, writers, reopens>>

\* The ids that go along to the cache of day d.
NextDayIds(d) == IF nextDay.date = d THEN pendingNextDay \cup nextDay.m ELSE {}

\* update_next_day_metric_ids; during the first hour of a day the ids of the day before are
\* kept, and what is pending is dropped.
update_next_day_metric_ids ==
  LET d == Day(hour) IN
  /\ pendingNextDay # {} \/ nextDay.date # d
  /\ IF nextDay.date + 1 = d /\ FirstHour(hour)
     THEN pendingNextDay # {} /\ UNCHANGED nextDay
     ELSE /\ nextDay.date # d => InTime({"ahead"})
          /\ nextDay' = [date |-> d, m |-> NextDayIds(d)]
  /\ pendingNextDay' = {}
  /\ UNCHANGED <<hour, perDay, hmCurr, hmPrev, pendingHour, retired, writers, reopens>>

\* The clock moves on; the updaters have run in the hour that ends.
Tick ==
  /\ hour < MaxHour
  /\ hmCurr.hour = hour /\ retired = {}
  /\ nextDay.date = Day(hour) \/ FirstHour(hour)
  /\ hour' = hour + 1
  /\ UNCHANGED <<perDay, caches, writers, reopens>>

ReopenPerDay ==
  /\ reopens < MaxReopens /\ \A w \in Writers : writers[w].pc = "idle"
  /\ Fresh(hour)
  /\ reopens' = reopens + 1
  /\ UNCHANGED <<hour, perDay, writers>>

PerDayNext ==
  \/ \E w \in Writers :
       \/ \E id \in MetricIds, h \in Hours : h + 1 >= hour /\ AddRow(w, id, h)
       \/ PublishHour(w) \/ PublishNextDay(w) \/ create_per_day_indexes(w) \/ StoreRow(w)
       \/ \E prefill \in BOOLEAN : CheckCaches(w, prefill)
  \/ update_curr_hour_metric_ids \/ RetireHour \/ update_next_day_metric_ids
  \/ Tick \/ ReopenPerDay

PerDaySpec == PerDayInit /\ [][PerDayNext]_perDayVars

----------------------------------------------------------------------------
(* Properties.                                                             *)

\* The entries that a thread has yet to write for a row it has announced.
Owed ==
  (UNION {writers[w].need : w \in {x \in Writers : writers[x].pc # "idle"}})
  \cup {<<Day(writers[w].hour), writers[w].id>> :
          w \in {x \in Writers : writers[x].pc \in {"publish", "check"}}}

\* A row that is stored can be found: the per-day index has its day, or the thread that
\* let the others skip it is about to write it (update_per_date_data).
RowsFindable ==
  \A w \in Writers : writers[w].pc = "store" =>
     <<Day(writers[w].hour), writers[w].id>> \in perDay \cup Owed

\* No cache promises an entry for its day that neither exists nor is about to be written,
\* over the changes of hour, day and month (update_curr_hour_metric_ids,
\* update_next_day_metric_ids).
CachesSound ==
  /\ \A hm \in {hmCurr, hmPrev} \cup retired : \A id \in hm.m : <<Day(hm.hour), id>> \in perDay \cup Owed
  /\ \A id \in nextDay.m : <<nextDay.date + 1, id>> \in perDay \cup Owed

\* The caches that let update_per_date_data skip the per-day index never hide a missing
\* entry: they promise only what exists, and every stored row is found on its day.
PerDaySound == PerDayTypeOK /\ RowsFindable /\ CachesSound
=============================================================================
