------------------------------- MODULE Table -------------------------------
(***************************************************************************)
(* The table of monthly partitions of the storage: ingestion creates the   *)
(* partition of a month on demand, searches hold the partitions they read, *)
(* the retention watcher takes partitions off the list, and whoever drops  *)
(* the last reference to such a partition removes its directories.         *)
(*                                                                         *)
(* A partition is named by its month, since a second one for the same      *)
(* month cannot be made while the directories of the first exist.  What a  *)
(* partition does with its rows is the subject of module Partition: here a *)
(* row goes to the disk when it is added, as a part of the small or of the *)
(* big directory.  The order of the list matters to nobody and is left     *)
(* out.  The release build aborts on a panic.                              *)
(***************************************************************************)
EXTENDS Integers

CONSTANTS
  Adders,             \* ingestion threads
  Searchers,          \* threads that hold partitions: searches, snapshots, forced merges
  MonthLen,           \* length of a month
  Retention,          \* retention_msecs
  Future,             \* future_retention_msecs
  Ahead,              \* how far the rows that come in may be ahead of the clock
  MaxLag,             \* bound on the time between the watcher's look at the clock and its lock
  MarkerMayGoFirst,   \* whether a directory listing may return the marker before other entries
  StartTime,          \* the clock when the table is first opened
  MaxTime,            \* bound on the clock
  MaxRestarts         \* bound on crashes and orderly stops

ASSUME TableAssumption ==
  /\ MonthLen \in Nat \ {0} /\ Retention \in Nat /\ Future \in Nat /\ Ahead \in 0..Future
  /\ MaxLag \in Nat /\ MaxTime \in Nat /\ StartTime \in 0..MaxTime /\ MaxRestarts \in Nat /\ MarkerMayGoFirst \in BOOLEAN
  /\ Adders \cap Searchers = {} /\ "retention_watcher" \notin Adders \cup Searchers

VARIABLES
  now,        \* now_unix_milli()
  ptws,       \* PtwsState.ptws: the months with a listed partition
  watcher,    \* the retention watcher: whether it has read the clock, when, what it holds
  adder,      \* where every ingestion thread is, its row, the partitions it holds and, as
              \* history, whether the row is at the future edge of the retention
  searches,   \* the partitions every searcher holds
  mustDrop,   \* PartitionWrapper.must_drop
  drops,      \* the removals under way in drop_paths, by the thread that does them
  dir,        \* the entries of the directory of every month under small, big and indexdb
  json,       \* the directories in which the parts.json files of the month list parts
  status,     \* "open", "closed", "down", "aborted" (panic) or "failed" (panic in open)
  added,      \* history: timestamps of the rows added, but for those at the future edge, while
              \* they are in the retention
  restarts    \* history: crashes and orderly stops

memory == <<ptws, watcher, adder, searches, mustDrop, drops>>
disk   == <<dir, json>>
vars   == <<now, memory, disk, status, added, restarts>>

Times   == 0..(MaxTime + Future)
Kinds   == {"small", "big", "indexdb"}
Entries == {"dir", "parts.json", "parts", "broken", "marker"}
Threads == Adders \cup Searchers \cup {"retention_watcher"}

timestamp_to_partition_name(t) == t \div MonthLen

Months        == 0..((MaxTime + Future) \div MonthLen)
MinTime(m)    == m * MonthLen
MaxTimeOf(m)  == m * MonthLen + MonthLen - 1

\* Whether get_min_max_timestamps, called at time n, allows t.
InRetention(t, n) == n - Retention <= t /\ t <= n + Future

\* Mutant: a month is out of the retention as soon as its first row is.
Outside_Start(m, n) == MinTime(m) < n - Retention \/ MinTime(m) > n + Future

\* Whether every row of month m is outside the retention at time n.
Outside(m, n) == MaxTimeOf(m) < n - Retention \/ MinTime(m) > n + Future

\* The type of every variable.
TypeOK ==
  /\ now \in 0..MaxTime
  /\ ptws \subseteq Months
  /\ watcher \in [reading : BOOLEAN, at : 0..MaxTime, out : SUBSET Months]
  /\ adder \in [Adders -> [pc : {"idle", "get", "index", "add", "insert", "bounds", "missing"},
                           ts : Times, held : SUBSET Months, edge : BOOLEAN]]
  /\ searches \in [Searchers -> SUBSET Months]
  /\ mustDrop \subseteq Months
  /\ drops \subseteq [month : Months, by : Threads, kind : Kinds, step : {"mark", "remove"}]
  /\ dir \in [Kinds -> [Months -> SUBSET Entries]]
  /\ json \in [Months -> SUBSET Kinds]
  /\ status \in {"open", "closed", "down", "aborted", "failed"}
  /\ added \subseteq Times
  /\ restarts \in Nat

----------------------------------------------------------------------------
NoWatcher  == [reading |-> FALSE, at |-> 0, out |-> {}]
NoAdder    == [pc |-> "idle", ts |-> 0, held |-> {}, edge |-> FALSE]

\* The strong references to partitions that are left with the given list and threads.
Refs(ls, w, as, ss) ==
  ls \cup w.out \cup UNION ({as[a].held : a \in Adders} \cup {ss[s] : s \in Searchers})

Busy(t) == \E d \in drops : d.by = t

\* Mutant: the partition is looked for under a directory of another name.
Unref_Data(t, S, refs, flags) ==
  drops' = drops \cup {[month |-> m, by |-> t, kind |-> "data", step |-> "mark"] :
                         m \in (S \ refs) \cap flags}

\* PartitionWrapper::drop by thread t of those of the partitions S that nobody refers to
\* any more.
Unref(t, S, refs, flags) ==
  drops' = drops \cup {[month |-> m, by |-> t, kind |-> "small", step |-> "mark"] :
                         m \in (S \ refs) \cap flags}

Exists(m) == \E k \in Kinds : dir[k][m] # {}

Init ==
  /\ now = StartTime /\ ptws = {} /\ watcher = NoWatcher
  /\ adder = [a \in Adders |-> NoAdder] /\ searches = [s \in Searchers |-> {}]
  /\ mustDrop = {} /\ drops = {}
  /\ dir = [k \in Kinds |-> [m \in Months |-> {}]] /\ json = [m \in Months |-> {}]
  /\ status = "open" /\ added = {} /\ restarts = 0

\* Time passes; rows that have left the retention never come back into it.
Tick ==
  /\ now < MaxTime
  /\ watcher.reading => now - watcher.at < MaxLag
  /\ now' = now + 1
  /\ added' = {t \in added : t >= now' - Retention}
  /\ UNCHANGED <<memory, disk, status, restarts>>

\* The process ends; what was in memory is gone.
Down(st) ==
  /\ status' = st
  /\ ptws' = {} /\ watcher' = NoWatcher /\ adder' = [a \in Adders |-> NoAdder]
  /\ searches' = [s \in Searchers |-> {}] /\ mustDrop' = {} /\ drops' = {}

----------------------------------------------------------------------------
(* Ingestion.                                                              *)

\* Mutant: directories that exist are taken as they are.
must_mkdir_fail_if_exist_Reuse(m) == TRUE

\* Whether the directories of month m can be made.
must_mkdir_fail_if_exist(m) == ~Exists(m)

\* must_create_partition for a month without a listed partition, as adder a becomes n.
must_create_partition(a, m, n, new) ==
  IF must_mkdir_fail_if_exist(m)
  THEN /\ dir' = [k \in Kinds |-> [dir[k] EXCEPT ![m] =
                    @ \cup {"dir"} \cup (IF k = "big" THEN {} ELSE {"parts.json"})
                      \cup (IF k \in new THEN {"parts"} ELSE {})]]
       /\ json' = [json EXCEPT ![m] = new]
       /\ ptws' = ptws \cup {m}
       /\ adder' = [adder EXCEPT ![a] = n]
       /\ UNCHANGED <<watcher, searches, mustDrop, drops, status>>
  ELSE Down("aborted") /\ UNCHANGED disk

\* The row is so far ahead that its month was outside the retention for a watcher that read
\* the clock MaxLag ago.
AtEdge(t) == t > now + Future - MaxLag

\* `added` with the row of adder a.
Added(a) == added \cup (IF adder[a].edge THEN {} ELSE {adder[a].ts})

\* Storage::add starts with a row that is in the retention.
add(a, t) ==
  /\ status = "open" /\ adder[a].pc = "idle" /\ ~Busy(a)
  /\ InRetention(t, now) /\ t <= now + Ahead
  /\ adder' = [adder EXCEPT ![a] = [pc |-> "get", ts |-> t, held |-> {}, edge |-> AtEdge(t)]]
  /\ UNCHANGED <<now, ptws, watcher, searches, mustDrop, drops, disk, status, added, restarts>>

\* It gets the partition of the row, which it makes if need be, for the index ...
must_get_partition(a) ==
  /\ adder[a].pc = "get"
  /\ LET m == timestamp_to_partition_name(adder[a].ts)
         n == [adder[a] EXCEPT !.pc = "index", !.held = {m}]
     IN IF m \in ptws
        THEN /\ adder' = [adder EXCEPT ![a] = n]
             /\ UNCHANGED <<ptws, watcher, searches, mustDrop, drops, disk, status>>
        ELSE must_create_partition(a, m, n, {})
  /\ UNCHANGED <<now, added, restarts>>

\* ... registers the series in its index, and lets go of it.
create_global_indexes(a) ==
  /\ adder[a].pc = "index"
  /\ LET m == timestamp_to_partition_name(adder[a].ts)
     IN /\ dir' = [dir EXCEPT !["indexdb"][m] = @ \cup {"parts"}]
        /\ json' = [json EXCEPT ![m] = @ \cup {"indexdb"}]
  /\ adder' = [adder EXCEPT ![a].pc = "add", ![a].held = {}]
  /\ Unref(a, adder[a].held, Refs(ptws, watcher, adder', searches), mustDrop)
  /\ UNCHANGED <<now, ptws, watcher, searches, mustDrop, status, added, restarts>>

\* must_add_rows looks for the partition among those listed now ...
get_all_partitions(a) ==
  /\ adder[a].pc = "add" /\ ~Busy(a)
  /\ adder' = [adder EXCEPT ![a].pc = "insert", ![a].held = ptws]
  /\ UNCHANGED <<now, ptws, watcher, searches, mustDrop, drops, disk, status, added, restarts>>

\* ... and adds the row to it (add_rows ends, sooner or later, in a part of kind k);
add_rows(a, k) ==
  /\ adder[a].pc = "insert"
  /\ LET m == timestamp_to_partition_name(adder[a].ts)
     IN /\ m \in adder[a].held
        /\ dir' = [dir EXCEPT ![k][m] = @ \cup {"parts"}]
        /\ json' = [json EXCEPT ![m] = @ \cup {k}]
  /\ added' = Added(a)
  /\ adder' = [adder EXCEPT ![a] = NoAdder]
  /\ Unref(a, adder[a].held, Refs(ptws, watcher, adder', searches), mustDrop)
  /\ UNCHANGED <<now, ptws, watcher, searches, mustDrop, status, restarts>>

\* when there is none it lets go of those it holds,
MissingRow(a) ==
  /\ adder[a].pc = "insert"
  /\ timestamp_to_partition_name(adder[a].ts) \notin adder[a].held
  /\ adder' = [adder EXCEPT ![a].pc = "bounds", ![a].held = {}]
  /\ Unref(a, adder[a].held, Refs(ptws, watcher, adder', searches), mustDrop)
  /\ UNCHANGED <<now, ptws, watcher, searches, mustDrop, disk, status, added, restarts>>

\* skips a row that has left the retention meanwhile,
get_min_max_timestamps(a) ==
  /\ adder[a].pc = "bounds" /\ ~Busy(a)
  /\ adder' = IF InRetention(adder[a].ts, now)
              THEN [adder EXCEPT ![a].pc = "missing"] ELSE [adder EXCEPT ![a] = NoAdder]
  /\ UNCHANGED <<now, ptws, watcher, searches, mustDrop, drops, disk, status, added, restarts>>

\* and otherwise adds it, under the lock, to a partition made since or now.
must_add_rows(a, k) ==
  /\ adder[a].pc = "missing"
  /\ LET m == timestamp_to_partition_name(adder[a].ts)
     IN IF m \in ptws
        THEN /\ dir' = [dir EXCEPT ![k][m] = @ \cup {"parts"}]
             /\ json' = [json EXCEPT ![m] = @ \cup {k}]
             /\ adder' = [adder EXCEPT ![a] = NoAdder]
             /\ UNCHANGED <<ptws, watcher, searches, mustDrop, drops, status>>
        ELSE must_create_partition(a, m, NoAdder, {k})
  /\ added' = IF status' = "open" THEN Added(a) ELSE added
  /\ UNCHANGED <<now, restarts>>

\* A crash while a partition is being made leaves some of its directories, empty.
CreateCut(a, made) ==
  /\ adder[a].pc \in {"get", "missing"} /\ restarts < MaxRestarts
  /\ LET m == timestamp_to_partition_name(adder[a].ts)
     IN /\ m \notin ptws /\ ~Exists(m)
        /\ dir' = [k \in Kinds |-> [dir[k] EXCEPT ![m] = IF k \in made THEN {"dir"} ELSE {}]]
  /\ Down("down")
  /\ restarts' = restarts + 1
  /\ UNCHANGED <<now, json, added>>

----------------------------------------------------------------------------
(* Searches and the retention.                                             *)

\* get_partitions and get_all_partitions, for a search, a snapshot or a forced merge.
get_partitions(s) ==
  /\ status = "open" /\ searches[s] = {} /\ ptws # {} /\ ~Busy(s)
  /\ searches' = [searches EXCEPT ![s] = ptws]
  /\ UNCHANGED <<now, ptws, watcher, adder, mustDrop, drops, disk, status, added, restarts>>

EndSearch(s) ==
  /\ searches[s] # {}
  /\ searches' = [searches EXCEPT ![s] = {}]
  /\ Unref(s, searches[s], Refs(ptws, watcher, adder, searches'), mustDrop)
  /\ UNCHANGED <<now, ptws, watcher, adder, mustDrop, disk, status, added, restarts>>

\* The retention watcher wakes up and reads the clock,
retention_watcher ==
  /\ status = "open" /\ ~watcher.reading /\ watcher.out = {} /\ ~Busy("retention_watcher")
  /\ watcher' = [watcher EXCEPT !.reading = TRUE, !.at = now]
  /\ UNCHANGED <<now, ptws, adder, searches, mustDrop, drops, disk, status, added, restarts>>

\* takes the partitions outside the retention off the list, under the lock,
enforce_retention ==
  /\ watcher.reading
  /\ LET out == {m \in ptws : Outside(m, watcher.at)}
     IN ptws' = ptws \ out /\ watcher' = [NoWatcher EXCEPT !.out = out]
  /\ UNCHANGED <<now, adder, searches, mustDrop, drops, disk, status, added, restarts>>

\* Mutant: the flag is not set.
Retired_NoFlag(m) == mustDrop

\* The must_drop flags with that of m.
Retired(m) == mustDrop \cup {m}

\* and, without the lock, sets their must_drop and lets go of them.
EnforceDrop(m) ==
  /\ m \in watcher.out /\ ~Busy("retention_watcher")
  /\ mustDrop' = Retired(m)
  /\ watcher' = [watcher EXCEPT !.out = @ \ {m}]
  /\ Unref("retention_watcher", {m}, Refs(ptws, watcher', adder, searches), mustDrop')
  /\ UNCHANGED <<now, ptws, adder, searches, disk, status, added, restarts>>

----------------------------------------------------------------------------
(* must_remove_dir, for one directory of a dropped partition after another. *)

DropMark(d) ==
  /\ d.step = "mark"
  /\ dir' = [dir EXCEPT ![d.kind][d.month] = @ \cup {"marker"}]
  /\ drops' = (drops \ {d}) \cup {[d EXCEPT !.step = "remove"]}
  /\ UNCHANGED <<now, ptws, watcher, adder, searches, mustDrop, json, status, added, restarts>>

\* remove_dir_all removes the entries in the order of the directory listing; a crash may
\* come when a part has lost some of its files.
DropEntry(d, e) ==
  /\ d.step = "remove"
  /\ LET es == dir[d.kind][d.month]
     IN /\ e \in es \ {"dir"}
        /\ e = "marker" => MarkerMayGoFirst \/ es = {"dir", "marker"}
        /\ \E rest \in {es \ {e}} \cup
                       (IF e = "parts" THEN {(es \ {e}) \cup {"broken"}} ELSE {}) :
             dir' = [dir EXCEPT ![d.kind][d.month] = rest]
  /\ UNCHANGED <<now, memory, json, status, added, restarts>>

DropDir(d) ==
  /\ d.step = "remove" /\ dir[d.kind][d.month] = {"dir"}
  /\ dir' = [dir EXCEPT ![d.kind][d.month] = {}]
  /\ json' = [json EXCEPT ![d.month] = @ \ {d.kind}]
  /\ IF d.kind = "indexdb"
     THEN drops' = drops \ {d} /\ mustDrop' = mustDrop \ {d.month}
     ELSE /\ drops' = (drops \ {d}) \cup {[d EXCEPT !.step = "mark", !.kind =
                                             IF d.kind = "small" THEN "big" ELSE "indexdb"]}
          /\ UNCHANGED mustDrop
  /\ UNCHANGED <<now, ptws, watcher, adder, searches, status, added, restarts>>

----------------------------------------------------------------------------
(* Closing, crashing, opening.                                             *)

\* must_close takes the table by value, joins the watcher and closes every partition.
must_close ==
  /\ status = "open" /\ restarts < MaxRestarts
  /\ ~watcher.reading /\ watcher.out = {} /\ drops = {}
  /\ \A a \in Adders : adder[a].pc = "idle"
  /\ \A s \in Searchers : searches[s] = {}
  /\ Down("closed")
  /\ restarts' = restarts + 1
  /\ UNCHANGED <<now, disk, added>>

Crash ==
  /\ status = "open" /\ restarts < MaxRestarts
  /\ Down("down")
  /\ restarts' = restarts + 1
  /\ UNCHANGED <<now, disk, added>>

\* Mutant: only an empty directory is recognised.
is_partially_removed_dir_Empty(k, m) == dir[k][m] = {"dir"}

is_partially_removed_dir(k, m) == dir[k][m] = {"dir"} \/ "marker" \in dir[k][m]

\* must_populate_partition_names finishes the removal of partially removed directories.
Kept(k, m) == dir[k][m] # {} /\ ~is_partially_removed_dir(k, m)

Names == {m \in Months : \E k \in Kinds : Kept(k, m)}

\* must_read_part_names: where month m has parts, from parts.json or else from the
\* directories themselves.
ListedParts(m) ==
  LET found == {k \in Kinds : Kept(k, m) /\ {"parts", "broken"} \cap dir[k][m] # {}}
      file(k) == Kept(k, m) /\ "parts.json" \in dir[k][m]
  IN {k \in {"small", "big"} : IF file("small") THEN k \in json[m] ELSE k \in found}
     \cup {k \in {"indexdb"} : IF file("indexdb") THEN k \in json[m] ELSE k \in found}

\* must_open_partitions: every partition with a directory is opened, if its parts are there
\* and complete, and its missing directories are made.
must_open_table ==
  /\ status \in {"closed", "down", "aborted"}
  /\ IF \A m \in Names : \A k \in ListedParts(m) : Kept(k, m) /\ "parts" \in dir[k][m]
     THEN /\ status' = "open" /\ ptws' = Names
          /\ json' = [m \in Months |-> IF m \in Names THEN ListedParts(m) ELSE {}]
          /\ dir' = [k \in Kinds |-> [m \in Months |->
               IF m \notin Names THEN {}
               ELSE {"dir"} \cup (IF k = "big" THEN {} ELSE {"parts.json"})
                            \cup (IF k \in ListedParts(m) THEN {"parts"} ELSE {})]]
     ELSE status' = "failed" /\ UNCHANGED <<ptws, disk>>
  /\ UNCHANGED <<now, watcher, adder, searches, mustDrop, drops, added, restarts>>

AdderStep(a) ==
  \/ must_get_partition(a) \/ create_global_indexes(a) \/ get_all_partitions(a)
  \/ MissingRow(a) \/ get_min_max_timestamps(a)
  \/ \E k \in {"small", "big"} : add_rows(a, k) \/ must_add_rows(a, k)

WatcherStep == enforce_retention \/ \E m \in Months : EnforceDrop(m)

DropStep == \E d \in drops : DropMark(d) \/ DropDir(d) \/ \E e \in Entries : DropEntry(d, e)

Next ==
  \/ Tick \/ must_close \/ Crash \/ must_open_table
  \/ \E a \in Adders : \/ AdderStep(a)
                       \/ \E t \in Times : add(a, t)
                       \/ \E made \in {{"small"}, {"small", "big"}, Kinds} : CreateCut(a, made)
  \/ \E s \in Searchers : get_partitions(s) \/ EndSearch(s)
  \/ retention_watcher \/ WatcherStep \/ DropStep

Spec == Init /\ [][Next]_vars

\* Threads carry on: a search ends (it has a deadline), the watcher wakes up every minute,
\* removals go on, and a process that has ended is started again.
Fairness ==
  /\ \A a \in Adders : WF_vars(AdderStep(a))
  /\ \A s \in Searchers : WF_vars(EndSearch(s))
  /\ WF_vars(retention_watcher) /\ WF_vars(WatcherStep) /\ WF_vars(DropStep)
  /\ WF_vars(must_open_table)

FairSpec == Spec /\ Fairness

----------------------------------------------------------------------------
(* Properties.                                                             *)

\* Every partition somebody refers to has its directories with all the parts they should
\* hold, and none of them is marked for removal: drop_paths never works under a user, not
\* even under that of a partition made anew for the same month.
HeldPartitionsOnDisk ==
  \A m \in Refs(ptws, watcher, adder, searches) : \A k \in Kinds :
    /\ "dir" \in dir[k][m] /\ "marker" \notin dir[k][m]
    /\ k \in json[m] => "parts" \in dir[k][m]

\* A row that has been added and is in the retention is in a listed partition, so searches
\* find it: enforce_retention drops only what is fully outside the retention, and an add
\* that works on an old copy of the list loses nothing that still counts.  The exception is
\* a row that was, when add let it in, within MaxLag of the future edge: enforce_retention
\* may have read the clock before.
LiveRowsListed ==
  status = "open" => \A t \in added : InRetention(t, now) => timestamp_to_partition_name(t) \in ptws

\* The parts that parts.json lists are there whenever the table is opened, after an unclean
\* shutdown too (the assertion of must_open_parts).
OpenSucceeds == status # "failed"

\* A partition is only made where there is no directory of that month (the assertion of
\* must_mkdir_fail_if_exist).
CreateFindsNoDir == status # "aborted"

\* A month that is outside the retention leaves the disk, and for good.
RetiredMonthsLeave ==
  \A m \in Months : (m * MonthLen + MonthLen - 1 < now - Retention) ~> [](~Exists(m))

\* Partitions in use are whole on disk and the table opens again, whatever thread or crash cuts
\* into the making or the removal of a partition (PartitionWrapper::drop, must_open_table).
TableSound == TypeOK /\ HeldPartitionsOnDisk /\ OpenSucceeds
=============================================================================
