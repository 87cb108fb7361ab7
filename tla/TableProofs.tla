---------------------------- MODULE TableProofs ----------------------------
(***************************************************************************)
(* Proofs about the table of partitions, for all sets of threads and all   *)
(* lengths, lags and bounds.                                               *)
(***************************************************************************)
EXTENDS Table, TLAPS

MonthOf(t) == timestamp_to_partition_name(t)

\* The partitions somebody refers to.
RefsNow == Refs(ptws, watcher, adder, searches)

\* The directory of kind k of month m holds what it should, and nothing else.
WholeDir(k, m) ==
  dir[k][m] = {"dir"} \cup (IF k = "big" THEN {} ELSE {"parts.json"})
                      \cup (IF k \in json[m] THEN {"parts"} ELSE {})

\* The directories that the removal of a partition has still to remove when it is at kind k.
FromOn(k) == IF k = "small" THEN Kinds ELSE IF k = "big" THEN {"big", "indexdb"} ELSE {"indexdb"}

\* Without a process there are no threads.
NothingDown ==
  status # "open" =>
    /\ ptws = {} /\ watcher.out = {} /\ ~watcher.reading /\ drops = {}
    /\ \A a \in Adders : adder[a].pc = "idle" /\ adder[a].held = {}
    /\ \A s \in Searchers : searches[s] = {}

HeldWhole == \A m \in RefsNow, k \in Kinds : WholeDir(k, m)

\* One thread removes a partition, which nobody refers to.
DropsApart ==
  /\ \A d \in drops : d.month \notin RefsNow
  /\ \A d, e \in drops : d.month = e.month => d = e

DropsDirs ==
  \A d \in drops, k \in Kinds :
    IF k \in FromOn(d.kind) THEN "dir" \in dir[k][d.month] ELSE dir[k][d.month] = {}

\* The partition an adder indexes its row in is the one it holds.
IndexedHeld == \A a \in Adders : adder[a].pc = "index" => adder[a].held = {MonthOf(adder[a].ts)}

\* Rows that count are within MaxLag of what any clock has read.
RowsAhead ==
  /\ \A t \in added : t <= now + Future - MaxLag
  /\ \A a \in Adders : adder[a].pc # "idle" /\ ~adder[a].edge => adder[a].ts <= now + Future - MaxLag
  /\ watcher.reading => watcher.at <= now /\ now - watcher.at <= MaxLag

\* The rows that count are in listed partitions, or will be when the table is opened.
RowsListed ==
  /\ \A t \in added : t >= now - Retention => MonthOf(t) \in (IF status = "open" THEN ptws ELSE Names)
  /\ \A a \in Adders :
       /\ adder[a].pc = "insert" /\ ~adder[a].edge
       /\ MonthOf(adder[a].ts) \in adder[a].held /\ adder[a].ts >= now - Retention
       => MonthOf(adder[a].ts) \in ptws

Holding == HeldWhole /\ DropsApart /\ DropsDirs

TableInv == TypeOK /\ NothingDown /\ Holding /\ IndexedHeld /\ RowsAhead /\ RowsListed

----------------------------------------------------------------------------
\* Who refers to a partition: the list, the watcher, adders and searches.
LEMMA InRefs ==
  ASSUME NEW ls, NEW w, NEW as, NEW ss, NEW m
  PROVE  m \in Refs(ls, w, as, ss) <=>
           m \in ls \/ m \in w.out \/ (\E a \in Adders : m \in as[a].held) \/ (\E s \in Searchers : m \in ss[s])
BY DEF Refs

\* A time lies in its month.
LEMMA MonthInRange ==
  ASSUME NEW t \in Times
  PROVE  /\ MonthOf(t) \in Months
         /\ MinTime(MonthOf(t)) <= t /\ t <= MaxTimeOf(MonthOf(t))
<1>1. MonthLen \in Nat \ {0} /\ t \in Nat /\ t <= MaxTime + Future /\ MaxTime + Future \in Nat
  BY TableAssumption DEF Times
<1>2. t \div MonthLen \in Nat /\ (t \div MonthLen) * MonthLen <= t /\ t < (t \div MonthLen) * MonthLen + MonthLen
  BY <1>1
<1>3. t \div MonthLen <= (MaxTime + Future) \div MonthLen /\ (MaxTime + Future) \div MonthLen \in Nat
  BY <1>1
<1> QED BY <1>1, <1>2, <1>3 DEF MonthOf, timestamp_to_partition_name, Months, MinTime, MaxTimeOf

\* The removals that thread t begins.
Begun(t, M) == {[month |-> m, by |-> t, kind |-> "small", step |-> "mark"] : m \in M}

\* The drops a thread begins, one for a month.
LEMMA BegunIs ==
  ASSUME NEW t, NEW M
  PROVE  \A d \in Begun(t, M) : d.month \in M /\ d.kind = "small" /\ d.step = "mark" /\ d.by = t
                                /\ \A e \in Begun(t, M) : d.month = e.month => d = e
BY DEF Begun

\* Partitions in use stay whole, and those a thread lets go of as the last one are removed by it.
LEMMA HoldStep ==
  ASSUME Holding, NEW t, NEW M, drops' = drops \cup Begun(t, M),
         M \subseteq RefsNow, M \cap RefsNow' = {}, \A d \in drops : d.month \notin RefsNow',
         \A m \in RefsNow \cup RefsNow', k \in Kinds : WholeDir(k, m)',
         \A d \in drops, k \in Kinds : dir'[k][d.month] = dir[k][d.month]
  PROVE  Holding'
<1>1. HeldWhole'
  BY DEF HeldWhole
<1>2. \A d \in drops' : d \in drops \/ (d \in Begun(t, M) /\ d.month \in M /\ d.kind = "small")
  BY BegunIs
<1>3. DropsApart'
  <2>1. \A d \in drops' : d.month \notin RefsNow'
    BY <1>2
  <2>2. \A d, e \in drops' : d.month = e.month => d = e
    <3>1. \A d, e \in drops : d.month = e.month => d = e
      BY DEF Holding, DropsApart
    <3>2. \A d \in drops, e \in Begun(t, M) : d.month # e.month
      BY BegunIs DEF Holding, DropsApart
    <3>3. \A d, e \in Begun(t, M) : d.month = e.month => d = e
      BY BegunIs
    <3> QED BY <3>1, <3>2, <3>3
  <2> QED BY <2>1, <2>2 DEF DropsApart
<1>4. DropsDirs'
  <2> SUFFICES ASSUME NEW d \in drops', NEW k \in Kinds
               PROVE  IF k \in FromOn(d.kind) THEN "dir" \in dir'[k][d.month] ELSE dir'[k][d.month] = {}
    BY DEF DropsDirs
  <2>1. CASE d \in drops
    BY <2>1 DEF Holding, DropsDirs
  <2>2. CASE d.month \in M /\ d.kind = "small"
    <3>1. WholeDir(k, d.month)'
      BY <2>2
    <3>2. "dir" \in dir'[k][d.month]
      BY <3>1 DEF WholeDir
    <3> QED BY <2>2, <3>2 DEF FromOn
  <2> QED BY <1>2, <2>1, <2>2
<1> QED BY <1>1, <1>3, <1>4 DEF Holding

\* A step that adds no reference and leaves the disk alone.
LEMMA HoldKept ==
  ASSUME Holding, drops' = drops, \A m \in RefsNow' : m \in RefsNow, UNCHANGED <<dir, json>>
  PROVE  Holding'
<1>1. \A k, m : WholeDir(k, m)' <=> WholeDir(k, m)
  BY DEF WholeDir
<1>2. HeldWhole' /\ DropsApart' /\ DropsDirs'
  BY <1>1 DEF Holding, HeldWhole, DropsApart, DropsDirs
<1> QED BY <1>2 DEF Holding

\* A thread lets go of partitions.
LEMMA HoldUnref ==
  ASSUME Holding, NEW t, NEW S \in SUBSET RefsNow, NEW flags, Unref(t, S, RefsNow', flags),
         \A m \in RefsNow' : m \in RefsNow,
         \A m \in RefsNow, k \in Kinds : WholeDir(k, m)',
         \A d \in drops, k \in Kinds : dir'[k][d.month] = dir[k][d.month]
  PROVE  Holding'
<1> DEFINE M == (S \ RefsNow') \cap flags
<1>1. drops' = drops \cup Begun(t, M) /\ M \subseteq RefsNow /\ M \cap RefsNow' = {}
  BY DEF Unref, Begun
<1>2. \A d \in drops : d.month \notin RefsNow'
  BY DEF Holding, DropsApart
<1> HIDE DEF M
<1> QED BY <1>1, <1>2, HoldStep

\* The directory of kind k of month m becomes X, and the others stay.
SetDir(k, m, X) == dir' = [dir EXCEPT ![k][m] = X]

\* The entries of one directory are replaced.
LEMMA DirSet ==
  ASSUME TypeOK, NEW k \in Kinds, NEW m \in Months, NEW X \in SUBSET Entries, SetDir(k, m, X)
  PROVE  /\ dir' \in [Kinds -> [Months -> SUBSET Entries]] /\ dir'[k][m] = X
         /\ \A j \in Kinds, n \in Months : j # k \/ n # m => dir'[j][n] = dir[j][n]
BY DEF TypeOK, SetDir

----------------------------------------------------------------------------
(* The steps.                                                              *)

AdderType == [pc : {"idle", "get", "index", "add", "insert", "bounds", "missing"},
              ts : Times, held : SUBSET Months, edge : BOOLEAN]
WatcherType == [reading : BOOLEAN, at : 0..MaxTime, out : SUBSET Months]

\* The types of what the steps leave alone most of the time.
DiskTyped ==
  /\ dir \in [Kinds -> [Months -> SUBSET Entries]]
  /\ json \in [Months -> SUBSET Kinds]

DropsTyped == drops \subseteq [month : Months, by : Threads, kind : Kinds, step : {"mark", "remove"}]

RestTyped ==
  /\ now \in 0..MaxTime /\ ptws \subseteq Months /\ mustDrop \subseteq Months
  /\ status \in {"open", "closed", "down", "aborted", "failed"}
  /\ added \subseteq Times /\ restarts \in Nat

\* The type invariant, by the variables that steps change together.
LEMMA TypeParts ==
  TypeOK <=> /\ RestTyped /\ DiskTyped /\ DropsTyped /\ watcher \in WatcherType
             /\ adder \in [Adders -> AdderType] /\ searches \in [Searchers -> SUBSET Months]
BY DEF TypeOK, RestTyped, DiskTyped, DropsTyped, WatcherType, AdderType

\* Times are integers.
LEMMA TimesAreIntegers ==
  /\ \A t \in Times : t \in Int
  /\ \A t \in 0..MaxTime : t \in Int
  /\ Future \in Int /\ MaxLag \in Int /\ Retention \in Int /\ MaxLag >= 0
BY TableAssumption DEF Times

WholeAreNamed == \A m \in Months : WholeDir("small", m) => m \in Names

\* What is on the list is found again when the table is opened.
LEMMA ListedIsNamed ==
  WholeAreNamed
<1> SUFFICES ASSUME NEW m \in Months, WholeDir("small", m)
             PROVE  m \in Names
  BY DEF WholeAreNamed
<1>1. "small" \in Kinds /\ "parts.json" \in dir["small"][m] /\ "marker" \notin dir["small"][m]
  BY DEF WholeDir, Kinds
<1>2. Kept("small", m)
  BY <1>1 DEF Kept, is_partially_removed_dir
<1> QED BY <1>1, <1>2 DEF Names

\* The process ends.
LEMMA DownStep ==
  ASSUME TableInv, status = "open", NEW st \in {"closed", "down", "aborted"}, Down(st),
         UNCHANGED <<now, added>>, DiskTyped', restarts' \in Nat,
         \A m \in ptws : dir'["small"][m] = dir["small"][m] /\ json'[m] = json[m]
  PROVE  TableInv'
<1>1. /\ status' = st /\ ptws' = {} /\ mustDrop' = {} /\ drops' = {} /\ watcher' = NoWatcher
      /\ adder' = [a \in Adders |-> NoAdder] /\ searches' = [s \in Searchers |-> {}]
  BY DEF Down
<1>2. /\ NoWatcher.out = {} /\ NoWatcher.reading = FALSE /\ NoWatcher \in WatcherType
      /\ NoAdder.pc = "idle" /\ NoAdder.held = {} /\ NoAdder \in AdderType
  BY TableAssumption DEF NoWatcher, NoAdder, WatcherType, AdderType, Times
<1>3. TypeOK'
  <2>1. RestTyped' /\ DropsTyped'
    BY <1>1 DEF TableInv, TypeOK, RestTyped, DropsTyped
  <2>2. watcher' \in WatcherType /\ adder' \in [Adders -> AdderType] /\ searches' \in [Searchers -> SUBSET Months]
    BY <1>1, <1>2
  <2>3. (RestTyped /\ DiskTyped /\ DropsTyped /\ watcher \in WatcherType
         /\ adder \in [Adders -> AdderType] /\ searches \in [Searchers -> SUBSET Months] => TypeOK)'
    BY TypeParts, PTL
  <2> QED BY <2>1, <2>2, <2>3
<1>4. RefsNow' = {}
  BY <1>1, <1>2, InRefs DEF RefsNow
<1>5. Holding'
  BY <1>1, <1>4 DEF Holding, HeldWhole, DropsApart, DropsDirs
<1>6. NothingDown' /\ IndexedHeld' /\ RowsAhead'
  BY <1>1, <1>2 DEF NothingDown, IndexedHeld, RowsAhead, TableInv
<1>7. \A m \in ptws : m \in Names'
  <2> SUFFICES ASSUME NEW m \in ptws PROVE m \in Names'
    OBVIOUS
  <2>1. m \in Months /\ m \in RefsNow
    BY InRefs DEF TableInv, TypeOK, RefsNow
  <2>2. WholeDir("small", m)
    BY <2>1 DEF TableInv, Holding, HeldWhole, Kinds
  <2>3. WholeDir("small", m)'
    BY <2>2 DEF WholeDir
  <2>4. WholeAreNamed'
    BY ListedIsNamed, PTL
  <2> QED BY <2>1, <2>3, <2>4 DEF WholeAreNamed
<1>8. RowsListed'
  BY <1>1, <1>2, <1>7 DEF RowsListed, TableInv
<1> QED BY <1>3, <1>5, <1>6, <1>8 DEF TableInv

\* The clock moves on.
LEMMA TickStep ==
  ASSUME TableInv, Tick
  PROVE  TableInv'
<1>1. /\ now' = now + 1 /\ now < MaxTime /\ now \in 0..MaxTime /\ added' = {t \in added : t >= now' - Retention}
      /\ added \subseteq Times
      /\ watcher.reading => now - watcher.at < MaxLag
      /\ UNCHANGED <<ptws, watcher, adder, searches, mustDrop, drops, dir, json, status, restarts>>
  BY DEF Tick, TableInv, TypeOK, memory, disk
<1>2. now' \in 0..MaxTime
  BY <1>1, TableAssumption
<1>3. TypeOK'
  BY <1>1, <1>2 DEF TypeOK, TableInv
<1>4. NothingDown' /\ IndexedHeld'
  BY <1>1 DEF NothingDown, IndexedHeld, TableInv
<1>5. Holding'
  <2>1. RefsNow' = RefsNow
    BY <1>1 DEF RefsNow
  <2> QED BY <1>1, <2>1, HoldKept DEF TableInv
<1>6. /\ now \in Int /\ \A t \in added : t \in Int
      /\ \A a \in Adders : adder[a].ts \in Int
      /\ watcher.at \in Int
  BY <1>1, TimesAreIntegers DEF TableInv, TypeOK
<1>7. RowsAhead'
  <2>1. \A t \in Int : t <= now + Future - MaxLag => t <= now' + Future - MaxLag
    BY <1>1, <1>6, TimesAreIntegers
  <2>2. watcher.reading => watcher.at <= now' /\ now' - watcher.at <= MaxLag
    BY <1>1, <1>6, TimesAreIntegers DEF RowsAhead, TableInv
  <2> QED BY <1>1, <1>6, <2>1, <2>2 DEF RowsAhead, TableInv
<1>8. RowsListed'
  <2>1. Names' = Names
    BY <1>1 DEF Names, Kept, is_partially_removed_dir
  <2>2. \A t \in Int : t >= now' - Retention => t >= now - Retention
    BY <1>1, <1>6, TimesAreIntegers
  <2> QED BY <1>1, <1>6, <2>1, <2>2 DEF RowsListed, TableInv
<1> QED BY <1>3, <1>4, <1>5, <1>7, <1>8 DEF TableInv

\* Rows that come to count are recent and in listed partitions.
NewRowsListed ==
  /\ added' \subseteq Times
  /\ \A t \in added' \ added :
       /\ t <= now + Future - MaxLag
       /\ t >= now - Retention => MonthOf(t) \in ptws'

\* A step of one adder, which may also list a partition and add a row.
LEMMA AdderMoves ==
  ASSUME TableInv, NEW a \in Adders, NEW n \in AdderType, adder' = [adder EXCEPT ![a] = n],
         status = "open", UNCHANGED <<now, watcher, searches, mustDrop, status, restarts>>,
         ptws \subseteq ptws', ptws' \subseteq Months, NewRowsListed,
         DiskTyped', DropsTyped', Holding',
         n.pc = "index" => n.held = {MonthOf(n.ts)},
         n.pc # "idle" /\ ~n.edge => n.ts <= now + Future - MaxLag,
         n.pc = "insert" => n.held = ptws'
  PROVE  TableInv'
<1>1. adder'[a] = n /\ (\A b \in Adders \ {a} : adder'[b] = adder[b]) /\ adder' \in [Adders -> AdderType]
  BY TypeParts DEF TableInv
<1>2. TypeOK'
  <2>1. RestTyped'
    BY DEF TableInv, TypeOK, RestTyped, NewRowsListed
  <2>2. watcher' \in WatcherType /\ searches' \in [Searchers -> SUBSET Months]
    BY TypeParts DEF TableInv
  <2>3. (RestTyped /\ DiskTyped /\ DropsTyped /\ watcher \in WatcherType
         /\ adder \in [Adders -> AdderType] /\ searches \in [Searchers -> SUBSET Months] => TypeOK)'
    BY TypeParts, PTL
  <2> QED BY <1>1, <2>1, <2>2, <2>3
<1>3. NothingDown'
  BY DEF NothingDown
<1>4. IndexedHeld'
  BY <1>1 DEF IndexedHeld, TableInv
<1>5. RowsAhead'
  BY <1>1 DEF RowsAhead, TableInv, NewRowsListed
<1>6. RowsListed'
  <2>1. \A t \in added' : t >= now' - Retention => MonthOf(t) \in ptws'
    BY DEF RowsListed, TableInv, NewRowsListed
  <2>2. \A b \in Adders :
          /\ adder'[b].pc = "insert" /\ ~adder'[b].edge
          /\ MonthOf(adder'[b].ts) \in adder'[b].held /\ adder'[b].ts >= now' - Retention
          => MonthOf(adder'[b].ts) \in ptws'
    BY <1>1 DEF RowsListed, TableInv
  <2> QED BY <2>1, <2>2 DEF RowsListed
<1> QED BY <1>2, <1>3, <1>4, <1>5, <1>6 DEF TableInv

\* Where the threads are, the process runs.
LEMMA ThreadsUp ==
  ASSUME TableInv
  PROVE  /\ \A a \in Adders : adder[a].pc # "idle" => status = "open"
         /\ watcher.reading => status = "open"
         /\ watcher.out # {} => status = "open"
         /\ drops # {} => status = "open"
         /\ \A s \in Searchers : searches[s] # {} => status = "open"
BY DEF TableInv, NothingDown

\* What adder a refers to, before and after its step.
LEMMA AdderRefs ==
  ASSUME TableInv, NEW a \in Adders, NEW n, adder' = [adder EXCEPT ![a] = n],
         ptws \subseteq ptws', UNCHANGED <<watcher, searches>>
  PROVE  /\ adder[a].held \subseteq RefsNow /\ ptws \subseteq RefsNow
         /\ \A m \in RefsNow' : m \in RefsNow \/ m \in ptws' \/ m \in n.held
<1>1. adder'[a] = n /\ (\A b \in Adders \ {a} : adder'[b] = adder[b])
  BY TypeParts DEF TableInv
<1>2. \A m \in RefsNow' : m \in RefsNow \/ m \in ptws' \/ m \in n.held
  <2> SUFFICES ASSUME NEW m \in RefsNow', m \notin RefsNow, m \notin ptws', m \notin n.held
               PROVE  FALSE
    OBVIOUS
  <2>3. m \in Refs(ptws', watcher, adder', searches)
    BY DEF RefsNow
  <2>1. m \in watcher.out \/ (\E b \in Adders : m \in adder'[b].held) \/ (\E s \in Searchers : m \in searches[s])
    <3>1. m \in ptws' \/ m \in watcher.out \/ (\E b \in Adders : m \in adder'[b].held) \/ (\E s \in Searchers : m \in searches[s])
      BY <2>3 DEF Refs
    <3> QED BY <3>1
  <2>2. m \notin watcher.out /\ (\A b \in Adders : m \notin adder[b].held) /\ (\A s \in Searchers : m \notin searches[s])
    BY InRefs DEF RefsNow
  <2> QED BY <1>1, <2>1, <2>2
<1> QED BY <1>2, InRefs DEF RefsNow

\* Letting go of partitions begins typed drops.
LEMMA UnrefTyped ==
  ASSUME DropsTyped, NEW t \in Threads, NEW S \in SUBSET Months, NEW refs, NEW flags, Unref(t, S, refs, flags)
  PROVE  DropsTyped'
BY DEF DropsTyped, Unref, Kinds

\* Who is referred to is a month.
LEMMA RefsAreMonths ==
  ASSUME TableInv
  PROVE  \A n \in RefsNow : n \in Months
<1>1. \A a \in Adders : adder[a].held \subseteq Months
  BY DEF TableInv, TypeOK
<1>2. ptws \subseteq Months /\ watcher.out \subseteq Months /\ \A s \in Searchers : searches[s] \subseteq Months
  BY DEF TableInv, TypeOK
<1> QED BY <1>1, <1>2, InRefs DEF RefsNow

\* A row, or an index entry, goes to the disk in a partition that is in use.
LEMMA PartAdded ==
  ASSUME TableInv, NEW k \in Kinds, NEW m \in RefsNow, m \in Months,
         dir' = [dir EXCEPT ![k][m] = @ \cup {"parts"}], json' = [json EXCEPT ![m] = @ \cup {k}]
  PROVE  /\ DiskTyped'
         /\ \A j \in Kinds, n \in RefsNow : WholeDir(j, n)'
         /\ \A d \in drops, j \in Kinds : dir'[j][d.month] = dir[j][d.month]
         /\ \A j \in Kinds, n \in Months \ {m} : dir'[j][n] = dir[j][n] /\ json'[n] = json[n]
<1>1. dir \in [Kinds -> [Months -> SUBSET Entries]] /\ json \in [Months -> SUBSET Kinds] /\ TypeOK
  BY DEF TableInv, TypeOK
<1>2. dir[k][m] \cup {"parts"} \in SUBSET Entries
  BY <1>1 DEF Entries
<1> DEFINE X == dir[k][m] \cup {"parts"}
<1>3. SetDir(k, m, X)
  BY DEF SetDir
<1> HIDE DEF X
<1>4. /\ dir' \in [Kinds -> [Months -> SUBSET Entries]] /\ dir'[k][m] = X
      /\ \A j \in Kinds, n \in Months : j # k \/ n # m => dir'[j][n] = dir[j][n]
  <2>1. X \in SUBSET Entries
    BY <1>2 DEF X
  <2> QED BY <1>1, <1>3, <2>1, DirSet
<1>5. json' \in [Months -> SUBSET Kinds] /\ json'[m] = json[m] \cup {k} /\ \A n \in Months \ {m} : json'[n] = json[n]
  BY <1>1
<1>6. \A n \in RefsNow : n \in Months
  BY RefsAreMonths
<1>7. \A j \in Kinds, n \in RefsNow : WholeDir(j, n)
  BY DEF TableInv, Holding, HeldWhole
<1>8. \A j \in Kinds, n \in RefsNow : WholeDir(j, n)'
  <2> SUFFICES ASSUME NEW j \in Kinds, NEW n \in RefsNow PROVE WholeDir(j, n)'
    OBVIOUS
  <2>1. WholeDir(j, n) /\ n \in Months
    BY <1>6, <1>7
  <2>2. CASE n # m
    BY <1>4, <1>5, <2>1, <2>2 DEF WholeDir
  <2>3. CASE n = m /\ j # k
    <3>1. dir'[j][n] = dir[j][n] /\ (j \in json'[n] <=> j \in json[n])
      BY <1>4, <1>5, <2>1, <2>3
    <3> QED BY <2>1, <3>1 DEF WholeDir
  <2>4. CASE n = m /\ j = k
    <3>1. dir'[j][n] = dir[j][n] \cup {"parts"} /\ j \in json'[n]
      BY <1>4, <1>5, <2>1, <2>4 DEF X
    <3> QED BY <2>1, <3>1 DEF WholeDir
  <2> QED BY <2>2, <2>3, <2>4
<1>9. \A d \in drops : d.month # m /\ d.month \in Months
  BY DEF TableInv, Holding, DropsApart, TypeOK
<1> QED BY <1>4, <1>5, <1>8, <1>9 DEF DiskTyped

\* The fields of an adder at rest.
LEMMA NoAdderTyped == NoAdder \in AdderType /\ NoAdder.pc = "idle" /\ NoAdder.held = {}
BY TableAssumption DEF NoAdder, AdderType, Times

\* The adder's record and its month.
LEMMA AdderParts ==
  ASSUME TableInv, NEW a \in Adders
  PROVE  /\ adder[a] \in AdderType /\ adder[a].ts \in Times /\ adder[a].held \subseteq Months
         /\ MonthOf(adder[a].ts) \in Months
         /\ adder[a].pc # "idle" /\ ~adder[a].edge => adder[a].ts <= now + Future - MaxLag
<1>1. adder[a] \in AdderType
  BY TypeParts DEF TableInv
<1>2. adder[a].ts \in Times /\ adder[a].held \subseteq Months
  BY <1>1 DEF AdderType
<1> QED BY <1>1, <1>2, MonthInRange DEF TableInv, RowsAhead

\* No row comes to count.
LEMMA SameRows ==
  ASSUME TableInv, added' = added
  PROVE  NewRowsListed
BY DEF NewRowsListed, TableInv, TypeOK

\* The row of adder a comes to count.
LEMMA RowAdded ==
  ASSUME TableInv, NEW a \in Adders, adder[a].pc # "idle", added' = Added(a),
         adder[a].ts >= now - Retention /\ ~adder[a].edge => MonthOf(adder[a].ts) \in ptws'
  PROVE  NewRowsListed
<1>1. added' \subseteq Times
  BY AdderParts DEF Added, TableInv, TypeOK
<1>2. \A t \in added' \ added : ~adder[a].edge /\ t = adder[a].ts
  BY DEF Added
<1> QED BY <1>1, <1>2, AdderParts DEF NewRowsListed

\* The disk stays typed when it does not change.
LEMMA DiskSame ==
  ASSUME TableInv, UNCHANGED <<dir, json>>
  PROVE  DiskTyped'
BY DEF TableInv, TypeOK, DiskTyped

\* The drops stay typed when they do not change.
LEMMA DropsSame ==
  ASSUME TableInv, drops' = drops
  PROVE  DropsTyped'
BY DEF TableInv, TypeOK, DropsTyped

\* A step of one adder that changes nothing but the adder.
LEMMA AdderOnly ==
  ASSUME TableInv, NEW a \in Adders, NEW n \in AdderType, adder' = [adder EXCEPT ![a] = n],
         status = "open",
         UNCHANGED <<now, ptws, watcher, searches, mustDrop, drops, dir, json, status, added, restarts>>,
         n.held \subseteq RefsNow,
         n.pc = "index" => n.held = {MonthOf(n.ts)},
         n.pc # "idle" /\ ~n.edge => n.ts <= now + Future - MaxLag,
         n.pc = "insert" => n.held = ptws
  PROVE  TableInv'
<1>1. DiskTyped' /\ DropsTyped' /\ NewRowsListed /\ ptws \subseteq ptws' /\ ptws' \subseteq Months
  BY DiskSame, DropsSame, SameRows DEF TableInv, TypeOK
<1>2. \A m \in RefsNow' : m \in RefsNow
  BY <1>1, AdderRefs
<1>3. Holding'
  BY <1>2, HoldKept DEF TableInv
<1> QED BY <1>1, <1>3, AdderMoves

\* A step of one adder in which it lets go of all it holds.
LEMMA AdderLetsGo ==
  ASSUME TableInv, NEW a \in Adders, NEW n \in AdderType, adder' = [adder EXCEPT ![a] = n],
         status = "open", n.held = {}, n.pc \notin {"index", "insert"},
         Unref(a, adder[a].held, Refs(ptws, watcher, adder', searches), mustDrop),
         UNCHANGED <<now, ptws, watcher, searches, mustDrop, status, restarts>>,
         n.pc # "idle" /\ ~n.edge => n.ts <= now + Future - MaxLag,
         NewRowsListed, DiskTyped',
         \A m \in RefsNow, k \in Kinds : WholeDir(k, m)',
         \A d \in drops, k \in Kinds : dir'[k][d.month] = dir[k][d.month]
  PROVE  TableInv'
<1>1. ptws \subseteq ptws' /\ ptws' \subseteq Months
  BY DEF TableInv, TypeOK
<1>2. adder[a].held \subseteq RefsNow /\ \A m \in RefsNow' : m \in RefsNow
  BY <1>1, AdderRefs
<1>3. Refs(ptws, watcher, adder', searches) = RefsNow'
  BY DEF RefsNow
<1>4. Holding'
  BY <1>2, <1>3, HoldUnref DEF TableInv
<1>5. DropsTyped'
  <2>1. DropsTyped /\ a \in Threads /\ adder[a].held \in SUBSET Months
    BY TypeParts, AdderParts DEF TableInv, Threads
  <2> QED BY <2>1, UnrefTyped
<1> QED BY <1>1, <1>4, <1>5, AdderMoves

\* The directories stay whole when they do not change.
LEMMA WholeSame ==
  ASSUME TableInv, UNCHANGED <<dir, json>>
  PROVE  /\ \A m \in RefsNow, k \in Kinds : WholeDir(k, m)'
         /\ \A d \in drops, k \in Kinds : dir'[k][d.month] = dir[k][d.month]
BY DEF TableInv, Holding, HeldWhole, WholeDir

\* An adder takes up a row.
LEMMA AddStep ==
  ASSUME TableInv, NEW a \in Adders, NEW t \in Times, add(a, t)
  PROVE  TableInv'
<1> DEFINE n == [pc |-> "get", ts |-> t, held |-> {}, edge |-> AtEdge(t)]
<1>1. /\ adder' = [adder EXCEPT ![a] = n] /\ status = "open"
      /\ UNCHANGED <<now, ptws, watcher, searches, mustDrop, drops, dir, json, status, added, restarts>>
  BY DEF add, disk
<1>2. n \in AdderType /\ n.pc = "get" /\ n.held = {} /\ n.ts = t /\ n.edge = AtEdge(t)
  BY DEF AdderType, AtEdge
<1>3. ~AtEdge(t) => t <= now + Future - MaxLag
  BY TimesAreIntegers DEF AtEdge, TableInv, TypeOK
<1> HIDE DEF n
<1> QED BY <1>1, <1>2, <1>3, AdderOnly

\* The adder takes the list of partitions.
LEMMA GetAllStep ==
  ASSUME TableInv, NEW a \in Adders, get_all_partitions(a)
  PROVE  TableInv'
<1> DEFINE n == [adder[a] EXCEPT !.pc = "insert", !.held = ptws]
<1>1. /\ adder[a].pc = "add" /\ status = "open"
      /\ UNCHANGED <<now, ptws, watcher, searches, mustDrop, drops, dir, json, status, added, restarts>>
  BY ThreadsUp DEF get_all_partitions, disk
<1>2. adder[a] \in AdderType /\ adder \in [Adders -> AdderType] /\ ptws \subseteq Months
  BY TypeParts DEF TableInv, RestTyped
<1>3. adder' = [adder EXCEPT ![a] = n]
  BY <1>2 DEF get_all_partitions
<1>4. n \in AdderType /\ n.pc = "insert" /\ n.held = ptws /\ n.ts = adder[a].ts /\ n.edge = adder[a].edge
  BY <1>2 DEF AdderType
<1>5. ptws \subseteq RefsNow
  BY InRefs DEF RefsNow
<1> HIDE DEF n
<1> QED BY <1>1, <1>3, <1>4, <1>5, AdderParts, AdderOnly

\* The adder checks the row against the retention.
LEMMA BoundsStep ==
  ASSUME TableInv, NEW a \in Adders, get_min_max_timestamps(a)
  PROVE  TableInv'
<1>1. /\ adder[a].pc = "bounds" /\ status = "open"
      /\ UNCHANGED <<now, ptws, watcher, searches, mustDrop, drops, dir, json, status, added, restarts>>
  BY ThreadsUp DEF get_min_max_timestamps, disk
<1>2. adder[a] \in AdderType /\ adder \in [Adders -> AdderType]
  BY TypeParts DEF TableInv
<1>3. CASE InRetention(adder[a].ts, now)
  <2> DEFINE n == [adder[a] EXCEPT !.pc = "missing"]
  <2>1. adder' = [adder EXCEPT ![a] = n]
    BY <1>2, <1>3 DEF get_min_max_timestamps
  <2>2. /\ n \in AdderType /\ n.pc = "missing" /\ n.held = adder[a].held /\ n.ts = adder[a].ts
        /\ n.edge = adder[a].edge
    BY <1>2 DEF AdderType
  <2>3. adder[a].held \subseteq RefsNow
    BY InRefs DEF RefsNow
  <2> HIDE DEF n
  <2> QED BY <1>1, <2>1, <2>2, <2>3, AdderParts, AdderOnly
<1>4. CASE ~InRetention(adder[a].ts, now)
  <2>1. adder' = [adder EXCEPT ![a] = NoAdder]
    BY <1>4 DEF get_min_max_timestamps
  <2> QED BY <1>1, <2>1, NoAdderTyped, AdderOnly
<1> QED BY <1>3, <1>4

\* No partition of the list is the row's.
LEMMA MissingRowStep ==
  ASSUME TableInv, NEW a \in Adders, MissingRow(a)
  PROVE  TableInv'
<1> DEFINE n == [adder[a] EXCEPT !.pc = "bounds", !.held = {}]
<1>1. /\ adder[a].pc = "insert" /\ status = "open"
      /\ UNCHANGED <<now, ptws, watcher, searches, mustDrop, dir, json, status, added, restarts>>
      /\ Unref(a, adder[a].held, Refs(ptws, watcher, adder', searches), mustDrop)
  BY ThreadsUp DEF MissingRow, disk
<1>2. adder[a] \in AdderType /\ adder \in [Adders -> AdderType]
  BY TypeParts DEF TableInv
<1>3. adder' = [adder EXCEPT ![a] = n]
  BY <1>2 DEF MissingRow
<1>4. n \in AdderType /\ n.pc = "bounds" /\ n.held = {} /\ n.ts = adder[a].ts /\ n.edge = adder[a].edge
  BY <1>2 DEF AdderType
<1>5. NewRowsListed /\ DiskTyped'
  BY <1>1, SameRows, DiskSame
<1> HIDE DEF n
<1> QED BY <1>1, <1>3, <1>4, <1>5, AdderParts, WholeSame, AdderLetsGo

\* The row is registered in the index.
LEMMA IndexStep ==
  ASSUME TableInv, NEW a \in Adders, create_global_indexes(a)
  PROVE  TableInv'
<1> DEFINE n == [adder[a] EXCEPT !.pc = "add", !.held = {}]
           m == MonthOf(adder[a].ts)
<1>1. /\ adder[a].pc = "index" /\ status = "open"
      /\ UNCHANGED <<now, ptws, watcher, searches, mustDrop, status, added, restarts>>
      /\ Unref(a, adder[a].held, Refs(ptws, watcher, adder', searches), mustDrop)
  BY ThreadsUp DEF create_global_indexes
<1>2. adder[a] \in AdderType /\ adder \in [Adders -> AdderType]
  BY TypeParts DEF TableInv
<1>3. adder' = [adder EXCEPT ![a] = n]
  BY <1>2 DEF create_global_indexes
<1>4. n \in AdderType /\ n.pc = "add" /\ n.held = {} /\ n.ts = adder[a].ts /\ n.edge = adder[a].edge
  BY <1>2 DEF AdderType
<1>5. m \in RefsNow /\ m \in Months /\ "indexdb" \in Kinds
  <2>1. m \in adder[a].held
    BY <1>1 DEF TableInv, IndexedHeld
  <2> QED BY <2>1, InRefs, AdderParts DEF RefsNow, Kinds
<1>6. /\ dir' = [dir EXCEPT !["indexdb"][m] = @ \cup {"parts"}]
      /\ json' = [json EXCEPT ![m] = @ \cup {"indexdb"}]
  BY DEF create_global_indexes, MonthOf
<1> HIDE DEF n, m
<1>7. /\ DiskTyped' /\ \A j \in Kinds, i \in RefsNow : WholeDir(j, i)'
      /\ \A d \in drops, j \in Kinds : dir'[j][d.month] = dir[j][d.month]
  BY <1>5, <1>6, PartAdded
<1>8. NewRowsListed
  BY <1>1, SameRows
<1> QED BY <1>1, <1>3, <1>4, <1>7, <1>8, AdderParts, AdderLetsGo

\* The row goes to its partition.
LEMMA AddRowsStep ==
  ASSUME TableInv, NEW a \in Adders, NEW k \in {"small", "big"}, add_rows(a, k)
  PROVE  TableInv'
<1> DEFINE m == MonthOf(adder[a].ts)
<1>1. /\ adder[a].pc = "insert" /\ status = "open" /\ added' = Added(a)
      /\ UNCHANGED <<now, ptws, watcher, searches, mustDrop, status, restarts>>
      /\ Unref(a, adder[a].held, Refs(ptws, watcher, adder', searches), mustDrop)
      /\ adder' = [adder EXCEPT ![a] = NoAdder]
  BY ThreadsUp DEF add_rows
<1>2. /\ dir' = [dir EXCEPT ![k][m] = @ \cup {"parts"}]
      /\ json' = [json EXCEPT ![m] = @ \cup {k}]
      /\ m \in adder[a].held
  BY DEF add_rows, MonthOf
<1>3. m \in RefsNow /\ m \in Months /\ k \in Kinds
  BY <1>2, InRefs, AdderParts DEF RefsNow, Kinds
<1>4. adder[a].ts >= now - Retention /\ ~adder[a].edge => m \in ptws'
  BY <1>1, <1>2 DEF TableInv, RowsListed
<1>5. NewRowsListed
  BY <1>1, <1>4, RowAdded
<1> HIDE DEF m
<1>6. /\ DiskTyped' /\ \A j \in Kinds, i \in RefsNow : WholeDir(j, i)'
      /\ \A d \in drops, j \in Kinds : dir'[j][d.month] = dir[j][d.month]
  BY <1>2, <1>3, PartAdded
<1> QED BY <1>1, <1>5, <1>6, NoAdderTyped, AdderLetsGo

\* Nobody uses or removes a partition of a month without directories.
LEMMA FreshMonth ==
  ASSUME TableInv, NEW m \in Months, ~Exists(m)
  PROVE  m \notin RefsNow /\ (\A d \in drops : d.month # m) /\ \A k \in Kinds : dir[k][m] = {}
<1>1. \A k \in Kinds : dir[k][m] = {}
  BY DEF Exists
<1>2. m \notin RefsNow
  <2>1. ~WholeDir("small", m)
    BY <1>1 DEF WholeDir, Kinds
  <2> QED BY <2>1 DEF TableInv, Holding, HeldWhole, Kinds
<1>3. ASSUME NEW d \in drops PROVE d.month # m
  <2>1. "indexdb" \in FromOn(d.kind) /\ "indexdb" \in Kinds
    BY DEF FromOn, Kinds
  <2>2. "dir" \in dir["indexdb"][d.month]
    BY <2>1 DEF TableInv, Holding, DropsDirs
  <2> QED BY <1>1, <2>1, <2>2
<1> QED BY <1>1, <1>2, <1>3

\* The directories that a new partition gets.
LEMMA MadeWhole ==
  ASSUME TableInv, NEW m \in Months, NEW new \in SUBSET Kinds, ~Exists(m),
         dir' = [k \in Kinds |-> [dir[k] EXCEPT ![m] =
                   @ \cup {"dir"} \cup (IF k = "big" THEN {} ELSE {"parts.json"})
                     \cup (IF k \in new THEN {"parts"} ELSE {})]],
         json' = [json EXCEPT ![m] = new]
  PROVE  /\ DiskTyped'
         /\ \A k \in Kinds : WholeDir(k, m)'
         /\ \A k \in Kinds, n \in Months \ {m} : dir'[k][n] = dir[k][n] /\ json'[n] = json[n]
<1> DEFINE X(k) == {"dir"} \cup (IF k = "big" THEN {} ELSE {"parts.json"}) \cup (IF k \in new THEN {"parts"} ELSE {})
<1>1. dir \in [Kinds -> [Months -> SUBSET Entries]] /\ json \in [Months -> SUBSET Kinds]
  BY DEF TableInv, TypeOK
<1>2. \A k \in Kinds : X(k) \in SUBSET Entries
  BY DEF Entries
<1>3. dir' = [k \in Kinds |-> [dir[k] EXCEPT ![m] = X(k)]]
  <2>1. \A k \in Kinds : dir[k][m] = {}
    BY FreshMonth
  <2>2. \A k \in Kinds : dir[k][m] \cup {"dir"} \cup (IF k = "big" THEN {} ELSE {"parts.json"})
                           \cup (IF k \in new THEN {"parts"} ELSE {}) = X(k)
    BY <2>1
  <2> QED BY <2>2
<1>4. json'[m] = new /\ json' \in [Months -> SUBSET Kinds] /\ \A n \in Months \ {m} : json'[n] = json[n]
  BY <1>1
<1> HIDE DEF X
<1>5. dir' \in [Kinds -> [Months -> SUBSET Entries]]
  BY <1>1, <1>2, <1>3
<1>6. \A k \in Kinds : dir'[k][m] = X(k)
  BY <1>1, <1>3
<1>7. \A k \in Kinds, n \in Months \ {m} : dir'[k][n] = dir[k][n]
  BY <1>1, <1>3
<1>8. \A k \in Kinds : WholeDir(k, m)'
  BY <1>4, <1>6 DEF WholeDir, X
<1> QED BY <1>4, <1>5, <1>7, <1>8 DEF DiskTyped

\* A partition is made, or the process ends as its directories exist.
LEMMA CreateStep ==
  ASSUME TableInv, status = "open", NEW a \in Adders, NEW n \in AdderType, NEW m \in Months,
         NEW new \in SUBSET Kinds, m \notin ptws, must_create_partition(a, m, n, new),
         UNCHANGED <<now, restarts>>, n.held \subseteq {m},
         n.pc = "index" => n.held = {MonthOf(n.ts)}, n.pc # "insert",
         n.pc # "idle" /\ ~n.edge => n.ts <= now + Future - MaxLag,
         status' = "open" /\ ptws' = ptws \cup {m} => NewRowsListed,
         status' # "open" => added' = added
  PROVE  TableInv'
<1>1. CASE ~Exists(m)
  <2>1. /\ dir' = [k \in Kinds |-> [dir[k] EXCEPT ![m] =
                     @ \cup {"dir"} \cup (IF k = "big" THEN {} ELSE {"parts.json"})
                       \cup (IF k \in new THEN {"parts"} ELSE {})]]
        /\ json' = [json EXCEPT ![m] = new]
        /\ ptws' = ptws \cup {m} /\ adder' = [adder EXCEPT ![a] = n]
        /\ UNCHANGED <<watcher, searches, mustDrop, drops, status>>
    BY <1>1 DEF must_create_partition, must_mkdir_fail_if_exist
  <2>2. /\ DiskTyped' /\ \A k \in Kinds : WholeDir(k, m)'
        /\ \A k \in Kinds, i \in Months \ {m} : dir'[k][i] = dir[k][i] /\ json'[i] = json[i]
    BY <1>1, <2>1, MadeWhole
  <2>3. m \notin RefsNow /\ \A d \in drops : d.month # m
    BY <1>1, FreshMonth
  <2>4. ptws \subseteq ptws' /\ ptws' \subseteq Months
    BY <2>1 DEF TableInv, TypeOK
  <2>5. \A i \in RefsNow' : i \in RefsNow \/ i = m
    <3>1. \A i \in RefsNow' : i \in RefsNow \/ i \in ptws' \/ i \in n.held
      BY <2>1, <2>4, AdderRefs
    <3>2. ptws \subseteq RefsNow
      BY InRefs DEF RefsNow
    <3> QED BY <2>1, <3>1, <3>2
  <2>6. \A i \in RefsNow, k \in Kinds : WholeDir(k, i)'
    <3> SUFFICES ASSUME NEW i \in RefsNow, NEW k \in Kinds PROVE WholeDir(k, i)'
      OBVIOUS
    <3>1. i \in Months \ {m} /\ WholeDir(k, i)
      BY <2>3, RefsAreMonths DEF TableInv, Holding, HeldWhole
    <3> QED BY <2>2, <3>1 DEF WholeDir
  <2>7. \A d \in drops, k \in Kinds : dir'[k][d.month] = dir[k][d.month]
    BY <2>2, <2>3 DEF TableInv, TypeOK
  <2>8. Holding'
    <3>1. drops' = drops \cup Begun(a, {})
      BY <2>1 DEF Begun
    <3>2. \A d \in drops : d.month \notin RefsNow'
      BY <2>3, <2>5 DEF TableInv, Holding, DropsApart
    <3>3. \A i \in RefsNow \cup RefsNow', k \in Kinds : WholeDir(k, i)'
      BY <2>2, <2>5, <2>6
    <3> QED BY <2>7, <3>1, <3>2, <3>3, HoldStep DEF TableInv
  <2>9. DropsTyped' /\ NewRowsListed
    BY <2>1, DropsSame
  <2> QED BY <2>1, <2>2, <2>4, <2>8, <2>9, AdderMoves
<1>2. CASE Exists(m)
  <2>1. Down("aborted") /\ UNCHANGED <<dir, json>>
    BY <1>2 DEF must_create_partition, must_mkdir_fail_if_exist, disk
  <2>2. status' = "aborted"
    BY <2>1 DEF Down
  <2>3. DiskTyped' /\ restarts' \in Nat /\ added' = added
    BY <2>1, <2>2, DiskSame DEF TableInv, TypeOK
  <2> QED BY <2>1, <2>3, DownStep
<1> QED BY <1>1, <1>2

\* The adder gets the partition of its row, which is made if need be.
LEMMA GetStep ==
  ASSUME TableInv, NEW a \in Adders, must_get_partition(a)
  PROVE  TableInv'
<1> DEFINE m == MonthOf(adder[a].ts)
           n == [adder[a] EXCEPT !.pc = "index", !.held = {m}]
<1>1. adder[a].pc = "get" /\ status = "open" /\ UNCHANGED <<now, added, restarts>>
  BY ThreadsUp DEF must_get_partition
<1>2. m \in Months /\ adder[a] \in AdderType
  BY AdderParts
<1>3. n \in AdderType /\ n.pc = "index" /\ n.held = {m} /\ n.ts = adder[a].ts /\ n.edge = adder[a].edge
  BY <1>2 DEF AdderType
<1>4. n.held = {MonthOf(n.ts)}
  BY <1>3
<1>5. n.pc # "idle" /\ ~n.edge => n.ts <= now + Future - MaxLag
  BY <1>1, <1>3, AdderParts
<1>6. CASE m \in ptws
  <2>1. /\ adder' = [adder EXCEPT ![a] = n]
        /\ UNCHANGED <<ptws, watcher, searches, mustDrop, drops, dir, json, status>>
    BY <1>6 DEF must_get_partition, disk, MonthOf
  <2>2. {m} \subseteq RefsNow
    BY <1>6, InRefs DEF RefsNow
  <2> HIDE DEF n, m
  <2> QED BY <1>1, <1>3, <1>4, <1>5, <2>1, <2>2, AdderOnly
<1>7. CASE m \notin ptws
  <2>1. must_create_partition(a, m, n, {})
    BY <1>7 DEF must_get_partition, MonthOf
  <2>2. NewRowsListed
    BY <1>1, SameRows
  <2> HIDE DEF n, m
  <2> QED BY <1>1, <1>2, <1>3, <1>4, <1>5, <1>7, <2>1, <2>2, CreateStep
<1> QED BY <1>6, <1>7

\* Under the lock, the row goes to a partition made since, or now.
LEMMA MustAddStep ==
  ASSUME TableInv, NEW a \in Adders, NEW k \in {"small", "big"}, must_add_rows(a, k)
  PROVE  TableInv'
<1> DEFINE m == MonthOf(adder[a].ts)
<1>1. adder[a].pc = "missing" /\ status = "open" /\ UNCHANGED <<now, restarts>>
  BY ThreadsUp DEF must_add_rows
<1>2. added' = IF status' = "open" THEN Added(a) ELSE added
  BY DEF must_add_rows
<1>3. m \in Months /\ k \in Kinds
  BY AdderParts DEF Kinds
<1>4. CASE m \in ptws
  <2>1. /\ dir' = [dir EXCEPT ![k][m] = @ \cup {"parts"}] /\ json' = [json EXCEPT ![m] = @ \cup {k}]
        /\ adder' = [adder EXCEPT ![a] = NoAdder]
        /\ UNCHANGED <<ptws, watcher, searches, mustDrop, drops, status>>
    BY <1>4 DEF must_add_rows, MonthOf
  <2>2. m \in RefsNow
    BY <1>4, InRefs DEF RefsNow
  <2>3. NewRowsListed
    BY <1>1, <1>2, <1>4, <2>1, RowAdded
  <2> HIDE DEF m
  <2>4. /\ DiskTyped' /\ \A j \in Kinds, i \in RefsNow : WholeDir(j, i)'
        /\ \A d \in drops, j \in Kinds : dir'[j][d.month] = dir[j][d.month]
    BY <1>3, <2>1, <2>2, PartAdded
  <2>5. ptws \subseteq ptws' /\ ptws' \subseteq Months
    BY <2>1 DEF TableInv, TypeOK
  <2>6. \A i \in RefsNow' : i \in RefsNow
    <3>1. \A i \in RefsNow' : i \in RefsNow \/ i \in ptws' \/ i \in NoAdder.held
      BY <2>1, <2>5, AdderRefs
    <3>2. ptws \subseteq RefsNow
      BY InRefs DEF RefsNow
    <3> QED BY <2>1, <3>1, <3>2, NoAdderTyped
  <2>7. Holding'
    <3>1. drops' = drops \cup Begun(a, {})
      BY <2>1 DEF Begun
    <3>2. \A d \in drops : d.month \notin RefsNow'
      BY <2>6 DEF TableInv, Holding, DropsApart
    <3> QED BY <2>4, <2>6, <3>1, <3>2, HoldStep DEF TableInv
  <2>8. DropsTyped'
    BY <2>1, DropsSame
  <2> QED BY <1>1, <2>1, <2>3, <2>4, <2>5, <2>7, <2>8, NoAdderTyped, AdderMoves
<1>5. CASE m \notin ptws
  <2>1. must_create_partition(a, m, NoAdder, {k})
    BY <1>5 DEF must_add_rows, MonthOf
  <2>2. status' = "open" /\ ptws' = ptws \cup {m} => NewRowsListed
    BY <1>1, <1>2, RowAdded
  <2>3. status' # "open" => added' = added
    BY <1>2
  <2> HIDE DEF m
  <2> QED BY <1>1, <1>3, <1>5, <2>1, <2>2, <2>3, NoAdderTyped, CreateStep
<1> QED BY <1>4, <1>5

\* The process dies while the directories of a partition are being created.
LEMMA CreateCutStep ==
  ASSUME TableInv, NEW a \in Adders, NEW made \in SUBSET Kinds, CreateCut(a, made)
  PROVE  TableInv'
<1> DEFINE m == MonthOf(adder[a].ts)
           X(k) == IF k \in made THEN {"dir"} ELSE {}
<1>1. /\ status = "open" /\ Down("down") /\ restarts' \in Nat /\ UNCHANGED <<now, json, added>>
      /\ m \notin ptws
  BY ThreadsUp DEF CreateCut, MonthOf, TableInv, TypeOK
<1>2. dir' = [k \in Kinds |-> [dir[k] EXCEPT ![m] = X(k)]]
  BY DEF CreateCut, MonthOf
<1>3. \A k \in Kinds : X(k) \in SUBSET Entries
  BY DEF Entries
<1>4. m \in Months /\ dir \in [Kinds -> [Months -> SUBSET Entries]] /\ json \in [Months -> SUBSET Kinds] /\ ptws \subseteq Months
  BY AdderParts DEF TableInv, TypeOK
<1> HIDE DEF m, X
<1>5. DiskTyped'
  BY <1>1, <1>2, <1>3, <1>4 DEF DiskTyped
<1>6. \A i \in ptws : dir'["small"][i] = dir["small"][i] /\ json'[i] = json[i]
  BY <1>1, <1>2, <1>4 DEF Kinds
<1> QED BY <1>1, <1>5, <1>6, DownStep

\* A step of another thread than an adder.
LEMMA OtherMoves ==
  ASSUME TableInv, status = "open", UNCHANGED <<now, adder, status, added, restarts>>, TypeOK', Holding',
         watcher'.reading => watcher'.at <= now /\ now - watcher'.at <= MaxLag,
         \A t \in Times : t >= now - Retention /\ t <= now + Future - MaxLag /\ MonthOf(t) \in ptws => MonthOf(t) \in ptws'
  PROVE  TableInv'
<1>1. NothingDown' /\ IndexedHeld' /\ RowsAhead'
  BY DEF NothingDown, IndexedHeld, RowsAhead, TableInv
<1>2. \A t \in added' : t >= now' - Retention => MonthOf(t) \in (IF status' = "open" THEN ptws' ELSE Names')
  <2>1. \A t \in added : t \in Times /\ t <= now + Future - MaxLag /\ (t >= now - Retention => MonthOf(t) \in ptws)
    BY DEF TableInv, TypeOK, RowsAhead, RowsListed
  <2> QED BY <2>1
<1>3. \A a \in Adders :
        /\ adder'[a].pc = "insert" /\ ~adder'[a].edge
        /\ MonthOf(adder'[a].ts) \in adder'[a].held /\ adder'[a].ts >= now' - Retention
        => MonthOf(adder'[a].ts) \in ptws'
  <2> SUFFICES ASSUME NEW a \in Adders, adder[a].pc = "insert" /\ ~adder[a].edge,
                      MonthOf(adder[a].ts) \in adder[a].held, adder[a].ts >= now - Retention
               PROVE  MonthOf(adder[a].ts) \in ptws'
    OBVIOUS
  <2>1. adder[a].ts \in Times /\ adder[a].ts <= now + Future - MaxLag
    BY AdderParts
  <2>2. MonthOf(adder[a].ts) \in ptws
    BY DEF TableInv, RowsListed
  <2> QED BY <2>1, <2>2
<1> QED BY <1>1, <1>2, <1>3 DEF TableInv, RowsListed

\* A search takes partitions.
LEMMA SearchStep ==
  ASSUME TableInv, NEW s \in Searchers, get_partitions(s)
  PROVE  TableInv'
<1>1. /\ status = "open" /\ searches' = [searches EXCEPT ![s] = ptws]
      /\ UNCHANGED <<now, ptws, watcher, adder, mustDrop, drops, dir, json, status, added, restarts>>
  BY DEF get_partitions, disk
<1>2. TypeOK'
  BY <1>1 DEF TypeOK, TableInv
<1>3. \A m \in RefsNow' : m \in RefsNow
  <2> SUFFICES ASSUME NEW m \in RefsNow' PROVE m \in RefsNow
    OBVIOUS
  <2>1. m \in Refs(ptws, watcher, adder, searches')
    BY <1>1 DEF RefsNow
  <2>2. m \in ptws \/ m \in watcher.out \/ (\E a \in Adders : m \in adder[a].held) \/ (\E i \in Searchers : m \in searches'[i])
    BY <2>1 DEF Refs
  <2>3. \A i \in Searchers : searches'[i] = searches[i] \/ searches'[i] = ptws
    BY <1>1 DEF TableInv, TypeOK
  <2> QED BY <2>2, <2>3 DEF Refs, RefsNow
<1>4. Holding'
  BY <1>1, <1>3, HoldKept DEF TableInv
<1>5. watcher'.reading => watcher'.at <= now /\ now - watcher'.at <= MaxLag
  BY <1>1 DEF TableInv, RowsAhead
<1> QED BY <1>1, <1>2, <1>4, <1>5, OtherMoves

\* A search lets go of them.
LEMMA EndSearchStep ==
  ASSUME TableInv, NEW s \in Searchers, EndSearch(s)
  PROVE  TableInv'
<1>1. /\ status = "open" /\ searches' = [searches EXCEPT ![s] = {}]
      /\ UNCHANGED <<now, ptws, watcher, adder, mustDrop, dir, json, status, added, restarts>>
      /\ Unref(s, searches[s], Refs(ptws, watcher, adder, searches'), mustDrop)
  BY ThreadsUp DEF EndSearch, disk
<1>2. /\ searches'[s] = {} /\ (\A i \in Searchers \ {s} : searches'[i] = searches[i])
      /\ searches' \in [Searchers -> SUBSET Months] /\ searches[s] \subseteq Months
  BY <1>1 DEF TableInv, TypeOK
<1>3. \A m \in RefsNow' : m \in RefsNow
  <2> SUFFICES ASSUME NEW m \in RefsNow' PROVE m \in RefsNow
    OBVIOUS
  <2>1. m \in Refs(ptws, watcher, adder, searches')
    BY <1>1 DEF RefsNow
  <2>2. m \in ptws \/ m \in watcher.out \/ (\E a \in Adders : m \in adder[a].held) \/ (\E i \in Searchers : m \in searches'[i])
    BY <2>1 DEF Refs
  <2> QED BY <1>2, <2>2 DEF Refs, RefsNow
<1>4. Refs(ptws, watcher, adder, searches') = RefsNow' /\ searches[s] \in SUBSET RefsNow
  BY <1>1, InRefs DEF RefsNow
<1>5. Holding'
  BY <1>1, <1>3, <1>4, WholeSame, HoldUnref DEF TableInv
<1>6. TypeOK'
  <2>1. DropsTyped /\ s \in Threads /\ searches[s] \in SUBSET Months
    BY TypeParts, <1>2 DEF TableInv, Threads
  <2>2. DropsTyped'
    BY <1>1, <2>1, UnrefTyped
  <2> QED BY <1>1, <1>2, <2>2 DEF TypeOK, TableInv, DropsTyped
<1>7. watcher'.reading => watcher'.at <= now /\ now - watcher'.at <= MaxLag
  BY <1>1 DEF TableInv, RowsAhead
<1> QED BY <1>1, <1>5, <1>6, <1>7, OtherMoves

\* The retention watcher reads the clock.
LEMMA ReadClockStep ==
  ASSUME TableInv, retention_watcher
  PROVE  TableInv'
<1> DEFINE w == [watcher EXCEPT !.reading = TRUE, !.at = now]
<1>1. /\ status = "open" /\ watcher' = w
      /\ UNCHANGED <<now, ptws, adder, searches, mustDrop, drops, dir, json, status, added, restarts>>
  BY DEF retention_watcher, disk
<1>2. watcher \in WatcherType /\ now \in 0..MaxTime
  BY TypeParts DEF TableInv, RestTyped
<1>3. w \in WatcherType /\ w.reading = TRUE /\ w.at = now /\ w.out = watcher.out
  BY <1>2 DEF WatcherType
<1> HIDE DEF w
<1>4. TypeOK'
  BY <1>1, <1>3 DEF TypeOK, TableInv, WatcherType
<1>5. RefsNow' = RefsNow
  BY <1>1, <1>3 DEF RefsNow, Refs
<1>6. Holding'
  BY <1>1, <1>5, HoldKept DEF TableInv
<1>7. watcher'.at <= now /\ now - watcher'.at <= MaxLag
  BY <1>1, <1>2, <1>3, TimesAreIntegers
<1> QED BY <1>1, <1>4, <1>6, <1>7, OtherMoves

\* A month that holds a row in the retention, but for its future edge, is not outside for a
\* clock that was read at most MaxLag ago.
LEMMA LiveMonthStays ==
  ASSUME TableInv, watcher.reading, NEW t \in Times, t >= now - Retention, t <= now + Future - MaxLag
  PROVE  ~Outside(MonthOf(t), watcher.at)
<1> DEFINE lo == MinTime(MonthOf(t))
           hi == MaxTimeOf(MonthOf(t))
           at == watcher.at
<1>1. lo <= t /\ t <= hi /\ lo \in Int /\ hi \in Int
  <2>1. MonthOf(t) \in Int /\ MonthLen \in Int
    BY MonthInRange, TableAssumption DEF Months
  <2> QED BY <2>1, MonthInRange DEF MinTime, MaxTimeOf
<1>2. at \in Int /\ now \in Int /\ at <= now /\ now - at <= MaxLag
  BY TimesAreIntegers DEF TableInv, TypeOK, RowsAhead
<1>3. t \in Int
  BY TimesAreIntegers
<1> HIDE DEF lo, hi, at
<1>4. ~(hi < at - Retention) /\ ~(lo > at + Future)
  BY <1>1, <1>2, <1>3, TimesAreIntegers
<1> QED BY <1>4 DEF Outside, lo, hi, at

\* The retention watcher takes what is out of the retention from the list.
LEMMA EnforceStep ==
  ASSUME TableInv, enforce_retention
  PROVE  TableInv'
<1> DEFINE out == {m \in ptws : Outside(m, watcher.at)}
           w == [NoWatcher EXCEPT !.out = out]
<1>1. /\ watcher.reading /\ status = "open" /\ ptws' = ptws \ out /\ watcher' = w
      /\ UNCHANGED <<now, adder, searches, mustDrop, drops, dir, json, status, added, restarts>>
  BY ThreadsUp DEF enforce_retention, disk
<1>2. ptws \subseteq Months /\ out \subseteq ptws
  BY DEF TableInv, TypeOK
<1>3. \A t \in Times : t >= now - Retention /\ t <= now + Future - MaxLag /\ MonthOf(t) \in ptws => MonthOf(t) \in ptws'
  BY <1>1, LiveMonthStays
<1> HIDE DEF out
<1>4. w \in WatcherType /\ w.reading = FALSE /\ w.out = out
  <2>1. NoWatcher \in WatcherType /\ NoWatcher.reading = FALSE
    BY TableAssumption DEF WatcherType, NoWatcher
  <2>2. out \in SUBSET Months
    BY <1>2
  <2> QED BY <2>1, <2>2 DEF WatcherType
<1> HIDE DEF w
<1>5. TypeOK'
  BY <1>1, <1>2, <1>4 DEF TypeOK, TableInv, WatcherType
<1>6. \A m \in RefsNow' : m \in RefsNow
  <2> SUFFICES ASSUME NEW m \in RefsNow' PROVE m \in RefsNow
    OBVIOUS
  <2>1. m \in Refs(ptws \ out, w, adder, searches)
    BY <1>1 DEF RefsNow
  <2>2. m \in ptws \/ (\E a \in Adders : m \in adder[a].held) \/ (\E i \in Searchers : m \in searches[i])
    BY <1>2, <1>4, <2>1 DEF Refs
  <2> QED BY <2>2 DEF Refs, RefsNow
<1>7. Holding'
  BY <1>1, <1>6, HoldKept DEF TableInv
<1>8. ~watcher'.reading
  BY <1>1, <1>4
<1> QED BY <1>1, <1>3, <1>5, <1>7, <1>8, OtherMoves

\* The retention watcher lets go of it.
LEMMA EnforceDropStep ==
  ASSUME TableInv, NEW m \in Months, EnforceDrop(m)
  PROVE  TableInv'
<1> DEFINE w == [watcher EXCEPT !.out = @ \ {m}]
<1>1. /\ m \in watcher.out /\ status = "open" /\ watcher' = w /\ mustDrop' = mustDrop \cup {m}
      /\ UNCHANGED <<now, ptws, adder, searches, dir, json, status, added, restarts>>
      /\ Unref("retention_watcher", {m}, Refs(ptws, watcher', adder, searches), mustDrop')
  BY ThreadsUp DEF EnforceDrop, Retired, disk
<1>2. watcher \in WatcherType
  BY TypeParts DEF TableInv
<1>3. w \in WatcherType /\ w.reading = watcher.reading /\ w.at = watcher.at /\ w.out = watcher.out \ {m}
  BY <1>2 DEF WatcherType
<1> HIDE DEF w
<1>4. \A n \in RefsNow' : n \in RefsNow
  <2> SUFFICES ASSUME NEW n \in RefsNow' PROVE n \in RefsNow
    OBVIOUS
  <2>1. n \in Refs(ptws, w, adder, searches)
    BY <1>1 DEF RefsNow
  <2>2. n \in ptws \/ n \in watcher.out \/ (\E a \in Adders : n \in adder[a].held) \/ (\E i \in Searchers : n \in searches[i])
    BY <1>3, <2>1 DEF Refs
  <2> QED BY <2>2 DEF Refs, RefsNow
<1>5. Refs(ptws, watcher', adder, searches) = RefsNow' /\ {m} \in SUBSET RefsNow
  BY <1>1, InRefs DEF RefsNow
<1>6. Holding'
  BY <1>1, <1>4, <1>5, WholeSame, HoldUnref DEF TableInv
<1>7. TypeOK'
  <2>1. DropsTyped /\ "retention_watcher" \in Threads /\ {m} \in SUBSET Months
    BY TypeParts DEF TableInv, Threads
  <2>2. DropsTyped'
    BY <1>1, <2>1, UnrefTyped
  <2> QED BY <1>1, <1>3, <2>2 DEF TypeOK, TableInv, DropsTyped, WatcherType
<1>8. watcher'.reading => watcher'.at <= now /\ now - watcher'.at <= MaxLag
  BY <1>1, <1>3 DEF TableInv, RowsAhead
<1> QED BY <1>1, <1>6, <1>7, <1>8, OtherMoves

DropType == [month : Months, by : Threads, kind : Kinds, step : {"mark", "remove"}]

\* What DropsDirs says of one removal.
DropDirs(d) ==
  \A k \in Kinds : IF k \in FromOn(d.kind) THEN "dir" \in dir[k][d.month] ELSE dir[k][d.month] = {}

\* A step of the removal of a partition: one directory changes, and the removal d goes on as D.
LEMMA DropMoves ==
  ASSUME TableInv, NEW d \in drops, NEW X \in SUBSET Entries, SetDir(d.kind, d.month, X),
         json' \in [Months -> SUBSET Kinds], \A n \in Months \ {d.month} : json'[n] = json[n],
         NEW D \in SUBSET DropType, drops' = (drops \ {d}) \cup D, mustDrop' \subseteq mustDrop,
         \A e \in D : e.month = d.month /\ DropDirs(e)', \A e, f \in D : e = f,
         UNCHANGED <<now, ptws, watcher, adder, searches, status, added, restarts>>
  PROVE  TableInv'
<1>1. TypeOK /\ d.kind \in Kinds /\ d.month \in Months /\ d.month \notin RefsNow /\ status = "open"
  BY ThreadsUp DEF TableInv, TypeOK, Holding, DropsApart
<1>2. /\ dir' \in [Kinds -> [Months -> SUBSET Entries]]
      /\ \A k \in Kinds, n \in Months : n # d.month => dir'[k][n] = dir[k][n]
  BY <1>1, DirSet
<1>3. TypeOK'
  <2>1. drops' \subseteq DropType
    BY DEF TableInv, TypeOK, DropType
  <2> QED BY <1>2, <2>1 DEF TypeOK, TableInv, DropType
<1>4. RefsNow' = RefsNow
  BY DEF RefsNow
<1>5. HeldWhole'
  <2> SUFFICES ASSUME NEW n \in RefsNow, NEW k \in Kinds PROVE WholeDir(k, n)'
    BY <1>4 DEF HeldWhole
  <2>1. n \in Months /\ n # d.month /\ WholeDir(k, n)
    BY <1>1, RefsAreMonths DEF TableInv, Holding, HeldWhole
  <2>2. dir'[k][n] = dir[k][n] /\ json'[n] = json[n]
    BY <1>2, <2>1
  <2> QED BY <2>1, <2>2 DEF WholeDir
<1>6. DropsApart'
  <2>1. \A e \in drops' : e.month \notin RefsNow'
    BY <1>1, <1>4 DEF TableInv, Holding, DropsApart
  <2>2. \A e, f \in drops' : e.month = f.month => e = f
    <3>1. \A e \in drops \ {d} : e.month # d.month
      BY DEF TableInv, Holding, DropsApart
    <3>2. \A e, f \in drops : e.month = f.month => e = f
      BY DEF TableInv, Holding, DropsApart
    <3> QED BY <3>1, <3>2
  <2> QED BY <2>1, <2>2 DEF DropsApart
<1>7. DropsDirs'
  <2> SUFFICES ASSUME NEW e \in drops' PROVE DropDirs(e)'
    BY DEF DropsDirs, DropDirs
  <2>1. CASE e \in D
    BY <2>1
  <2>2. CASE e \in drops \ {d}
    <3>1. e.month # d.month /\ e.month \in Months
      BY <2>2 DEF TableInv, Holding, DropsApart, TypeOK
    <3>2. \A k \in Kinds : dir'[k][e.month] = dir[k][e.month]
      BY <1>2, <3>1
    <3> QED BY <2>2, <3>2 DEF TableInv, Holding, DropsDirs, DropDirs
  <2> QED BY <2>1, <2>2
<1>8. watcher'.reading => watcher'.at <= now /\ now - watcher'.at <= MaxLag
  BY DEF TableInv, RowsAhead
<1> QED BY <1>1, <1>3, <1>5, <1>6, <1>7, <1>8, OtherMoves DEF Holding

\* The record of a removal, and what is left for it to remove.
LEMMA DropParts ==
  ASSUME TableInv, NEW d \in drops
  PROVE  /\ d \in DropType /\ d.kind \in Kinds /\ d.month \in Months /\ DropDirs(d)
         /\ dir[d.kind][d.month] \in SUBSET Entries /\ d.kind \in FromOn(d.kind)
<1>1. d \in DropType
  BY DEF TableInv, TypeOK, DropType
<1>2. d.kind \in Kinds /\ d.month \in Months
  BY <1>1 DEF DropType
<1>3. DropDirs(d)
  BY DEF TableInv, Holding, DropsDirs, DropDirs
<1> QED BY <1>1, <1>2, <1>3 DEF TableInv, TypeOK, FromOn, Kinds

\* A drop writes its marker.
LEMMA DropMarkStep ==
  ASSUME TableInv, NEW d \in drops, DropMark(d)
  PROVE  TableInv'
<1> DEFINE X == dir[d.kind][d.month] \cup {"marker"}
<1>0. PICK e : e = [d EXCEPT !.step = "remove"]
  OBVIOUS
<1>1. /\ SetDir(d.kind, d.month, X) /\ drops' = (drops \ {d}) \cup {e}
      /\ UNCHANGED <<now, ptws, watcher, adder, searches, mustDrop, json, status, added, restarts>>
  BY <1>0 DEF DropMark, SetDir
<1>2. /\ d \in DropType /\ d.kind \in Kinds /\ d.month \in Months /\ DropDirs(d)
      /\ dir[d.kind][d.month] \in SUBSET Entries /\ d.kind \in FromOn(d.kind)
  BY DropParts
<1>3. e \in DropType /\ e.month = d.month /\ e.kind = d.kind /\ X \in SUBSET Entries
  BY <1>0, <1>2 DEF DropType, Entries
<1>4. dir[d.kind][d.month] \subseteq X
  OBVIOUS
<1> HIDE DEF X
<1>5. /\ dir'[d.kind][d.month] = X
      /\ \A k \in Kinds, n \in Months : k # d.kind \/ n # d.month => dir'[k][n] = dir[k][n]
  BY <1>1, <1>2, <1>3, DirSet DEF TableInv
<1>6. DropDirs(e)'
  BY <1>2, <1>3, <1>4, <1>5 DEF DropDirs
<1>7. json' \in [Months -> SUBSET Kinds]
  BY <1>1 DEF TableInv, TypeOK
<1>8. {e} \in SUBSET DropType /\ (\A f \in {e} : f.month = d.month /\ DropDirs(f)') /\ (\A f, g \in {e} : f = g)
  BY <1>3, <1>6
<1> QED BY <1>1, <1>3, <1>7, <1>8, DropMoves

\* A drop deletes an entry of a directory.
LEMMA DropEntryStep ==
  ASSUME TableInv, NEW d \in drops, NEW en \in Entries, DropEntry(d, en)
  PROVE  TableInv'
<1> DEFINE es == dir[d.kind][d.month]
<1>1. /\ en \in es \ {"dir"}
      /\ UNCHANGED <<now, ptws, watcher, adder, searches, mustDrop, drops, json, status, added, restarts>>
  BY DEF DropEntry, memory
<1>2. PICK X \in {es \ {en}} \cup (IF en = "parts" THEN {(es \ {en}) \cup {"broken"}} ELSE {}) :
        SetDir(d.kind, d.month, X)
  BY DEF DropEntry, SetDir
<1>3. /\ d \in DropType /\ d.kind \in Kinds /\ d.month \in Months /\ DropDirs(d)
      /\ es \in SUBSET Entries /\ d.kind \in FromOn(d.kind)
  BY DropParts
<1>4. X \in SUBSET Entries /\ ("dir" \in es => "dir" \in X)
  BY <1>1, <1>3 DEF Entries
<1> HIDE DEF es
<1>5. /\ dir'[d.kind][d.month] = X
      /\ \A k \in Kinds, n \in Months : k # d.kind \/ n # d.month => dir'[k][n] = dir[k][n]
  BY <1>2, <1>3, <1>4, DirSet DEF TableInv
<1>6. DropDirs(d)'
  BY <1>1, <1>3, <1>4, <1>5 DEF DropDirs, es
<1>7. json' \in [Months -> SUBSET Kinds] /\ drops' = (drops \ {d}) \cup {d}
  BY <1>1 DEF TableInv, TypeOK
<1>8. {d} \in SUBSET DropType /\ (\A f \in {d} : f.month = d.month /\ DropDirs(f)') /\ (\A f, g \in {d} : f = g)
  BY <1>3, <1>6
<1> QED BY <1>1, <1>2, <1>4, <1>7, <1>8, DropMoves

\* A drop removes the directory itself.
LEMMA DropDirStep ==
  ASSUME TableInv, NEW d \in drops, DropDir(d)
  PROVE  TableInv'
<1>1. /\ SetDir(d.kind, d.month, {}) /\ json' = [json EXCEPT ![d.month] = @ \ {d.kind}]
      /\ UNCHANGED <<now, ptws, watcher, adder, searches, status, added, restarts>>
  BY DEF DropDir, SetDir
<1>2. d \in DropType /\ d.kind \in Kinds /\ d.month \in Months /\ DropDirs(d)
  BY DropParts
<1>3. /\ dir'[d.kind][d.month] = {}
      /\ \A k \in Kinds, n \in Months : k # d.kind \/ n # d.month => dir'[k][n] = dir[k][n]
  BY <1>1, <1>2, DirSet DEF TableInv
<1>4. json' \in [Months -> SUBSET Kinds] /\ \A n \in Months \ {d.month} : json'[n] = json[n]
  BY <1>1, <1>2 DEF TableInv, TypeOK
<1>5. CASE d.kind = "indexdb"
  <2>1. drops' = (drops \ {d}) \cup {} /\ mustDrop' \subseteq mustDrop
    BY <1>5 DEF DropDir
  <2> QED BY <1>1, <1>4, <2>1, DropMoves
<1>6. CASE d.kind # "indexdb"
  <2> DEFINE k1 == IF d.kind = "small" THEN "big" ELSE "indexdb"
  <2>0. PICK e : e = [d EXCEPT !.step = "mark", !.kind = k1]
    OBVIOUS
  <2>1. drops' = (drops \ {d}) \cup {e} /\ mustDrop' \subseteq mustDrop
    BY <1>6, <2>0 DEF DropDir
  <2>2. e \in DropType /\ e.month = d.month /\ e.kind = k1
    BY <1>2, <2>0 DEF DropType, Kinds
  <2>3. FromOn(k1) = FromOn(d.kind) \ {d.kind} /\ d.kind \in FromOn(d.kind)
    BY <1>2, <1>6 DEF FromOn, Kinds
  <2> HIDE DEF k1
  <2>4. DropDirs(e)'
    BY <1>2, <1>3, <2>2, <2>3 DEF DropDirs
  <2>5. {e} \in SUBSET DropType /\ (\A f \in {e} : f.month = d.month /\ DropDirs(f)') /\ (\A f, g \in {e} : f = g)
    BY <2>2, <2>4
  <2>6. /\ SetDir(d.kind, d.month, {}) /\ {} \in SUBSET Entries
        /\ UNCHANGED <<now, ptws, watcher, adder, searches, status, added, restarts>>
    BY <1>1
  <2> QED BY <1>4, <2>1, <2>5, <2>6, DropMoves
<1> QED BY <1>5, <1>6

\* The table is closed, or the process dies.
LEMMA StopStep ==
  ASSUME TableInv, must_close \/ Crash
  PROVE  TableInv'
<1>1. PICK st \in {"closed", "down", "aborted"} : Down(st)
  BY DEF must_close, Crash
<1>2. status = "open" /\ restarts' \in Nat /\ UNCHANGED <<now, dir, json, added>>
  BY DEF must_close, Crash, disk, TableInv, TypeOK
<1> QED BY <1>1, <1>2, DiskSame, DownStep

\* Opening the table.
LEMMA OpenStep ==
  ASSUME TableInv, must_open_table
  PROVE  TableInv'
<1>1. /\ status # "open" /\ UNCHANGED <<now, watcher, adder, searches, mustDrop, drops, added, restarts>>
      /\ status \in {"closed", "down", "aborted"}
  BY DEF must_open_table
<1>2. /\ ptws = {} /\ watcher.out = {} /\ ~watcher.reading /\ drops = {}
      /\ \A a \in Adders : adder[a].pc = "idle" /\ adder[a].held = {}
      /\ \A s \in Searchers : searches[s] = {}
  BY <1>1 DEF TableInv, NothingDown
<1>3. \A t \in added : t >= now - Retention => MonthOf(t) \in Names
  BY <1>1 DEF TableInv, RowsListed
<1>4. IndexedHeld' /\ RowsAhead'
  BY <1>1 DEF TableInv, IndexedHeld, RowsAhead
<1>5. \A m \in RefsNow' : m \in ptws'
  <2> SUFFICES ASSUME NEW m \in RefsNow' PROVE m \in ptws'
    OBVIOUS
  <2>1. m \in Refs(ptws', watcher, adder, searches)
    BY <1>1 DEF RefsNow
  <2> QED BY <1>2, <2>1 DEF Refs
<1>6. CASE status' = "failed" /\ UNCHANGED <<ptws, disk>>
  <2>1. UNCHANGED <<ptws, dir, json>>
    BY <1>6 DEF disk
  <2>2. TypeOK'
    BY <1>1, <1>6, <2>1 DEF TableInv, TypeOK
  <2>3. NothingDown'
    BY <1>1, <1>2, <2>1 DEF NothingDown
  <2>4. Holding'
    BY <1>1, <1>2, <1>5, <2>1, HoldKept DEF TableInv
  <2>5. Names' = Names
    BY <2>1 DEF Names, Kept, is_partially_removed_dir
  <2>6. RowsListed'
    BY <1>1, <1>2, <1>3, <1>6, <2>5 DEF RowsListed
  <2> QED BY <1>4, <2>2, <2>3, <2>4, <2>6 DEF TableInv
<1>7. CASE /\ status' = "open" /\ ptws' = Names
           /\ json' = [m \in Months |-> IF m \in Names THEN ListedParts(m) ELSE {}]
           /\ dir' = [k \in Kinds |-> [m \in Months |->
                IF m \notin Names THEN {}
                ELSE {"dir"} \cup (IF k = "big" THEN {} ELSE {"parts.json"})
                             \cup (IF k \in ListedParts(m) THEN {"parts"} ELSE {})]]
  <2>1. Names \subseteq Months
    BY DEF Names
  <2>2. \A m \in Months : ListedParts(m) \subseteq Kinds
    BY DEF ListedParts, Kinds
  <2>3. DiskTyped'
    BY <1>7, <2>2 DEF DiskTyped, Entries
  <2>4. TypeOK'
    BY <1>1, <1>7, <2>1, <2>3 DEF TableInv, TypeOK, DiskTyped
  <2>5. \A m \in Names, k \in Kinds : WholeDir(k, m)'
    <3> SUFFICES ASSUME NEW m \in Names, NEW k \in Kinds PROVE WholeDir(k, m)'
      OBVIOUS
    <3>1. json'[m] = ListedParts(m)
      BY <1>7, <2>1
    <3>2. dir'[k][m] = {"dir"} \cup (IF k = "big" THEN {} ELSE {"parts.json"})
                               \cup (IF k \in ListedParts(m) THEN {"parts"} ELSE {})
      BY <1>7, <2>1
    <3> QED BY <3>1, <3>2 DEF WholeDir
  <2>6. HeldWhole'
    BY <1>5, <1>7, <2>5 DEF HeldWhole
  <2>7. DropsApart' /\ DropsDirs'
    BY <1>1, <1>2 DEF DropsApart, DropsDirs
  <2>8. NothingDown'
    BY <1>7 DEF NothingDown
  <2>9. RowsListed'
    BY <1>1, <1>2, <1>3, <1>7 DEF RowsListed
  <2> QED BY <1>4, <2>4, <2>6, <2>7, <2>8, <2>9 DEF TableInv, Holding
<1> QED BY <1>6, <1>7 DEF must_open_table

\* The invariant holds initially.
LEMMA TableInit ==
  ASSUME Init
  PROVE  TableInv
<1>1. NoWatcher \in WatcherType /\ NoWatcher.out = {} /\ NoWatcher.reading = FALSE
  BY TableAssumption DEF WatcherType, NoWatcher
<1>2. /\ adder = [a \in Adders |-> NoAdder] /\ searches = [s \in Searchers |-> {}] /\ watcher = NoWatcher
      /\ ptws = {} /\ drops = {} /\ added = {} /\ status = "open"
  BY DEF Init
<1>3. TypeOK
  <2>1. RestTyped
    BY TableAssumption DEF Init, RestTyped
  <2>2. DiskTyped /\ DropsTyped
    BY DEF Init, DiskTyped, DropsTyped
  <2> QED BY <1>1, <1>2, <2>1, <2>2, NoAdderTyped, TypeParts
<1>4. RefsNow = {}
  BY <1>1, <1>2, NoAdderTyped, InRefs DEF RefsNow
<1>5. Holding
  BY <1>2, <1>4 DEF Holding, HeldWhole, DropsApart, DropsDirs
<1>6. NothingDown /\ IndexedHeld /\ RowsAhead /\ RowsListed
  BY <1>1, <1>2, NoAdderTyped DEF NothingDown, IndexedHeld, RowsAhead, RowsListed
<1> QED BY <1>3, <1>5, <1>6 DEF TableInv

\* Every step keeps the invariant.
LEMMA TableStep ==
  ASSUME TableInv, [Next]_vars
  PROVE  TableInv'
<1>1. CASE UNCHANGED vars
  <2>1. /\ UNCHANGED <<now, ptws, watcher, adder, searches, mustDrop, drops, dir, json, status, added, restarts>>
        /\ RefsNow' = RefsNow /\ Names' = Names
    BY <1>1 DEF vars, memory, disk, RefsNow, Names, Kept, is_partially_removed_dir
  <2>2. TypeOK'
    BY <2>1 DEF TableInv, TypeOK
  <2>3. NothingDown' /\ IndexedHeld' /\ RowsAhead'
    BY <2>1 DEF TableInv, NothingDown, IndexedHeld, RowsAhead
  <2>4. Holding'
    BY <2>1, HoldKept DEF TableInv
  <2>5. RowsListed'
    BY <2>1 DEF TableInv, RowsListed
  <2> QED BY <2>2, <2>3, <2>4, <2>5 DEF TableInv
<1>2. ASSUME NEW a \in Adders, AdderStep(a)
      PROVE  TableInv'
  BY <1>2, GetStep, IndexStep, GetAllStep, MissingRowStep, BoundsStep, AddRowsStep, MustAddStep DEF AdderStep
<1>3. ASSUME NEW a \in Adders, NEW made \in {{"small"}, {"small", "big"}, Kinds}, CreateCut(a, made)
      PROVE  TableInv'
  BY <1>3, CreateCutStep DEF Kinds
<1>4. CASE WatcherStep
  BY <1>4, EnforceStep, EnforceDropStep DEF WatcherStep
<1>5. CASE DropStep
  BY <1>5, DropMarkStep, DropEntryStep, DropDirStep DEF DropStep
<1> QED BY <1>1, <1>2, <1>3, <1>4, <1>5, TickStep, StopStep, OpenStep, AddStep, SearchStep, EndSearchStep,
            ReadClockStep DEF Next

----------------------------------------------------------------------------
\* Every row that has been added and is in the retention is in a listed partition while the
\* table is open, for all lengths of the months and of the retention and whatever the lag of
\* the watcher: enforce_retention retires no month with a row that counts, an add that works on
\* an old copy of the list included, and must_open_table finds every listed month again.
THEOREM RowsStayListed == Spec => []LiveRowsListed
<1>1. TableInv => LiveRowsListed
  <2> SUFFICES ASSUME TableInv, status = "open", NEW t \in added, InRetention(t, now)
               PROVE  timestamp_to_partition_name(t) \in ptws
    BY DEF LiveRowsListed
  <2>1. t \in Times /\ now \in 0..MaxTime
    BY DEF TableInv, TypeOK
  <2>2. t >= now - Retention
    BY <2>1, TimesAreIntegers DEF InRetention
  <2> QED BY <2>2 DEF TableInv, RowsListed, MonthOf
<1> QED BY <1>1, TableInit, TableStep, PTL DEF Spec

----------------------------------------------------------------------------
(* What a process that starts again finds, where a listing never returns    *)
(* the marker before the entries it marks.                                  *)

\* A directory is away, empty, marked or whole, and a month with a whole small directory, where
\* its parts.json is, has a whole big one.
MonthReadable(m) ==
  /\ \A k \in Kinds : dir[k][m] \in {{}, {"dir"}} \/ "marker" \in dir[k][m] \/ WholeDir(k, m)
  /\ WholeDir("small", m) => WholeDir("big", m)

\* A directory whose entries go is marked until they are gone.
RemovalMarked(d) ==
  d.step = "remove" => "marker" \in dir[d.kind][d.month] \/ dir[d.kind][d.month] = {"dir"}

DiskInv ==
  /\ \A m \in Months : MonthReadable(m)
  /\ \A d \in drops : RemovalMarked(d)
  /\ status # "failed"

SameMonth(m)  == \A k \in Kinds : dir'[k][m] = dir[k][m] /\ json'[m] = json[m]
WholeMonth(m) == \A k \in Kinds : WholeDir(k, m)'
EmptyMonth(m) == \A k \in Kinds : dir'[k][m] \in {{}, {"dir"}}

\* A step that makes, fills or forgets whole months at a time.
LEMMA DiskMoves ==
  ASSUME DiskInv, status' # "failed",
         \A m \in Months : SameMonth(m) \/ WholeMonth(m) \/ EmptyMonth(m),
         \A d \in drops' : d.step = "mark" \/ (d \in drops /\ dir'[d.kind][d.month] = dir[d.kind][d.month])
  PROVE  DiskInv'
<1>1. "small" \in Kinds /\ "big" \in Kinds
  BY DEF Kinds
<1>2. ASSUME NEW m \in Months PROVE MonthReadable(m)'
  <2>1. CASE SameMonth(m)
    <3>1. \A k \in Kinds : WholeDir(k, m)' <=> WholeDir(k, m)
      BY <2>1 DEF SameMonth, WholeDir
    <3> QED BY <1>1, <2>1, <3>1 DEF DiskInv, MonthReadable, SameMonth
  <2>2. CASE WholeMonth(m)
    BY <1>1, <2>2 DEF MonthReadable, WholeMonth
  <2>3. CASE EmptyMonth(m)
    <3>1. ~WholeDir("small", m)'
      <4>1. "parts.json" \notin dir'["small"][m]
        BY <1>1, <2>3 DEF EmptyMonth
      <4> QED BY <4>1 DEF WholeDir
    <3> QED BY <2>3, <3>1 DEF MonthReadable, EmptyMonth
  <2> QED BY <2>1, <2>2, <2>3
<1>3. ASSUME NEW d \in drops' PROVE RemovalMarked(d)'
  BY DEF RemovalMarked, DiskInv
<1> QED BY <1>2, <1>3 DEF DiskInv

\* Drops begin with the marker.
LEMMA UnrefMarks ==
  ASSUME NEW t, NEW S, NEW refs, NEW flags, Unref(t, S, refs, flags)
  PROVE  \A d \in drops' : d.step = "mark" \/ d \in drops
BY DEF Unref

\* The disk stays, and whatever removals begin start with the marker.
LEMMA DiskStays ==
  ASSUME DiskInv, status' # "failed", UNCHANGED <<dir, json>>, \A d \in drops' : d.step = "mark" \/ d \in drops
  PROVE  DiskInv'
<1>1. \A m \in Months : SameMonth(m)
  BY DEF SameMonth
<1> QED BY <1>1, DiskMoves

\* A part arrives in a partition that is in use.
LEMMA DiskPartAdded ==
  ASSUME TableInv, DiskInv, status' # "failed", NEW k \in Kinds, NEW m \in RefsNow, m \in Months,
         dir' = [dir EXCEPT ![k][m] = @ \cup {"parts"}], json' = [json EXCEPT ![m] = @ \cup {k}],
         \A d \in drops' : d.step = "mark" \/ d \in drops
  PROVE  DiskInv'
<1>1. /\ \A j \in Kinds, n \in RefsNow : WholeDir(j, n)'
      /\ \A d \in drops, j \in Kinds : dir'[j][d.month] = dir[j][d.month]
      /\ \A j \in Kinds, n \in Months \ {m} : dir'[j][n] = dir[j][n] /\ json'[n] = json[n]
  BY PartAdded
<1>2. \A n \in Months : SameMonth(n) \/ WholeMonth(n)
  BY <1>1 DEF SameMonth, WholeMonth
<1>3. \A d \in drops : dir'[d.kind][d.month] = dir[d.kind][d.month]
  BY <1>1 DEF TableInv, TypeOK
<1> QED BY <1>2, <1>3, DiskMoves

\* A partition is created.
LEMMA DiskCreate ==
  ASSUME TableInv, DiskInv, NEW a \in Adders, NEW n, NEW m \in Months, NEW new \in SUBSET Kinds,
         must_create_partition(a, m, n, new)
  PROVE  DiskInv'
<1>1. CASE ~Exists(m)
  <2>1. /\ dir' = [k \in Kinds |-> [dir[k] EXCEPT ![m] =
                     @ \cup {"dir"} \cup (IF k = "big" THEN {} ELSE {"parts.json"})
                       \cup (IF k \in new THEN {"parts"} ELSE {})]]
        /\ json' = [json EXCEPT ![m] = new] /\ UNCHANGED <<drops, status>>
    BY <1>1 DEF must_create_partition, must_mkdir_fail_if_exist
  <2>2. /\ \A k \in Kinds : WholeDir(k, m)'
        /\ \A k \in Kinds, i \in Months \ {m} : dir'[k][i] = dir[k][i] /\ json'[i] = json[i]
    BY <1>1, <2>1, MadeWhole
  <2>3. \A i \in Months : SameMonth(i) \/ WholeMonth(i)
    BY <2>2 DEF SameMonth, WholeMonth
  <2>4. \A d \in drops' : d \in drops /\ dir'[d.kind][d.month] = dir[d.kind][d.month]
    <3>1. \A d \in drops : d.month # m
      BY <1>1, FreshMonth
    <3> QED BY <2>1, <2>2, <3>1 DEF TableInv, TypeOK
  <2>5. status' # "failed"
    BY <2>1 DEF DiskInv
  <2> QED BY <2>3, <2>4, <2>5, DiskMoves
<1>2. CASE Exists(m)
  <2>1. status' = "aborted" /\ drops' = {} /\ UNCHANGED <<dir, json>>
    BY <1>2 DEF must_create_partition, must_mkdir_fail_if_exist, disk, Down
  <2> QED BY <2>1, DiskStays
<1> QED BY <1>1, <1>2

\* The steps of an adder.
LEMMA DiskAdder ==
  ASSUME TableInv, DiskInv, NEW a \in Adders, AdderStep(a)
  PROVE  DiskInv'
<1> DEFINE m == MonthOf(adder[a].ts)
<1>1. m \in Months /\ adder[a].held \subseteq RefsNow /\ ptws \subseteq RefsNow
  BY AdderParts, InRefs DEF RefsNow
<1>2. ASSUME must_get_partition(a) PROVE DiskInv'
  <2>1. CASE m \in ptws
    <3>1. UNCHANGED <<dir, json, drops, status>>
      BY <1>2, <2>1 DEF must_get_partition, disk, MonthOf
    <3> QED BY <3>1, DiskStays DEF DiskInv
  <2>2. CASE m \notin ptws
    <3>1. PICK n : must_create_partition(a, m, n, {})
      BY <1>2, <2>2 DEF must_get_partition, MonthOf
    <3> QED BY <1>1, <3>1, DiskCreate
  <2> QED BY <2>1, <2>2
<1>3. ASSUME create_global_indexes(a) PROVE DiskInv'
  <2>1. /\ dir' = [dir EXCEPT !["indexdb"][m] = @ \cup {"parts"}] /\ json' = [json EXCEPT ![m] = @ \cup {"indexdb"}]
        /\ status' = status
    BY <1>3 DEF create_global_indexes, MonthOf
  <2>2. \A d \in drops' : d.step = "mark" \/ d \in drops
    BY <1>3, UnrefMarks DEF create_global_indexes
  <2>3. m \in RefsNow /\ "indexdb" \in Kinds
    BY <1>1, <1>3 DEF TableInv, IndexedHeld, create_global_indexes, Kinds
  <2> HIDE DEF m
  <2> QED BY <1>1, <2>1, <2>2, <2>3, DiskPartAdded DEF DiskInv
<1>4. ASSUME get_all_partitions(a) \/ get_min_max_timestamps(a) PROVE DiskInv'
  <2>1. UNCHANGED <<dir, json, drops, status>>
    BY <1>4 DEF get_all_partitions, get_min_max_timestamps, disk
  <2> QED BY <2>1, DiskStays DEF DiskInv
<1>5. ASSUME MissingRow(a) PROVE DiskInv'
  <2>1. UNCHANGED <<dir, json, status>> /\ \A d \in drops' : d.step = "mark" \/ d \in drops
    BY <1>5, UnrefMarks DEF MissingRow, disk
  <2> QED BY <2>1, DiskStays DEF DiskInv
<1>6. ASSUME NEW k \in {"small", "big"}, add_rows(a, k) PROVE DiskInv'
  <2>1. /\ dir' = [dir EXCEPT ![k][m] = @ \cup {"parts"}] /\ json' = [json EXCEPT ![m] = @ \cup {k}]
        /\ status' = status /\ m \in adder[a].held
    BY <1>6 DEF add_rows, MonthOf
  <2>2. \A d \in drops' : d.step = "mark" \/ d \in drops
    BY <1>6, UnrefMarks DEF add_rows
  <2>3. m \in RefsNow /\ k \in Kinds
    BY <1>1, <2>1 DEF Kinds
  <2> HIDE DEF m
  <2> QED BY <1>1, <2>1, <2>2, <2>3, DiskPartAdded DEF DiskInv
<1>7. ASSUME NEW k \in {"small", "big"}, must_add_rows(a, k) PROVE DiskInv'
  <2>1. k \in Kinds
    BY DEF Kinds
  <2>2. CASE m \in ptws
    <3>1. /\ dir' = [dir EXCEPT ![k][m] = @ \cup {"parts"}] /\ json' = [json EXCEPT ![m] = @ \cup {k}]
          /\ status' = status /\ drops' = drops
      BY <1>7, <2>2 DEF must_add_rows, MonthOf
    <3>2. m \in RefsNow
      BY <1>1, <2>2
    <3> HIDE DEF m
    <3> QED BY <1>1, <2>1, <3>1, <3>2, DiskPartAdded DEF DiskInv
  <2>3. CASE m \notin ptws
    <3>1. must_create_partition(a, m, NoAdder, {k})
      BY <1>7, <2>3 DEF must_add_rows, MonthOf
    <3> QED BY <1>1, <2>1, <3>1, DiskCreate
  <2> QED BY <2>2, <2>3
<1> QED BY <1>2, <1>3, <1>4, <1>5, <1>6, <1>7 DEF AdderStep

\* The creation of a partition is cut short.
LEMMA DiskCreateCut ==
  ASSUME TableInv, DiskInv, NEW a \in Adders, NEW made \in SUBSET Kinds, CreateCut(a, made)
  PROVE  DiskInv'
<1> DEFINE m == MonthOf(adder[a].ts)
           X(k) == IF k \in made THEN {"dir"} ELSE {}
<1>1. status' = "down" /\ drops' = {} /\ json' = json
  BY DEF CreateCut, Down
<1>2. dir' = [k \in Kinds |-> [dir[k] EXCEPT ![m] = X(k)]]
  BY DEF CreateCut, MonthOf
<1>3. m \in Months /\ dir \in [Kinds -> [Months -> SUBSET Entries]]
  BY AdderParts DEF TableInv, TypeOK
<1>4. \A k \in Kinds : X(k) \in {{}, {"dir"}}
  OBVIOUS
<1> HIDE DEF m, X
<1>5. /\ \A k \in Kinds : dir'[k][m] = X(k)
      /\ \A k \in Kinds, n \in Months \ {m} : dir'[k][n] = dir[k][n]
  BY <1>2, <1>3
<1>6. \A n \in Months : SameMonth(n) \/ EmptyMonth(n)
  BY <1>1, <1>4, <1>5 DEF SameMonth, EmptyMonth
<1> QED BY <1>1, <1>6, DiskMoves

\* A step of a removal: the directory at which it is stays or gets marked, or is empty or away.
LEMMA DiskDropMoves ==
  ASSUME TableInv, DiskInv, NEW d \in drops, NEW X \in SUBSET Entries, SetDir(d.kind, d.month, X),
         "marker" \in X \/ X \in {{}, {"dir"}},
         \A k \in Kinds \ {d.kind}, n \in Months : k \in json'[n] <=> k \in json[n],
         \A n \in Months \ {d.month} : json'[n] = json[n],
         \A e \in drops' : RemovalMarked(e)' \/ e \in drops \ {d}, status' = status
  PROVE  DiskInv'
<1>1. d.kind \in Kinds /\ d.month \in Months /\ DropDirs(d) /\ TypeOK
  BY DropParts DEF TableInv
<1>2. /\ dir'[d.kind][d.month] = X
      /\ \A k \in Kinds, n \in Months : k # d.kind \/ n # d.month => dir'[k][n] = dir[k][n]
  BY <1>1, DirSet
<1>3. \A k \in Kinds, n \in Months : k # d.kind \/ n # d.month => (WholeDir(k, n)' <=> WholeDir(k, n))
  <2> SUFFICES ASSUME NEW k \in Kinds, NEW n \in Months, k # d.kind \/ n # d.month
               PROVE  WholeDir(k, n)' <=> WholeDir(k, n)
    OBVIOUS
  <2>1. dir'[k][n] = dir[k][n] /\ (k \in json'[n] <=> k \in json[n])
    BY <1>2
  <2> QED BY <2>1 DEF WholeDir
<1>4. ASSUME NEW n \in Months PROVE MonthReadable(n)'
  <2>1. MonthReadable(n)
    BY DEF DiskInv
  <2>2. ASSUME NEW k \in Kinds
        PROVE  dir'[k][n] \in {{}, {"dir"}} \/ "marker" \in dir'[k][n] \/ WholeDir(k, n)'
    <3>1. CASE k = d.kind /\ n = d.month
      BY <1>2, <3>1
    <3>2. CASE k # d.kind \/ n # d.month
      BY <1>2, <1>3, <2>1, <3>2 DEF MonthReadable
    <3> QED BY <3>1, <3>2
  <2>3. WholeDir("small", n)' => WholeDir("big", n)'
    <3>0. "small" \in Kinds /\ "big" \in Kinds
      BY DEF Kinds
    <3>1. CASE n # d.month
      BY <1>3, <2>1, <3>0, <3>1 DEF MonthReadable
    <3>2. CASE n = d.month /\ d.kind = "small"
      <4>1. dir'["small"][n] = X
        BY <1>2, <3>2
      <4>2. ~WholeDir("small", n)'
        <5>1. CASE "marker" \in X
          BY <4>1, <5>1 DEF WholeDir
        <5>2. CASE X \in {{}, {"dir"}}
          <6>1. "parts.json" \notin dir'["small"][n]
            BY <4>1, <5>2
          <6> QED BY <6>1 DEF WholeDir
        <5> QED BY <5>1, <5>2
      <4> QED BY <4>2
    <3>3. CASE n = d.month /\ d.kind # "small"
      <4>1. "small" \notin FromOn(d.kind)
        BY <3>3 DEF FromOn
      <4>2. dir["small"][n] = {}
        BY <1>1, <3>0, <3>3, <4>1 DEF DropDirs
      <4>3. dir'["small"][n] = {}
        BY <1>2, <3>0, <3>3, <4>2
      <4> QED BY <4>3 DEF WholeDir
    <3> QED BY <3>1, <3>2, <3>3
  <2> QED BY <2>2, <2>3 DEF MonthReadable
<1>5. ASSUME NEW e \in drops \ {d} PROVE RemovalMarked(e)'
  <2>1. e.month # d.month /\ e.month \in Months /\ e.kind \in Kinds
    BY DEF TableInv, Holding, DropsApart, TypeOK
  <2>2. dir'[e.kind][e.month] = dir[e.kind][e.month]
    BY <1>2, <2>1
  <2>3. RemovalMarked(e)
    BY DEF DiskInv
  <2> QED BY <2>2, <2>3 DEF RemovalMarked
<1>6. status' # "failed" /\ \A e \in drops' : RemovalMarked(e)'
  BY <1>5 DEF DiskInv
<1> QED BY <1>4, <1>6 DEF DiskInv

\* A drop writes its marker.
LEMMA DiskDropMark ==
  ASSUME TableInv, DiskInv, NEW d \in drops, DropMark(d)
  PROVE  DiskInv'
<1> DEFINE X == dir[d.kind][d.month] \cup {"marker"}
<1>0. PICK e : e = [d EXCEPT !.step = "remove"]
  OBVIOUS
<1>1. /\ SetDir(d.kind, d.month, X) /\ drops' = (drops \ {d}) \cup {e}
      /\ json' = json /\ status' = status
  BY <1>0 DEF DropMark, SetDir
<1>2. /\ d \in DropType /\ d.kind \in Kinds /\ d.month \in Months /\ dir[d.kind][d.month] \in SUBSET Entries
  BY DropParts
<1>3. e.month = d.month /\ e.kind = d.kind /\ X \in SUBSET Entries /\ "marker" \in X
  BY <1>0, <1>2 DEF DropType, Entries
<1> HIDE DEF X
<1>4. dir'[d.kind][d.month] = X
  BY <1>1, <1>2, <1>3, DirSet DEF TableInv
<1>5. \A f \in drops' : RemovalMarked(f)' \/ f \in drops \ {d}
  BY <1>1, <1>3, <1>4 DEF RemovalMarked
<1> QED BY <1>1, <1>3, <1>5, DiskDropMoves

\* A drop deletes an entry; the marker is the last of them.
LEMMA DiskDropEntry ==
  ASSUME ~MarkerMayGoFirst, TableInv, DiskInv, NEW d \in drops, NEW en \in Entries, DropEntry(d, en)
  PROVE  DiskInv'
<1> DEFINE es == dir[d.kind][d.month]
<1>1. /\ en \in es \ {"dir"} /\ d.step = "remove"
      /\ en = "marker" => es = {"dir", "marker"}
      /\ UNCHANGED <<drops, json, status>>
  BY DEF DropEntry, memory
<1>2. PICK X \in {es \ {en}} \cup (IF en = "parts" THEN {(es \ {en}) \cup {"broken"}} ELSE {}) :
        SetDir(d.kind, d.month, X)
  BY DEF DropEntry, SetDir
<1>3. d.kind \in Kinds /\ d.month \in Months /\ es \in SUBSET Entries
  BY DropParts
<1>4. "marker" \in es \/ es = {"dir"}
  BY <1>1 DEF DiskInv, RemovalMarked
<1>5. "marker" \in es
  BY <1>1, <1>4
<1>6. X \in SUBSET Entries /\ ("marker" \in X \/ X = {"dir"})
  <2>1. X \in SUBSET Entries
    BY <1>2, <1>3 DEF Entries
  <2>4. X = es \ {en} \/ (en = "parts" /\ X = (es \ {en}) \cup {"broken"})
    BY <1>2
  <2> HIDE DEF es
  <2>2. CASE en = "marker"
    <3>1. X = {"dir", "marker"} \ {"marker"}
      BY <1>1, <2>2, <2>4
    <3> QED BY <2>1, <3>1
  <2>3. CASE en # "marker"
    BY <1>5, <2>1, <2>3, <2>4
  <2> QED BY <2>1, <2>2, <2>3
<1> HIDE DEF es
<1>7. dir'[d.kind][d.month] = X
  BY <1>2, <1>3, <1>6, DirSet DEF TableInv
<1>8. RemovalMarked(d)'
  BY <1>6, <1>7 DEF RemovalMarked
<1>9. \A f \in drops' : RemovalMarked(f)' \/ f \in drops \ {d}
  BY <1>1, <1>8
<1> QED BY <1>1, <1>2, <1>6, <1>9, DiskDropMoves

\* A drop removes a directory that has nothing left in it.
LEMMA DiskDropDir ==
  ASSUME TableInv, DiskInv, NEW d \in drops, DropDir(d)
  PROVE  DiskInv'
<1>1. /\ SetDir(d.kind, d.month, {}) /\ json' = [json EXCEPT ![d.month] = @ \ {d.kind}] /\ status' = status
  BY DEF DropDir, SetDir
<1>2. d.month \in Months /\ d \in DropType
  BY DropParts
<1>3. /\ \A k \in Kinds \ {d.kind}, n \in Months : k \in json'[n] <=> k \in json[n]
      /\ \A n \in Months \ {d.month} : json'[n] = json[n]
  BY <1>1, <1>2 DEF TableInv, TypeOK
<1>4. \A f \in drops' : f.step = "mark" \/ f \in drops \ {d}
  <2>1. CASE d.kind = "indexdb"
    BY <2>1 DEF DropDir
  <2>2. CASE d.kind # "indexdb"
    <3>1. PICK e : e = [d EXCEPT !.step = "mark", !.kind = IF d.kind = "small" THEN "big" ELSE "indexdb"]
      OBVIOUS
    <3>2. drops' = (drops \ {d}) \cup {e} /\ e.step = "mark"
      BY <1>2, <2>2, <3>1 DEF DropDir, DropType
    <3> QED BY <3>2
  <2> QED BY <2>1, <2>2
<1>5. \A f \in drops' : RemovalMarked(f)' \/ f \in drops \ {d}
  BY <1>4 DEF RemovalMarked
<1>6. SetDir(d.kind, d.month, {}) /\ status' = status /\ {} \in SUBSET Entries
  BY <1>1
<1> QED BY <1>3, <1>5, <1>6, DiskDropMoves

\* The parts that must_read_part_names lists are there.
LEMMA OpensWell ==
  ASSUME TableInv, DiskInv, NEW m \in Months, NEW k \in ListedParts(m)
  PROVE  Kept(k, m) /\ "parts" \in dir[k][m]
<1> DEFINE found == {j \in Kinds : Kept(j, m) /\ {"parts", "broken"} \cap dir[j][m] # {}}
           file(j) == Kept(j, m) /\ "parts.json" \in dir[j][m]
<1>1. k \in Kinds /\ "small" \in Kinds
  BY DEF ListedParts, Kinds
<1>2. \A j \in Kinds : Kept(j, m) => WholeDir(j, m)
  BY DEF DiskInv, MonthReadable, Kept, is_partially_removed_dir
<1>3. \/ k \in {"small", "big"} /\ file("small") /\ k \in json[m]
      \/ k = "indexdb" /\ file("indexdb") /\ k \in json[m]
      \/ k \in found
  BY DEF ListedParts
<1>4. CASE k \in found
  <2>1. WholeDir(k, m) /\ Kept(k, m) /\ {"parts", "broken"} \cap dir[k][m] # {}
    BY <1>2, <1>4
  <2>2. "broken" \notin dir[k][m]
    BY <2>1 DEF WholeDir
  <2> QED BY <2>1, <2>2
<1>5. CASE k \in json[m] /\ WholeDir(k, m)
  <2>1. "parts" \in dir[k][m] /\ "marker" \notin dir[k][m]
    BY <1>5 DEF WholeDir
  <2> QED BY <2>1 DEF Kept, is_partially_removed_dir
<1>6. CASE k \in {"small", "big"} /\ file("small") /\ k \in json[m]
  <2>1. WholeDir("small", m)
    BY <1>1, <1>2, <1>6
  <2>2. WholeDir("big", m)
    BY <2>1 DEF DiskInv, MonthReadable
  <2> QED BY <1>5, <1>6, <2>1, <2>2
<1>7. CASE k = "indexdb" /\ file("indexdb") /\ k \in json[m]
  BY <1>1, <1>2, <1>5, <1>7
<1> QED BY <1>3, <1>4, <1>6, <1>7

\* The table is opened again.
LEMMA DiskOpen ==
  ASSUME TableInv, DiskInv, must_open_table
  PROVE  DiskInv'
<1>1. \A m \in Names : \A k \in ListedParts(m) : Kept(k, m) /\ "parts" \in dir[k][m]
  BY OpensWell DEF Names
<1>2. /\ status' = "open" /\ ptws' = Names
      /\ json' = [m \in Months |-> IF m \in Names THEN ListedParts(m) ELSE {}]
      /\ dir' = [k \in Kinds |-> [m \in Months |->
           IF m \notin Names THEN {}
           ELSE {"dir"} \cup (IF k = "big" THEN {} ELSE {"parts.json"})
                        \cup (IF k \in ListedParts(m) THEN {"parts"} ELSE {})]]
  BY <1>1 DEF must_open_table
<1>3. drops' = {}
  BY DEF must_open_table, TableInv, NothingDown
<1>4. ASSUME NEW m \in Months PROVE WholeMonth(m) \/ EmptyMonth(m)
  <2>1. CASE m \in Names
    <3> SUFFICES ASSUME NEW k \in Kinds PROVE WholeDir(k, m)'
      BY DEF WholeMonth
    <3>1. json'[m] = ListedParts(m)
      BY <1>2, <2>1
    <3>2. dir'[k][m] = {"dir"} \cup (IF k = "big" THEN {} ELSE {"parts.json"})
                               \cup (IF k \in ListedParts(m) THEN {"parts"} ELSE {})
      BY <1>2, <2>1
    <3> QED BY <3>1, <3>2 DEF WholeDir
  <2>2. CASE m \notin Names
    BY <1>2, <2>2 DEF EmptyMonth
  <2> QED BY <2>1, <2>2
<1> QED BY <1>2, <1>3, <1>4, DiskMoves

\* Every step keeps the invariant about the disk, when the marker is deleted last.
LEMMA DiskStep ==
  ASSUME ~MarkerMayGoFirst, TableInv, DiskInv, [Next]_vars
  PROVE  DiskInv'
<1>1. CASE UNCHANGED vars \/ Tick \/ retention_watcher \/ enforce_retention
  <2>1. UNCHANGED <<dir, json, drops, status>>
    BY <1>1 DEF vars, memory, disk, Tick, retention_watcher, enforce_retention
  <2> QED BY <2>1, DiskStays DEF DiskInv
<1>2. CASE must_close \/ Crash
  <2>1. status' \in {"closed", "down"} /\ drops' = {} /\ UNCHANGED <<dir, json>>
    BY <1>2 DEF must_close, Crash, Down, disk
  <2> QED BY <2>1, DiskStays
<1>3. ASSUME NEW s \in Searchers, get_partitions(s) \/ EndSearch(s)
      PROVE  DiskInv'
  <2>1. UNCHANGED <<dir, json, status>> /\ \A d \in drops' : d.step = "mark" \/ d \in drops
    BY <1>3, UnrefMarks DEF get_partitions, EndSearch, disk
  <2> QED BY <2>1, DiskStays DEF DiskInv
<1>4. ASSUME NEW m \in Months, EnforceDrop(m)
      PROVE  DiskInv'
  <2>1. UNCHANGED <<dir, json, status>> /\ \A d \in drops' : d.step = "mark" \/ d \in drops
    BY <1>4, UnrefMarks DEF EnforceDrop, disk
  <2> QED BY <2>1, DiskStays DEF DiskInv
<1>5. ASSUME NEW a \in Adders, NEW t \in Times, add(a, t)
      PROVE  DiskInv'
  <2>1. UNCHANGED <<dir, json, drops, status>>
    BY <1>5 DEF add, disk
  <2> QED BY <2>1, DiskStays DEF DiskInv
<1>6. ASSUME NEW a \in Adders, NEW made \in {{"small"}, {"small", "big"}, Kinds}, CreateCut(a, made)
      PROVE  DiskInv'
  BY <1>6, DiskCreateCut DEF Kinds
<1>7. CASE DropStep
  BY <1>7, DiskDropMark, DiskDropEntry, DiskDropDir DEF DropStep
<1> QED BY <1>1, <1>2, <1>3, <1>4, <1>5, <1>6, <1>7, DiskAdder, DiskOpen DEF Next, WatcherStep

\* Partitions in use are whole on the disk, and the types hold, whatever the order in which a
\* directory listing returns the entries: only partitions nobody refers to are removed, and a
\* new partition of the same month is made only when the directories of the old one are gone.
THEOREM HeldStayOnDisk == Spec => [](TypeOK /\ HeldPartitionsOnDisk)
<1>1. TableInv => TypeOK /\ HeldPartitionsOnDisk
  <2> SUFFICES ASSUME TableInv, NEW m \in Refs(ptws, watcher, adder, searches), NEW k \in Kinds
               PROVE  "dir" \in dir[k][m] /\ "marker" \notin dir[k][m] /\ (k \in json[m] => "parts" \in dir[k][m])
    BY DEF HeldPartitionsOnDisk, TableInv
  <2>1. WholeDir(k, m)
    BY DEF TableInv, Holding, HeldWhole, RefsNow
  <2> QED BY <2>1 DEF WholeDir
<1> QED BY <1>1, TableInit, TableStep, PTL DEF Spec

\* Where remove_dir_all takes the marker last, the table opens again after every crash and
\* partitions in use are whole: a crash in the making or in the removal of a partition leaves
\* directories that is_partially_removed_dir recognises, or whole ones.
THEOREM TableOpensAgain ==
  ASSUME ~MarkerMayGoFirst
  PROVE  Spec => []TableSound
<1>1. Init => DiskInv
  <2> SUFFICES ASSUME Init PROVE DiskInv
    OBVIOUS
  <2>1. drops = {} /\ status = "open" /\ \A k \in Kinds, m \in Months : dir[k][m] = {}
    BY DEF Init
  <2>2. \A m \in Months : ~WholeDir("small", m)
    BY <2>1 DEF WholeDir, Kinds
  <2> QED BY <2>1, <2>2 DEF DiskInv, MonthReadable
<1>2. TableInv /\ DiskInv /\ [Next]_vars => DiskInv'
  BY DiskStep
<1>3. DiskInv => OpenSucceeds
  BY DEF DiskInv, OpenSucceeds
<1>4. Spec => [](TypeOK /\ HeldPartitionsOnDisk)
  BY HeldStayOnDisk
<1>5. TypeOK /\ HeldPartitionsOnDisk /\ OpenSucceeds => TableSound
  BY DEF TableSound
<1> QED BY <1>1, <1>2, <1>3, <1>4, <1>5, TableInit, TableStep, PTL DEF Spec

=============================================================================
