--------------------------- MODULE SeriesRegistry ---------------------------
(***************************************************************************)
(* How ingestion finds or creates the TSID of a series (StorageInner::add) *)
(* while delete_series marks series as deleted: the TSID cache, the index  *)
(* of every monthly partition, and the locks that serialize registration.  *)
(*                                                                         *)
(* Index entries are not searchable until the mergeset table has flushed   *)
(* them.  A TSID is its metric id; a row is its series and its date; the   *)
(* hour and next-day caches are PerDayIndex's.                             *)
(***************************************************************************)
EXTENDS Integers, Sequences, FiniteSets

CONSTANTS
  Names,        \* metric names
  Dates,        \* an interval of days
  DaysPerMonth, \* days in a partition
  Inserters,    \* ingestion threads
  Batches,      \* the batches of rows that may be added
  MaxIds,       \* bound on the metric ids generated
  MaxAdds,      \* bound on the batches added
  MaxDeletes,   \* bound on the calls of delete_series
  MaxForgets    \* bound on the entries that the cache drops when it is full, and on restarts

ASSUME SeriesRegistryAssumption ==
  /\ Dates \subseteq Nat /\ DaysPerMonth \in Nat \ {0}
  /\ Batches \subseteq Seq(Names \X Dates)
  /\ MaxIds \in Nat /\ MaxAdds \in Nat /\ MaxDeletes \in Nat /\ MaxForgets \in Nat

VARIABLES
  nameOf,     \* the metric name of every metric id generated so far
  items,      \* per partition: the index entries, <<date, id>> and Global(id)
  searchable, \* per partition: the entries that a new search finds
  deleted,    \* per partition: deleted_metric_ids
  tsidCache,  \* tsid_cache: per name no entry (0) or a metric id
  locked,     \* the names whose creation lock is held
  adding,     \* per inserter: the batch it adds
  del,        \* the delete_series under way
  adds, deletes, forgets   \* history: how often, for the bounds

counts       == <<adds, deletes, forgets>>
index        == <<nameOf, items, searchable, deleted>>
registryVars == <<index, tsidCache, locked, adding, del, counts>>

PartOf(d)    == d \div DaysPerMonth
Partitions   == {PartOf(d) : d \in Dates}
FirstDate(p) == p * DaysPerMonth
Ids          == 1..Len(nameOf)
Global(id)   == <<-1, id>>   \* an entry of the global index has no date

NoDel  == [todo |-> {}, names |-> {}, found |-> FALSE, pc |-> "idle",
           before |-> [p \in Partitions |-> {}]]
NoAdd  == [pc |-> "idle", batch |-> <<>>, atStart |-> [p \in Partitions |-> {}], part |-> 0,
           dmis |-> {}, cursor |-> {}, prev |-> <<>>, hit |-> 0, rows |-> <<>>]

\* The type of every variable; names are registered once per id, and a lock has one owner.
RegistryTypeOK ==
  /\ nameOf \in Seq(Names)
  /\ \A p \in Partitions :
       /\ searchable[p] \subseteq items[p] /\ deleted[p] \subseteq Ids
       /\ \A x \in items[p] : x[2] \in Ids /\ (x[1] = -1 \/ PartOf(x[1]) = p)
  /\ \A n \in Names : tsidCache[n] # 0 => tsidCache[n] \in Ids /\ nameOf[tsidCache[n]] = n
  /\ \A n \in Names : (n \in locked) <=>
       Cardinality({a \in Inserters : adding[a].pc \in {"locked", "put"} /\ Head(adding[a].batch)[1] = n}) = 1
  /\ adds \in 0..MaxAdds /\ deletes \in 0..MaxDeletes /\ forgets \in 0..MaxForgets

RegistryInit ==
  /\ nameOf = <<>>
  /\ items = [p \in Partitions |-> {}] /\ searchable = items /\ deleted = items
  /\ tsidCache = [n \in Names |-> 0] /\ locked = {}
  /\ adding = [a \in Inserters |-> NoAdd] /\ del = NoDel
  /\ adds = 0 /\ deletes = 0 /\ forgets = 0

----------------------------------------------------------------------------
(* add.                                                                    *)

Row(a)  == Head(adding[a].batch)
Name(a) == Row(a)[1]
Date(a) == Row(a)[2]

\* What the calls of delete_series that have returned have deleted.
DeletedForGood == IF del.pc = "idle" THEN deleted ELSE del.before

\* The batch arrives; what is deleted by now is remembered for the properties.
AddBegins(a, b) ==
  /\ adding[a].pc = "idle" /\ adds < MaxAdds
  /\ adds' = adds + 1
  /\ adding' = [adding EXCEPT ![a] = [NoAdd EXCEPT !.pc = "switch", !.batch = b, !.atStart = DeletedForGood]]
  /\ UNCHANGED <<index, tsidCache, locked, del, deletes, forgets>>

\* The next run of rows that land in one partition: the search cursor sees what is
\* searchable now, and the deleted ids are read once for the run.
PickPartition(a) ==
  /\ adding[a].pc = "switch" /\ adding[a].batch # <<>>
  /\ LET p == PartOf(Date(a))
     IN adding' = [adding EXCEPT ![a].pc = "row", ![a].part = p,
                                 ![a].dmis = deleted[p], ![a].cursor = searchable[p]]
  /\ UNCHANGED <<index, tsidCache, locked, del, counts>>

\* The row at hand gets id.  The next row is in the same run or switches the partition.
Resolved(a, id) ==
  LET rest == Tail(adding[a].batch)
  IN [adding EXCEPT ![a].rows = Append(@, <<Date(a), id>>),
                    ![a].prev = <<Name(a), id>>,
                    ![a].batch = rest, ![a].hit = 0,
                    ![a].pc = IF rest = <<>> THEN "perday"
                              ELSE IF PartOf(rest[1][2]) = adding[a].part THEN "row" ELSE "switch"]

\* Mutant: an id of another partition's index is not created in this one.
CreateGlobal_Skip(a, id) == UNCHANGED items

\* has_metric_id, and create_global_indexes where it fails.
CreateGlobal(a, id) == items' = [items EXCEPT ![adding[a].part] = @ \cup {Global(id)}]

SamePrev(a) == adding[a].prev # <<>> /\ adding[a].prev[1] = Name(a)

\* The row has the name of the row before it.
FromPrevious(a) ==
  /\ adding[a].pc = "row" /\ SamePrev(a)
  /\ CreateGlobal(a, adding[a].prev[2])
  /\ adding' = Resolved(a, adding[a].prev[2])
  /\ UNCHANGED <<nameOf, searchable, deleted, tsidCache, locked, del, counts>>

\* Mutant: a cached TSID is taken though it is deleted in this partition.
CacheHit_Deleted(a) == tsidCache[Name(a)] # 0

\* The TSID cache has an id that is not deleted in this partition.
CacheHit(a) == tsidCache[Name(a)] # 0 /\ tsidCache[Name(a)] \notin adding[a].dmis

FromCache(a) ==
  /\ adding[a].pc = "row" /\ ~SamePrev(a) /\ CacheHit(a)
  /\ CreateGlobal(a, tsidCache[Name(a)])
  /\ adding' = Resolved(a, tsidCache[Name(a)])
  /\ UNCHANGED <<nameOf, searchable, deleted, tsidCache, locked, del, counts>>

\* The cache does not help ...
CacheMiss(a) ==
  /\ adding[a].pc = "row" /\ ~SamePrev(a) /\ ~CacheHit(a)
  /\ adding' = [adding EXCEPT ![a].pc = "lock"]
  /\ UNCHANGED <<index, tsidCache, locked, del, counts>>

\* ... so that the slow path takes the creation lock of the name ...
LockName(a) ==
  /\ adding[a].pc = "lock" /\ Name(a) \notin locked
  /\ locked' = locked \cup {Name(a)}
  /\ adding' = [adding EXCEPT ![a].pc = "locked"]
  /\ UNCHANGED <<index, tsidCache, del, counts>>

\* Mutant: the cache is not looked at again under the lock.
CacheHitAgain_No(a) == FALSE

\* ... looks at the cache again ...
CacheHitAgain(a) == CacheHit(a)

FromCacheLocked(a) ==
  /\ adding[a].pc = "locked" /\ CacheHitAgain(a)
  /\ CreateGlobal(a, tsidCache[Name(a)])
  /\ adding' = Resolved(a, tsidCache[Name(a)])
  /\ locked' = locked \ {Name(a)}
  /\ UNCHANGED <<nameOf, searchable, deleted, tsidCache, del, counts>>

\* ... then at the per-day index, where get_tsid_by_metric_name skips ids that are
\* deleted by now ...
Indexed(a) == {id \in Ids : /\ <<Date(a), id>> \in adding[a].cursor
                            /\ nameOf[id] = Name(a) /\ id \notin deleted[adding[a].part]}

get_tsid_by_metric_name(a, id) ==
  /\ adding[a].pc = "locked" /\ ~CacheHitAgain(a)
  /\ id \in Indexed(a)
  /\ adding' = [adding EXCEPT ![a].pc = "put", ![a].hit = id]
  /\ UNCHANGED <<index, tsidCache, locked, del, counts>>

\* ... and generates a TSID if there is none (create_global_indexes, create_per_day_indexes).
generate_tsid(a) ==
  /\ adding[a].pc = "locked" /\ ~CacheHitAgain(a)
  /\ Indexed(a) = {} /\ Len(nameOf) < MaxIds
  /\ LET id == Len(nameOf) + 1
     IN /\ nameOf' = Append(nameOf, Name(a))
        /\ items' = [items EXCEPT ![adding[a].part] = @ \cup {Global(id), <<Date(a), id>>}]
        /\ adding' = [adding EXCEPT ![a].pc = "put", ![a].hit = id]
  /\ UNCHANGED <<searchable, deleted, tsidCache, locked, del, counts>>

\* Mutant: the lock is kept.
put_tsid_by_metric_name_to_cache_Locked(a) ==
  /\ adding[a].pc = "put"
  /\ tsidCache' = [tsidCache EXCEPT ![Name(a)] = adding[a].hit]
  /\ adding' = Resolved(a, adding[a].hit)
  /\ UNCHANGED <<index, locked, del, counts>>

\* The id goes to the cache, and the lock is released.
put_tsid_by_metric_name_to_cache(a) ==
  /\ adding[a].pc = "put"
  /\ tsidCache' = [tsidCache EXCEPT ![Name(a)] = adding[a].hit]
  /\ locked' = locked \ {Name(a)}
  /\ adding' = Resolved(a, adding[a].hit)
  /\ UNCHANGED <<index, del, counts>>

\* prefill_next_index_db creates the ids of the rows in pre in the next month's index,
\* if it is late in the month, and update_per_date_data the per-day entries of all rows.
Prefilled(pre) == {r \in pre : Global(r[2]) \notin items[PartOf(r[1]) + 1]}
update_per_date_data(a, pre) ==
  /\ adding[a].pc = "perday"
  /\ LET rows == {adding[a].rows[i] : i \in DOMAIN adding[a].rows}
     IN /\ pre \subseteq {r \in rows : PartOf(r[1]) + 1 \in Partitions}
        /\ items' = [p \in Partitions |->
             items[p] \cup {r \in rows : PartOf(r[1]) = p}
                      \cup UNION {{Global(r[2]), <<FirstDate(p), r[2]>>} :
                                    r \in Prefilled({r \in pre : PartOf(r[1]) + 1 = p})}]
  /\ adding' = [adding EXCEPT ![a].pc = "store"]
  /\ UNCHANGED <<nameOf, searchable, deleted, tsidCache, locked, del, counts>>

\* must_add_rows takes the rows.
must_add_rows(a) ==
  /\ adding[a].pc = "store"
  /\ adding' = [adding EXCEPT ![a] = NoAdd]
  /\ UNCHANGED <<index, tsidCache, locked, del, counts>>

----------------------------------------------------------------------------
(* delete_series, and what happens to the index and the cache by itself.   *)

\* delete_series for the series with names N takes the partitions ...
delete_series(N) ==
  /\ del.pc = "idle" /\ deletes < MaxDeletes
  /\ del' = [todo |-> Partitions, names |-> N, found |-> FALSE, pc |-> "mark", before |-> deleted]
  /\ deletes' = deletes + 1
  /\ UNCHANGED <<index, tsidCache, locked, adding, adds, forgets>>

\* ... marks what the global index of each has, by what is searchable ...
MarkDeleted(p) ==
  /\ del.pc = "mark" /\ p \in del.todo
  /\ LET ids == {id \in Ids : /\ Global(id) \in searchable[p]
                              /\ nameOf[id] \in del.names /\ id \notin deleted[p]}
     IN /\ deleted' = [deleted EXCEPT ![p] = @ \cup ids]
        /\ del' = [del EXCEPT !.todo = @ \ {p}, !.found = @ \/ ids # {}]
  /\ UNCHANGED <<nameOf, items, searchable, tsidCache, locked, adding, counts>>

\* ... and resets the TSID cache if it has marked something.
ResetCache ==
  /\ del.pc = "mark" /\ del.todo = {}
  /\ tsidCache' = IF del.found THEN [n \in Names |-> 0] ELSE tsidCache
  /\ del' = NoDel
  /\ UNCHANGED <<index, locked, adding, counts>>

\* The mergeset table of a partition flushes its raw items.
FlushIndex(p) ==
  /\ searchable[p] # items[p]
  /\ searchable' = [searchable EXCEPT ![p] = items[p]]
  /\ UNCHANGED <<nameOf, items, deleted, tsidCache, locked, adding, del, counts>>

\* A full WorkingSetCache drops its older generation.
RotateCache(n) ==
  /\ tsidCache[n] # 0 /\ forgets < MaxForgets
  /\ tsidCache' = [tsidCache EXCEPT ![n] = 0]
  /\ forgets' = forgets + 1
  /\ UNCHANGED <<index, locked, adding, del, adds, deletes>>

\* An orderly restart flushes the index and starts with an empty cache.
Reopen ==
  /\ forgets < MaxForgets /\ del.pc = "idle" /\ \A a \in Inserters : adding[a].pc = "idle"
  /\ searchable' = items
  /\ tsidCache' = [n \in Names |-> 0]
  /\ forgets' = forgets + 1
  /\ UNCHANGED <<nameOf, items, deleted, locked, adding, del, adds, deletes>>

AddStep(a) ==
  \/ \E b \in Batches : AddBegins(a, b)
  \/ PickPartition(a) \/ FromPrevious(a) \/ FromCache(a) \/ CacheMiss(a) \/ LockName(a)
  \/ FromCacheLocked(a) \/ generate_tsid(a) \/ put_tsid_by_metric_name_to_cache(a)
  \/ \E id \in Ids : get_tsid_by_metric_name(a, id)
  \/ \E pre \in SUBSET {adding[a].rows[i] : i \in DOMAIN adding[a].rows} : update_per_date_data(a, pre)
  \/ must_add_rows(a)

RegistryNext ==
  \/ \E a \in Inserters : AddStep(a)
  \/ \E N \in (SUBSET Names) \ {{}} : delete_series(N)
  \/ \E p \in Partitions : MarkDeleted(p) \/ FlushIndex(p)
  \/ ResetCache
  \/ \E n \in Names : RotateCache(n)
  \/ Reopen

RegistrySpec == RegistryInit /\ [][RegistryNext]_registryVars

----------------------------------------------------------------------------
(* Properties.                                                             *)

\* No row is given an id that was deleted in the row's partition before its add began, by
\* a delete_series that had returned: such a row would be stored and never found again
\* (the deleted_metric_ids check of add).
RowsUnderLiveIds ==
  \A a \in Inserters : \A i \in DOMAIN adding[a].rows :
     LET r == adding[a].rows[i] IN r[2] \notin adding[a].atStart[PartOf(r[1])]

\* Every row that reaches must_add_rows can be resolved: the index of its partition has
\* its id and its day, whichever way the id was found.
StoredRowsIndexed ==
  \A a \in Inserters : adding[a].pc = "store" =>
     \A i \in DOMAIN adding[a].rows :
        LET r == adding[a].rows[i] IN {Global(r[2]), r} \subseteq items[PartOf(r[1])]

\* As long as the TSID cache has not been reset or forgotten anything, at most one id of a
\* name is not deleted, however many threads insert its first rows (new_series_locks).
NoShadowSeries ==
  forgets = 0 /\ deletes = 0 =>
    \A i, j \in Ids : nameOf[i] = nameOf[j] => i = j

\* What add promises of every row, however inserts, deletions, the loss of cached ids and
\* restarts interleave: its id is live and indexed in its partition, and a name is
\* registered once (StorageInner::add, delete_series).
RegistrySound == RegistryTypeOK /\ RowsUnderLiveIds /\ StoredRowsIndexed /\ NoShadowSeries
=============================================================================
