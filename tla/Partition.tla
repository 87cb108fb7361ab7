----------------------------- MODULE Partition -----------------------------
(***************************************************************************)
(* One monthly partition of the storage engine: rows go from the raw-row   *)
(* shards through in-memory parts to file parts, while background workers  *)
(* flush and merge the parts, searches and a snapshot read them, and the   *)
(* process may close the partition or crash at any point.                  *)
(*                                                                         *)
(* A row is an element of Rows and a part is the set of rows it holds      *)
(* together with the list it belongs to; sizes, blocks and encodings are   *)
(* abstracted to non-deterministic choice.  An assertion of the code that  *)
(* fails moves the partition to the status "fatal" (the process panics).   *)
(***************************************************************************)
EXTENDS Integers, FiniteSets

CONSTANTS
  Rows,                  \* the rows that may be ingested
  Perishable,            \* rows whose series may be deleted or that may leave the retention
  Shards,                \* the raw-row shards of the partition
  FileKinds,             \* lists the part sizes at hand allow a file part to go to
  PartIds,               \* part names (merge_idx values); a name without a trace is fresh
  Adders,                \* threads that call add_rows
  Searchers,             \* searches that may run
  MaxRawRowsPerShard,    \* rows a shard holds before it overflows
  DefaultPartsToMerge,   \* DEFAULT_PARTS_TO_MERGE: pending batches, parts per merge
  MaxSnapshots,          \* bound on the snapshots taken
  MaxForceMerges,        \* bound on the forced merges
  MaxCrashes,            \* bound on the crashes of the process
  MaxCloses,             \* bound on the orderly closes
  DedupEnabled           \* whether a deduplication interval is configured

ASSUME PartitionAssumption ==
  /\ Perishable \subseteq Rows
  /\ FileKinds \subseteq {"small", "big"} /\ FileKinds # {}
  /\ MaxRawRowsPerShard \in Nat \ {0}
  /\ DefaultPartsToMerge \in Nat \ {0, 1}
  /\ MaxSnapshots \in Nat /\ MaxForceMerges \in Nat
  /\ MaxCrashes \in Nat /\ MaxCloses \in Nat
  /\ DedupEnabled \in BOOLEAN
  /\ {"pending_rows_flusher", "snapshot", "close"} \cap Adders = {}

VARIABLES
  shards,       \* rows of every RawRowsShard
  rowssToFlush, \* RawRowsShards.rowss_to_flush: batches taken out of full shards
  hands,        \* what every thread that handles raw rows holds outside the locks
  part,         \* the part behind every part name: its list, rows, deadline passed or not
  listed,       \* PartsState: the parts in inmemory_parts, small_parts and big_parts
  inMerge,      \* parts with the is_in_merge flag
  mustDrop,     \* parts with the must_drop flag
  merges,       \* merges and removals under way
  dirs,         \* part directories: "none", "partial" (being written, or left behind),
                \* "full" (complete and synced) or "removing" (handed to the dir remover)
  partsJson,    \* the names in parts.json
  searches,     \* parts referenced by every search
  snap,         \* the snapshot being taken
  status,       \* where the partition is in its life
  accepted,     \* history: rows the partition has to keep
  dead,         \* rows of deleted series or outside the retention
  dropped,      \* history: dead rows a merge or a stale-part removal has left out
  crashes, snapshots, closes, forced  \* history: how often, for the bounds

mem   == <<shards, rowssToFlush, hands>>
tbl   == <<part, listed, inMerge, mustDrop, merges>>
disk  == <<dirs, partsJson>>
users == <<searches, snap>>
hist  == <<accepted, dead, dropped>>
bounds == <<crashes, snapshots, closes, forced>>
vars  == <<mem, tbl, disk, users, status, hist, bounds>>

Kinds == {"inmemory"} \cup FileKinds
Flushers == Adders \cup {"pending_rows_flusher", "snapshot", "close"}
Owners == {"parts_merger", "inmemory_parts_flusher", "stale_parts_remover",
           "force_merge", "snapshot", "close"}

Batches == (SUBSET Rows) \ {{}}
Part    == [kind : Kinds, rows : SUBSET Rows, due : BOOLEAN]
Hand    == [pc : {"idle", "overflow", "take", "convert"}, todo : SUBSET Shards,
            rowss : SUBSET Batches]
Merge   == [owner : Owners, src : SUBSET PartIds, dst : SUBSET PartIds,
            phase : {"picked", "writing", "written", "swapped"}]
Snap    == [pc : {"idle", "rows", "parts", "grab", "link", "done"},
            must : SUBSET Rows, parts : SUBSET PartIds, linked : SUBSET PartIds,
            rows : SUBSET Rows]

\* The type of every variable.
TypeOK ==
  /\ shards \in [Shards -> SUBSET Rows]
  /\ rowssToFlush \subseteq Batches
  /\ hands \in [Flushers -> Hand]
  /\ part \in [PartIds -> Part]
  /\ listed \subseteq PartIds
  /\ inMerge \subseteq PartIds
  /\ mustDrop \subseteq PartIds
  /\ merges \subseteq Merge
  /\ dirs \in [PartIds -> {"none", "partial", "full", "removing"}]
  /\ partsJson \subseteq PartIds
  /\ searches \in [Searchers -> SUBSET PartIds]
  /\ snap \in Snap
  /\ status \in {"open", "stopped", "signalled", "close_rows", "close_parts",
                 "closed", "down", "fatal"}
  /\ accepted \subseteq Rows /\ dead \subseteq Rows /\ dropped \subseteq Rows
  /\ crashes \in Nat /\ snapshots \in Nat /\ closes \in Nat /\ forced \in Nat

----------------------------------------------------------------------------
(* State functions.                                                        *)

Idle   == [pc |-> "idle", todo |-> {}, rowss |-> {}]
NoPart == [kind |-> "inmemory", rows |-> {}, due |-> FALSE]
NoSnap == [pc |-> "idle", must |-> {}, parts |-> {}, linked |-> {}, rows |-> {}]

isInmemory(p) == part[p].kind = "inmemory"
FileParts(S)  == {p \in S : ~isInmemory(p)}
Full(S)       == \A p \in S : dirs[p] = "full"
RowsOf(S)     == UNION {part[p].rows : p \in S}

DurableRows == RowsOf(partsJson)
BackgroundBusy ==
  \/ hands["pending_rows_flusher"].pc # "idle"
  \/ \E m \in merges : m.owner \in {"parts_merger", "inmemory_parts_flusher",
                                    "stale_parts_remover"}
Merging(o) == \E m \in merges : m.owner = o

\* Mutant: searches hold no references.
Refs_NoSearches(ps, ms, ss, sn) == ps \cup (UNION {m.src : m \in ms}) \cup sn.parts

\* The parts with an Arc<PartWrapper> or an Arc<Part>, given the lists, the merges,
\* the searches and the snapshot that hold them.
Refs(ps, ms, ss, sn) ==
  ps \cup (UNION {m.src : m \in ms}) \cup (UNION {ss[s] : s \in Searchers}) \cup sn.parts

\* next_merge_idx: the counter never returns a name twice.
Unused == {p \in PartIds : /\ p \notin Refs(listed, merges, searches, snap)
                           /\ \A m \in merges : p \notin m.dst
                           /\ dirs[p] = "none"}
next_merge_idx == CHOOSE p \in Unused : TRUE

\* PartWrapper::drop and Part::drop for the parts of S that lose their last reference:
\* refs are the parts still referenced, and flags the value of is_in_merge.
Release(S, refs, flags) ==
  LET freed == S \ refs IN
  /\ part' = [p \in PartIds |-> IF p \in freed THEN NoPart ELSE part[p]]
  /\ dirs' = [p \in PartIds |-> IF p \in freed \cap mustDrop /\ ~isInmemory(p)
                                THEN "removing" ELSE dirs[p]]
  /\ mustDrop' = mustDrop \ freed
  /\ inMerge' = flags \ freed

Panic(ok, st) == status' = IF ok THEN st ELSE "fatal"

Init ==
  /\ shards = [s \in Shards |-> {}] /\ rowssToFlush = {}
  /\ hands = [f \in Flushers |-> Idle]
  /\ part = [p \in PartIds |-> NoPart]
  /\ listed = {} /\ inMerge = {} /\ mustDrop = {} /\ merges = {}
  /\ dirs = [p \in PartIds |-> "none"] /\ partsJson = {}
  /\ searches = [s \in Searchers |-> {}] /\ snap = NoSnap
  /\ status = "open"
  /\ accepted = {} /\ dead = {} /\ dropped = {}
  /\ crashes = 0 /\ snapshots = 0 /\ closes = 0 /\ forced = 0

----------------------------------------------------------------------------
(* Ingestion: raw rows to in-memory parts.                                 *)

\* RawRowsShard::add_rows with one row: a full shard is swapped out first.
add_rows(a, s, r) ==
  /\ status = "open" /\ hands[a].pc = "idle"
  /\ r \in Rows \ (accepted \cup dropped)
  /\ accepted' = accepted \cup {r}
  /\ IF Cardinality(shards[s]) < MaxRawRowsPerShard
     THEN shards' = [shards EXCEPT ![s] = @ \cup {r}] /\ UNCHANGED hands
     ELSE /\ shards' = [shards EXCEPT ![s] = {r}]
          /\ hands' = [hands EXCEPT ![a] = [pc |-> "overflow", todo |-> {},
                                            rowss |-> {shards[s]}]]
  /\ UNCHANGED <<rowssToFlush, tbl, disk, users, status, dead, dropped, bounds>>

\* RawRowsShards::add_rows_to_flush: the adder converts a long enough queue itself.
add_rows_to_flush(a) ==
  /\ hands[a].pc = "overflow"
  /\ LET queue == rowssToFlush \cup hands[a].rowss
     IN IF Cardinality(queue) >= DefaultPartsToMerge
        THEN /\ rowssToFlush' = {}
             /\ hands' = [hands EXCEPT ![a] = [pc |-> "convert", todo |-> {}, rowss |-> queue]]
        ELSE /\ rowssToFlush' = queue
             /\ hands' = [hands EXCEPT ![a] = Idle]
  /\ UNCHANGED <<shards, tbl, disk, users, status, hist, bounds>>

\* Mutant: the queue is copied and not emptied.
FlushQueue_Copy(f) ==
  /\ hands' = [hands EXCEPT ![f] = [pc |-> "take", todo |-> Shards, rowss |-> rowssToFlush]]
  /\ UNCHANGED <<shards, rowssToFlush>>

\* RawRowsShards::flush, first half: take the queue.  A queue or shard whose deadline has
\* not passed is skipped unless the flush is final; that is a flush before its rows came.
FlushQueue(f) ==
  /\ hands' = [hands EXCEPT ![f] = [pc |-> "take", todo |-> Shards, rowss |-> rowssToFlush]]
  /\ rowssToFlush' = {}
  /\ UNCHANGED shards

\* pending_rows_flusher: one tick of the background flusher.
pending_rows_flusher ==
  /\ status \in {"open", "stopped"} /\ hands["pending_rows_flusher"].pc = "idle"
  /\ FlushQueue("pending_rows_flusher")
  /\ UNCHANGED <<tbl, disk, users, status, hist, bounds>>

\* Mutant: an empty shard is flushed too.
ShardBatch_Empty(s) == {shards[s]}

\* The batch a flush takes out of a shard, if there is one.
ShardBatch(s) == IF shards[s] # {} THEN {shards[s]} ELSE {}

\* RawRowsShard::append_raw_rows_to_flush: every shard is locked on its own.
append_raw_rows_to_flush(f, s) ==
  /\ hands[f].pc = "take" /\ s \in hands[f].todo
  /\ LET rest == hands[f].todo \ {s}
     IN hands' = [hands EXCEPT ![f] = [pc    |-> IF rest = {} THEN "convert" ELSE "take",
                                       todo  |-> rest,
                                       rowss |-> @.rowss \cup ShardBatch(s)]]
  /\ shards' = [shards EXCEPT ![s] = {}]
  /\ UNCHANGED <<rowssToFlush, tbl, disk, users, status, hist, bounds>>

\* Mutant: the test of the retention deadline is the wrong way round.
Droppable_Inverted(rows) == rows \ dead

\* The rows merge_block_streams may leave out: those of deleted series and those outside
\* the retention (a block that is only partly outside may keep them).
Droppable(rows) == rows \cap dead

\* flush_rowss_to_inmemory_parts: some of the batches, merged in private, become
\* one part under the parts lock; a merge of several batches may leave out dead rows.
add_to_inmemory_parts(f, bs, lost) ==
  /\ hands[f].pc = "convert"
  /\ bs \in (SUBSET hands[f].rowss) \ {{}}
  /\ lost \subseteq Droppable(UNION bs)
  /\ Cardinality(bs) = 1 => lost = {}
  /\ Unused # {}
  /\ LET p    == next_merge_idx
         rest == hands[f].rowss \ bs
         rows == (UNION bs) \ lost
     IN /\ part' = [part EXCEPT ![p].rows = rows]
        /\ listed' = IF rows = {} THEN listed ELSE listed \cup {p}
        /\ hands' = [hands EXCEPT ![f] = IF rest = {} THEN Idle ELSE [@ EXCEPT !.rowss = rest]]
  /\ dropped' = dropped \cup lost
  /\ accepted' = accepted \ lost
  /\ UNCHANGED <<shards, rowssToFlush, inMerge, mustDrop, merges, disk, users, status, dead,
                 bounds>>

\* A flush that found nothing to convert.
FlushNothing(f) ==
  /\ hands[f].pc = "convert" /\ hands[f].rowss = {}
  /\ hands' = [hands EXCEPT ![f] = Idle]
  /\ UNCHANGED <<shards, rowssToFlush, tbl, disk, users, status, hist, bounds>>

\* The flush_to_disk_deadline of an in-memory part passes.
DeadlinePasses(p) ==
  /\ p \in listed /\ isInmemory(p) /\ ~part[p].due
  /\ status \in {"open", "stopped"}
  /\ part' = [part EXCEPT ![p].due = TRUE]
  /\ UNCHANGED <<mem, listed, inMerge, mustDrop, merges, disk, users, status,
                 hist, bounds>>

----------------------------------------------------------------------------
(* Merges.                                                                 *)

\* The groups merge_parts_to_files splits the parts S in.
Groups(S) == {G \in SUBSET ((SUBSET S) \ {{}}) :
                /\ UNION G = S
                /\ \A x, y \in G : x = y \/ x \cap y = {}}

Picked(o, G) == {[owner |-> o, src |-> g, dst |-> {}, phase |-> "picked"] : g \in G}

\* Marks the parts S as in merge and starts one merge for every group of G.
PickParts(o, S, G) ==
  /\ inMerge' = inMerge \cup S
  /\ merges' = merges \cup Picked(o, G)
  /\ UNCHANGED <<part, listed, mustDrop>>

\* Mutant: parts that are already in a merge are offered again.
Mergeable_NoFlag(k) == {p \in listed : part[p].kind = k}

\* The parts of one of the three lists that get_parts_to_merge chooses from.
Mergeable(k) == {p \in listed \ inMerge : part[p].kind = k}

\* parts_merger for one of the lists: the choice by size is left open.
parts_merger(S) ==
  /\ status \in {"open", "stopped"}
  /\ \E k \in Kinds : S \subseteq Mergeable(k)
  /\ Cardinality(S) \in 2..DefaultPartsToMerge
  /\ PickParts("parts_merger", S, {S})
  /\ UNCHANGED <<mem, disk, users, status, hist, bounds>>

\* Mutants: a part already in a merge is flushed; an overdue part is not flushed.
PartsToFlush_NoFlag(final) == {p \in listed : isInmemory(p) /\ (final \/ part[p].due)}
PartsToFlush_FinalOnly(final) == {p \in listed \ inMerge : isInmemory(p) /\ final /\ part[p].due}

\* flush_inmemory_parts_to_files: the parts a flush of in-memory parts takes.
PartsToFlush(final) == {p \in listed \ inMerge : isInmemory(p) /\ (final \/ part[p].due)}

inmemory_parts_flusher(G) ==
  /\ status \in {"open", "stopped"}
  /\ ~Merging("inmemory_parts_flusher")
  /\ PartsToFlush(FALSE) # {}
  /\ G \in Groups(PartsToFlush(FALSE))
  /\ PickParts("inmemory_parts_flusher", PartsToFlush(FALSE), G)
  /\ UNCHANGED <<mem, disk, users, status, hist, bounds>>

\* force_merge_all_parts: every part, provided no merge is active.
force_merge_all_parts(G) ==
  /\ status = "open"
  /\ listed # {} /\ listed \cap inMerge = {}
  /\ G \in Groups(listed)
  /\ forced < MaxForceMerges /\ forced' = forced + 1
  /\ PickParts("force_merge", listed, G)
  /\ UNCHANGED <<mem, disk, users, status, hist, crashes, snapshots, closes>>

\* A stoppable merge ends early: the merger finds no free slot or the merge is
\* forcibly stopped; a directory written so far is left behind.
ForciblyStopped(m) ==
  /\ m.phase \in {"picked", "writing"}
  /\ \/ m.owner = "parts_merger" /\ status = "signalled"
     \/ m.owner = "force_merge"
  /\ Panic(m.src \subseteq inMerge, status)
  /\ inMerge' = inMerge \ m.src
  /\ merges' = merges \ {m}
  /\ part' = [p \in PartIds |-> IF p \in m.dst THEN NoPart ELSE part[p]]
  /\ UNCHANGED <<listed, mustDrop, mem, disk, users, hist, bounds>>

isFinal(m) == m.owner # "parts_merger"

\* Mutant: durability of the sources is ignored.
get_dst_part_type_Volatile(m) == IF isFinal(m) THEN FileKinds ELSE Kinds

\* get_dst_part_type: the size limits leave a choice, durability does not.
get_dst_part_type(m) ==
  IF isFinal(m) \/ FileParts(m.src) # {} THEN FileKinds ELSE Kinds

\* merge_parts_inner, up to the creation of the destination directory.
merge_parts(m, k) ==
  /\ m.phase = "picked" /\ Unused # {}
  /\ k \in get_dst_part_type(m)
  /\ LET p == next_merge_idx IN
     /\ part' = [part EXCEPT ![p].kind = k]
     /\ dirs' = IF k = "inmemory" THEN dirs ELSE [dirs EXCEPT ![p] = "partial"]
     /\ merges' = (merges \ {m}) \cup {[m EXCEPT !.dst = {p}, !.phase = "writing"]}
  /\ Panic(m.src \subseteq inMerge, status)
  /\ UNCHANGED <<listed, inMerge, mustDrop, mem, partsJson, users, hist, bounds>>

\* The fast path of merge_parts_inner copies a single in-memory part as it is.
StoredAsIs(m) == ~DedupEnabled /\ isFinal(m) /\ Cardinality(m.src) = 1 /\ FileParts(m.src) = {}

\* merge_block_streams has read the sources; the destination is complete and synced
\* (open_created_part removes it again when no row is left in it).
merge_parts_internal(m, p, lost) ==
  /\ m.phase = "writing"
  /\ lost \subseteq Droppable(RowsOf(m.src))
  /\ StoredAsIs(m) => lost = {}
  /\ LET rows == RowsOf(m.src) \ lost
     IN /\ part' = [part EXCEPT ![p] = IF rows = {} THEN NoPart ELSE [@ EXCEPT !.rows = rows]]
        /\ dirs' = IF isInmemory(p) THEN dirs
                   ELSE [dirs EXCEPT ![p] = IF rows = {} THEN "none" ELSE "full"]
        /\ merges' = (merges \ {m}) \cup
             {[m EXCEPT !.phase = "written", !.dst = IF rows = {} THEN {} ELSE @]}
  /\ UNCHANGED <<listed, inMerge, mustDrop, mem, partsJson, users, status, hist, bounds>>

\* Mutant: the deadline of a merged part starts anew.
get_flush_to_disk_deadline_Fresh(p, m) == part[p]

\* get_flush_to_disk_deadline: a merged in-memory part has the earliest deadline of its
\* sources, so it is due when one of them is.
get_flush_to_disk_deadline(p, m) ==
  [part[p] EXCEPT !.due = isInmemory(p) /\ \E q \in m.src : part[q].due]

\* Mutant: parts.json is only written when a file part is added.
JsonAfter_NewOnly(m, new) == IF FileParts(m.dst) # {} THEN FileParts(new) ELSE partsJson

\* parts.json after the swap: written when file parts were removed or one was added.
JsonAfter(m, new) ==
  IF FileParts(m.src \cap listed) # {} \/ FileParts(m.dst) # {} THEN FileParts(new) ELSE partsJson

\* swap_src_with_dst_parts: one step under the parts lock, parts.json included.
swap_src_with_dst_parts(m) ==
  /\ m.phase = "written"
  /\ LET new == (listed \ m.src) \cup m.dst
         gone == RowsOf(m.src) \ RowsOf(m.dst)
     IN /\ listed' = new
        /\ part' = [p \in PartIds |-> IF p \in m.dst THEN get_flush_to_disk_deadline(p, m)
                                       ELSE part[p]]
        /\ partsJson' = JsonAfter(m, new)
        /\ dropped' = dropped \cup gone
        /\ accepted' = accepted \ gone
  /\ mustDrop' = mustDrop \cup m.src
  /\ merges' = (merges \ {m}) \cup {[m EXCEPT !.phase = "swapped", !.dst = {}]}
  /\ Panic(m.src \subseteq listed, status)
  /\ UNCHANGED <<inMerge, mem, dirs, users, dead, bounds>>

\* release_parts_to_merge; a removal of stale parts only lets go of its references.
release_parts_to_merge(m) ==
  /\ m.phase = "swapped"
  /\ merges' = merges \ {m}
  /\ LET stale == m.owner = "stale_parts_remover"
     IN /\ Release(m.src, Refs(listed, merges', searches, snap),
                   IF stale THEN inMerge ELSE inMerge \ m.src)
        /\ Panic(stale \/ m.src \subseteq inMerge, status)
  /\ UNCHANGED <<listed, mem, partsJson, users, hist, bounds>>

\* remove_stale_parts: parts whose rows are all dead are swapped with nothing.
remove_stale_parts ==
  /\ status \in {"open", "stopped"} /\ ~Merging("stale_parts_remover")
  /\ \E S \in (SUBSET {p \in listed \ inMerge : part[p].rows \subseteq dead}) \ {{}} :
       /\ inMerge' = inMerge \cup S
       /\ merges' = merges \cup {[owner |-> "stale_parts_remover", src |-> S, dst |-> {},
                                   phase |-> "written"]}
  /\ UNCHANGED <<part, listed, mustDrop, mem, disk, users, status, hist, bounds>>

\* The background dir remover (remove_dir_async) gets to a directory.
remove_dir(p) ==
  /\ status # "down" /\ dirs[p] = "removing"
  /\ dirs' = [dirs EXCEPT ![p] = "none"]
  /\ UNCHANGED <<mem, tbl, partsJson, users, status, hist, bounds>>

\* A series is deleted, or the row leaves the retention.
Perish(r) ==
  /\ r \in Perishable \ dead
  /\ dead' = dead \cup {r}
  /\ UNCHANGED <<mem, tbl, disk, users, status, accepted, dropped, bounds>>

----------------------------------------------------------------------------
(* Readers: searches and the snapshot.                                     *)

\* get_parts(true), from PartitionSearch::new.
get_parts(s) ==
  /\ status = "open" /\ searches[s] = {} /\ listed # {}
  /\ searches' = [searches EXCEPT ![s] = listed]
  /\ UNCHANGED <<mem, tbl, disk, snap, status, hist, bounds>>

\* The search ends and lets go of its parts.
EndSearch(s) ==
  /\ searches[s] # {}
  /\ searches' = [searches EXCEPT ![s] = {}]
  /\ Release(searches[s], Refs(listed, merges, searches', snap), inMerge)
  /\ UNCHANGED <<mem, listed, merges, partsJson, snap, status, hist, bounds>>

\* must_create_snapshot_at: flush_pending_rows(true) begins.
must_create_snapshot_at ==
  /\ status = "open" /\ snap.pc \in {"idle", "done"} /\ snapshots < MaxSnapshots
  /\ snapshots' = snapshots + 1
  /\ snap' = [NoSnap EXCEPT !.pc = "rows", !.must = DurableRows]
  /\ FlushQueue("snapshot")
  /\ UNCHANGED <<tbl, disk, searches, status, hist, crashes, closes, forced>>

\* ... then flush_inmemory_parts_to_files(true); parts in merge are skipped ...
SnapFlushParts(G) ==
  /\ snap.pc = "rows" /\ hands["snapshot"].pc = "idle"
  /\ G \in Groups(PartsToFlush(TRUE))
  /\ PickParts("snapshot", PartsToFlush(TRUE), G)
  /\ snap' = [snap EXCEPT !.pc = "parts",
                          !.must = @ \cup DurableRows \cup RowsOf(PartsToFlush(TRUE))]
  /\ UNCHANGED <<mem, disk, searches, status, hist, bounds>>

\* Mutant: the snapshot does not wait for its flush.
SnapRefParts_NoWait ==
  /\ snap.pc = "parts"
  /\ snap' = [snap EXCEPT !.pc = "link", !.parts = FileParts(listed)]
  /\ UNCHANGED <<mem, tbl, disk, searches, status, hist, bounds>>

\* ... then the file parts are referenced under the lock ...
SnapRefParts ==
  /\ snap.pc = "parts" /\ ~Merging("snapshot")
  /\ snap' = [snap EXCEPT !.pc = "link", !.parts = FileParts(listed)]
  /\ UNCHANGED <<mem, tbl, disk, searches, status, hist, bounds>>

\* ... and hard-linked one by one; linking a missing directory panics.
must_hard_link_parts(p) ==
  /\ snap.pc = "link" /\ p \in snap.parts \ snap.linked
  /\ snap' = [snap EXCEPT !.linked = @ \cup {p}, !.rows = @ \cup part[p].rows]
  /\ Panic(dirs[p] = "full", status)
  /\ UNCHANGED <<mem, tbl, disk, searches, hist, bounds>>

SnapDone ==
  /\ snap.pc = "link" /\ snap.parts = snap.linked
  /\ snap' = [snap EXCEPT !.pc = "done", !.parts = {}, !.linked = {}]
  /\ Release(snap.parts, Refs(listed, merges, searches, snap'), inMerge)
  /\ UNCHANGED <<mem, listed, merges, partsJson, searches, status, hist, bounds>>

----------------------------------------------------------------------------
(* Closing, crashing, opening.                                             *)

\* must_close takes the partition by value: its users are gone.
NoUsers ==
  /\ \A s \in Searchers : searches[s] = {}
  /\ snap.pc \in {"idle", "done"} /\ ~Merging("force_merge")
  /\ \A a \in Adders : hands[a].pc = "idle"

must_close ==
  /\ status = "open" /\ NoUsers /\ closes < MaxCloses
  /\ status' = "stopped" /\ closes' = closes + 1
  /\ UNCHANGED <<mem, tbl, disk, users, hist, crashes, snapshots, forced>>

\* Mutant: the workers are never told.
signal_Forgotten == status = "stopped" /\ UNCHANGED vars

\* Shutdown::signal.
signal ==
  /\ status = "stopped" /\ status' = "signalled"
  /\ UNCHANGED <<mem, tbl, disk, users, hist, bounds>>

\* The workers are joined and flush_pending_rows(true) begins.
CloseFlushRows ==
  /\ status = "signalled" /\ ~BackgroundBusy
  /\ status' = "close_rows"
  /\ FlushQueue("close")
  /\ UNCHANGED <<tbl, disk, users, hist, bounds>>

CloseFlushParts(G) ==
  /\ status = "close_rows" /\ hands["close"].pc = "idle"
  /\ G \in Groups(PartsToFlush(TRUE))
  /\ PickParts("close", PartsToFlush(TRUE), G)
  /\ status' = "close_parts"
  /\ UNCHANGED <<mem, disk, users, hist, bounds>>

\* The assertions at the end of must_close; then the lists are emptied.
CloseDone ==
  /\ status = "close_parts" /\ ~Merging("close")
  /\ Panic(/\ rowssToFlush = {} /\ \A s \in Shards : shards[s] = {}
           /\ FileParts(listed) = listed
           /\ \A s \in Searchers : searches[s] = {}
           /\ snap.parts = {} /\ merges = {}, "closed")
  /\ listed' = {}
  /\ UNCHANGED <<mem, part, inMerge, mustDrop, merges, disk, users, hist, bounds>>

\* The process dies: everything but the disk is gone.
Crash ==
  /\ status \notin {"down", "fatal"} /\ crashes < MaxCrashes
  /\ crashes' = crashes + 1 /\ status' = "down"
  /\ shards' = [s \in Shards |-> {}] /\ rowssToFlush' = {}
  /\ hands' = [f \in Flushers |-> Idle]
  /\ listed' = {} /\ inMerge' = {} /\ mustDrop' = {} /\ merges' = {}
  /\ searches' = [s \in Searchers |-> {}] /\ snap' = NoSnap
  /\ accepted' = DurableRows
  /\ part' = [p \in PartIds |-> IF p \in partsJson THEN part[p] ELSE NoPart]
  /\ UNCHANGED <<disk, dead, dropped, snapshots, closes, forced>>

\* must_open_partition: directories parts.json does not list are removed, and a
\* listed part that is missing or incomplete is fatal.
must_open_partition ==
  /\ status \in {"closed", "down"}
  /\ Panic(Full(partsJson), "open")
  /\ listed' = partsJson /\ inMerge' = {} /\ mustDrop' = {}
  /\ dirs' = [p \in PartIds |-> IF p \in partsJson THEN dirs[p] ELSE "none"]
  /\ UNCHANGED <<mem, part, merges, partsJson, users, hist, bounds>>

----------------------------------------------------------------------------
(* The specification.                                                      *)

Ingest ==
  \/ \E a \in Adders : \/ \E s \in Shards, r \in Rows : add_rows(a, s, r)
                        \/ add_rows_to_flush(a)
  \/ pending_rows_flusher
  \/ \E f \in Flushers, s \in Shards : append_raw_rows_to_flush(f, s)
  \/ \E f \in Flushers : \E bs \in SUBSET hands[f].rowss, lost \in SUBSET Rows :
                           add_to_inmemory_parts(f, bs, lost)
  \/ \E f \in Flushers : FlushNothing(f)
  \/ \E p \in PartIds : DeadlinePasses(p)

MergeStep ==
  \/ \E S \in SUBSET listed : parts_merger(S)
  \/ \E G \in Groups(PartsToFlush(FALSE)) : inmemory_parts_flusher(G)
  \/ \E G \in Groups(listed) : force_merge_all_parts(G)
  \/ remove_stale_parts
  \/ \E m \in merges :
       \/ ForciblyStopped(m)
       \/ \E k \in Kinds : merge_parts(m, k)
       \/ \E p \in m.dst, lost \in SUBSET Rows : merge_parts_internal(m, p, lost)
       \/ swap_src_with_dst_parts(m)
       \/ release_parts_to_merge(m)
  \/ \E p \in PartIds : remove_dir(p)
  \/ \E r \in Rows : Perish(r)

Read ==
  \/ \E s \in Searchers : get_parts(s) \/ EndSearch(s)
  \/ must_create_snapshot_at
  \/ \E G \in Groups(PartsToFlush(TRUE)) : SnapFlushParts(G)
  \/ SnapRefParts
  \/ \E p \in PartIds : must_hard_link_parts(p)
  \/ SnapDone

Life ==
  \/ must_close \/ signal \/ CloseFlushRows
  \/ \E G \in Groups(PartsToFlush(TRUE)) : CloseFlushParts(G)
  \/ CloseDone \/ Crash \/ must_open_partition

Next == Ingest \/ MergeStep \/ Read \/ Life

Spec == Init /\ [][Next]_vars

\* The flushers tick for ever, deadlines pass, a thread that holds batches or a merge
\* carries on with it, the dir remover works, and a close or a snapshot that has begun
\* is carried out.  Searches and the mergers' choice of parts owe no progress.
Fairness ==
  /\ WF_vars(pending_rows_flusher)
  /\ WF_vars(\E a \in Adders : add_rows_to_flush(a))
  /\ \A f \in Flushers :
       /\ WF_vars(\E s \in Shards : append_raw_rows_to_flush(f, s))
       /\ WF_vars(\E bs \in SUBSET hands[f].rowss, lost \in SUBSET Rows :
                    add_to_inmemory_parts(f, bs, lost))
       /\ WF_vars(FlushNothing(f))
  /\ WF_vars(\E p \in PartIds : DeadlinePasses(p))
  /\ WF_vars(\E G \in Groups(PartsToFlush(FALSE)) : inmemory_parts_flusher(G))
  /\ WF_vars(\E m \in merges, k \in Kinds : merge_parts(m, k))
  /\ WF_vars(\E m \in merges : \E p \in m.dst, lost \in SUBSET Rows : merge_parts_internal(m, p, lost))
  /\ WF_vars(\E m \in merges : swap_src_with_dst_parts(m))
  /\ WF_vars(\E m \in merges : release_parts_to_merge(m))
  /\ WF_vars(\E p \in PartIds : remove_dir(p))
  /\ WF_vars(signal) /\ WF_vars(CloseFlushRows) /\ WF_vars(CloseDone)
  /\ WF_vars(\E G \in Groups(PartsToFlush(TRUE)) : CloseFlushParts(G))
  /\ WF_vars(\E G \in Groups(PartsToFlush(TRUE)) : SnapFlushParts(G))
  /\ WF_vars(SnapRefParts) /\ WF_vars(\E p \in PartIds : must_hard_link_parts(p)) /\ WF_vars(SnapDone)

FairSpec == Spec /\ Fairness
=============================================================================
