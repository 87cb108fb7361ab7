-------------------------- MODULE PartitionProofs --------------------------
(***************************************************************************)
(* Proofs about the partition, for all sets of rows, shards, part names,   *)
(* threads and searches and for every bound: its types; the inductive      *)
(* invariant and what follows from it; and what becomes of the rows:       *)
(* durable rows stay durable, every row is in one place, searches and      *)
(* snapshots see what they should, and the partition implements RowStore.  *)
(***************************************************************************)
EXTENDS PartitionInv, FiniteSetTheorems, TLAPS

----------------------------------------------------------------------------
(* Types.                                                                  *)

\* A part name returned by next_merge_idx has no trace.
LEMMA FreshName == ASSUME Unused # {} PROVE next_merge_idx \in Unused /\ next_merge_idx \in PartIds
BY DEF next_merge_idx, Unused

\* The constant records are of their types.
LEMMA ConstantsTyped == /\ Idle \in Hand /\ NoPart \in Part /\ NoSnap \in Snap
                        /\ {"pending_rows_flusher", "snapshot", "close"} \subseteq Flushers
                        /\ Adders \subseteq Flushers
BY DEF Idle, NoPart, NoSnap, Hand, Part, Snap, Kinds, Flushers

\* The initial state is typed.
LEMMA InitTyped == ASSUME Init PROVE TypeOK
BY ConstantsTyped DEF Init, TypeOK

\* Steps that handle raw rows keep the types.
LEMMA IngestTyped == ASSUME TypeOK, Ingest PROVE TypeOK'
<1> USE DEF TypeOK, mem, tbl, disk, users, hist, bounds
<1>1. ASSUME NEW a \in Adders, NEW s \in Shards, NEW r \in Rows, add_rows(a, s, r)
      PROVE  TypeOK'
  <2>1. CASE Cardinality(shards[s]) < MaxRawRowsPerShard
    BY <1>1, <2>1 DEF add_rows
  <2>2. CASE ~(Cardinality(shards[s]) < MaxRawRowsPerShard)
    <3>1. shards[s] \in Batches
      <4>1. ASSUME shards[s] = {} PROVE FALSE
        <5>1. Cardinality(shards[s]) = 0 BY <4>1, FS_EmptySet
        <5> QED BY <5>1, <2>2, PartitionAssumption
      <4> QED BY <4>1 DEF Batches
    <3>2. [pc |-> "overflow", todo |-> {}, rowss |-> {shards[s]}] \in Hand
      BY <3>1 DEF Hand
    <3>3. hands' \in [Flushers -> Hand] BY <1>1, <2>2, <3>2, ConstantsTyped DEF add_rows
    <3>4. shards' \in [Shards -> SUBSET Rows] BY <1>1, <2>2 DEF add_rows
    <3> QED BY <1>1, <3>3, <3>4 DEF add_rows
  <2> QED BY <2>1, <2>2
<1>2. ASSUME NEW a \in Adders, add_rows_to_flush(a) PROVE TypeOK'
  BY <1>2, ConstantsTyped DEF add_rows_to_flush, Hand
<1>3. ASSUME pending_rows_flusher PROVE TypeOK'
  BY <1>3, ConstantsTyped DEF pending_rows_flusher, FlushQueue, Hand
<1>4. ASSUME NEW f \in Flushers, NEW s \in Shards, append_raw_rows_to_flush(f, s)
      PROVE  TypeOK'
  <2>1. ShardBatch(s) \subseteq Batches BY DEF ShardBatch, Batches
  <2> QED BY <1>4, <2>1 DEF append_raw_rows_to_flush, Hand
<1>5. ASSUME NEW f \in Flushers, NEW bs \in SUBSET hands[f].rowss, NEW lost \in SUBSET Rows,
             add_to_inmemory_parts(f, bs, lost)
      PROVE  TypeOK'
  <2>1. UNION bs \subseteq Rows BY DEF Hand, Batches
  <2>2. part' \in [PartIds -> Part] /\ listed' \subseteq PartIds
    BY <1>5, <2>1, FreshName DEF add_to_inmemory_parts, Part
  <2>3. hands' \in [Flushers -> Hand] BY <1>5, ConstantsTyped DEF add_to_inmemory_parts, Hand
  <2>4. accepted' \subseteq Rows /\ dropped' \subseteq Rows BY <1>5 DEF add_to_inmemory_parts
  <2> QED BY <1>5, <2>2, <2>3, <2>4 DEF add_to_inmemory_parts
<1>6. ASSUME NEW f \in Flushers, FlushNothing(f) PROVE TypeOK'
  BY <1>6, ConstantsTyped DEF FlushNothing
<1>7. ASSUME NEW p \in PartIds, DeadlinePasses(p) PROVE TypeOK'
  BY <1>7 DEF DeadlinePasses, Part
<1> QED BY <1>1, <1>2, <1>3, <1>4, <1>5, <1>6, <1>7 DEF Ingest

\* Picking parts for merges yields merges of the right type.
LEMMA PickTyped ==
  ASSUME NEW o \in Owners, NEW S \in SUBSET PartIds, NEW G \in Groups(S)
  PROVE  Picked(o, G) \subseteq Merge
<1>1. \A g \in G : g \in SUBSET PartIds BY DEF Groups
<1> QED BY <1>1 DEF Picked, Merge

\* The parts that are flushed or merged are part names.
LEMMA FlushTyped == ASSUME TypeOK, NEW b \in BOOLEAN PROVE PartsToFlush(b) \in SUBSET PartIds
BY DEF TypeOK, PartsToFlush

\* The rows of parts are rows.
LEMMA RowsTyped == ASSUME TypeOK, NEW S \in SUBSET PartIds PROVE RowsOf(S) \subseteq Rows
BY DEF RowsOf, TypeOK, Part

\* Releasing references keeps the types.
LEMMA ReleaseTyped ==
  ASSUME TypeOK, NEW S, NEW refs, NEW flags \in SUBSET PartIds, Release(S, refs, flags)
  PROVE  /\ part' \in [PartIds -> Part] /\ inMerge' \subseteq PartIds
         /\ mustDrop' \subseteq PartIds
         /\ dirs' \in [PartIds -> {"none", "partial", "full", "removing"}]
BY ConstantsTyped DEF TypeOK, Release

\* Steps of merges, removals and perishing rows keep the types.
LEMMA MergeTyped == ASSUME TypeOK, MergeStep PROVE TypeOK'
<1> USE DEF mem, tbl, disk, users, hist, bounds
<1>1. ASSUME NEW S \in SUBSET listed, parts_merger(S) PROVE TypeOK'
  <2>1. S \in SUBSET PartIds /\ "parts_merger" \in Owners BY DEF TypeOK, Owners
  <2>2. CASE S = {}
    BY <1>1, <2>2, FS_EmptySet DEF parts_merger
  <2>3. CASE S # {}
    <3>1. {S} \in Groups(S) BY <2>3 DEF Groups
    <3>2. Picked("parts_merger", {S}) \subseteq Merge BY <2>1, <3>1, PickTyped
    <3> QED BY <1>1, <2>1, <3>2 DEF parts_merger, PickParts, TypeOK
  <2> QED BY <2>2, <2>3
<1>2. ASSUME NEW G \in Groups(PartsToFlush(FALSE)), inmemory_parts_flusher(G) PROVE TypeOK'
  <2>1. Picked("inmemory_parts_flusher", G) \subseteq Merge BY FlushTyped, PickTyped DEF Owners
  <2> QED BY <1>2, <2>1, FlushTyped DEF inmemory_parts_flusher, PickParts, TypeOK
<1>3. ASSUME NEW G \in Groups(listed), force_merge_all_parts(G) PROVE TypeOK'
  <2>1. Picked("force_merge", G) \subseteq Merge BY PickTyped DEF Owners, TypeOK
  <2> QED BY <1>3, <2>1 DEF force_merge_all_parts, PickParts, TypeOK
<1>4. ASSUME remove_stale_parts PROVE TypeOK'
  BY <1>4 DEF remove_stale_parts, TypeOK, Merge, Owners
<1>5. ASSUME NEW m \in merges, ForciblyStopped(m) PROVE TypeOK'
  BY <1>5, ConstantsTyped DEF ForciblyStopped, Panic, TypeOK
<1>6. ASSUME NEW m \in merges, NEW k \in Kinds, merge_parts(m, k) PROVE TypeOK'
  <2>1. part' \in [PartIds -> Part] BY <1>6, FreshName DEF merge_parts, TypeOK, Part
  <2>2. dirs' \in [PartIds -> {"none", "partial", "full", "removing"}]
    BY <1>6, FreshName DEF merge_parts, TypeOK
  <2>3. merges' \subseteq Merge
    <3>1. next_merge_idx \in PartIds BY <1>6, FreshName DEF merge_parts
    <3>2. [m EXCEPT !.dst = {next_merge_idx}, !.phase = "writing"] \in Merge
      BY <3>1 DEF TypeOK, Merge
    <3> QED BY <1>6, <3>2 DEF merge_parts, TypeOK
  <2> QED BY <1>6, <2>1, <2>2, <2>3 DEF merge_parts, Panic, TypeOK
<1>7. ASSUME NEW m \in merges, NEW p \in m.dst, NEW lost \in SUBSET Rows,
             merge_parts_internal(m, p, lost)
      PROVE  TypeOK'
  <2>1. p \in PartIds /\ m.src \subseteq PartIds BY DEF TypeOK, Merge
  <2>2. RowsOf(m.src) \subseteq Rows BY <2>1, RowsTyped
  <2>3. part' \in [PartIds -> Part]
    BY <1>7, <2>1, <2>2, ConstantsTyped DEF merge_parts_internal, TypeOK, Part
  <2>4. dirs' \in [PartIds -> {"none", "partial", "full", "removing"}]
    BY <1>7 DEF merge_parts_internal, TypeOK
  <2>5. merges' \subseteq Merge BY <1>7 DEF merge_parts_internal, TypeOK, Merge
  <2> QED BY <1>7, <2>3, <2>4, <2>5 DEF merge_parts_internal, TypeOK
<1>8. ASSUME NEW m \in merges, swap_src_with_dst_parts(m) PROVE TypeOK'
  <2>1. m.dst \subseteq PartIds /\ m.src \subseteq PartIds BY DEF TypeOK, Merge
  <2>2. part' \in [PartIds -> Part]
    BY <1>8 DEF swap_src_with_dst_parts, get_flush_to_disk_deadline, TypeOK, Part
  <2>3. listed' \subseteq PartIds /\ partsJson' \subseteq PartIds /\ mustDrop' \subseteq PartIds
    BY <1>8, <2>1 DEF swap_src_with_dst_parts, JsonAfter, FileParts, TypeOK
  <2>4. merges' \subseteq Merge BY <1>8 DEF swap_src_with_dst_parts, TypeOK, Merge
  <2>5. RowsOf(m.src) \subseteq Rows BY <2>1, RowsTyped
  <2>6. accepted' \subseteq Rows /\ dropped' \subseteq Rows
    BY <1>8, <2>5 DEF swap_src_with_dst_parts, TypeOK
  <2> QED BY <1>8, <2>2, <2>3, <2>4, <2>6 DEF swap_src_with_dst_parts, Panic, TypeOK
<1>9. ASSUME NEW m \in merges, release_parts_to_merge(m) PROVE TypeOK'
  <2> DEFINE flags == IF m.owner = "stale_parts_remover" THEN inMerge ELSE inMerge \ m.src
  <2>1. flags \in SUBSET PartIds BY DEF TypeOK
  <2>2. Release(m.src, Refs(listed, merges', searches, snap), flags)
    BY <1>9 DEF release_parts_to_merge
  <2> HIDE DEF flags
  <2> QED BY <1>9, <2>1, <2>2, ReleaseTyped DEF release_parts_to_merge, Panic, TypeOK
<1>10. ASSUME NEW p \in PartIds, remove_dir(p) PROVE TypeOK'
  BY <1>10 DEF remove_dir, TypeOK
<1>11. ASSUME NEW r \in Rows, Perish(r) PROVE TypeOK'
  BY <1>11 DEF Perish, TypeOK
<1> QED BY <1>1, <1>2, <1>3, <1>4, <1>5, <1>6, <1>7, <1>8, <1>9, <1>10, <1>11 DEF MergeStep

\* Steps of searches and snapshots keep the types.
LEMMA ReadTyped == ASSUME TypeOK, Read PROVE TypeOK'
<1> USE DEF mem, tbl, disk, users, hist, bounds
<1>1. ASSUME NEW s \in Searchers, get_parts(s) PROVE TypeOK'
  BY <1>1 DEF get_parts, TypeOK
<1>2. ASSUME NEW s \in Searchers, EndSearch(s) PROVE TypeOK'
  <2>1. inMerge \in SUBSET PartIds BY DEF TypeOK
  <2>2. Release(searches[s], Refs(listed, merges, searches', snap), inMerge)
    BY <1>2 DEF EndSearch
  <2> QED BY <1>2, <2>1, <2>2, ReleaseTyped DEF EndSearch, TypeOK
<1>3. ASSUME must_create_snapshot_at PROVE TypeOK'
  <2>1. DurableRows \subseteq Rows BY RowsTyped DEF DurableRows, TypeOK
  <2>2. snap' \in Snap BY <1>3, <2>1 DEF must_create_snapshot_at, NoSnap, Snap
  <2>3. hands' \in [Flushers -> Hand]
    BY <1>3, ConstantsTyped DEF must_create_snapshot_at, FlushQueue, Hand, TypeOK
  <2> QED BY <1>3, <2>2, <2>3 DEF must_create_snapshot_at, FlushQueue, TypeOK
<1>4. ASSUME NEW G \in Groups(PartsToFlush(TRUE)), SnapFlushParts(G) PROVE TypeOK'
  <2>1. Picked("snapshot", G) \subseteq Merge BY FlushTyped, PickTyped DEF Owners
  <2>2. DurableRows \subseteq Rows BY RowsTyped DEF DurableRows, TypeOK
  <2>3. RowsOf(PartsToFlush(TRUE)) \subseteq Rows BY FlushTyped, RowsTyped
  <2>4. snap' \in Snap BY <1>4, <2>2, <2>3 DEF SnapFlushParts, TypeOK, Snap
  <2> QED BY <1>4, <2>1, <2>4, FlushTyped DEF SnapFlushParts, PickParts, TypeOK
<1>5. ASSUME SnapRefParts PROVE TypeOK'
  BY <1>5 DEF SnapRefParts, FileParts, TypeOK, Snap
<1>6. ASSUME NEW p \in PartIds, must_hard_link_parts(p) PROVE TypeOK'
  BY <1>6 DEF must_hard_link_parts, Panic, TypeOK, Snap, Part
<1>7. ASSUME SnapDone PROVE TypeOK'
  <2>1. inMerge \in SUBSET PartIds BY DEF TypeOK
  <2>2. Release(snap.parts, Refs(listed, merges, searches, snap'), inMerge)
    BY <1>7 DEF SnapDone
  <2>3. snap' \in Snap BY <1>7 DEF SnapDone, TypeOK, Snap
  <2> QED BY <1>7, <2>1, <2>2, <2>3, ReleaseTyped DEF SnapDone, TypeOK
<1> QED BY <1>1, <1>2, <1>3, <1>4, <1>5, <1>6, <1>7 DEF Read

\* Closing, crashing and opening keep the types.
LEMMA LifeTyped == ASSUME TypeOK, Life PROVE TypeOK'
<1> USE DEF mem, tbl, disk, users, hist, bounds
<1>1. ASSUME must_close PROVE TypeOK' BY <1>1 DEF must_close, TypeOK
<1>2. ASSUME signal PROVE TypeOK' BY <1>2 DEF signal, TypeOK
<1>3. ASSUME CloseFlushRows PROVE TypeOK'
  <2>1. hands' \in [Flushers -> Hand]
    BY <1>3, ConstantsTyped DEF CloseFlushRows, FlushQueue, Hand, TypeOK
  <2> QED BY <1>3, <2>1 DEF CloseFlushRows, FlushQueue, TypeOK
<1>4. ASSUME NEW G \in Groups(PartsToFlush(TRUE)), CloseFlushParts(G) PROVE TypeOK'
  <2>1. Picked("close", G) \subseteq Merge BY FlushTyped, PickTyped DEF Owners
  <2> QED BY <1>4, <2>1, FlushTyped DEF CloseFlushParts, PickParts, TypeOK
<1>5. ASSUME CloseDone PROVE TypeOK' BY <1>5 DEF CloseDone, Panic, TypeOK
<1>6. ASSUME Crash PROVE TypeOK'
  <2>1. DurableRows \subseteq Rows BY RowsTyped DEF DurableRows, TypeOK
  <2> QED BY <1>6, <2>1, ConstantsTyped DEF Crash, TypeOK
<1>7. ASSUME must_open_partition PROVE TypeOK'
  BY <1>7 DEF must_open_partition, Panic, TypeOK
<1> QED BY <1>1, <1>2, <1>3, <1>4, <1>5, <1>6, <1>7 DEF Life

\* Every variable keeps its type, in every behaviour of the partition.
THEOREM TypeCorrect == Spec => []TypeOK
<1>1. Init => TypeOK BY InitTyped
<1>2. TypeOK /\ [Next]_vars => TypeOK'
  <2>1. CASE Next BY <2>1, IngestTyped, MergeTyped, ReadTyped, LifeTyped DEF Next
  <2>2. CASE UNCHANGED vars
    BY <2>2 DEF vars, mem, tbl, disk, users, hist, bounds, TypeOK
  <2> QED BY <2>1, <2>2
<1> QED BY <1>1, <1>2, PTL DEF Spec

----------------------------------------------------------------------------
(* The inductive invariant of the partition is one, and what follows.      *)

\* The parts, the merges and parts.json are as they were.
SameTable ==
  /\ part' = part /\ listed' = listed /\ inMerge' = inMerge /\ mustDrop' = mustDrop
  /\ merges' = merges /\ dirs' = dirs /\ partsJson' = partsJson
  /\ searches' = searches /\ snap' = snap /\ status' = status
  /\ dead \subseteq dead'

\* Who refers to a part.
LEMMA RefsAre ==
  ASSUME NEW ps, NEW ms, NEW ss, NEW sn, NEW p
  PROVE  p \in Refs(ps, ms, ss, sn) <=>
           \/ p \in ps \/ p \in sn.parts
           \/ \E m \in ms : p \in m.src
           \/ \E s \in Searchers : p \in ss[s]
BY DEF Refs

\* References are part names.
LEMMA RefsTyped ==
  ASSUME TypeOK
  PROVE  /\ AllRefs \subseteq PartIds /\ snap.parts \subseteq PartIds
         /\ \A m \in merges : m.src \subseteq PartIds /\ m.dst \subseteq PartIds
<1>1. snap.parts \subseteq PartIds BY DEF TypeOK, Snap
<1>2. \A m \in merges : m.src \subseteq PartIds /\ m.dst \subseteq PartIds BY DEF TypeOK, Merge
<1>3. \A s \in Searchers : searches[s] \subseteq PartIds BY DEF TypeOK
<1>4. listed \subseteq PartIds BY DEF TypeOK
<1>5. ASSUME NEW p \in AllRefs PROVE p \in PartIds
  BY <1>1, <1>2, <1>3, <1>4, <1>5, RefsAre DEF AllRefs
<1> QED BY <1>1, <1>2, <1>5

\* A step that leaves the table alone keeps what is said about it.
LEMMA TableFrame == ASSUME TableInv, SameTable PROVE TableInv'
<1>1. AllRefs' = AllRefs BY DEF SameTable, AllRefs, Refs
<1>2. (MergeSources /\ MergesDisjoint /\ DropFlags /\ Flags)'
  BY <1>1 DEF TableInv, SameTable, MergeSources, MergesDisjoint, DropFlags, Flags
<1>3. MergeTargets'
  BY <1>1 DEF TableInv, SameTable, MergeTargets, TargetOf, FileParts, RowsOf, isInmemory, isFinal
<1>4. (RefsOnDisk /\ SnapFiles /\ FreshNames)'
  BY <1>1 DEF TableInv, SameTable, RefsOnDisk, SnapFiles, FreshNames, isInmemory
<1>5. (JsonOnDisk /\ JsonIsList)'
  BY DEF TableInv, SameTable, JsonOnDisk, JsonIsList, FileParts, isInmemory
<1> QED BY <1>2, <1>3, <1>4, <1>5 DEF TableInv

\* Deadlines do not matter to the table.
LEMMA DeadlineFrame ==
  ASSUME TypeOK, TableInv,
         \A q \in PartIds : part'[q].kind = part[q].kind /\ part'[q].rows = part[q].rows,
         UNCHANGED <<listed, inMerge, mustDrop, merges, dirs, partsJson, searches, snap, status, dead>>
  PROVE  TableInv'
<1>1. AllRefs' = AllRefs /\ AllRefs \subseteq PartIds BY RefsTyped DEF AllRefs, Refs
<1>2. (MergeSources /\ MergesDisjoint /\ DropFlags /\ Flags)'
  BY <1>1 DEF TableInv, MergeSources, MergesDisjoint, DropFlags, Flags
<1>3. MergeTargets'
  <2>1. ASSUME NEW m \in merges PROVE TargetOf(m)'
    <3>1. m.src \subseteq PartIds /\ m.dst \subseteq PartIds BY DEF TypeOK, Merge
    <3>2. RowsOf(m.src)' = RowsOf(m.src) /\ RowsOf(m.dst)' = RowsOf(m.dst) BY <3>1 DEF RowsOf
    <3>3. FileParts(m.src)' = FileParts(m.src) BY <3>1 DEF FileParts, isInmemory
    <3>4. TargetOf(m) BY DEF TableInv, MergeTargets
    <3> QED BY <1>1, <3>1, <3>2, <3>3, <3>4 DEF TargetOf, isInmemory, isFinal
  <2> QED BY <2>1 DEF TableInv, MergeTargets
<1>4. (RefsOnDisk /\ SnapFiles /\ FreshNames)'
  BY <1>1 DEF TableInv, RefsOnDisk, SnapFiles, FreshNames, isInmemory, TypeOK, Snap
<1>5. (JsonOnDisk /\ JsonIsList)'
  BY DEF TableInv, JsonOnDisk, JsonIsList, FileParts, isInmemory, TypeOK
<1> QED BY <1>2, <1>3, <1>4, <1>5 DEF TableInv

\* A thread with batches in its hands says how far closing has got.
LEMMA BusyHands ==
  ASSUME TypeOK, IndInv, NEW f \in Flushers, hands[f].pc # "idle"
  PROVE  /\ f \in Adders => status = "open"
         /\ f = "pending_rows_flusher" => status \in {"open", "stopped", "signalled"}
         /\ f = "snapshot" => status = "open"
         /\ f = "close" => status = "close_rows"
         /\ status \in {"open", "stopped", "signalled", "close_rows"}
BY DEF TypeOK, IndInv, NoFatalPanic, Threads, Closing, NoUsers, BackgroundBusy, Flushers

\* What is known of the name next_merge_idx returns.
LEMMA FreshPart ==
  ASSUME TableInv, Unused # {}
  PROVE  LET p == next_merge_idx IN
         /\ p \in PartIds /\ p \notin AllRefs /\ p \notin listed /\ p \notin inMerge
         /\ p \notin mustDrop /\ p \notin partsJson /\ p \notin snap.parts /\ isInmemory(p)
         /\ \A m \in merges : p \notin m.src /\ p \notin m.dst
<1> DEFINE p == next_merge_idx
<1>1. p \in PartIds /\ p \notin AllRefs /\ dirs[p] = "none" /\ \A m \in merges : p \notin m.dst
  BY FreshName DEF Unused, AllRefs
<1>2. p \notin partsJson BY <1>1 DEF TableInv, JsonOnDisk
<1>3. isInmemory(p) BY <1>1, <1>2 DEF TableInv, FreshNames
<1>4. p \notin listed /\ p \notin snap.parts /\ \A m \in merges : p \notin m.src
  BY <1>1, RefsAre DEF AllRefs
<1>5. p \notin inMerge /\ p \notin mustDrop BY <1>1 DEF TableInv, Flags, DropFlags
<1> QED BY <1>1, <1>2, <1>3, <1>4, <1>5

\* A new in-memory part of any content, listed or not, keeps the table in order.
LEMMA NewInmemoryPart ==
  ASSUME TypeOK, TableInv, NEW p \in PartIds, p \notin AllRefs, p \notin listed, p \notin inMerge,
         p \notin mustDrop, p \notin partsJson, p \notin snap.parts, isInmemory(p),
         \A m \in merges : p \notin m.src /\ p \notin m.dst,
         NEW rows, part' = [part EXCEPT ![p].rows = rows],
         listed' = listed \/ listed' = listed \cup {p},
         UNCHANGED <<inMerge, mustDrop, merges, dirs, partsJson, searches, snap, status, dead>>
  PROVE  TableInv'
<1>1. \A q \in PartIds : /\ part'[q].kind = part[q].kind
                         /\ q # p => part'[q] = part[q]
  BY DEF TypeOK, Part
<1>2. AllRefs \subseteq AllRefs' /\ AllRefs' \subseteq AllRefs \cup {p} BY DEF AllRefs, Refs
<1>3. AllRefs \subseteq PartIds /\ \A m \in merges : m.src \subseteq PartIds /\ m.dst \subseteq PartIds
  BY RefsTyped
<1>4. (MergeSources /\ MergesDisjoint)' BY DEF TableInv, MergeSources, MergesDisjoint
<1>5. DropFlags' /\ Flags' BY <1>2 DEF TableInv, DropFlags, Flags
<1>6. MergeTargets'
  <2>1. ASSUME NEW m \in merges PROVE TargetOf(m)'
    <3>1. RowsOf(m.src)' = RowsOf(m.src) /\ RowsOf(m.dst)' = RowsOf(m.dst)
      BY <1>1, <1>3 DEF RowsOf
    <3>2. FileParts(m.src)' = FileParts(m.src) BY <1>1, <1>3 DEF FileParts, isInmemory
    <3>3. TargetOf(m) BY DEF TableInv, MergeTargets
    <3> QED BY <1>1, <1>2, <1>3, <3>1, <3>2, <3>3 DEF TargetOf, isInmemory, isFinal
  <2> QED BY <2>1 DEF TableInv, MergeTargets
<1>7. (RefsOnDisk /\ SnapFiles /\ FreshNames)'
  BY <1>1, <1>2, <1>3 DEF TableInv, RefsOnDisk, SnapFiles, FreshNames, isInmemory, TypeOK, Snap
<1>8. FileParts(listed)' = FileParts(listed) BY <1>1 DEF FileParts, isInmemory, TypeOK
<1>9. (JsonOnDisk /\ JsonIsList)'
  BY <1>1, <1>8 DEF TableInv, JsonOnDisk, JsonIsList, isInmemory, TypeOK
<1> QED BY <1>4, <1>5, <1>6, <1>7, <1>9 DEF TableInv

\* Handling raw rows keeps the invariant.
LEMMA IngestInd == ASSUME TypeOK, IndInv, Ingest PROVE IndInv'
<1> USE DEF mem, tbl, disk, users, hist, bounds
<1>1. ASSUME NEW a \in Adders, NEW s \in Shards, NEW r \in Rows, add_rows(a, s, r)
      PROVE  IndInv'
  <2>1. SameTable BY <1>1 DEF add_rows, SameTable
  <2>2. TableInv' BY <2>1, TableFrame DEF IndInv
  <2>3. a # "snapshot" /\ a # "close" /\ a \in Flushers BY PartitionAssumption DEF Flushers
  <2>4. \/ hands' = hands
        \/ \E h : /\ hands' = [hands EXCEPT ![a] = h]
                  /\ h.todo = {} /\ h.pc # "idle" /\ h.pc # "take"
    BY <1>1 DEF add_rows
  <2>5. Threads'
    <3>1. CASE hands' = hands BY <2>1, <3>1 DEF IndInv, Threads, SameTable
    <3>2. ASSUME NEW h, hands' = [hands EXCEPT ![a] = h],
                 h.todo = {}, h.pc # "idle", h.pc # "take"
          PROVE  Threads'
      BY <2>1, <2>3, <3>2 DEF IndInv, Threads, SameTable, TypeOK
    <3> QED BY <2>4, <3>1, <3>2
  <2>6. status' = "open" BY <1>1 DEF add_rows
  <2>7. Closing' BY <2>6 DEF Closing
  <2> QED BY <1>1, <2>2, <2>5, <2>7 DEF add_rows, IndInv, NoFatalPanic, OnlyDeadRowsDropped
<1>2. ASSUME NEW a \in Adders, add_rows_to_flush(a) PROVE IndInv'
  <2>1. SameTable BY <1>2 DEF add_rows_to_flush, SameTable
  <2>2. TableInv' BY <2>1, TableFrame DEF IndInv
  <2>3. a # "snapshot" /\ a # "close" /\ a \in Flushers BY PartitionAssumption DEF Flushers
  <2>4. PICK h : /\ hands' = [hands EXCEPT ![a] = h]
                 /\ h.todo = {} /\ (h.pc = "idle" => h.rowss = {}) /\ h.pc # "take"
    BY <1>2 DEF add_rows_to_flush, Idle
  <2>5. Threads' BY <2>1, <2>3, <2>4 DEF IndInv, Threads, SameTable, TypeOK
  <2>6. status = "open" BY <1>2, <2>3, BusyHands DEF add_rows_to_flush
  <2>7. Closing' BY <1>2, <2>6 DEF add_rows_to_flush, Closing
  <2> QED BY <1>2, <2>2, <2>5, <2>7 DEF add_rows_to_flush, IndInv, NoFatalPanic, OnlyDeadRowsDropped
<1>3. ASSUME pending_rows_flusher PROVE IndInv'
  <2>1. SameTable BY <1>3 DEF pending_rows_flusher, SameTable, FlushQueue
  <2>2. TableInv' BY <2>1, TableFrame DEF IndInv
  <2>3. hands' = [hands EXCEPT !["pending_rows_flusher"] =
                    [pc |-> "take", todo |-> Shards, rowss |-> rowssToFlush]]
    BY <1>3 DEF pending_rows_flusher, FlushQueue
  <2>4. "pending_rows_flusher" \notin Adders BY PartitionAssumption
  <2>5. Threads' BY <2>1, <2>3 DEF IndInv, Threads, SameTable, TypeOK
  <2>6. Closing'
    BY <1>3, <2>1, <2>3, <2>4 DEF pending_rows_flusher, SameTable, IndInv, Closing, NoUsers,
                                  Merging, TypeOK
  <2> QED BY <1>3, <2>2, <2>5, <2>6 DEF pending_rows_flusher, IndInv, NoFatalPanic, OnlyDeadRowsDropped
<1>4. ASSUME NEW f \in Flushers, NEW s \in Shards, append_raw_rows_to_flush(f, s)
      PROVE  IndInv'
  <2>1. SameTable BY <1>4 DEF append_raw_rows_to_flush, SameTable
  <2>2. TableInv' BY <2>1, TableFrame DEF IndInv
  <2> DEFINE h == [pc    |-> IF hands[f].todo \ {s} = {} THEN "convert" ELSE "take",
                   todo  |-> hands[f].todo \ {s},
                   rowss |-> hands[f].rowss \cup ShardBatch(s)]
  <2>3. /\ hands' = [hands EXCEPT ![f] = h]
        /\ h.todo = hands[f].todo \ {s}
        /\ h.pc \in {"take", "convert"} /\ (h.pc = "convert" => h.todo = {})
    BY <1>4 DEF append_raw_rows_to_flush
  <2> HIDE DEF h
  <2>4. hands[f].pc = "take" /\ shards' = [shards EXCEPT ![s] = {}] /\ rowssToFlush' = rowssToFlush
    BY <1>4 DEF append_raw_rows_to_flush
  <2>5. Threads' BY <2>1, <2>3, <2>4 DEF IndInv, Threads, SameTable, TypeOK
  <2>6. Closing'
    <3>1. /\ f \in Adders \/ f = "snapshot" => status = "open"
          /\ f = "pending_rows_flusher" => status \in {"open", "stopped", "signalled"}
          /\ f = "close" => status = "close_rows"
          /\ status \in {"open", "stopped", "signalled", "close_rows"}
      BY <2>4, BusyHands
    <3>2. NoUsers /\ f \notin Adders => NoUsers'
      BY <2>1, <2>3 DEF NoUsers, SameTable, Merging
    <3>3. status \in {"stopped", "signalled", "close_rows"} => NoUsers'
      BY <3>1, <3>2 DEF IndInv, Closing
    <3>4. CASE status = "close_rows"
      <4>1. f = "close" BY <3>1, <3>4 DEF Flushers
      <4>2. ~BackgroundBusy'
        BY <2>1, <2>3, <3>4, <4>1 DEF IndInv, Closing, BackgroundBusy, SameTable
      <4>3. \A x \in Shards : x \in hands'["close"].todo \/ shards'[x] = {}
        BY <2>3, <2>4, <3>4, <4>1 DEF IndInv, Closing, TypeOK
      <4> QED BY <2>1, <2>4, <3>3, <3>4, <4>2, <4>3 DEF IndInv, Closing, SameTable
    <3>5. CASE status # "close_rows" BY <2>1, <3>1, <3>3, <3>5 DEF Closing, SameTable
    <3> QED BY <3>4, <3>5
  <2> QED BY <1>4, <2>2, <2>5, <2>6
          DEF append_raw_rows_to_flush, IndInv, NoFatalPanic, OnlyDeadRowsDropped
<1>5. ASSUME NEW f \in Flushers, NEW bs \in SUBSET hands[f].rowss, NEW lost \in SUBSET Rows,
             add_to_inmemory_parts(f, bs, lost)
      PROVE  IndInv'
  <2> DEFINE p == next_merge_idx
             h == IF hands[f].rowss \ bs = {} THEN Idle
                  ELSE [hands[f] EXCEPT !.rowss = hands[f].rowss \ bs]
  <2>1. TableInv'
    <3>1. /\ p \in PartIds /\ p \notin AllRefs /\ p \notin listed /\ p \notin inMerge
          /\ p \notin mustDrop /\ p \notin partsJson /\ p \notin snap.parts /\ isInmemory(p)
          /\ \A m \in merges : p \notin m.src /\ p \notin m.dst
      BY <1>5, FreshPart DEF add_to_inmemory_parts, IndInv
    <3>2. \E rows : part' = [part EXCEPT ![p].rows = rows]
      BY <1>5 DEF add_to_inmemory_parts
    <3>3. listed' = listed \/ listed' = listed \cup {p}
      BY <1>5 DEF add_to_inmemory_parts
    <3>4. UNCHANGED <<inMerge, mustDrop, merges, dirs, partsJson, searches, snap, status, dead>>
      BY <1>5 DEF add_to_inmemory_parts
    <3> HIDE DEF p
    <3> QED BY <3>1, <3>2, <3>3, <3>4, NewInmemoryPart DEF IndInv
  <2>2. /\ hands[f].pc = "convert" /\ hands' = [hands EXCEPT ![f] = h]
        /\ UNCHANGED <<shards, rowssToFlush, merges, searches, snap, status, dead>>
        /\ dropped' = dropped \cup lost /\ lost \subseteq dead
    BY <1>5 DEF add_to_inmemory_parts, Droppable
  <2>3. h.todo = {} /\ (h.pc = "idle" => h.rowss = {}) /\ h.pc \in {"idle", "convert"}
    BY <2>2 DEF Idle, IndInv, Threads, TypeOK, Hand
  <2> HIDE DEF h
  <2>4. Threads' BY <2>2, <2>3 DEF IndInv, Threads, TypeOK
  <2>5. /\ status \in {"open", "stopped", "signalled", "close_rows"}
        /\ f \in Adders => status = "open"
    BY <2>2, BusyHands
  <2>6. NoUsers => NoUsers' BY <2>2, <2>3, <2>5 DEF NoUsers, Merging, TypeOK
  <2>7. ~BackgroundBusy => ~BackgroundBusy' BY <2>2 DEF BackgroundBusy
  <2>8. hands["close"].todo \subseteq hands'["close"].todo
    BY <2>2 DEF IndInv, Threads, TypeOK
  <2>9. Closing' BY <2>2, <2>5, <2>6, <2>7, <2>8 DEF IndInv, Closing
  <2> QED BY <2>1, <2>2, <2>4, <2>9 DEF IndInv, NoFatalPanic, OnlyDeadRowsDropped
<1>6. ASSUME NEW f \in Flushers, FlushNothing(f) PROVE IndInv'
  <2>1. SameTable BY <1>6 DEF FlushNothing, SameTable
  <2>2. TableInv' BY <2>1, TableFrame DEF IndInv
  <2>3. Threads' BY <1>6, <2>1 DEF FlushNothing, Idle, IndInv, Threads, SameTable, TypeOK
  <2>4. hands[f].pc = "convert" /\ hands' = [hands EXCEPT ![f] = Idle]
        /\ shards' = shards /\ rowssToFlush' = rowssToFlush
    BY <1>6 DEF FlushNothing
  <2>5. status \in {"open", "stopped", "signalled", "close_rows"} BY <2>4, BusyHands
  <2>6. NoUsers => NoUsers'
    BY <2>1, <2>4 DEF NoUsers, SameTable, Idle, Merging, TypeOK
  <2>7. ~BackgroundBusy => ~BackgroundBusy' BY <2>1, <2>4 DEF BackgroundBusy, SameTable, Idle, TypeOK
  <2>8. hands["close"].todo \subseteq hands'["close"].todo
    BY <2>4 DEF IndInv, Threads, TypeOK
  <2>9. Closing' BY <2>1, <2>4, <2>5, <2>6, <2>7, <2>8 DEF IndInv, Closing, SameTable
  <2> QED BY <1>6, <2>2, <2>3, <2>9 DEF FlushNothing, IndInv, NoFatalPanic, OnlyDeadRowsDropped
<1>7. ASSUME NEW p \in PartIds, DeadlinePasses(p) PROVE IndInv'
  <2>1. \A q \in PartIds : part'[q].kind = part[q].kind /\ part'[q].rows = part[q].rows
    BY <1>7 DEF DeadlinePasses, TypeOK, Part
  <2>2. UNCHANGED <<mem, listed, inMerge, mustDrop, merges, dirs, partsJson, searches, snap,
                    status, dead, dropped>>
    BY <1>7 DEF DeadlinePasses
  <2>3. TableInv' BY <2>1, <2>2, DeadlineFrame DEF IndInv
  <2>4. Threads' BY <2>2 DEF IndInv, Threads
  <2>5. status \in {"open", "stopped"} BY <1>7 DEF DeadlinePasses
  <2>6. NoUsers => NoUsers' BY <2>2 DEF NoUsers, Merging
  <2>7. Closing' BY <2>2, <2>5, <2>6 DEF IndInv, Closing
  <2> QED BY <2>2, <2>3, <2>4, <2>7 DEF IndInv, NoFatalPanic, OnlyDeadRowsDropped
<1> QED BY <1>1, <1>2, <1>3, <1>4, <1>5, <1>6, <1>7 DEF Ingest

----------------------------------------------------------------------------
(* Merges.                                                                 *)

Over == {"closed", "down"}

\* A partition with merges is neither closed nor down.
LEMMA MergesMeanUp ==
  ASSUME IndInv, NEW m \in merges PROVE status \notin Over
BY DEF IndInv, Closing, Over

\* The merges of the groups G that o starts in phase ph.
Started(o, G, ph) == {[owner |-> o, src |-> g, dst |-> {}, phase |-> ph] : g \in G}

\* Picking parts that are listed and not in merge keeps the table in order.
LEMMA PickTable ==
  ASSUME TypeOK, TableInv, NEW o, NEW S \in SUBSET (listed \ inMerge), NEW G \in Groups(S),
         NEW ph \in {"picked", "written"}, ph = "written" => RowsOf(S) \subseteq dead,
         inMerge' = inMerge \cup S,
         merges' = merges \cup Started(o, G, ph),
         UNCHANGED <<part, listed, mustDrop, dirs, partsJson, searches, dead>>,
         snap'.parts = snap.parts, status \notin Over, status' \notin Over
  PROVE  TableInv'
<1>1. \A g \in G : g # {} /\ g \subseteq S BY DEF Groups
<1>2. \A n \in merges' : n \in merges \/ \E g \in G : n = [owner |-> o, src |-> g, dst |-> {},
                                                       phase |-> ph]
  BY DEF Started
<1>3. \A n \in merges' : n \in merges \/ /\ n.owner = o /\ n.src \in G /\ n.dst = {}
                                         /\ n.phase = ph
  BY <1>2
<1>4. merges \subseteq merges' /\ inMerge' = inMerge \cup S OBVIOUS
<1>5. UNCHANGED <<part, listed, mustDrop>> OBVIOUS
<1>6. AllRefs' = AllRefs
  <2>1. ASSUME NEW q \in AllRefs' PROVE q \in AllRefs
    BY <1>1, <1>3, <1>5, <2>1, RefsAre DEF AllRefs
  <2>2. ASSUME NEW q \in AllRefs PROVE q \in AllRefs'
    BY <1>4, <1>5, <2>2, RefsAre DEF AllRefs
  <2> QED BY <2>1, <2>2
<1>7. MergeSources' BY <1>1, <1>3, <1>4, <1>5 DEF TableInv, MergeSources
<1>8. MergesDisjoint'
  <2>1. SUFFICES ASSUME NEW m \in merges', NEW n \in merges', m # n PROVE m.src \cap n.src = {}
    BY DEF MergesDisjoint
  <2>2. CASE m \in merges /\ n \in merges BY <2>1, <2>2 DEF TableInv, MergesDisjoint
  <2>3. CASE m \in merges /\ n \notin merges
    BY <2>1, <2>3, <1>1, <1>3 DEF TableInv, MergeSources
  <2>4. CASE m \notin merges /\ n \in merges
    BY <2>1, <2>4, <1>1, <1>3 DEF TableInv, MergeSources
  <2>5. CASE m \notin merges /\ n \notin merges
    <3>1. m.src # n.src BY <1>2, <2>1, <2>5
    <3> QED BY <3>1, <1>3, <2>5 DEF Groups
  <2> QED BY <2>2, <2>3, <2>4, <2>5
<1>9. MergeTargets'
  <2>1. ASSUME NEW n \in merges' PROVE TargetOf(n)'
    <3>1. CASE n \in merges
      BY <1>5, <1>6, <3>1 DEF TableInv, MergeTargets, TargetOf, isInmemory, isFinal, FileParts, RowsOf
    <3>2. CASE n \notin merges
      <4>1. n.src \subseteq S /\ n.dst = {} /\ n.phase = ph BY <1>1, <1>3, <3>2
      <4>2. RowsOf(n.src)' \subseteq RowsOf(S) BY <4>1 DEF RowsOf
      <4> QED BY <4>1, <4>2 DEF TargetOf
    <3> QED BY <3>1, <3>2
  <2>2. \A m, n \in merges' : m # n => m.dst \cap n.dst = {}
    BY <1>3 DEF TableInv, MergeTargets
  <2> QED BY <2>1, <2>2 DEF MergeTargets
<1>10. (RefsOnDisk /\ DropFlags /\ SnapFiles)'
  BY <1>5, <1>6 DEF TableInv, RefsOnDisk, DropFlags, SnapFiles, isInmemory
<1>11. FreshNames' BY <1>4, <1>5, <1>6 DEF TableInv, FreshNames, isInmemory
<1>12. Flags'
  <2>1. inMerge' \subseteq AllRefs' BY <1>4, <1>6, RefsAre DEF TableInv, Flags, AllRefs
  <2>2. ASSUME NEW q \in listed \cap S PROVE \E n \in merges' : q \in n.src
    <3>1. PICK g \in G : q \in g BY <2>2 DEF Groups
    <3>2. [owner |-> o, src |-> g, dst |-> {}, phase |-> ph] \in merges' BY DEF Started
    <3> QED BY <3>1, <3>2
  <2> QED BY <1>4, <1>5, <2>1, <2>2 DEF TableInv, Flags
<1>13. (JsonOnDisk /\ JsonIsList)'
  BY <1>5 DEF TableInv, JsonOnDisk, JsonIsList, FileParts, isInmemory, Over
<1> QED BY <1>7, <1>8, <1>9, <1>10, <1>11, <1>12, <1>13 DEF TableInv

\* A step of a merge that does not touch rows, readers and the life of the partition.
LEMMA MergeThreads ==
  ASSUME TypeOK, IndInv, UNCHANGED <<mem, searches, snap, status>>, merges # {},
         \A n \in merges' : \E m \in merges : n.owner = m.owner,
         status = "close_parts" =>
           \A p \in listed' : part'[p].kind = "inmemory" => \E n \in merges' : p \in n.src
  PROVE  Threads' /\ Closing'
<1>1. Threads' BY DEF IndInv, Threads, mem
<1>2. NoUsers => NoUsers' BY DEF NoUsers, Merging, mem
<1>3. ~BackgroundBusy => ~BackgroundBusy' BY DEF BackgroundBusy, mem
<1>4. status \notin Over BY MergesMeanUp
<1>5. Closing' BY <1>2, <1>3, <1>4 DEF IndInv, Closing, Over, isInmemory, mem
<1> QED BY <1>1, <1>5

\* The other merges when one of them takes a step (m2 is m after it).
LEMMA OneMerge ==
  ASSUME TableInv, NEW m \in merges, NEW m2, m2.src = m.src,
         merges' = (merges \ {m}) \cup {m2},
         UNCHANGED <<searches, snap>>
  PROVE  /\ MergesDisjoint'
         /\ \A n \in merges \ {m} : n.src \cap m.src = {} /\ n.dst \cap m.dst = {}
         /\ \A q : q \in AllRefs' <=> q \in Refs(listed', merges, searches, snap)
<1>1. \A n \in merges \ {m} : n.src \cap m.src = {} /\ n.dst \cap m.dst = {}
  BY DEF TableInv, MergesDisjoint, MergeTargets
<1>2. MergesDisjoint' BY <1>1 DEF TableInv, MergesDisjoint
<1>3. ASSUME NEW q PROVE q \in AllRefs' <=> q \in Refs(listed', merges, searches, snap)
  <2>1. (\E n \in merges' : q \in n.src) <=> (\E n \in merges : q \in n.src) OBVIOUS
  <2> QED BY <2>1, RefsAre DEF AllRefs
<1> QED BY <1>1, <1>2, <1>3

\* A merge that ends early keeps the invariant.
LEMMA StoppedInd == ASSUME TypeOK, IndInv, NEW m \in merges, ForciblyStopped(m) PROVE IndInv'
<1> USE DEF mem, tbl, disk, users, hist, bounds
<1>1. /\ m.phase \in {"picked", "writing"} /\ merges' = merges \ {m} /\ inMerge' = inMerge \ m.src
      /\ part' = [p \in PartIds |-> IF p \in m.dst THEN NoPart ELSE part[p]]
      /\ UNCHANGED <<listed, mustDrop, mem, dirs, partsJson, searches, snap, dead, dropped>>
  BY DEF ForciblyStopped
<1>2. m.src \subseteq inMerge /\ m.src \subseteq listed
  BY <1>1 DEF IndInv, TableInv, MergeSources
<1>3. status' = status BY <1>2 DEF ForciblyStopped, Panic
<1>4. \A n \in merges' : n.src \cap m.src = {} /\ n.dst \cap m.dst = {}
  BY <1>1 DEF IndInv, TableInv, MergesDisjoint, MergeTargets
<1>5. AllRefs' = AllRefs
  <2>1. ASSUME NEW q \in AllRefs PROVE q \in AllRefs'
    BY <1>1, <1>2, <2>1, RefsAre DEF AllRefs
  <2>2. ASSUME NEW q \in AllRefs' PROVE q \in AllRefs
    BY <1>1, <2>2, RefsAre DEF AllRefs
  <2> QED BY <2>1, <2>2
<1>6. \A q \in AllRefs : q \notin m.dst BY DEF IndInv, TableInv, MergeTargets, TargetOf
<1>7. AllRefs \subseteq PartIds /\ \A n \in merges : n.src \subseteq PartIds /\ n.dst \subseteq PartIds
  BY RefsTyped
<1>8. \A q \in PartIds : (q \notin m.dst => part'[q] = part[q])
                       /\ (q \in m.dst => part'[q].kind = "inmemory")
  BY <1>1 DEF NoPart
<1>9. listed \subseteq AllRefs /\ snap.parts \subseteq AllRefs /\ \A n \in merges : n.src \subseteq AllRefs
  BY RefsAre DEF AllRefs
<1>10. status \notin Over BY MergesMeanUp
<1>11. partsJson \subseteq listed BY <1>10 DEF IndInv, TableInv, JsonIsList, Over, FileParts
<1>12. TableInv'
  <2>1. (MergeSources /\ MergesDisjoint)'
    BY <1>1, <1>4 DEF IndInv, TableInv, MergeSources, MergesDisjoint
  <2>2. MergeTargets'
    <3>1. ASSUME NEW n \in merges' PROVE TargetOf(n)'
      <4>1. RowsOf(n.src)' = RowsOf(n.src) /\ RowsOf(n.dst)' = RowsOf(n.dst)
        BY <1>1, <1>4, <1>6, <1>7, <1>8, <1>9 DEF RowsOf
      <4>2. FileParts(n.src)' = FileParts(n.src)
        BY <1>1, <1>6, <1>7, <1>8, <1>9 DEF FileParts, isInmemory
      <4>3. TargetOf(n) /\ n.dst \subseteq PartIds /\ n.dst \cap m.dst = {}
        BY <1>1, <1>4, <1>7 DEF IndInv, TableInv, MergeTargets
      <4> QED BY <1>1, <1>5, <1>8, <4>1, <4>2, <4>3 DEF TargetOf, isInmemory, isFinal
    <3> QED BY <3>1, <1>1 DEF IndInv, TableInv, MergeTargets
  <2>3. (RefsOnDisk /\ SnapFiles /\ DropFlags)'
    BY <1>1, <1>5, <1>6, <1>7, <1>8, <1>9
       DEF IndInv, TableInv, RefsOnDisk, SnapFiles, DropFlags, isInmemory
  <2>4. Flags' BY <1>1, <1>2, <1>5 DEF IndInv, TableInv, Flags
  <2>5. FreshNames' BY <1>1, <1>5, <1>8 DEF IndInv, TableInv, FreshNames, isInmemory
  <2>6. (JsonOnDisk /\ JsonIsList)'
    BY <1>1, <1>3, <1>6, <1>7, <1>8, <1>9, <1>11
       DEF IndInv, TableInv, JsonOnDisk, JsonIsList, FileParts, isInmemory
  <2> QED BY <2>1, <2>2, <2>3, <2>4, <2>5, <2>6 DEF TableInv
<1>13. status # "close_parts"
  BY DEF ForciblyStopped, IndInv, Closing, NoUsers, Merging
<1>14. Threads' /\ Closing' BY <1>1, <1>3, <1>13, MergeThreads
<1> QED BY <1>1, <1>3, <1>12, <1>14 DEF IndInv, NoFatalPanic, OnlyDeadRowsDropped

\* A merge works on its own destination part p, which nobody else knows.
LEMMA OwnPart ==
  ASSUME TypeOK, IndInv, NEW m \in merges, NEW m2, NEW p \in PartIds,
         p \notin AllRefs, p \notin partsJson,
         m2.src = m.src, m2.owner = m.owner, m.phase # "swapped", m2.phase # "swapped",
         m.dst \subseteq {p}, m2.dst \subseteq {p}, \A n \in merges \ {m} : p \notin n.dst,
         merges' = (merges \ {m}) \cup {m2}, TargetOf(m2)',
         \A q \in PartIds : q # p => part'[q] = part[q] /\ dirs'[q] = dirs[q],
         p \in m2.dst \/ part'[p].kind = "inmemory",
         UNCHANGED <<listed, inMerge, mustDrop, mem, partsJson, searches, snap, status, dead, dropped>>
  PROVE  IndInv'
<1>1. /\ MergesDisjoint'
      /\ \A n \in merges \ {m} : n.src \cap m.src = {} /\ n.dst \cap m.dst = {}
      /\ \A q : q \in AllRefs' <=> q \in Refs(listed', merges, searches, snap)
  BY OneMerge DEF IndInv
<1>2. AllRefs' = AllRefs BY <1>1 DEF AllRefs
<1>3. AllRefs \subseteq PartIds /\ \A n \in merges : n.src \subseteq PartIds /\ n.dst \subseteq PartIds
  BY RefsTyped
<1>4. listed \subseteq AllRefs /\ snap.parts \subseteq AllRefs /\ \A n \in merges : n.src \subseteq AllRefs
  BY RefsAre DEF AllRefs
<1>5. TableInv'
  <2>1. MergeSources' BY DEF IndInv, TableInv, MergeSources
  <2>2. ASSUME NEW n \in merges \ {m} PROVE TargetOf(n)'
    <3>1. RowsOf(n.src)' = RowsOf(n.src) /\ RowsOf(n.dst)' = RowsOf(n.dst)
      BY <1>3, <1>4 DEF RowsOf
    <3>2. FileParts(n.src)' = FileParts(n.src) BY <1>3, <1>4 DEF FileParts, isInmemory
    <3>3. TargetOf(n) /\ n.dst \subseteq PartIds /\ p \notin n.dst
      BY <1>3 DEF IndInv, TableInv, MergeTargets
    <3> QED BY <1>2, <3>1, <3>2, <3>3 DEF TargetOf, isInmemory, isFinal
  <2>3. MergeTargets'
    <3>1. ASSUME NEW n \in merges' PROVE TargetOf(n)' BY <2>2, <3>1
    <3>2. \A n1, n2 \in merges : n1 # n2 => n1.dst \cap n2.dst = {}
      BY DEF IndInv, TableInv, MergeTargets
    <3>3. \A n \in merges \ {m} : m2.dst \cap n.dst = {} OBVIOUS
    <3>4. \A n1, n2 \in merges' : n1 # n2 => n1.dst \cap n2.dst = {} BY <3>2, <3>3
    <3> QED BY <3>1, <3>4 DEF MergeTargets
  <2>4. (RefsOnDisk /\ SnapFiles)'
    BY <1>2, <1>3, <1>4 DEF IndInv, TableInv, RefsOnDisk, SnapFiles, isInmemory
  <2>5. (DropFlags /\ Flags)'
    BY <1>2 DEF IndInv, TableInv, DropFlags, Flags
  <2>6. FreshNames'
    BY <1>2 DEF IndInv, TableInv, FreshNames, isInmemory
  <2>7. partsJson \subseteq PartIds /\ listed \subseteq PartIds /\ p \notin listed
    BY <1>4 DEF TypeOK
  <2>8. (JsonOnDisk /\ JsonIsList)'
    BY <2>7 DEF IndInv, TableInv, JsonOnDisk, JsonIsList, FileParts, isInmemory
  <2> QED BY <1>1, <2>1, <2>3, <2>4, <2>5, <2>6, <2>8 DEF TableInv
<1>6. \A q \in listed' : part'[q].kind = "inmemory" => isInmemory(q)
  BY <1>3, <1>4 DEF isInmemory
<1>7. status = "close_parts" =>
        \A q \in listed' : part'[q].kind = "inmemory" => \E n \in merges' : q \in n.src
  BY <1>6 DEF IndInv, Closing
<1>8. Threads' /\ Closing' BY <1>7, MergeThreads
<1> QED BY <1>5, <1>8 DEF IndInv, NoFatalPanic, OnlyDeadRowsDropped

\* The start of the writing keeps the invariant.
LEMMA MergePartsInd ==
  ASSUME TypeOK, IndInv, NEW m \in merges, NEW k \in Kinds, merge_parts(m, k) PROVE IndInv'
<1> USE DEF mem, tbl, disk, users, hist, bounds
<1>1. PICK p, m2 :
      /\ p = next_merge_idx /\ m2 = [m EXCEPT !.dst = {p}, !.phase = "writing"]
      /\ m.phase = "picked" /\ Unused # {} /\ k \in get_dst_part_type(m)
      /\ part' = [part EXCEPT ![p].kind = k]
      /\ dirs' = IF k = "inmemory" THEN dirs ELSE [dirs EXCEPT ![p] = "partial"]
      /\ merges' = (merges \ {m}) \cup {m2}
      /\ UNCHANGED <<listed, inMerge, mustDrop, mem, partsJson, searches, snap, dead, dropped>>
  BY DEF merge_parts
<1>2. /\ p \in PartIds /\ p \notin AllRefs /\ p \notin partsJson
      /\ \A n \in merges : p \notin n.src /\ p \notin n.dst
  BY <1>1, FreshPart DEF IndInv
<1>3. m2.src = m.src /\ m2.dst = {p} /\ m2.phase = "writing" /\ m2.owner = m.owner
  BY <1>1 DEF TypeOK, Merge
<1>4. m.src \subseteq inMerge /\ m.dst = {}
  BY <1>1 DEF IndInv, TableInv, MergeSources, MergeTargets, TargetOf
<1>5. status' = status BY <1>4 DEF merge_parts, Panic
<1>6. \A q \in PartIds : q # p => part'[q] = part[q] /\ dirs'[q] = dirs[q]
  BY <1>1 DEF TypeOK
<1>7. part'[p].kind = k BY <1>1, <1>2 DEF TypeOK, Part
<1>8. AllRefs' = AllRefs BY <1>1, <1>3, OneMerge DEF IndInv, AllRefs
<1>9. TargetOf(m2)'
  <2>1. m.src \subseteq PartIds BY RefsTyped
  <2>2. FileParts(m.src)' = FileParts(m.src) BY <1>2, <1>6, <2>1 DEF FileParts, isInmemory
  <2>3. isFinal(m) \/ FileParts(m.src) # {} => k # "inmemory"
    BY <1>1, PartitionAssumption DEF get_dst_part_type
  <2> QED BY <1>2, <1>3, <1>7, <1>8, <2>2, <2>3 DEF TargetOf, isInmemory, isFinal
<1> QED BY <1>1, <1>2, <1>3, <1>4, <1>5, <1>6, <1>9, OwnPart

\* A destination that has been written keeps the invariant.
LEMMA WrittenInd ==
  ASSUME TypeOK, IndInv, NEW m \in merges, NEW p \in m.dst, NEW lost \in SUBSET Rows,
         merge_parts_internal(m, p, lost)
  PROVE  IndInv'
<1> USE DEF mem, tbl, disk, users, hist, bounds
<1>1. PICK rows, m2 :
      /\ rows = RowsOf(m.src) \ lost /\ m.phase = "writing" /\ lost \subseteq dead
      /\ m2 = [m EXCEPT !.phase = "written", !.dst = IF rows = {} THEN {} ELSE @]
      /\ part' = [part EXCEPT ![p] = IF rows = {} THEN NoPart ELSE [@ EXCEPT !.rows = rows]]
      /\ dirs' = IF isInmemory(p) THEN dirs
                 ELSE [dirs EXCEPT ![p] = IF rows = {} THEN "none" ELSE "full"]
      /\ merges' = (merges \ {m}) \cup {m2}
      /\ UNCHANGED <<listed, inMerge, mustDrop, mem, partsJson, searches, snap, status, dead, dropped>>
  BY DEF merge_parts_internal, Droppable
<1>2. TargetOf(m) /\ m.dst = {p} /\ p \notin AllRefs /\ \A n \in merges \ {m} : p \notin n.dst
  BY DEF IndInv, TableInv, MergeTargets, TargetOf
<1>3. p \in PartIds /\ m.src \subseteq PartIds BY RefsTyped
<1>4. /\ m2.src = m.src /\ m2.owner = m.owner /\ m2.phase = "written"
      /\ m2.dst = IF rows = {} THEN {} ELSE {p}
  BY <1>1, <1>2 DEF TypeOK, Merge
<1>5. \A q \in PartIds : q # p => part'[q] = part[q] /\ dirs'[q] = dirs[q]
  BY <1>1 DEF TypeOK
<1>6. /\ rows = {} => part'[p].kind = "inmemory"
      /\ rows # {} => part'[p].kind = part[p].kind /\ part'[p].rows = rows
  BY <1>1, <1>3 DEF TypeOK, Part, NoPart
<1>7. status \notin Over BY MergesMeanUp
<1>8. listed \subseteq AllRefs /\ m.src \subseteq AllRefs BY RefsAre DEF AllRefs
<1>9. p \notin partsJson
  BY <1>2, <1>7, <1>8 DEF IndInv, TableInv, JsonIsList, FileParts, Over
<1>10. AllRefs' = AllRefs BY <1>1, <1>4, OneMerge DEF IndInv, AllRefs
<1>11. TargetOf(m2)'
  <2>1. FileParts(m.src)' = FileParts(m.src) BY <1>2, <1>3, <1>5, <1>8 DEF FileParts, isInmemory
  <2>2. RowsOf(m.src)' = RowsOf(m.src) BY <1>2, <1>3, <1>5, <1>8 DEF RowsOf
  <2>3. RowsOf(m2.dst)' = rows BY <1>4, <1>6 DEF RowsOf
  <2>4. RowsOf(m.src) \ rows \subseteq dead BY <1>1
  <2>5. ASSUME NEW q \in m2.dst
        PROVE  /\ m2.dst = {q} /\ q \notin AllRefs'
               /\ isFinal(m2) \/ FileParts(m2.src)' # {} => ~isInmemory(q)'
               /\ isInmemory(q)' \/ dirs'[q] = "full"
    <3>1. q = p /\ rows # {} /\ m2.dst = {q} BY <1>4, <2>5
    <3>2. isInmemory(q)' <=> isInmemory(q) BY <1>6, <3>1 DEF isInmemory
    <3>3. isFinal(m) \/ FileParts(m.src) # {} => ~isInmemory(q) BY <1>2, <3>1 DEF TargetOf
    <3>4. isInmemory(q) \/ dirs'[q] = "full" BY <1>1, <1>3, <3>1 DEF TypeOK
    <3> QED BY <1>2, <1>4, <1>10, <2>1, <3>1, <3>2, <3>3, <3>4 DEF isFinal
  <2>6. RowsOf(m2.src)' \ RowsOf(m2.dst)' \subseteq dead' BY <1>1, <1>4, <2>2, <2>3, <2>4
  <2> QED BY <1>4, <2>5, <2>6 DEF TargetOf, isFinal
<1>12. /\ m2.dst \subseteq {p} /\ m.dst \subseteq {p} /\ m.phase # "swapped"
       /\ p \in m2.dst \/ part'[p].kind = "inmemory"
  BY <1>1, <1>2, <1>4, <1>6
<1>13. /\ merges' = (merges \ {m}) \cup {m2}
       /\ UNCHANGED <<listed, inMerge, mustDrop, mem, partsJson, searches, snap, status, dead, dropped>>
  BY <1>1
<1> QED BY <1>2, <1>3, <1>4, <1>5, <1>9, <1>11, <1>12, <1>13, OwnPart

\* The swap keeps the invariant.
LEMMA SwapInd ==
  ASSUME TypeOK, IndInv, NEW m \in merges, swap_src_with_dst_parts(m) PROVE IndInv'
<1> USE DEF mem, tbl, disk, users, hist, bounds
<1>1. PICK new, m2 :
      /\ m.phase = "written" /\ new = (listed \ m.src) \cup m.dst /\ listed' = new
      /\ m2 = [m EXCEPT !.phase = "swapped", !.dst = {}]
      /\ part' = [p \in PartIds |-> IF p \in m.dst THEN get_flush_to_disk_deadline(p, m)
                                     ELSE part[p]]
      /\ partsJson' = JsonAfter(m, new)
      /\ dropped' = dropped \cup (RowsOf(m.src) \ RowsOf(m.dst))
      /\ mustDrop' = mustDrop \cup m.src
      /\ merges' = (merges \ {m}) \cup {m2}
      /\ UNCHANGED <<inMerge, mem, dirs, searches, snap, dead>>
  BY DEF swap_src_with_dst_parts
<1>2. m.src \subseteq listed /\ m.src \subseteq inMerge /\ m.src # {} /\ TargetOf(m)
  BY <1>1 DEF IndInv, TableInv, MergeSources, MergeTargets
<1>3. status' = status BY <1>2 DEF swap_src_with_dst_parts, Panic
<1>4. m2.src = m.src /\ m2.dst = {} /\ m2.phase = "swapped" /\ m2.owner = m.owner
  BY <1>1 DEF TypeOK, Merge
<1>5. /\ MergesDisjoint'
      /\ \A n \in merges \ {m} : n.src \cap m.src = {} /\ n.dst \cap m.dst = {}
      /\ \A q : q \in AllRefs' <=> q \in Refs(listed', merges, searches, snap)
  <2>1. merges' = (merges \ {m}) \cup {m2} /\ UNCHANGED <<searches, snap>> BY <1>1
  <2> QED BY <1>4, <2>1, OneMerge DEF IndInv
<1>6. /\ AllRefs \subseteq PartIds /\ snap.parts \subseteq PartIds
      /\ \A n \in merges : n.src \subseteq PartIds /\ n.dst \subseteq PartIds
  BY RefsTyped
<1>7. listed \subseteq AllRefs /\ snap.parts \subseteq AllRefs /\ \A n \in merges : n.src \subseteq AllRefs
  BY RefsAre DEF AllRefs
<1>8. AllRefs' = AllRefs \cup m.dst
  <2>1. ASSUME NEW q PROVE q \in AllRefs' <=> q \in AllRefs \/ q \in m.dst
    <3>1. q \in AllRefs' <=> \/ q \in listed' \/ q \in snap.parts
                             \/ \E n \in merges : q \in n.src
                             \/ \E s \in Searchers : q \in searches[s]
      BY <1>5, RefsAre
    <3>2. q \in AllRefs <=> \/ q \in listed \/ q \in snap.parts
                            \/ \E n \in merges : q \in n.src
                            \/ \E s \in Searchers : q \in searches[s]
      BY RefsAre DEF AllRefs
    <3>3. listed' = (listed \ m.src) \cup m.dst BY <1>1
    <3> QED BY <3>1, <3>2, <3>3
  <2> QED BY <2>1
<1>9. \A q \in PartIds : part'[q].kind = part[q].kind /\ part'[q].rows = part[q].rows
  BY <1>1 DEF get_flush_to_disk_deadline, TypeOK, Part
<1>10. \A q \in m.dst : q \notin AllRefs /\ (isInmemory(q) \/ dirs[q] = "full")
  BY <1>1, <1>2 DEF TargetOf
<1>11. status \notin Over BY MergesMeanUp
<1>12. TableInv'
  <2>1. MergeSources' BY <1>1, <1>2, <1>4, <1>5, <1>7, <1>10 DEF IndInv, TableInv, MergeSources
  <2>2. ASSUME NEW n \in merges \ {m} PROVE TargetOf(n)'
    <3>1. RowsOf(n.src)' = RowsOf(n.src) /\ RowsOf(n.dst)' = RowsOf(n.dst)
      BY <1>6, <1>9 DEF RowsOf
    <3>2. FileParts(n.src)' = FileParts(n.src) BY <1>6, <1>9 DEF FileParts, isInmemory
    <3>3. TargetOf(n) /\ n.dst \subseteq PartIds /\ n.dst \cap m.dst = {}
      BY <1>5, <1>6 DEF IndInv, TableInv, MergeTargets
    <3> QED BY <1>1, <1>8, <1>9, <3>1, <3>2, <3>3 DEF TargetOf, isInmemory, isFinal
  <2>3. TargetOf(m2)' BY <1>4 DEF TargetOf
  <2>4. MergeTargets'
    <3>1. merges' = (merges \ {m}) \cup {m2} BY <1>1
    <3>2. ASSUME NEW n \in merges' PROVE TargetOf(n)' BY <2>2, <2>3, <3>1, <3>2
    <3>3. \A n1, n2 \in merges : n1 # n2 => n1.dst \cap n2.dst = {}
      BY DEF IndInv, TableInv, MergeTargets
    <3>4. \A n1, n2 \in merges' : n1 # n2 => n1.dst \cap n2.dst = {} BY <1>4, <3>1, <3>3
    <3> QED BY <3>2, <3>4 DEF MergeTargets
  <2>5. (RefsOnDisk /\ SnapFiles)'
    BY <1>1, <1>6, <1>8, <1>9, <1>10 DEF IndInv, TableInv, RefsOnDisk, SnapFiles, isInmemory
  <2>6. DropFlags'
    BY <1>1, <1>7, <1>8, <1>10 DEF IndInv, TableInv, DropFlags
  <2>7. Flags'
    <3>1. inMerge' \subseteq AllRefs' BY <1>1, <1>8 DEF IndInv, TableInv, Flags
    <3>2. ASSUME NEW q \in listed' \cap inMerge' PROVE \E n \in merges' : q \in n.src
      <4>1. q \in AllRefs /\ q \in inMerge BY <1>1, <3>2 DEF IndInv, TableInv, Flags
      <4>2. q \in listed \ m.src BY <1>1, <1>10, <3>2, <4>1
      <4>3. PICK n \in merges : q \in n.src BY <4>1, <4>2 DEF IndInv, TableInv, Flags
      <4> QED BY <1>1, <4>2, <4>3
    <3> QED BY <3>1, <3>2 DEF Flags
  <2>8. partsJson = FileParts(listed) BY <1>11 DEF IndInv, TableInv, JsonIsList, Over
  <2>9. FreshNames'
    <3>1. partsJson \subseteq AllRefs BY <1>7, <2>8 DEF FileParts
    <3>2. \A n \in merges : n \in merges' \/ n = m BY <1>1
    <3> QED BY <1>8, <1>9, <3>1, <3>2 DEF IndInv, TableInv, FreshNames, isInmemory
  <2>10. new \subseteq PartIds BY <1>1, <1>6 DEF TypeOK
  <2>11. partsJson' = FileParts(new)
    <3>1. CASE FileParts(m.src \cap listed) # {} \/ FileParts(m.dst) # {}
      BY <1>1, <3>1 DEF JsonAfter
    <3>2. CASE FileParts(m.src \cap listed) = {} /\ FileParts(m.dst) = {}
      <4>1. FileParts(new) = FileParts(listed) BY <1>1, <3>2 DEF FileParts
      <4> QED BY <1>1, <2>8, <3>2, <4>1 DEF JsonAfter
    <3> QED BY <3>1, <3>2
  <2>12. FileParts(new) = FileParts(listed)' BY <1>1, <1>9, <2>10 DEF FileParts, isInmemory
  <2>13. JsonIsList' BY <2>11, <2>12 DEF JsonIsList
  <2>14. ASSUME NEW q \in partsJson' PROVE ~isInmemory(q)' /\ dirs'[q] = "full"
    <3>1. q \in new /\ ~isInmemory(q) BY <2>11, <2>14 DEF FileParts
    <3>2. dirs[q] = "full" BY <1>1, <1>7, <1>10, <3>1 DEF IndInv, TableInv, RefsOnDisk
    <3> QED BY <1>1, <1>9, <2>10, <3>1, <3>2 DEF isInmemory
  <2> QED BY <1>5, <2>1, <2>4, <2>5, <2>6, <2>7, <2>9, <2>13, <2>14 DEF TableInv, JsonOnDisk
<1>13. ASSUME status = "close_parts", NEW q \in listed', part'[q].kind = "inmemory"
       PROVE  \E n \in merges' : q \in n.src
  <2>1. m.owner = "close"
    BY <1>13 DEF IndInv, Threads, Closing, NoUsers, BackgroundBusy, Merging, TypeOK, Merge, Owners
  <2>2. q \in PartIds BY <1>1, <1>6, <1>13, <1>7
  <2>3. isInmemory(q) BY <1>9, <1>13, <2>2 DEF isInmemory
  <2>4. q \notin m.dst BY <1>2, <2>1, <2>3 DEF TargetOf, isFinal
  <2>5. q \in listed \ m.src BY <1>1, <1>13, <2>4
  <2>6. PICK n \in merges : q \in n.src BY <1>13, <2>3, <2>5 DEF IndInv, Closing
  <2> QED BY <1>1, <2>5, <2>6
<1>14. Threads' /\ Closing'
  <2>1. \A n \in merges' : \E n1 \in merges : n.owner = n1.owner BY <1>1, <1>4
  <2>2. UNCHANGED <<mem, searches, snap, status>> BY <1>1, <1>3
  <2> QED BY <1>13, <2>1, <2>2, MergeThreads
<1>15. RowsOf(m.src) \ RowsOf(m.dst) \subseteq dead BY <1>1, <1>2 DEF TargetOf
<1> QED BY <1>1, <1>3, <1>12, <1>14, <1>15 DEF IndInv, NoFatalPanic, OnlyDeadRowsDropped

\* Letting go of references to the parts S keeps the table in order: what is freed was
\* referenced by nobody else.
LEMMA ReleaseTable ==
  ASSUME TypeOK, TableInv, status \notin Over, NEW S \in SUBSET AllRefs, NEW flags \in SUBSET inMerge,
         Release(S, AllRefs', flags), AllRefs' \subseteq AllRefs, AllRefs \ AllRefs' \subseteq S,
         UNCHANGED <<listed, partsJson, status, dead>>,
         merges' \subseteq merges, \A m \in merges \ merges' : m.dst = {},
         snap'.parts \subseteq snap.parts, \A n \in merges' : n.src \subseteq flags,
         \A q \in listed \cap flags : \E n \in merges' : q \in n.src
  PROVE  /\ TableInv'
         /\ \A q \in listed : part'[q] = part[q]
<1> DEFINE freed == S \ AllRefs'
<1>1. /\ part' = [p \in PartIds |-> IF p \in freed THEN NoPart ELSE part[p]]
      /\ \A p \in PartIds : p \notin freed => dirs'[p] = dirs[p]
      /\ mustDrop' = mustDrop \ freed /\ inMerge' = flags \ freed
  BY DEF Release
<1>2. freed = AllRefs \ AllRefs' OBVIOUS
<1> HIDE DEF freed
<1>3. AllRefs \subseteq PartIds /\ \A n \in merges : n.src \subseteq PartIds /\ n.dst \subseteq PartIds
  BY RefsTyped
<1>4. listed \subseteq AllRefs' /\ snap'.parts \subseteq AllRefs' /\ \A n \in merges' : n.src \subseteq AllRefs'
  BY RefsAre DEF AllRefs
<1>5. \A q \in PartIds : /\ q \notin freed => part'[q] = part[q] /\ dirs'[q] = dirs[q]
                         /\ q \in freed => part'[q].kind = "inmemory"
  BY <1>1 DEF NoPart
<1>6. partsJson \subseteq listed BY DEF TableInv, JsonIsList, Over, FileParts
<1>7. listed \subseteq PartIds BY DEF TypeOK
<1>8. (MergeSources /\ MergesDisjoint)'
  BY <1>1, <1>2, <1>4 DEF TableInv, MergeSources, MergesDisjoint
<1>9. MergeTargets'
  <2>1. ASSUME NEW n \in merges' PROVE TargetOf(n)'
    <3>1. TargetOf(n) /\ n.dst \cap freed = {} /\ n.src \cap freed = {}
      BY <1>2, <1>4 DEF TableInv, MergeTargets, TargetOf
    <3>2. n.src \subseteq PartIds /\ n.dst \subseteq PartIds BY <1>3
    <3>3. RowsOf(n.src)' = RowsOf(n.src) /\ RowsOf(n.dst)' = RowsOf(n.dst)
      BY <1>5, <3>1, <3>2 DEF RowsOf
    <3>4. FileParts(n.src)' = FileParts(n.src) BY <1>5, <3>1, <3>2 DEF FileParts, isInmemory
    <3> QED BY <1>5, <3>1, <3>2, <3>3, <3>4 DEF TargetOf, isInmemory, isFinal
  <2> QED BY <2>1 DEF TableInv, MergeTargets
<1>10. (RefsOnDisk /\ SnapFiles)'
  BY <1>2, <1>3, <1>4, <1>5 DEF TableInv, RefsOnDisk, SnapFiles, isInmemory
<1>11. (DropFlags /\ Flags)' BY <1>1, <1>2 DEF TableInv, DropFlags, Flags
<1>12. FreshNames' BY <1>2, <1>5 DEF TableInv, FreshNames, isInmemory
<1>13. (JsonOnDisk /\ JsonIsList)'
  BY <1>2, <1>4, <1>5, <1>6, <1>7 DEF TableInv, JsonOnDisk, JsonIsList, FileParts, isInmemory
<1> QED BY <1>2, <1>4, <1>5, <1>7, <1>8, <1>9, <1>10, <1>11, <1>12, <1>13 DEF TableInv

\* The end of a merge keeps the invariant.
LEMMA ReleaseInd ==
  ASSUME TypeOK, IndInv, NEW m \in merges, release_parts_to_merge(m) PROVE IndInv'
<1> USE DEF mem, tbl, disk, users, hist, bounds
<1>1. PICK flags :
      /\ flags = IF m.owner = "stale_parts_remover" THEN inMerge ELSE inMerge \ m.src
      /\ m.phase = "swapped" /\ merges' = merges \ {m}
      /\ Release(m.src, Refs(listed, merges', searches, snap), flags)
      /\ UNCHANGED <<listed, mem, partsJson, searches, snap, dead, dropped>>
  BY DEF release_parts_to_merge
<1>2. m.src \subseteq inMerge /\ m.src \cap listed = {} /\ m.dst = {}
  BY <1>1 DEF IndInv, TableInv, MergeSources, MergeTargets, TargetOf
<1>3. status' = status BY <1>2 DEF release_parts_to_merge, Panic
<1>4. AllRefs' = Refs(listed, merges', searches, snap) BY <1>1 DEF AllRefs
<1>5. m.src \subseteq AllRefs BY RefsAre DEF AllRefs
<1>6. AllRefs' \subseteq AllRefs /\ AllRefs \ AllRefs' \subseteq m.src
  <2>1. ASSUME NEW q \in AllRefs' PROVE q \in AllRefs BY <1>1, <2>1, RefsAre DEF AllRefs
  <2>2. ASSUME NEW q \in AllRefs, q \notin m.src PROVE q \in AllRefs'
    BY <1>1, <2>2, RefsAre DEF AllRefs
  <2> QED BY <2>1, <2>2
<1>7. status \notin Over BY MergesMeanUp
<1>8. flags \subseteq inMerge /\ \A n \in merges' : n.src \subseteq flags
  BY <1>1 DEF IndInv, TableInv, MergeSources, MergesDisjoint
<1>9. ASSUME NEW q \in listed, \E n \in merges : q \in n.src PROVE \E n \in merges' : q \in n.src
  BY <1>1, <1>2, <1>9
<1>10. \A q \in listed \cap flags : \E n \in merges' : q \in n.src
  BY <1>8, <1>9 DEF IndInv, TableInv, Flags
<1>11. TableInv' /\ \A q \in listed : part'[q] = part[q]
  <2>1. Release(m.src, AllRefs', flags) BY <1>1, <1>4
  <2>2. merges' \subseteq merges /\ (\A n \in merges \ merges' : n.dst = {}) BY <1>1, <1>2
  <2>3. UNCHANGED <<listed, partsJson, status, dead>> /\ snap'.parts = snap.parts BY <1>1, <1>3
  <2> QED BY <1>5, <1>6, <1>7, <1>8, <1>10, <2>1, <2>2, <2>3, ReleaseTable DEF IndInv
<1>12. Threads' /\ Closing'
  <2>1. status = "close_parts" =>
          \A q \in listed' : part'[q].kind = "inmemory" => \E n \in merges' : q \in n.src
    BY <1>1, <1>9, <1>11 DEF IndInv, Closing, isInmemory
  <2>2. UNCHANGED <<mem, searches, snap, status>> /\ \A n \in merges' : n \in merges BY <1>1, <1>3
  <2> QED BY <2>1, <2>2, MergeThreads
<1> QED BY <1>1, <1>3, <1>11, <1>12 DEF IndInv, NoFatalPanic, OnlyDeadRowsDropped

\* A worker or a forced merge that starts merges or removals of free parts.
LEMMA PickInd ==
  ASSUME TypeOK, IndInv,
         NEW o \in {"parts_merger", "inmemory_parts_flusher", "stale_parts_remover", "force_merge"},
         NEW S \in SUBSET (listed \ inMerge), NEW G \in Groups(S), NEW ph \in {"picked", "written"},
         ph = "written" => RowsOf(S) \subseteq dead,
         inMerge' = inMerge \cup S,
         merges' = merges \cup Started(o, G, ph),
         UNCHANGED <<part, listed, mustDrop, mem, dirs, partsJson, searches, snap, status, dead,
                     dropped>>,
         status \in {"open", "stopped"}, o = "force_merge" => status = "open"
  PROVE  IndInv'
<1> USE DEF mem
<1>1. TableInv'
  <2>1. UNCHANGED <<part, listed, mustDrop, dirs, partsJson, searches, dead>> OBVIOUS
  <2>2. snap'.parts = snap.parts /\ status \notin Over /\ status' \notin Over BY DEF Over
  <2> QED BY <2>1, <2>2, PickTable DEF IndInv
<1>2. \A n \in merges' : n \in merges \/ n.owner = o BY DEF Started
<1>3. Threads' BY <1>2 DEF IndInv, Threads
<1>4. status = "stopped" => NoUsers' BY <1>2 DEF IndInv, Closing, NoUsers, Merging
<1>5. Closing' BY <1>4 DEF Closing
<1> QED BY <1>1, <1>3, <1>5 DEF IndInv, NoFatalPanic, OnlyDeadRowsDropped

\* Steps of merges, removals and the dir remover keep the invariant.
LEMMA MergeInd == ASSUME TypeOK, IndInv, MergeStep PROVE IndInv'
<1> USE DEF mem, tbl, disk, users, hist, bounds
<1>1. ASSUME NEW S \in SUBSET listed, parts_merger(S) PROVE IndInv'
  <2>1. S \in SUBSET (listed \ inMerge) BY <1>1 DEF parts_merger, Mergeable
  <2>2. S # {}
    <3>1. Cardinality(S) # 0 BY <1>1, PartitionAssumption DEF parts_merger
    <3> QED BY <3>1, FS_EmptySet
  <2>3. {S} \in Groups(S) BY <2>2 DEF Groups
  <2>4. /\ inMerge' = inMerge \cup S
        /\ merges' = merges \cup Started("parts_merger", {S}, "picked")
        /\ UNCHANGED <<part, listed, mustDrop>>
    BY <1>1 DEF parts_merger, PickParts, Picked, Started
  <2> QED BY <1>1, <2>1, <2>3, <2>4, PickInd DEF parts_merger
<1>2. ASSUME NEW G \in Groups(PartsToFlush(FALSE)), inmemory_parts_flusher(G) PROVE IndInv'
  <2> DEFINE S == PartsToFlush(FALSE)
  <2>1. S \in SUBSET (listed \ inMerge) BY DEF PartsToFlush
  <2>2. /\ inMerge' = inMerge \cup S
        /\ merges' = merges \cup Started("inmemory_parts_flusher", G, "picked")
        /\ UNCHANGED <<part, listed, mustDrop>>
    BY <1>2 DEF inmemory_parts_flusher, PickParts, Picked, Started
  <2> HIDE DEF S
  <2>3. G \in Groups(S) BY DEF S
  <2> QED BY <1>2, <2>1, <2>2, <2>3, PickInd DEF inmemory_parts_flusher
<1>3. ASSUME NEW G \in Groups(listed), force_merge_all_parts(G) PROVE IndInv'
  <2>1. listed \in SUBSET (listed \ inMerge) BY <1>3 DEF force_merge_all_parts
  <2>2. /\ inMerge' = inMerge \cup listed
        /\ merges' = merges \cup Started("force_merge", G, "picked")
        /\ UNCHANGED <<part, listed, mustDrop>>
    BY <1>3 DEF force_merge_all_parts, PickParts, Picked, Started
  <2> QED BY <1>3, <2>1, <2>2, PickInd DEF force_merge_all_parts
<1>4. ASSUME remove_stale_parts PROVE IndInv'
  <2>1. PICK S \in (SUBSET {p \in listed \ inMerge : part[p].rows \subseteq dead}) \ {{}} :
          /\ inMerge' = inMerge \cup S
          /\ merges' = merges \cup {[owner |-> "stale_parts_remover", src |-> S, dst |-> {},
                                     phase |-> "written"]}
    BY <1>4 DEF remove_stale_parts
  <2>2. S \in SUBSET (listed \ inMerge) /\ {S} \in Groups(S) BY DEF Groups
  <2>3. RowsOf(S) \subseteq dead BY DEF RowsOf
  <2>4. merges' = merges \cup Started("stale_parts_remover", {S}, "written")
    BY <2>1 DEF Started
  <2> QED BY <1>4, <2>1, <2>2, <2>3, <2>4, PickInd DEF remove_stale_parts
<1>5. ASSUME NEW m \in merges,
             \/ ForciblyStopped(m)
             \/ \E k \in Kinds : merge_parts(m, k)
             \/ \E p \in m.dst, lost \in SUBSET Rows : merge_parts_internal(m, p, lost)
             \/ swap_src_with_dst_parts(m)
             \/ release_parts_to_merge(m)
      PROVE  IndInv'
  BY <1>5, StoppedInd, MergePartsInd, WrittenInd, SwapInd, ReleaseInd
<1>6. ASSUME NEW p \in PartIds, remove_dir(p) PROVE IndInv'
  <2>1. /\ dirs[p] = "removing" /\ dirs' = [dirs EXCEPT ![p] = "none"]
        /\ UNCHANGED <<mem, tbl, partsJson, searches, snap, status, dead, dropped>>
    BY <1>6 DEF remove_dir
  <2>2. \A q \in PartIds : dirs[q] = "full" => dirs'[q] = "full" BY <2>1 DEF TypeOK
  <2>3. AllRefs' = AllRefs /\ AllRefs \subseteq PartIds /\ partsJson \subseteq PartIds
    BY <2>1, RefsTyped DEF AllRefs, Refs, TypeOK
  <2>4. \A m \in merges : m.dst \subseteq PartIds BY RefsTyped
  <2>5. (MergeSources /\ MergesDisjoint /\ DropFlags /\ Flags /\ SnapFiles /\ FreshNames)'
    BY <2>1, <2>3 DEF IndInv, TableInv, MergeSources, MergesDisjoint, DropFlags, Flags, SnapFiles,
                      FreshNames, isInmemory
  <2>6. MergeTargets'
    <3>1. ASSUME NEW m \in merges PROVE TargetOf(m)'
      BY <2>1, <2>2, <2>3, <2>4
         DEF IndInv, TableInv, MergeTargets, TargetOf, isInmemory, isFinal, FileParts, RowsOf
    <3> QED BY <2>1, <3>1 DEF IndInv, TableInv, MergeTargets
  <2>7. (RefsOnDisk /\ JsonOnDisk /\ JsonIsList)'
    BY <2>1, <2>2, <2>3 DEF IndInv, TableInv, RefsOnDisk, JsonOnDisk, JsonIsList, isInmemory, FileParts
  <2>8. Threads' BY <2>1 DEF IndInv, Threads
  <2>9. Closing' BY <2>1 DEF IndInv, Closing, NoUsers, BackgroundBusy, Merging, isInmemory
  <2> QED BY <2>1, <2>5, <2>6, <2>7, <2>8, <2>9 DEF IndInv, TableInv, NoFatalPanic, OnlyDeadRowsDropped
<1>7. ASSUME NEW r \in Rows, Perish(r) PROVE IndInv'
  <2>1. SameTable BY <1>7 DEF Perish, SameTable
  <2>2. TableInv' BY <2>1, TableFrame DEF IndInv
  <2>3. Threads' BY <1>7 DEF Perish, IndInv, Threads
  <2>4. Closing' BY <1>7 DEF Perish, IndInv, Closing, NoUsers, BackgroundBusy, Merging, isInmemory
  <2> QED BY <1>7, <2>2, <2>3, <2>4 DEF Perish, IndInv, NoFatalPanic, OnlyDeadRowsDropped
<1> QED BY <1>1, <1>2, <1>3, <1>4, <1>5, <1>6, <1>7 DEF MergeStep

----------------------------------------------------------------------------
(* Readers.                                                                *)

\* Only an open partition has users.
LEMMA UsersMeanOpen == ASSUME TypeOK, IndInv, ~NoUsers PROVE status = "open"
BY DEF TypeOK, IndInv, Closing, NoFatalPanic

\* A step that only hands on references keeps the table in order.
LEMMA RefsFrame ==
  ASSUME TableInv, AllRefs' = AllRefs,
         UNCHANGED <<part, listed, inMerge, mustDrop, merges, dirs, partsJson, dead>>,
         \A q \in snap'.parts : ~isInmemory(q), status' \notin Over => status \notin Over
  PROVE  TableInv'
<1>1. (MergeSources /\ MergesDisjoint /\ DropFlags /\ Flags)'
  BY DEF TableInv, MergeSources, MergesDisjoint, DropFlags, Flags
<1>2. MergeTargets'
  BY DEF TableInv, MergeTargets, TargetOf, FileParts, RowsOf, isInmemory, isFinal
<1>3. (RefsOnDisk /\ SnapFiles /\ FreshNames)'
  BY DEF TableInv, RefsOnDisk, SnapFiles, FreshNames, isInmemory
<1>4. (JsonOnDisk /\ JsonIsList)'
  BY DEF TableInv, JsonOnDisk, JsonIsList, FileParts, isInmemory, Over
<1> QED BY <1>1, <1>2, <1>3, <1>4 DEF TableInv

\* Steps of searches and snapshots keep the invariant.
LEMMA ReadInd == ASSUME TypeOK, IndInv, Read PROVE IndInv'
<1> USE DEF mem, tbl, disk, users, hist, bounds
<1>0. "snapshot" \in Flushers BY DEF Flushers
<1>1. ASSUME NEW s \in Searchers, get_parts(s) PROVE IndInv'
  <2>1. /\ searches[s] = {} /\ searches' = [searches EXCEPT ![s] = listed] /\ status = "open"
        /\ UNCHANGED <<mem, tbl, dirs, partsJson, snap, status, dead, dropped>>
    BY <1>1 DEF get_parts
  <2>2. ASSUME NEW q \in AllRefs PROVE q \in AllRefs'
    <3>1. \A t \in Searchers : q \in searches[t] => q \in searches'[t] BY <2>1 DEF TypeOK
    <3> QED BY <2>1, <2>2, <3>1, RefsAre DEF AllRefs
  <2>3. ASSUME NEW q \in AllRefs' PROVE q \in AllRefs
    <3>1. \A t \in Searchers : q \in searches'[t] => q \in searches[t] \/ q \in listed
      BY <2>1 DEF TypeOK
    <3> QED BY <2>1, <2>3, <3>1, RefsAre DEF AllRefs
  <2>4. AllRefs' = AllRefs BY <2>2, <2>3
  <2>5. TableInv' BY <2>1, <2>4, RefsFrame DEF IndInv, TableInv, SnapFiles
  <2>6. Threads' BY <2>1 DEF IndInv, Threads
  <2>7. Closing' BY <2>1 DEF Closing
  <2> QED BY <2>1, <2>5, <2>6, <2>7 DEF IndInv, NoFatalPanic, OnlyDeadRowsDropped
<1>2. ASSUME NEW s \in Searchers, EndSearch(s) PROVE IndInv'
  <2>1. /\ searches[s] # {} /\ searches' = [searches EXCEPT ![s] = {}]
        /\ Release(searches[s], Refs(listed, merges, searches', snap), inMerge)
        /\ UNCHANGED <<mem, listed, merges, partsJson, snap, status, dead, dropped>>
    BY <1>2 DEF EndSearch
  <2>2. AllRefs' = Refs(listed, merges, searches', snap) BY <2>1 DEF AllRefs
  <2>3. searches[s] \subseteq AllRefs BY RefsAre DEF AllRefs
  <2>4. ASSUME NEW q \in AllRefs, q \notin searches[s] PROVE q \in AllRefs'
    <3>1. \A t \in Searchers : q \in searches[t] => q \in searches'[t] BY <2>1, <2>4 DEF TypeOK
    <3> QED BY <2>1, <2>4, <3>1, RefsAre DEF AllRefs
  <2>5. ASSUME NEW q \in AllRefs' PROVE q \in AllRefs
    <3>1. \A t \in Searchers : q \in searches'[t] => q \in searches[t] BY <2>1 DEF TypeOK
    <3> QED BY <2>1, <2>5, <3>1, RefsAre DEF AllRefs
  <2>6. status = "open" BY <2>1, UsersMeanOpen DEF NoUsers
  <2>7. /\ \A n \in merges : n.src \subseteq inMerge
        /\ \A q \in listed \cap inMerge : \E n \in merges : q \in n.src
    BY DEF IndInv, TableInv, MergeSources, Flags
  <2>8. TableInv'
    <3>1. Release(searches[s], AllRefs', inMerge) BY <2>1, <2>2
    <3>2. AllRefs' \subseteq AllRefs /\ AllRefs \ AllRefs' \subseteq searches[s] BY <2>4, <2>5
    <3>3. merges' = merges /\ snap'.parts = snap.parts /\ status \notin Over
      BY <2>1, <2>6 DEF Over
    <3>4. UNCHANGED <<listed, partsJson, status, dead>> BY <2>1
    <3> QED BY <2>3, <2>7, <3>1, <3>2, <3>3, <3>4, ReleaseTable DEF IndInv
  <2>9. Threads' BY <2>1 DEF IndInv, Threads
  <2>10. Closing' BY <2>1, <2>6 DEF Closing
  <2> QED BY <2>1, <2>8, <2>9, <2>10 DEF IndInv, NoFatalPanic, OnlyDeadRowsDropped
<1>3. ASSUME must_create_snapshot_at PROVE IndInv'
  <2>1. /\ status = "open" /\ snap.pc \in {"idle", "done"} /\ snap'.pc = "rows" /\ snap'.parts = {}
        /\ hands' = [hands EXCEPT !["snapshot"] = [pc |-> "take", todo |-> Shards,
                                                   rowss |-> rowssToFlush]]
        /\ UNCHANGED <<tbl, dirs, partsJson, searches, status, dead, dropped>>
    BY <1>3 DEF must_create_snapshot_at, FlushQueue, NoSnap
  <2>2. snap.parts = {} /\ \A m \in merges : m.owner # "snapshot" BY <2>1 DEF IndInv, Threads
  <2>3. AllRefs' = AllRefs BY <2>1, <2>2 DEF AllRefs, Refs
  <2>4. TableInv' BY <2>1, <2>3, RefsFrame DEF IndInv, Over
  <2>5. Threads' BY <1>0, <2>1, <2>2 DEF IndInv, Threads, TypeOK
  <2>6. Closing' BY <2>1 DEF Closing
  <2> QED BY <2>1, <2>4, <2>5, <2>6 DEF IndInv, NoFatalPanic, OnlyDeadRowsDropped
<1>4. ASSUME NEW G \in Groups(PartsToFlush(TRUE)), SnapFlushParts(G) PROVE IndInv'
  <2> DEFINE S == PartsToFlush(TRUE)
  <2>1. S \in SUBSET (listed \ inMerge) BY DEF PartsToFlush
  <2>2. /\ snap.pc = "rows" /\ hands["snapshot"].pc = "idle"
        /\ inMerge' = inMerge \cup S
        /\ merges' = merges \cup Started("snapshot", G, "picked")
        /\ UNCHANGED <<part, listed, mustDrop, mem, dirs, partsJson, searches, status, dead, dropped>>
    BY <1>4 DEF SnapFlushParts, PickParts, Picked, Started
  <2>3. snap'.pc = "parts" /\ snap'.parts = snap.parts BY <1>4 DEF SnapFlushParts, TypeOK, Snap
  <2>4. G \in Groups(S) OBVIOUS
  <2> HIDE DEF S
  <2>5. status = "open" BY <2>2, UsersMeanOpen DEF NoUsers
  <2>6. TableInv'
    <3>1. UNCHANGED <<part, listed, mustDrop, dirs, partsJson, searches, dead>> BY <2>2
    <3>2. status \notin Over /\ status' \notin Over BY <2>2, <2>5 DEF Over
    <3> QED BY <2>1, <2>2, <2>3, <2>4, <3>1, <3>2, PickTable DEF IndInv
  <2>7. \A n \in merges' : n \in merges \/ n.owner = "snapshot" BY <2>2 DEF Started
  <2>8. Threads' BY <2>2, <2>3, <2>7 DEF IndInv, Threads
  <2>9. Closing' BY <2>2, <2>5 DEF Closing
  <2> QED BY <2>2, <2>6, <2>8, <2>9 DEF IndInv, NoFatalPanic, OnlyDeadRowsDropped
<1>5. ASSUME SnapRefParts PROVE IndInv'
  <2>1. /\ snap.pc = "parts" /\ snap'.pc = "link" /\ snap'.parts = FileParts(listed)
        /\ \A m \in merges : m.owner # "snapshot"
        /\ UNCHANGED <<mem, tbl, dirs, partsJson, searches, status, dead, dropped>>
    BY <1>5 DEF SnapRefParts, Merging, TypeOK, Snap
  <2>2. snap.parts = {} /\ snap'.parts \subseteq listed BY <2>1 DEF IndInv, Threads, FileParts
  <2>3. AllRefs' = AllRefs BY <2>1, <2>2 DEF AllRefs, Refs
  <2>4. TableInv' BY <2>1, <2>3, RefsFrame DEF IndInv, FileParts
  <2>5. status = "open" BY <2>1, UsersMeanOpen DEF NoUsers
  <2>6. Threads' BY <2>1 DEF IndInv, Threads
  <2>7. Closing' BY <2>1, <2>5 DEF Closing
  <2> QED BY <2>1, <2>4, <2>6, <2>7 DEF IndInv, NoFatalPanic, OnlyDeadRowsDropped
<1>6. ASSUME NEW p \in PartIds, must_hard_link_parts(p) PROVE IndInv'
  <2>1. /\ snap.pc = "link" /\ p \in snap.parts /\ snap'.pc = snap.pc /\ snap'.parts = snap.parts
        /\ UNCHANGED <<mem, tbl, dirs, partsJson, searches, dead, dropped>>
    BY <1>6 DEF must_hard_link_parts, TypeOK, Snap
  <2>2. dirs[p] = "full"
    BY <2>1, RefsAre DEF IndInv, TableInv, SnapFiles, RefsOnDisk, AllRefs
  <2>3. status' = status BY <1>6, <2>2 DEF must_hard_link_parts, Panic
  <2>4. status = "open" BY <2>1, UsersMeanOpen DEF NoUsers
  <2>5. AllRefs' = AllRefs BY <2>1 DEF AllRefs, Refs
  <2>6. TableInv' BY <2>1, <2>3, <2>5, RefsFrame DEF IndInv, TableInv, SnapFiles
  <2>7. Threads' BY <2>1, <2>3 DEF IndInv, Threads
  <2>8. Closing' BY <2>3, <2>4 DEF Closing
  <2> QED BY <2>1, <2>3, <2>6, <2>7, <2>8 DEF IndInv, NoFatalPanic, OnlyDeadRowsDropped
<1>7. ASSUME SnapDone PROVE IndInv'
  <2>1. /\ snap.pc = "link" /\ snap'.pc = "done" /\ snap'.parts = {}
        /\ Release(snap.parts, Refs(listed, merges, searches, snap'), inMerge)
        /\ UNCHANGED <<mem, listed, merges, partsJson, searches, status, dead, dropped>>
    BY <1>7 DEF SnapDone, TypeOK, Snap
  <2>2. AllRefs' = Refs(listed, merges, searches, snap') BY <2>1 DEF AllRefs
  <2>3. snap.parts \subseteq AllRefs BY RefsAre DEF AllRefs
  <2>4. ASSUME NEW q \in AllRefs, q \notin snap.parts PROVE q \in AllRefs'
    BY <2>1, <2>4, RefsAre DEF AllRefs
  <2>5. ASSUME NEW q \in AllRefs' PROVE q \in AllRefs
    BY <2>1, <2>5, RefsAre DEF AllRefs
  <2>6. status = "open" BY <2>1, UsersMeanOpen DEF NoUsers
  <2>7. /\ \A n \in merges : n.src \subseteq inMerge
        /\ \A q \in listed \cap inMerge : \E n \in merges : q \in n.src
    BY DEF IndInv, TableInv, MergeSources, Flags
  <2>8. TableInv'
    <3>1. Release(snap.parts, AllRefs', inMerge) BY <2>1, <2>2
    <3>2. AllRefs' \subseteq AllRefs /\ AllRefs \ AllRefs' \subseteq snap.parts BY <2>4, <2>5
    <3>3. merges' = merges /\ snap'.parts \subseteq snap.parts /\ status \notin Over
      BY <2>1, <2>6 DEF Over
    <3>4. UNCHANGED <<listed, partsJson, status, dead>> BY <2>1
    <3> QED BY <2>3, <2>7, <3>1, <3>2, <3>3, <3>4, ReleaseTable DEF IndInv
  <2>9. Threads' BY <2>1 DEF IndInv, Threads
  <2>10. Closing' BY <2>1, <2>6 DEF Closing
  <2> QED BY <2>1, <2>8, <2>9, <2>10 DEF IndInv, NoFatalPanic, OnlyDeadRowsDropped
<1> QED BY <1>1, <1>2, <1>3, <1>4, <1>5, <1>6, <1>7 DEF Read

----------------------------------------------------------------------------
(* Closing, crashing and opening.                                          *)

\* A table with no merges, readers or flags, whose list is parts.json or empty, is in order.
LEMMA QuietTable ==
  ASSUME merges' = {}, snap'.parts = {}, \A s \in Searchers : searches'[s] = {},
         inMerge' = {}, mustDrop' = {}, JsonOnDisk', FreshNames',
         \/ listed' = {} /\ status' \in Over
         \/ listed' = partsJson'
  PROVE  TableInv'
<1>1. \A q : q \in AllRefs' <=> q \in listed' BY RefsAre DEF AllRefs
<1>2. (MergeSources /\ MergesDisjoint /\ MergeTargets)'
  BY DEF MergeSources, MergesDisjoint, MergeTargets
<1>3. (RefsOnDisk /\ DropFlags /\ Flags /\ SnapFiles)'
  BY <1>1 DEF RefsOnDisk, DropFlags, Flags, SnapFiles, JsonOnDisk
<1>4. JsonIsList' BY DEF JsonIsList, JsonOnDisk, FileParts, Over
<1> QED BY <1>2, <1>3, <1>4 DEF TableInv

\* Opening, closing and crashing keep the invariant.
LEMMA LifeInd == ASSUME TypeOK, IndInv, Life PROVE IndInv'
<1> USE DEF mem, tbl, disk, users, hist, bounds
<1>0. "close" \in Flushers /\ "close" \notin Adders BY PartitionAssumption DEF Flushers
<1>1. ASSUME must_close PROVE IndInv'
  <2>1. /\ status = "open" /\ status' = "stopped" /\ NoUsers
        /\ UNCHANGED <<mem, tbl, dirs, partsJson, searches, snap, dead, dropped>>
    BY <1>1 DEF must_close
  <2>2. AllRefs' = AllRefs BY <2>1 DEF AllRefs, Refs
  <2>3. TableInv' BY <2>1, <2>2, RefsFrame DEF IndInv, TableInv, SnapFiles, Over
  <2>4. Threads' BY <2>1 DEF IndInv, Threads
  <2>5. Closing' BY <2>1 DEF Closing, NoUsers, Merging
  <2> QED BY <2>1, <2>3, <2>4, <2>5 DEF IndInv, NoFatalPanic, OnlyDeadRowsDropped
<1>2. ASSUME signal PROVE IndInv'
  <2>1. /\ status = "stopped" /\ status' = "signalled"
        /\ UNCHANGED <<mem, tbl, dirs, partsJson, searches, snap, dead, dropped>>
    BY <1>2 DEF signal
  <2>2. AllRefs' = AllRefs BY <2>1 DEF AllRefs, Refs
  <2>3. TableInv' BY <2>1, <2>2, RefsFrame DEF IndInv, TableInv, SnapFiles, Over
  <2>4. Threads' BY <2>1 DEF IndInv, Threads
  <2>5. Closing' BY <2>1 DEF IndInv, Closing, NoUsers, Merging
  <2> QED BY <2>1, <2>3, <2>4, <2>5 DEF IndInv, NoFatalPanic, OnlyDeadRowsDropped
<1>3. ASSUME CloseFlushRows PROVE IndInv'
  <2>1. /\ status = "signalled" /\ status' = "close_rows" /\ ~BackgroundBusy
        /\ hands' = [hands EXCEPT !["close"] = [pc |-> "take", todo |-> Shards,
                                                rowss |-> rowssToFlush]]
        /\ rowssToFlush' = {}
        /\ UNCHANGED <<shards, tbl, dirs, partsJson, searches, snap, dead, dropped>>
    BY <1>3 DEF CloseFlushRows, FlushQueue
  <2>2. AllRefs' = AllRefs BY <2>1 DEF AllRefs, Refs
  <2>3. TableInv' BY <2>1, <2>2, RefsFrame DEF IndInv, TableInv, SnapFiles, Over
  <2>4. Threads' BY <1>0, <2>1 DEF IndInv, Threads, TypeOK
  <2>5. NoUsers' BY <1>0, <2>1 DEF IndInv, Closing, NoUsers, Merging, TypeOK
  <2>6. ~BackgroundBusy' BY <1>0, <2>1 DEF BackgroundBusy, TypeOK
  <2>7. \A s \in Shards : s \in hands'["close"].todo BY <1>0, <2>1 DEF TypeOK
  <2>8. Closing' BY <2>1, <2>5, <2>6, <2>7 DEF Closing
  <2> QED BY <2>1, <2>3, <2>4, <2>8 DEF IndInv, NoFatalPanic, OnlyDeadRowsDropped
<1>4. ASSUME NEW G \in Groups(PartsToFlush(TRUE)), CloseFlushParts(G) PROVE IndInv'
  <2> DEFINE S == PartsToFlush(TRUE)
  <2>1. S \in SUBSET (listed \ inMerge) BY DEF PartsToFlush
  <2>2. /\ status = "close_rows" /\ status' = "close_parts" /\ hands["close"].pc = "idle"
        /\ inMerge' = inMerge \cup S
        /\ merges' = merges \cup Started("close", G, "picked")
        /\ UNCHANGED <<part, listed, mustDrop, mem, dirs, partsJson, searches, snap, dead, dropped>>
    BY <1>4 DEF CloseFlushParts, PickParts, Picked, Started
  <2>3. G \in Groups(S) /\ \A q \in listed : isInmemory(q) => q \in inMerge \cup S
    BY DEF PartsToFlush
  <2> HIDE DEF S
  <2>4. TableInv'
    <3>1. UNCHANGED <<part, listed, mustDrop, dirs, partsJson, searches, dead>> BY <2>2
    <3>2. snap'.parts = snap.parts /\ status \notin Over /\ status' \notin Over BY <2>2 DEF Over
    <3> QED BY <2>1, <2>2, <2>3, <3>1, <3>2, PickTable DEF IndInv
  <2>5. \A n \in merges' : n \in merges \/ n.owner = "close" BY <2>2 DEF Started
  <2>6. Threads' BY <2>2, <2>5 DEF IndInv, Threads
  <2>7. NoUsers' BY <2>2, <2>5 DEF IndInv, Closing, NoUsers, Merging
  <2>8. ~BackgroundBusy' BY <2>2, <2>5 DEF IndInv, Closing, BackgroundBusy
  <2>9. ASSUME NEW q \in listed', isInmemory(q)' PROVE \E n \in merges' : q \in n.src
    <3>1. q \in listed' \cap inMerge' BY <2>2, <2>3, <2>9 DEF isInmemory
    <3> QED BY <2>4, <3>1 DEF TableInv, Flags
  <2>10. Closing' BY <2>2, <2>7, <2>8, <2>9 DEF IndInv, Closing
  <2> QED BY <2>2, <2>4, <2>6, <2>10 DEF IndInv, NoFatalPanic, OnlyDeadRowsDropped
<1>5. ASSUME CloseDone PROVE IndInv'
  <2>1. /\ status = "close_parts" /\ ~Merging("close") /\ listed' = {}
        /\ UNCHANGED <<mem, part, inMerge, mustDrop, merges, dirs, partsJson, searches, snap, dead,
                       dropped>>
    BY <1>5 DEF CloseDone
  <2>2. NoUsers /\ ~BackgroundBusy /\ rowssToFlush = {} BY <2>1 DEF IndInv, Closing
  <2>3. merges = {}
    BY <2>1, <2>2 DEF IndInv, Threads, NoUsers, BackgroundBusy, Merging, TypeOK, Merge, Owners
  <2>4. hands["close"].pc = "idle" /\ hands["close"].todo = {}
    BY <1>0, <2>1 DEF IndInv, Threads
  <2>5. \A f \in Flushers : hands[f].pc = "idle"
    BY <2>2, <2>4 DEF Flushers, NoUsers, BackgroundBusy, IndInv, Threads
  <2>6. \A s \in Shards : shards[s] = {} BY <2>1, <2>4 DEF IndInv, Closing
  <2>7. snap.parts = {} /\ \A s \in Searchers : searches[s] = {}
    BY <2>2 DEF IndInv, Threads, NoUsers
  <2>8. \A q \in listed : ~isInmemory(q) BY <2>1, <2>3 DEF IndInv, Closing
  <2>9. status' = "closed"
    BY <1>5, <2>2, <2>3, <2>6, <2>7, <2>8 DEF CloseDone, Panic, FileParts
  <2>10. \A q : q \in AllRefs <=> q \in listed BY <2>3, <2>7, RefsAre DEF AllRefs
  <2>11. inMerge = {} /\ mustDrop = {}
    BY <2>3, <2>10 DEF IndInv, TableInv, Flags, DropFlags
  <2>12. partsJson = listed BY <2>1, <2>8 DEF IndInv, TableInv, JsonIsList, FileParts
  <2>13. TableInv'
    <3>1. JsonOnDisk' BY <2>1 DEF IndInv, TableInv, JsonOnDisk, isInmemory
    <3>2. FreshNames' BY <2>1, <2>3, <2>10, <2>12 DEF IndInv, TableInv, FreshNames, isInmemory
    <3> QED BY <2>1, <2>3, <2>7, <2>9, <2>11, <3>1, <3>2, QuietTable DEF Over
  <2>14. Threads' BY <2>1, <2>3, <2>4, <2>7 DEF IndInv, Threads
  <2>15. NoUsers' BY <2>1, <2>2 DEF NoUsers, Merging
  <2>16. Closing' BY <2>1, <2>2, <2>3, <2>5, <2>6, <2>9, <2>15 DEF Closing
  <2> QED BY <2>1, <2>9, <2>13, <2>14, <2>16 DEF IndInv, NoFatalPanic, OnlyDeadRowsDropped
<1>6. ASSUME Crash PROVE IndInv'
  <2>1. /\ status' = "down" /\ shards' = [s \in Shards |-> {}] /\ rowssToFlush' = {}
        /\ hands' = [f \in Flushers |-> Idle]
        /\ listed' = {} /\ inMerge' = {} /\ mustDrop' = {} /\ merges' = {}
        /\ searches' = [s \in Searchers |-> {}] /\ snap' = NoSnap
        /\ part' = [p \in PartIds |-> IF p \in partsJson THEN part[p] ELSE NoPart]
        /\ UNCHANGED <<dirs, partsJson, dead, dropped>>
    BY <1>6 DEF Crash
  <2>2. partsJson \subseteq PartIds BY DEF TypeOK
  <2>3. JsonOnDisk' BY <2>1, <2>2 DEF IndInv, TableInv, JsonOnDisk, isInmemory
  <2>4. FreshNames' BY <2>1 DEF FreshNames, isInmemory, NoPart
  <2>5. snap'.parts = {} /\ snap'.pc = "idle" BY <2>1 DEF NoSnap
  <2>6. TableInv' BY <2>1, <2>3, <2>4, <2>5, QuietTable DEF Over
  <2>7. \A f \in Flushers : hands'[f].pc = "idle" /\ hands'[f].todo = {} /\ hands'[f].rowss = {}
    BY <2>1 DEF Idle
  <2>8. Threads' BY <1>0, <2>1, <2>5, <2>7 DEF Threads, Flushers
  <2>9. NoUsers' BY <2>1, <2>5, <2>7 DEF NoUsers, Merging, Flushers
  <2>10. Closing' BY <2>1, <2>7, <2>9 DEF Closing
  <2> QED BY <2>1, <2>6, <2>8, <2>10 DEF IndInv, NoFatalPanic, OnlyDeadRowsDropped
<1>7. ASSUME must_open_partition PROVE IndInv'
  <2>1. /\ status \in Over /\ listed' = partsJson /\ inMerge' = {} /\ mustDrop' = {}
        /\ dirs' = [p \in PartIds |-> IF p \in partsJson THEN dirs[p] ELSE "none"]
        /\ UNCHANGED <<mem, part, merges, partsJson, searches, snap, dead, dropped>>
    BY <1>7 DEF must_open_partition, Over
  <2>2. Full(partsJson) BY DEF IndInv, TableInv, JsonOnDisk, Full
  <2>3. status' = "open" BY <1>7, <2>2 DEF must_open_partition, Panic
  <2>4. merges = {} /\ listed = {} /\ NoUsers /\ \A f \in Flushers : hands[f].pc = "idle"
    BY <2>1 DEF IndInv, Closing, Over
  <2>5. snap.parts = {} /\ \A s \in Searchers : searches[s] = {}
    BY <2>4 DEF NoUsers, IndInv, Threads
  <2>6. \A q : q \notin AllRefs BY <2>4, <2>5, RefsAre DEF AllRefs
  <2>7. partsJson \subseteq PartIds BY DEF TypeOK
  <2>8. JsonOnDisk' BY <2>1, <2>7 DEF IndInv, TableInv, JsonOnDisk, isInmemory
  <2>9. FreshNames' BY <2>1, <2>4, <2>6 DEF IndInv, TableInv, FreshNames, isInmemory
  <2>10. TableInv' BY <2>1, <2>4, <2>5, <2>8, <2>9, QuietTable
  <2>11. Threads' BY <1>0, <2>1, <2>4 DEF IndInv, Threads, Flushers
  <2>12. Closing' BY <2>3 DEF Closing
  <2> QED BY <2>1, <2>3, <2>10, <2>11, <2>12 DEF IndInv, NoFatalPanic, OnlyDeadRowsDropped
<1> QED BY <1>1, <1>2, <1>3, <1>4, <1>5, <1>6, <1>7 DEF Life

----------------------------------------------------------------------------
(* The theorems.                                                           *)

\* The invariant holds initially.
LEMMA InitInd == ASSUME Init PROVE IndInv
<1>1. \A q : q \notin AllRefs BY RefsAre DEF Init, AllRefs, NoSnap
<1>2. (MergeSources /\ MergesDisjoint /\ MergeTargets /\ RefsOnDisk /\ DropFlags /\ Flags)
  BY <1>1 DEF Init, MergeSources, MergesDisjoint, MergeTargets, RefsOnDisk, DropFlags, Flags
<1>3. (SnapFiles /\ FreshNames /\ JsonOnDisk /\ JsonIsList)
  BY DEF Init, SnapFiles, FreshNames, JsonOnDisk, JsonIsList, FileParts, isInmemory, NoPart, NoSnap
<1>4. Threads BY DEF Init, Threads, Idle, NoSnap, Flushers
<1>5. Closing BY DEF Init, Closing
<1> QED BY <1>2, <1>3, <1>4, <1>5 DEF Init, IndInv, TableInv, NoFatalPanic, OnlyDeadRowsDropped

\* Every step keeps the invariant.
LEMMA NextInd == ASSUME TypeOK, IndInv, [Next]_vars PROVE IndInv'
<1>1. CASE UNCHANGED vars
  <2> USE DEF vars, mem, tbl, disk, users, hist, bounds
  <2>1. SameTable BY <1>1 DEF SameTable
  <2>2. TableInv' BY <2>1, TableFrame DEF IndInv
  <2>3. Threads' BY <1>1 DEF IndInv, Threads
  <2>4. Closing' BY <1>1 DEF IndInv, Closing, NoUsers, BackgroundBusy, Merging, isInmemory
  <2> QED BY <1>1, <2>2, <2>3, <2>4 DEF IndInv, NoFatalPanic, OnlyDeadRowsDropped
<1> QED BY <1>1, IngestInd, MergeInd, ReadInd, LifeInd DEF Next

\* The inductive invariant holds in every reachable state of the partition.
THEOREM Inductive == Spec => []IndInv
<1>1. Init => IndInv BY InitInd
<1>2. TypeOK /\ IndInv /\ [Next]_vars => IndInv' BY NextInd
<1> QED BY <1>1, <1>2, TypeCorrect, PTL DEF Spec

\* No assertion of the storage code fails, whatever is flushed, merged, searched, linked
\* into a snapshot, closed or cut short by a crash.
THEOREM NoPanic == Spec => []NoFatalPanic
BY Inductive, PTL DEF IndInv

\* No part is a source of two merges at once.
THEOREM Disjoint == Spec => []MergesDisjoint
BY Inductive, PTL DEF IndInv, TableInv

\* parts.json lists the file parts of the table, and all of them are complete on disk.
THEOREM JsonComplete == Spec => []PartsJsonComplete
<1>1. IndInv => PartsJsonComplete
  BY DEF IndInv, TableInv, JsonOnDisk, JsonIsList, PartsJsonComplete, Full
<1> QED BY <1>1, Inductive, PTL

\* Merges and stale-part removals leave out rows of deleted series or outside the
\* retention only.
THEOREM DropsAreDead == Spec => []OnlyDeadRowsDropped
BY Inductive, PTL DEF IndInv

----------------------------------------------------------------------------
(* Durable rows.                                                           *)

\* What the steps below do to durable rows at most: leave out dead ones.
DurableKept == \A r \in DurableRows : r \in DurableRows' \/ (r \in dead /\ r \in dropped')

\* A step that keeps parts.json and the rows of the parts in it.
LEMMA KeptByFrame ==
  ASSUME partsJson' = partsJson, \A q \in partsJson : part'[q].rows = part[q].rows
  PROVE  DurableKept
BY DEF DurableKept, DurableRows, RowsOf

\* While the partition is up, what parts.json lists is referenced.
LEMMA JsonReferenced ==
  ASSUME IndInv, status \notin Over
  PROVE  partsJson \subseteq listed /\ partsJson \subseteq AllRefs
BY RefsAre DEF IndInv, TableInv, JsonIsList, FileParts, Over, AllRefs

\* A part that nobody references is freed; parts.json does not list it.
LEMMA KeptByRelease ==
  ASSUME TypeOK, IndInv, status \notin Over, NEW S, NEW refs, NEW flags, Release(S, refs, flags),
         listed \subseteq refs, partsJson' = partsJson
  PROVE  DurableKept
<1>1. partsJson \subseteq listed BY JsonReferenced
<1>2. \A q \in partsJson : part'[q].rows = part[q].rows BY <1>1 DEF Release, TypeOK
<1> QED BY <1>2, KeptByFrame

\* The swap replaces durable sources by a durable destination with all their live rows.
LEMMA KeptBySwap ==
  ASSUME TypeOK, IndInv, NEW m \in merges, swap_src_with_dst_parts(m) PROVE DurableKept
<1> USE DEF mem, tbl, disk, users, hist, bounds
<1>1. /\ m.phase = "written" /\ listed' = (listed \ m.src) \cup m.dst
      /\ part' = [p \in PartIds |-> IF p \in m.dst THEN get_flush_to_disk_deadline(p, m)
                                     ELSE part[p]]
  BY DEF swap_src_with_dst_parts
<1>2. \A q \in PartIds : part'[q].kind = part[q].kind /\ part'[q].rows = part[q].rows
  BY <1>1 DEF get_flush_to_disk_deadline, TypeOK, Part
<1>3. IndInv' BY SwapInd
<1>4. status \notin Over BY MergesMeanUp
<1>5. m.src \subseteq listed BY <1>1 DEF IndInv, TableInv, MergeSources
<1>6. status' = status BY <1>5 DEF swap_src_with_dst_parts, Panic
<1>7. partsJson = FileParts(listed) /\ partsJson' = FileParts(listed)'
  BY <1>3, <1>4, <1>6 DEF IndInv, TableInv, JsonIsList, Over
<1>8. listed \subseteq PartIds /\ m.dst \subseteq PartIds BY RefsTyped DEF TypeOK
<1>9. TargetOf(m) BY DEF IndInv, TableInv, MergeTargets
<1>10. SUFFICES ASSUME NEW r \in DurableRows PROVE r \in DurableRows' \/ (r \in dead /\ r \in dropped')
  BY DEF DurableKept
<1>11. PICK q \in partsJson : r \in part[q].rows BY <1>10 DEF DurableRows, RowsOf
<1>12. q \in listed /\ ~isInmemory(q) BY <1>7, <1>11 DEF FileParts
<1>13. CASE q \notin m.src
  <2>1. q \in partsJson' BY <1>1, <1>2, <1>7, <1>8, <1>12, <1>13 DEF FileParts, isInmemory
  <2> QED BY <1>2, <1>8, <1>11, <1>12, <2>1 DEF DurableRows, RowsOf
<1>14. CASE q \in m.src
  <2>1. r \in RowsOf(m.src) BY <1>11, <1>14 DEF RowsOf
  <2>2. CASE r \notin RowsOf(m.dst)
    BY <1>1, <1>9, <2>1, <2>2 DEF TargetOf, swap_src_with_dst_parts
  <2>3. CASE r \in RowsOf(m.dst)
    <3>1. PICK d \in m.dst : r \in part[d].rows BY <2>3 DEF RowsOf
    <3>2. FileParts(m.src) # {} BY <1>12, <1>14 DEF FileParts
    <3>3. ~isInmemory(d) BY <1>9, <3>1, <3>2 DEF TargetOf
    <3>4. d \in partsJson' BY <1>1, <1>2, <1>7, <1>8, <3>1, <3>3 DEF FileParts, isInmemory
    <3> QED BY <1>2, <1>8, <3>1, <3>4 DEF DurableRows, RowsOf
  <2> QED BY <2>2, <2>3
<1> QED BY <1>13, <1>14

\* Handling raw rows leaves the durable rows alone.
LEMMA KeptByIngest == ASSUME TypeOK, IndInv, Ingest PROVE DurableKept
<1> USE DEF mem, tbl, disk, users, hist, bounds
<1>1. ASSUME NEW f \in Flushers, NEW bs \in SUBSET hands[f].rowss, NEW lost \in SUBSET Rows,
             add_to_inmemory_parts(f, bs, lost)
      PROVE  DurableKept
  <2>1. PICK p, rows : /\ p = next_merge_idx /\ part' = [part EXCEPT ![p].rows = rows]
                       /\ Unused # {} /\ partsJson' = partsJson
    BY <1>1 DEF add_to_inmemory_parts
  <2>2. p \notin partsJson BY <2>1, FreshPart DEF IndInv
  <2>3. \A q \in partsJson : part'[q].rows = part[q].rows BY <2>1, <2>2 DEF TypeOK
  <2> QED BY <2>1, <2>3, KeptByFrame
<1>2. ASSUME NEW p \in PartIds, DeadlinePasses(p) PROVE DurableKept
  <2>1. \A q \in partsJson : part'[q].rows = part[q].rows
    BY <1>2 DEF DeadlinePasses, TypeOK, Part
  <2> QED BY <1>2, <2>1, KeptByFrame DEF DeadlinePasses
<1>3. ASSUME partsJson' = partsJson, part' = part PROVE DurableKept BY <1>3, KeptByFrame
<1>4. \/ \E f \in Flushers : \E bs \in SUBSET hands[f].rowss, lost \in SUBSET Rows :
                               add_to_inmemory_parts(f, bs, lost)
      \/ \E p \in PartIds : DeadlinePasses(p)
      \/ partsJson' = partsJson /\ part' = part
  BY DEF Ingest, add_rows, add_rows_to_flush, pending_rows_flusher, append_raw_rows_to_flush,
         FlushNothing
<1> QED BY <1>1, <1>2, <1>3, <1>4

\* Merges keep the durable rows that are not dead.
LEMMA KeptByMerge == ASSUME TypeOK, IndInv, MergeStep PROVE DurableKept
<1> USE DEF mem, tbl, disk, users, hist, bounds
<1>1. ASSUME NEW m \in merges PROVE status \notin Over /\ partsJson \subseteq AllRefs
  BY <1>1, MergesMeanUp, JsonReferenced
<1>2. ASSUME NEW m \in merges PROVE m.dst \cap AllRefs = {}
  BY DEF IndInv, TableInv, MergeTargets, TargetOf
<1>3. ASSUME NEW m \in merges, ForciblyStopped(m) PROVE DurableKept
  <2>1. \A q \in partsJson : part'[q].rows = part[q].rows
    BY <1>1, <1>2, <1>3 DEF ForciblyStopped, TypeOK
  <2> QED BY <1>3, <2>1, KeptByFrame DEF ForciblyStopped
<1>4. ASSUME NEW m \in merges, NEW k \in Kinds, merge_parts(m, k) PROVE DurableKept
  <2>1. PICK p : p = next_merge_idx /\ part' = [part EXCEPT ![p].kind = k] /\ Unused # {}
    BY <1>4 DEF merge_parts
  <2>2. p \notin partsJson BY <2>1, FreshPart DEF IndInv
  <2>3. \A q \in partsJson : part'[q].rows = part[q].rows BY <2>1, <2>2 DEF TypeOK
  <2> QED BY <1>4, <2>3, KeptByFrame DEF merge_parts
<1>5. ASSUME NEW m \in merges, NEW p \in m.dst, NEW lost \in SUBSET Rows,
             merge_parts_internal(m, p, lost)
      PROVE  DurableKept
  <2>1. PICK new : part' = [part EXCEPT ![p] = new] BY <1>5 DEF merge_parts_internal
  <2>2. \A q \in partsJson : part'[q].rows = part[q].rows BY <1>1, <1>2, <2>1 DEF TypeOK
  <2> QED BY <1>5, <2>2, KeptByFrame DEF merge_parts_internal
<1>6. ASSUME NEW m \in merges, release_parts_to_merge(m) PROVE DurableKept
  <2>1. listed \subseteq Refs(listed, merges', searches, snap) BY RefsAre
  <2>2. PICK flags : Release(m.src, Refs(listed, merges', searches, snap), flags)
    BY <1>6 DEF release_parts_to_merge
  <2> QED BY <1>1, <1>6, <2>1, <2>2, KeptByRelease DEF release_parts_to_merge
<1>7. ASSUME partsJson' = partsJson, part' = part PROVE DurableKept BY <1>7, KeptByFrame
<1>8. \/ \E m \in merges :
            \/ ForciblyStopped(m)
            \/ \E k \in Kinds : merge_parts(m, k)
            \/ \E p \in m.dst, lost \in SUBSET Rows : merge_parts_internal(m, p, lost)
            \/ swap_src_with_dst_parts(m)
            \/ release_parts_to_merge(m)
      \/ partsJson' = partsJson /\ part' = part
  BY DEF MergeStep, parts_merger, inmemory_parts_flusher, force_merge_all_parts, PickParts,
         remove_stale_parts, remove_dir, Perish
<1> QED BY <1>3, <1>4, <1>5, <1>6, <1>7, <1>8, KeptBySwap

\* Readers free no part that parts.json lists.
LEMMA KeptByRead == ASSUME TypeOK, IndInv, Read PROVE DurableKept
<1> USE DEF mem, tbl, disk, users, hist, bounds
<1>1. ASSUME NEW s \in Searchers, EndSearch(s) PROVE DurableKept
  <2>1. status \notin Over BY <1>1, UsersMeanOpen DEF EndSearch, NoUsers, Over
  <2>2. listed \subseteq Refs(listed, merges, searches', snap) BY RefsAre
  <2> QED BY <1>1, <2>1, <2>2, KeptByRelease DEF EndSearch
<1>2. ASSUME SnapDone PROVE DurableKept
  <2>1. status \notin Over BY <1>2, UsersMeanOpen DEF SnapDone, NoUsers, Over
  <2>2. listed \subseteq Refs(listed, merges, searches, snap') BY RefsAre
  <2> QED BY <1>2, <2>1, <2>2, KeptByRelease DEF SnapDone
<1>3. ASSUME partsJson' = partsJson, part' = part PROVE DurableKept BY <1>3, KeptByFrame
<1>4. \/ \E s \in Searchers : EndSearch(s)
      \/ SnapDone
      \/ partsJson' = partsJson /\ part' = part
  BY DEF Read, get_parts, must_create_snapshot_at, SnapFlushParts, PickParts, SnapRefParts,
         must_hard_link_parts
<1> QED BY <1>1, <1>2, <1>3, <1>4

\* Crashes, closes and restarts keep the durable rows.
LEMMA KeptByLife == ASSUME TypeOK, IndInv, Life PROVE DurableKept
<1> USE DEF mem, tbl, disk, users, hist, bounds
<1>1. ASSUME Crash PROVE DurableKept
  <2>1. \A q \in partsJson : part'[q].rows = part[q].rows BY <1>1 DEF Crash, TypeOK
  <2> QED BY <1>1, <2>1, KeptByFrame DEF Crash
<1>2. ASSUME partsJson' = partsJson, part' = part PROVE DurableKept BY <1>2, KeptByFrame
<1>3. Crash \/ (partsJson' = partsJson /\ part' = part)
  BY DEF Life, must_close, signal, CloseFlushRows, CloseFlushParts, PickParts, CloseDone,
         must_open_partition
<1> QED BY <1>1, <1>2, <1>3

\* A row in a part that parts.json lists stays in such a part, through merges, searches,
\* snapshots, crashes and restarts, unless its series is deleted or it leaves the retention.
THEOREM DurableStays == Spec => DurableRowsStay
<1>1. ASSUME TypeOK, IndInv, [Next]_vars
      PROVE  [\A r \in DurableRows : r \in DurableRows' \/ r \in dead]_vars
  BY <1>1, KeptByIngest, KeptByMerge, KeptByRead, KeptByLife DEF Next, DurableKept
<1>2. TypeOK /\ IndInv /\ [Next]_vars =>
        [\A r \in DurableRows : r \in DurableRows' \/ r \in dead]_vars
  BY <1>1
<1> QED BY <1>2, TypeCorrect, Inductive, PTL DEF Spec, DurableRowsStay

----------------------------------------------------------------------------
(* A part that is referenced stays what it is.                             *)

\* What holds of parts that somebody goes on referring to, and of the results of merges.
PartsKept ==
  /\ \A q \in AllRefs : q \in AllRefs' =>
       part'[q].rows = part[q].rows /\ part'[q].kind = part[q].kind /\ (part[q].due => part'[q].due)
  /\ \A m \in merges : m \in merges' => \A q \in m.dst : part'[q].rows = part[q].rows

\* One part changes, to which nobody refers.
LEMMA KeptButOne ==
  ASSUME TypeOK, NEW p, p \notin AllRefs, \A q \in PartIds : q # p => part'[q] = part[q],
         \A m \in merges : m \in merges' => p \notin m.dst
  PROVE  PartsKept
BY RefsTyped DEF PartsKept

\* Parts lose their last reference.
LEMMA KeptByDrop ==
  ASSUME TypeOK, IndInv, NEW S \in SUBSET AllRefs, NEW flags, Release(S, AllRefs', flags)
  PROVE  PartsKept
<1>1. \A q \in PartIds : q \notin S \/ q \in AllRefs' => part'[q] = part[q]
  BY DEF Release
<1>2. \A m \in merges : \A q \in m.dst : q \notin AllRefs
  BY DEF IndInv, TableInv, MergeTargets, TargetOf
<1> QED BY <1>1, <1>2, RefsTyped DEF PartsKept

\* No step changes the rows of a part that is in use before and after it.
LEMMA PartsAreKept == ASSUME TypeOK, IndInv, Next PROVE PartsKept
<1> USE DEF mem, tbl, disk, users, hist, bounds
<1>1. ASSUME part' = part PROVE PartsKept
  BY <1>1 DEF PartsKept
<1>2. \A m \in merges : \A q \in m.dst : q \notin AllRefs /\ m.dst = {q}
  BY DEF IndInv, TableInv, MergeTargets, TargetOf
<1>3. \A m, n \in merges : m # n => m.dst \cap n.dst = {}
  BY DEF IndInv, TableInv, MergeTargets
<1>4. ASSUME Ingest PROVE PartsKept
  <2>1. ASSUME NEW f \in Flushers, NEW bs \in SUBSET hands[f].rowss, NEW lost \in SUBSET Rows,
               add_to_inmemory_parts(f, bs, lost)
        PROVE  PartsKept
    <3>1. PICK p, rows : /\ p = next_merge_idx /\ part' = [part EXCEPT ![p].rows = rows]
                         /\ Unused # {} /\ merges' = merges
      BY <2>1 DEF add_to_inmemory_parts
    <3>2. p \notin AllRefs /\ \A m \in merges : p \notin m.dst BY <3>1, FreshPart DEF IndInv
    <3>3. \A q \in PartIds : q # p => part'[q] = part[q] BY <3>1 DEF TypeOK
    <3> QED BY <3>2, <3>3, KeptButOne
  <2>2. ASSUME NEW p \in PartIds, DeadlinePasses(p) PROVE PartsKept
    <3>1. \A q \in PartIds : part'[q].rows = part[q].rows /\ part'[q].kind = part[q].kind /\ (part[q].due => part'[q].due)
      BY <2>2 DEF DeadlinePasses, TypeOK, Part
    <3> QED BY <3>1, RefsTyped DEF PartsKept
  <2>3. \/ \E f \in Flushers : \E bs \in SUBSET hands[f].rowss, lost \in SUBSET Rows :
                                 add_to_inmemory_parts(f, bs, lost)
        \/ \E p \in PartIds : DeadlinePasses(p)
        \/ part' = part
    BY <1>4 DEF Ingest, add_rows, add_rows_to_flush, pending_rows_flusher, append_raw_rows_to_flush,
           FlushNothing
  <2> QED BY <1>1, <2>1, <2>2, <2>3
<1>5. ASSUME MergeStep PROVE PartsKept
  <2>1. ASSUME NEW m \in merges, ForciblyStopped(m) PROVE PartsKept
    <3>1. \A q \in PartIds : q \notin m.dst => part'[q] = part[q]
      BY <2>1 DEF ForciblyStopped
    <3>2. merges' = merges \ {m}
      BY <2>1 DEF ForciblyStopped
    <3> QED BY <1>2, <1>3, <3>1, <3>2, RefsTyped DEF PartsKept
  <2>2. ASSUME NEW m \in merges, NEW k \in Kinds, merge_parts(m, k) PROVE PartsKept
    <3>1. PICK p : p = next_merge_idx /\ part' = [part EXCEPT ![p].kind = k] /\ Unused # {}
      BY <2>2 DEF merge_parts
    <3>2. p \notin AllRefs /\ \A n \in merges : p \notin n.dst BY <3>1, FreshPart DEF IndInv
    <3>3. \A q \in PartIds : q # p => part'[q] = part[q] BY <3>1 DEF TypeOK
    <3> QED BY <3>2, <3>3, KeptButOne
  <2>3. ASSUME NEW m \in merges, NEW p \in m.dst, NEW lost \in SUBSET Rows,
               merge_parts_internal(m, p, lost)
        PROVE  PartsKept
    <3>0. m \in Merge
      BY DEF TypeOK
    <3>1. PICK new, m2 : /\ part' = [part EXCEPT ![p] = new] /\ m.phase = "writing"
                         /\ (\E d : m2 = [m EXCEPT !.phase = "written", !.dst = d])
                         /\ merges' = (merges \ {m}) \cup {m2}
      BY <2>3 DEF merge_parts_internal
    <3>2. \A q \in PartIds : q # p => part'[q] = part[q] BY <3>1 DEF TypeOK
    <3>3. p \notin AllRefs /\ \A n \in merges : n \in merges' => p \notin n.dst
      <4>1. m2.phase = "written"
        BY <3>0, <3>1 DEF Merge
      <4> QED BY <1>2, <1>3, <3>1, <4>1
    <3> QED BY <3>2, <3>3, KeptButOne
  <2>4. ASSUME NEW m \in merges, swap_src_with_dst_parts(m) PROVE PartsKept
    <3>1. part' = [p \in PartIds |-> IF p \in m.dst THEN get_flush_to_disk_deadline(p, m) ELSE part[p]]
      BY <2>4 DEF swap_src_with_dst_parts
    <3>2. \A q \in PartIds : part'[q].rows = part[q].rows /\ (q \notin m.dst => part'[q] = part[q])
      BY <3>1 DEF get_flush_to_disk_deadline, TypeOK, Part
    <3>3. \A q \in AllRefs : q \in PartIds /\ part'[q] = part[q]
      BY <1>2, <3>2, RefsTyped
    <3>4. \A n \in merges : \A q \in n.dst : part'[q].rows = part[q].rows
      BY <3>2, RefsTyped
    <3> QED BY <3>3, <3>4 DEF PartsKept
  <2>5. ASSUME NEW m \in merges, release_parts_to_merge(m) PROVE PartsKept
    <3>1. PICK flags : Release(m.src, Refs(listed, merges', searches, snap), flags)
      BY <2>5 DEF release_parts_to_merge
    <3>2. Refs(listed, merges', searches, snap) = AllRefs'
      BY <2>5 DEF release_parts_to_merge, AllRefs
    <3>3. m.src \in SUBSET AllRefs
      BY RefsAre DEF AllRefs
    <3> QED BY <3>1, <3>2, <3>3, KeptByDrop
  <2>6. \/ \E m \in merges :
              \/ ForciblyStopped(m)
              \/ \E k \in Kinds : merge_parts(m, k)
              \/ \E p \in m.dst, lost \in SUBSET Rows : merge_parts_internal(m, p, lost)
              \/ swap_src_with_dst_parts(m)
              \/ release_parts_to_merge(m)
        \/ part' = part
    BY <1>5 DEF MergeStep, parts_merger, inmemory_parts_flusher, force_merge_all_parts, PickParts,
           remove_stale_parts, remove_dir, Perish
  <2> QED BY <1>1, <2>1, <2>2, <2>3, <2>4, <2>5, <2>6
<1>6. ASSUME Read PROVE PartsKept
  <2>1. ASSUME NEW s \in Searchers, EndSearch(s) PROVE PartsKept
    <3>1. Release(searches[s], AllRefs', inMerge)
      BY <2>1 DEF EndSearch, AllRefs
    <3>2. searches[s] \in SUBSET AllRefs
      BY RefsAre DEF AllRefs
    <3> QED BY <3>1, <3>2, KeptByDrop
  <2>2. ASSUME SnapDone PROVE PartsKept
    <3>1. Release(snap.parts, AllRefs', inMerge)
      BY <2>2 DEF SnapDone, AllRefs
    <3>2. snap.parts \in SUBSET AllRefs
      BY RefsAre DEF AllRefs
    <3> QED BY <3>1, <3>2, KeptByDrop
  <2>3. (\E s \in Searchers : EndSearch(s)) \/ SnapDone \/ part' = part
    BY <1>6 DEF Read, get_parts, must_create_snapshot_at, SnapFlushParts, PickParts, SnapRefParts,
           must_hard_link_parts
  <2> QED BY <1>1, <2>1, <2>2, <2>3
<1>7. ASSUME Life PROVE PartsKept
  <2>1. ASSUME Crash PROVE PartsKept
    <3>1. merges' = {} /\ \A q : q \notin AllRefs'
      BY <2>1, RefsAre DEF Crash, AllRefs, NoSnap
    <3> QED BY <3>1 DEF PartsKept
  <2>2. Crash \/ part' = part
    BY <1>7 DEF Life, must_close, signal, CloseFlushRows, CloseFlushParts, PickParts, CloseDone,
           must_open_partition
  <2> QED BY <1>1, <2>1, <2>2
<1> QED BY <1>4, <1>5, <1>6, <1>7 DEF Next

----------------------------------------------------------------------------
(* What a step does to the places of rows.                                 *)

\* The table has the same parts with the same rows.
SameRows ==
  /\ accepted' = accepted /\ dropped' = dropped
  /\ Live' = Live /\ \A q \in Live : part'[q].rows = part[q].rows

\* A step that leaves the lists alone leaves the rows in them alone.
LEMMA SameLists ==
  ASSUME TypeOK, IndInv, Next, listed' = listed, partsJson' = partsJson, status' = status,
         accepted' = accepted, dropped' = dropped, status \notin Over \/ part' = part
  PROVE  SameRows
<1>1. Live' = Live
  BY DEF Live
<1>2. CASE part' = part
  BY <1>1, <1>2 DEF SameRows
<1>3. CASE status \notin Over
  <2>1. Live = listed
    BY <1>3 DEF Live, Over
  <2>2. \A q \in listed : q \in AllRefs /\ q \in AllRefs'
    BY RefsAre DEF AllRefs
  <2> QED BY <1>1, <2>1, <2>2, PartsAreKept DEF SameRows, PartsKept
<1> QED BY <1>2, <1>3

\* Which steps move rows.
MovesRows ==
  \/ \E a \in Adders, s \in Shards, r \in Rows : add_rows(a, s, r)
  \/ \E a \in Adders : add_rows_to_flush(a)
  \/ \E f \in Flushers : FlushQueue(f) /\ hands[f].rowss = {} /\ SameRows
  \/ \E f \in Flushers, s \in Shards : append_raw_rows_to_flush(f, s)
  \/ \E f \in Flushers : \E bs \in SUBSET hands[f].rowss, lost \in SUBSET Rows :
                           add_to_inmemory_parts(f, bs, lost)
  \/ \E f \in Flushers : FlushNothing(f)
  \/ \E m \in merges : swap_src_with_dst_parts(m)
  \/ Crash

\* All others leave every row where it is.
LEMMA StepCases ==
  ASSUME TypeOK, IndInv, Next PROVE MovesRows \/ (UNCHANGED mem /\ SameRows)
<1> USE DEF mem, tbl, disk, users, hist, bounds
<1>1. IndInv' /\ status' # "fatal"
  BY NextInd DEF IndInv, NoFatalPanic
<1>2. \A f \in Flushers : hands[f].pc = "idle" => hands[f].rowss = {}
  BY DEF IndInv, Threads
<1>3. {"pending_rows_flusher", "snapshot", "close"} \subseteq Flushers
  BY DEF Flushers
<1>4. ASSUME Ingest PROVE MovesRows \/ (UNCHANGED mem /\ SameRows)
  <2>1. ASSUME pending_rows_flusher PROVE MovesRows
    <3>1. FlushQueue("pending_rows_flusher") /\ hands["pending_rows_flusher"].rowss = {}
      BY <1>2, <1>3, <2>1 DEF pending_rows_flusher
    <3>2. SameRows
      BY <2>1, SameLists DEF pending_rows_flusher
    <3> QED BY <1>3, <3>1, <3>2 DEF MovesRows
  <2>2. ASSUME NEW p \in PartIds, DeadlinePasses(p) PROVE UNCHANGED mem /\ SameRows
    BY <2>2, SameLists DEF DeadlinePasses, Over
  <2> QED BY <1>4, <2>1, <2>2 DEF Ingest, MovesRows
<1>5. ASSUME MergeStep PROVE MovesRows \/ (UNCHANGED mem /\ SameRows)
  <2>1. ASSUME NEW m \in merges,
               \/ ForciblyStopped(m)
               \/ \E k \in Kinds : merge_parts(m, k)
               \/ \E p \in m.dst, lost \in SUBSET Rows : merge_parts_internal(m, p, lost)
               \/ release_parts_to_merge(m)
        PROVE  UNCHANGED mem /\ SameRows
    <3>1. /\ UNCHANGED mem /\ listed' = listed /\ partsJson' = partsJson /\ accepted' = accepted /\ dropped' = dropped
          /\ status' = status \/ status' = "fatal"
      BY <2>1 DEF ForciblyStopped, merge_parts, merge_parts_internal, release_parts_to_merge, Panic
    <3>2. status \notin Over
      BY MergesMeanUp
    <3> QED BY <1>1, <3>1, <3>2, SameLists
  <2>2. ASSUME part' = part, listed' = listed, partsJson' = partsJson, status' = status,
               accepted' = accepted, dropped' = dropped, UNCHANGED mem
        PROVE  UNCHANGED mem /\ SameRows
    BY <2>2, SameLists
  <2>3. ASSUME NEW S \in SUBSET listed, parts_merger(S) PROVE UNCHANGED mem /\ SameRows
    BY <2>2, <2>3 DEF parts_merger, PickParts
  <2>4. ASSUME NEW G, inmemory_parts_flusher(G) \/ force_merge_all_parts(G) PROVE UNCHANGED mem /\ SameRows
    BY <2>2, <2>4 DEF inmemory_parts_flusher, force_merge_all_parts, PickParts
  <2>5. ASSUME remove_stale_parts PROVE UNCHANGED mem /\ SameRows
    BY <2>2, <2>5 DEF remove_stale_parts
  <2>6. ASSUME NEW p \in PartIds, remove_dir(p) PROVE UNCHANGED mem /\ SameRows
    BY <2>2, <2>6 DEF remove_dir
  <2>7. ASSUME NEW r \in Rows, Perish(r) PROVE UNCHANGED mem /\ SameRows
    BY <2>2, <2>7 DEF Perish
  <2> QED BY <1>5, <2>1, <2>3, <2>4, <2>5, <2>6, <2>7 DEF MergeStep, MovesRows
<1>6. ASSUME Read PROVE MovesRows \/ (UNCHANGED mem /\ SameRows)
  <2>1. ASSUME must_create_snapshot_at PROVE MovesRows
    <3>1. FlushQueue("snapshot") /\ hands["snapshot"].rowss = {}
      BY <1>2, <1>3, <2>1 DEF must_create_snapshot_at, IndInv, Threads
    <3>2. SameRows
      BY <2>1, SameLists DEF must_create_snapshot_at
    <3> QED BY <1>3, <3>1, <3>2 DEF MovesRows
  <2>2. ASSUME NEW s \in Searchers, get_parts(s) PROVE UNCHANGED mem /\ SameRows
    BY <2>2, SameLists DEF get_parts
  <2>3. ASSUME NEW s \in Searchers, EndSearch(s) PROVE UNCHANGED mem /\ SameRows
    <3>1. status \notin Over BY <2>3, UsersMeanOpen DEF EndSearch, NoUsers, Over
    <3> QED BY <2>3, <3>1, SameLists DEF EndSearch
  <2>4. ASSUME NEW G, SnapFlushParts(G) PROVE UNCHANGED mem /\ SameRows
    BY <2>4, SameLists DEF SnapFlushParts, PickParts
  <2>5. ASSUME SnapRefParts PROVE UNCHANGED mem /\ SameRows
    BY <2>5, SameLists DEF SnapRefParts
  <2>6. ASSUME NEW p \in PartIds, must_hard_link_parts(p) PROVE UNCHANGED mem /\ SameRows
    <3>1. /\ UNCHANGED <<mem, part, listed, partsJson, accepted, dropped>>
          /\ status' = status \/ status' = "fatal"
      BY <2>6 DEF must_hard_link_parts, Panic
    <3> QED BY <1>1, <3>1, SameLists
  <2>7. ASSUME SnapDone PROVE UNCHANGED mem /\ SameRows
    <3>1. status \notin Over BY <2>7, UsersMeanOpen DEF SnapDone, NoUsers, Over
    <3> QED BY <2>7, <3>1, SameLists DEF SnapDone
  <2> QED BY <1>6, <2>1, <2>2, <2>3, <2>4, <2>5, <2>6, <2>7 DEF Read
<1>7. ASSUME Life PROVE MovesRows \/ (UNCHANGED mem /\ SameRows)
  <2>1. ASSUME must_close \/ signal PROVE UNCHANGED mem /\ SameRows
    BY <2>1 DEF must_close, signal, SameRows, Live
  <2>2. ASSUME CloseFlushRows PROVE MovesRows
    <3>1. FlushQueue("close") /\ hands["close"].rowss = {}
      BY <1>2, <1>3, <2>2 DEF CloseFlushRows, IndInv, Threads
    <3>2. SameRows
      BY <2>2 DEF CloseFlushRows, SameRows, Live
    <3> QED BY <1>3, <3>1, <3>2 DEF MovesRows
  <2>3. ASSUME NEW G, CloseFlushParts(G) PROVE UNCHANGED mem /\ SameRows
    BY <2>3 DEF CloseFlushParts, PickParts, SameRows, Live
  <2>4. ASSUME CloseDone PROVE UNCHANGED mem /\ SameRows
    <3>1. status = "close_parts" /\ status' = "closed" /\ FileParts(listed) = listed
      BY <1>1, <2>4 DEF CloseDone, Panic
    <3>2. partsJson = listed
      BY <3>1 DEF IndInv, TableInv, JsonIsList
    <3> QED BY <2>4, <3>1, <3>2 DEF CloseDone, SameRows, Live
  <2>5. ASSUME must_open_partition PROVE UNCHANGED mem /\ SameRows
    <3>1. status \in {"closed", "down"} /\ status' = "open"
      BY <1>1, <2>5 DEF must_open_partition, Panic
    <3> QED BY <2>5, <3>1 DEF must_open_partition, SameRows, Live
  <2> QED BY <1>7, <2>1, <2>2, <2>3, <2>4, <2>5 DEF Life, MovesRows
<1> QED BY <1>4, <1>5, <1>6, <1>7 DEF Next

----------------------------------------------------------------------------
(* Raw rows.                                                               *)

\* What is in shards and batches are rows.
LEMMA RawTyped ==
  ASSUME TypeOK
  PROVE  /\ \A s \in Shards : shards[s] \subseteq Rows
         /\ \A b \in rowssToFlush : b \subseteq Rows
         /\ \A f \in Flushers : \A b \in hands[f].rowss : b \subseteq Rows
BY DEF TypeOK, Hand, Batches

\* Thread f has the batches B after the step; the others have what they had.
Holds(f, B) == \A g \in Flushers : hands'[g].rowss = IF g = f THEN B ELSE hands[g].rowss

\* The part of the invariant that is about raw rows and the parts of the table.
PlaceInv == RawRowsApart /\ PartsApart(Live) /\ RowsPlaced

\* Steps that move raw rows about.
LEMMA PlacesSame ==
  ASSUME PlaceInv, SameRows, RawRowsApart', \A r \in Rows : Raw(r)' <=> Raw(r)
  PROVE  PlaceInv'
<1>1. RowsOf(Live)' = RowsOf(Live)
  BY DEF SameRows, RowsOf
<1> QED BY <1>1 DEF PlaceInv, SameRows, RowsPlaced, PartsApart

\* A row arrives.
LEMMA AddRowsPlaces ==
  ASSUME TypeOK, IndInv, PlaceInv, NEW a \in Adders, NEW s \in Shards, NEW r \in Rows, add_rows(a, s, r)
  PROVE  PlaceInv'
<1>1. /\ r \notin accepted /\ r \notin dropped /\ accepted' = accepted \cup {r} /\ dropped' = dropped
      /\ rowssToFlush' = rowssToFlush /\ part' = part /\ listed' = listed /\ partsJson' = partsJson /\ status' = status
      /\ hands[a].pc = "idle"
  BY DEF add_rows, tbl, disk, users, bounds
<1>2. a \in Flushers /\ hands[a].rowss = {}
  BY <1>1, ConstantsTyped DEF IndInv, Threads
<1>3. ~Raw(r) /\ r \notin RowsOf(Live)
  BY <1>1 DEF PlaceInv, RowsPlaced
<1>4. RawRowsApart' /\ \A x \in Rows : Raw(x)' <=> Raw(x) \/ x = r
  <2>1. CASE Cardinality(shards[s]) < MaxRawRowsPerShard
    <3>1. shards' = [shards EXCEPT ![s] = @ \cup {r}] /\ hands' = hands
      BY <2>1 DEF add_rows
    <3>2. \A t \in Shards : shards'[t] = IF t = s THEN shards[s] \cup {r} ELSE shards[t]
      BY <3>1 DEF TypeOK
    <3>3. \A x : Sharded(x)' <=> Sharded(x) \/ x = r
      BY <3>2 DEF Sharded
    <3>4. \A x : (Queued(x)' <=> Queued(x)) /\ \A f \in Flushers : HeldBy(f, x)' <=> HeldBy(f, x)
      BY <1>1, <3>1 DEF Queued, HeldBy
    <3>5. ~Sharded(r) /\ ~Queued(r) /\ \A f \in Flushers : ~HeldBy(f, r)
      BY <1>3 DEF Raw
    <3>6. \A t, u \in Shards : t # u => shards'[t] \cap shards'[u] = {}
      BY <3>2, <3>5 DEF PlaceInv, RawRowsApart, Sharded
    <3>7. Apart(rowssToFlush)' /\ \A f \in Flushers : Apart(hands[f].rowss)'
      BY <1>1, <3>1 DEF PlaceInv, RawRowsApart, Apart
    <3>8. \A x \in Rows : Raw(x)' <=> Raw(x) \/ x = r
      BY <3>3, <3>4 DEF Raw
    <3> QED BY <3>3, <3>4, <3>5, <3>6, <3>7, <3>8 DEF PlaceInv, RawRowsApart
  <2>2. CASE ~(Cardinality(shards[s]) < MaxRawRowsPerShard)
    <3>1. shards' = [shards EXCEPT ![s] = {r}] /\ Holds(a, {shards[s]})
      <4>1. PICK h : h.rowss = {shards[s]} /\ hands' = [hands EXCEPT ![a] = h] /\ shards' = [shards EXCEPT ![s] = {r}]
        BY <2>2 DEF add_rows
      <4> QED BY <1>2, <4>1 DEF Holds, TypeOK
    <3>2. \A t \in Shards : shards'[t] = IF t = s THEN {r} ELSE shards[t]
      BY <3>1 DEF TypeOK
    <3>3. \A x : Sharded(x)' <=> (x = r \/ \E t \in Shards : t # s /\ x \in shards[t])
      BY <3>2 DEF Sharded
    <3>4. \A x : (Queued(x)' <=> Queued(x)) /\ \A f \in Flushers : HeldBy(f, x)' <=> (IF f = a THEN x \in shards[s] ELSE HeldBy(f, x))
      BY <1>1, <3>1 DEF Queued, HeldBy, Holds
    <3>5. ~Sharded(r) /\ ~Queued(r) /\ \A f \in Flushers : ~HeldBy(f, r)
      BY <1>3 DEF Raw
    <3>6. \A t, u \in Shards : t # u => shards'[t] \cap shards'[u] = {}
      BY <3>2, <3>5 DEF PlaceInv, RawRowsApart, Sharded
    <3>7. Apart(rowssToFlush)' /\ \A f \in Flushers : Apart(hands[f].rowss)'
      BY <1>1, <3>1 DEF PlaceInv, RawRowsApart, Apart, Holds
    <3>8. \A x : ~HeldBy(a, x)
      BY <1>2 DEF HeldBy
    <3>9. \A x \in Rows : Raw(x)' <=> Raw(x) \/ x = r
      BY <1>2, <3>3, <3>4, <3>8 DEF Raw, Sharded
    <3>10. \A x \in Rows : /\ Sharded(x)' => ~Queued(x)' /\ \A f \in Flushers : ~HeldBy(f, x)'
                           /\ Queued(x)' => \A f \in Flushers : ~HeldBy(f, x)'
      <4> SUFFICES ASSUME NEW x \in Rows, Sharded(x)' \/ Queued(x)'
                   PROVE  (Sharded(x)' => ~Queued(x)') /\ \A f \in Flushers : ~HeldBy(f, x)'
        OBVIOUS
      <4>1. Sharded(x)' => x = r \/ (Sharded(x) /\ x \notin shards[s])
        BY <3>3 DEF PlaceInv, RawRowsApart, Sharded
      <4>2. Queued(x)' => ~Sharded(x) /\ x \notin shards[s] /\ \A f \in Flushers : ~HeldBy(f, x)
        BY <3>4 DEF PlaceInv, RawRowsApart, Sharded
      <4>3. Sharded(x)' => ~Queued(x)'
        BY <3>4, <3>5, <4>1 DEF PlaceInv, RawRowsApart
      <4>4. r \notin shards[s]
        BY <3>5 DEF Sharded
      <4>5. Sharded(x)' => \A f \in Flushers : ~HeldBy(f, x)'
        BY <3>4, <3>5, <4>1, <4>4 DEF PlaceInv, RawRowsApart
      <4> QED BY <3>4, <4>2, <4>3, <4>5
    <3>11. \A x \in Rows : \A f, g \in Flushers : HeldBy(f, x)' /\ HeldBy(g, x)' => f = g
      BY <3>4, <3>8 DEF PlaceInv, RawRowsApart, Sharded
    <3> QED BY <3>6, <3>7, <3>9, <3>10, <3>11 DEF RawRowsApart
  <2> QED BY <2>1, <2>2
<1>5. Live' = Live /\ RowsOf(Live)' = RowsOf(Live) /\ PartsApart(Live)'
  BY <1>1 DEF Live, RowsOf, PlaceInv, PartsApart
<1>6. RowsPlaced'
  BY <1>1, <1>3, <1>4, <1>5 DEF PlaceInv, RowsPlaced
<1> QED BY <1>4, <1>5, <1>6 DEF PlaceInv

\* A batch changes hands: thread f has the batches B afterwards.
LEMMA BatchesMove ==
  ASSUME TypeOK, PlaceInv, SameRows, shards' = shards, NEW f \in Flushers, NEW B, Holds(f, B),
         \/ B = rowssToFlush \cup hands[f].rowss /\ rowssToFlush' = {}
         \/ B = {} /\ rowssToFlush' = rowssToFlush \cup hands[f].rowss
  PROVE  PlaceInv'
<1>1. \A x \in Rows : /\ Sharded(x) => ~Queued(x) /\ \A g \in Flushers : ~HeldBy(g, x)
                      /\ Queued(x) => \A g \in Flushers : ~HeldBy(g, x)
                      /\ \A g, h \in Flushers : HeldBy(g, x) /\ HeldBy(h, x) => g = h
  BY DEF PlaceInv, RawRowsApart
<1>2. Apart(rowssToFlush) /\ (\A g \in Flushers : Apart(hands[g].rowss)) /\ Apart({})
  BY DEF PlaceInv, RawRowsApart, Apart
<1>3. Apart(rowssToFlush \cup hands[f].rowss)
  <2> SUFFICES ASSUME NEW b \in rowssToFlush, NEW c \in hands[f].rowss PROVE b \cap c = {}
    BY <1>2 DEF Apart
  <2> QED BY <1>1, RawTyped DEF Queued, HeldBy
<1>4. Apart(rowssToFlush)' /\ \A g \in Flushers : Apart(hands[g].rowss)'
  BY <1>2, <1>3 DEF Holds, Apart
<1>5. \A x : Sharded(x)' <=> Sharded(x)
  BY DEF Sharded
<1>6. \A x : \A g \in Flushers : g # f => (HeldBy(g, x)' <=> HeldBy(g, x))
  BY DEF Holds, HeldBy
<1>7. \/ \A x : ~Queued(x)' /\ (HeldBy(f, x)' <=> Queued(x) \/ HeldBy(f, x))
      \/ \A x : ~HeldBy(f, x)' /\ (Queued(x)' <=> Queued(x) \/ HeldBy(f, x))
  BY DEF Holds, HeldBy, Queued
<1>8. \A x : Raw(x)' <=> Raw(x)
  BY <1>5, <1>6, <1>7 DEF Raw
<1>9. \A x \in Rows : /\ Sharded(x)' => ~Queued(x)' /\ \A g \in Flushers : ~HeldBy(g, x)'
                      /\ Queued(x)' => \A g \in Flushers : ~HeldBy(g, x)'
                      /\ \A g, h \in Flushers : HeldBy(g, x)' /\ HeldBy(h, x)' => g = h
  BY <1>1, <1>5, <1>6, <1>7
<1>10. \A s, t \in Shards : s # t => shards'[s] \cap shards'[t] = {}
  BY DEF PlaceInv, RawRowsApart
<1>11. RawRowsApart'
  BY <1>4, <1>9, <1>10 DEF RawRowsApart
<1> QED BY <1>8, <1>11, PlacesSame

\* A flush takes the rows of a shard.
LEMMA AppendPlaces ==
  ASSUME TypeOK, PlaceInv, NEW f \in Flushers, NEW s \in Shards, append_raw_rows_to_flush(f, s)
  PROVE  PlaceInv'
<1>1. /\ shards' = [shards EXCEPT ![s] = {}] /\ rowssToFlush' = rowssToFlush /\ Holds(f, hands[f].rowss \cup ShardBatch(s))
  BY DEF append_raw_rows_to_flush, Holds, TypeOK, Hand
<1>2. SameRows
  BY DEF append_raw_rows_to_flush, SameRows, Live, tbl, disk, hist
<1>3. \A x \in Rows : /\ Sharded(x) => ~Queued(x) /\ \A g \in Flushers : ~HeldBy(g, x)
                      /\ Queued(x) => \A g \in Flushers : ~HeldBy(g, x)
                      /\ \A g, h \in Flushers : HeldBy(g, x) /\ HeldBy(h, x) => g = h
  BY DEF PlaceInv, RawRowsApart
<1>4. \A t \in Shards : shards'[t] = IF t = s THEN {} ELSE shards[t]
  BY <1>1 DEF TypeOK
<1>5. \A t, u \in Shards : t # u => shards[t] \cap shards[u] = {}
  BY DEF PlaceInv, RawRowsApart
<1>6. \A x : Sharded(x)' <=> (Sharded(x) /\ x \notin shards[s])
  BY <1>4, <1>5 DEF Sharded
<1>7. \A x : Queued(x)' <=> Queued(x)
  BY <1>1 DEF Queued
<1>8. \A x : \A g \in Flushers : HeldBy(g, x)' <=> HeldBy(g, x) \/ (g = f /\ x \in shards[s])
  BY <1>1 DEF HeldBy, Holds, ShardBatch
<1>9. \A x : x \in shards[s] => Sharded(x)
  BY DEF Sharded
<1>10. \A x : Raw(x)' <=> Raw(x)
  BY <1>6, <1>7, <1>8, <1>9 DEF Raw
<1>11. \A x \in Rows : /\ Sharded(x)' => ~Queued(x)' /\ \A g \in Flushers : ~HeldBy(g, x)'
                       /\ Queued(x)' => \A g \in Flushers : ~HeldBy(g, x)'
                       /\ \A g, h \in Flushers : HeldBy(g, x)' /\ HeldBy(h, x)' => g = h
  BY <1>3, <1>6, <1>7, <1>8, <1>9
<1>12. \A t, u \in Shards : t # u => shards'[t] \cap shards'[u] = {}
  BY <1>4, <1>5
<1>13. Apart(hands[f].rowss \cup ShardBatch(s))
  <2>1. \A b \in hands[f].rowss : b \cap shards[s] = {}
    BY <1>3, <1>9, RawTyped DEF HeldBy
  <2>2. Apart(hands[f].rowss)
    BY DEF PlaceInv, RawRowsApart
  <2> QED BY <2>1, <2>2 DEF Apart, ShardBatch
<1>14. Apart(rowssToFlush)' /\ \A g \in Flushers : Apart(hands[g].rowss)'
  BY <1>1, <1>13 DEF PlaceInv, RawRowsApart, Apart, Holds
<1>15. RawRowsApart'
  BY <1>11, <1>12, <1>14 DEF RawRowsApart
<1> QED BY <1>2, <1>10, <1>15, PlacesSame

\* Batches become a part.
LEMMA ConvertPlaces ==
  ASSUME TypeOK, IndInv, PlaceInv, NEW f \in Flushers, NEW bs \in SUBSET hands[f].rowss, NEW lost \in SUBSET Rows,
         add_to_inmemory_parts(f, bs, lost)
  PROVE  PlaceInv'
<1> DEFINE rows == (UNION bs) \ lost
<1>1. PICK p : /\ p = next_merge_idx /\ Unused # {} /\ part' = [part EXCEPT ![p].rows = rows]
               /\ listed' = (IF rows = {} THEN listed ELSE listed \cup {p})
               /\ accepted' = accepted \ lost /\ dropped' = dropped \cup lost /\ lost \subseteq UNION bs
               /\ shards' = shards /\ rowssToFlush' = rowssToFlush /\ status' = status /\ partsJson' = partsJson
  BY DEF add_to_inmemory_parts, Droppable, tbl, disk, users, bounds
<1>2. p \notin listed /\ p \in PartIds
  BY <1>1, FreshPart DEF IndInv
<1>3. hands[f].pc = "convert"
  BY DEF add_to_inmemory_parts
<1>4. status \notin Over /\ Live = listed /\ Live' = listed'
  BY <1>1, <1>3, BusyHands DEF Over, Live
<1>5. Holds(f, hands[f].rowss \ bs)
  <2>1. PICK h : hands' = [hands EXCEPT ![f] = h] /\ h = IF hands[f].rowss \ bs = {} THEN Idle ELSE [hands[f] EXCEPT !.rowss = hands[f].rowss \ bs]
    BY DEF add_to_inmemory_parts
  <2>2. h.rowss = hands[f].rowss \ bs
    <3>1. hands[f] \in Hand
      BY DEF TypeOK
    <3> QED BY <2>1, <3>1 DEF Idle, Hand
  <2> QED BY <2>1, <2>2 DEF Holds, TypeOK
<1>6. \A b, c \in hands[f].rowss : b # c => b \cap c = {}
  BY DEF PlaceInv, RawRowsApart, Apart
<1>7. \A x : HeldBy(f, x)' <=> (HeldBy(f, x) /\ x \notin UNION bs)
  BY <1>5, <1>6 DEF HeldBy, Holds
<1>8. \A x : /\ Sharded(x)' <=> Sharded(x)
             /\ Queued(x)' <=> Queued(x)
             /\ \A g \in Flushers : g # f => (HeldBy(g, x)' <=> HeldBy(g, x))
  BY <1>1, <1>5 DEF Sharded, Queued, HeldBy, Holds
<1>9. \A x \in Rows : /\ Sharded(x) => ~Queued(x) /\ \A g \in Flushers : ~HeldBy(g, x)
                      /\ Queued(x) => \A g \in Flushers : ~HeldBy(g, x)
                      /\ \A g, h \in Flushers : HeldBy(g, x) /\ HeldBy(h, x) => g = h
  BY DEF PlaceInv, RawRowsApart
<1>10. \A x \in UNION bs : x \in Rows /\ HeldBy(f, x)
  BY RawTyped DEF HeldBy
<1>11. RawRowsApart'
  <2>1. \A x \in Rows : /\ Sharded(x)' => ~Queued(x)' /\ \A g \in Flushers : ~HeldBy(g, x)'
                        /\ Queued(x)' => \A g \in Flushers : ~HeldBy(g, x)'
                        /\ \A g, h \in Flushers : HeldBy(g, x)' /\ HeldBy(h, x)' => g = h
    BY <1>7, <1>8, <1>9
  <2>2. \A s, t \in Shards : s # t => shards'[s] \cap shards'[t] = {}
    BY <1>1 DEF PlaceInv, RawRowsApart
  <2>3. Apart(rowssToFlush)' /\ \A g \in Flushers : Apart(hands[g].rowss)'
    BY <1>1, <1>5 DEF PlaceInv, RawRowsApart, Apart, Holds
  <2> QED BY <2>1, <2>2, <2>3 DEF RawRowsApart
<1>12. \A x \in Rows : Raw(x)' <=> (Raw(x) /\ x \notin UNION bs)
  BY <1>7, <1>8, <1>9, <1>10 DEF Raw
<1>13. \A q \in listed : part'[q].rows = part[q].rows /\ q # p
  BY <1>1, <1>2 DEF TypeOK
<1>14. part'[p].rows = rows
  BY <1>1, <1>2 DEF TypeOK, Part
<1>15. \A x : x \in RowsOf(Live)' <=> x \in RowsOf(Live) \/ x \in rows
  BY <1>1, <1>4, <1>13, <1>14 DEF RowsOf
<1>16. \A x \in UNION bs : Raw(x) /\ x \notin RowsOf(Live)
  BY <1>10 DEF Raw, PlaceInv, RowsPlaced
<1>17. PartsApart(Live)'
  <2> SUFFICES ASSUME NEW q \in listed', NEW t \in listed', q # t PROVE part'[q].rows \cap part'[t].rows = {}
    BY <1>4 DEF PartsApart
  <2>1. \A u \in listed : part[u].rows \cap rows = {}
    BY <1>4, <1>16 DEF RowsOf
  <2>2. \A u, v \in listed : u # v => part[u].rows \cap part[v].rows = {}
    BY <1>4 DEF PlaceInv, PartsApart
  <2> HIDE DEF rows
  <2> QED BY <1>1, <1>13, <1>14, <2>1, <2>2
<1>18. RowsPlaced'
  <2>1. \A x \in Rows : x \in accepted <=> Raw(x) \/ x \in RowsOf(Live)
    BY DEF PlaceInv, RowsPlaced
  <2>2. \A x \in Rows : Raw(x) => x \notin RowsOf(Live)
    BY DEF PlaceInv, RowsPlaced
  <2>3. \A x \in Rows : x \in accepted' <=> Raw(x)' \/ x \in RowsOf(Live)'
    BY <1>1, <1>12, <1>15, <1>16, <2>1
  <2>4. \A x \in Rows : Raw(x)' => x \notin RowsOf(Live)'
    BY <1>12, <1>15, <2>2
  <2>5. accepted' \cap dropped' = {}
    BY <1>1 DEF PlaceInv, RowsPlaced
  <2> QED BY <2>3, <2>4, <2>5 DEF RowsPlaced
<1> QED BY <1>11, <1>17, <1>18 DEF PlaceInv

\* Sources give way to their destination, which has rows of theirs only.
LEMMA SwapPlaces ==
  ASSUME TypeOK, IndInv, PlaceInv, MergedRows, NEW m \in merges, swap_src_with_dst_parts(m)
  PROVE  PlaceInv'
<1>1. /\ m.phase = "written" /\ listed' = (listed \ m.src) \cup m.dst
      /\ part' = [p \in PartIds |-> IF p \in m.dst THEN get_flush_to_disk_deadline(p, m) ELSE part[p]]
      /\ dropped' = dropped \cup (RowsOf(m.src) \ RowsOf(m.dst)) /\ accepted' = accepted \ (RowsOf(m.src) \ RowsOf(m.dst))
      /\ UNCHANGED <<shards, rowssToFlush, hands>>
  BY DEF swap_src_with_dst_parts, mem
<1>2. \A q \in PartIds : part'[q].rows = part[q].rows
  BY <1>1 DEF get_flush_to_disk_deadline, TypeOK, Part
<1>3. m.src \subseteq listed /\ TargetOf(m)
  BY <1>1 DEF IndInv, TableInv, MergeSources, MergeTargets
<1>4. status \notin Over /\ status' = status
  BY <1>3, MergesMeanUp DEF swap_src_with_dst_parts, Panic
<1>5. Live = listed /\ Live' = listed'
  BY <1>4 DEF Live, Over
<1>6. listed \subseteq PartIds /\ m.dst \subseteq PartIds
  BY RefsTyped DEF TypeOK
<1>7. RowsOf(m.dst) \subseteq RowsOf(m.src)
  BY <1>1 DEF MergedRows
<1>8. \A q \in m.dst : m.dst = {q} /\ part[q].rows \subseteq RowsOf(m.src)
  BY <1>3, <1>7 DEF TargetOf, RowsOf
<1>9. \A q, t \in listed : q # t => part[q].rows \cap part[t].rows = {}
  BY <1>5 DEF PlaceInv, PartsApart
<1>10. \A q \in listed \ m.src : part[q].rows \cap RowsOf(m.src) = {}
  BY <1>3, <1>9 DEF RowsOf
<1>11. PartsApart(Live)'
  <2> SUFFICES ASSUME NEW q \in listed', NEW t \in listed', q # t PROVE part'[q].rows \cap part'[t].rows = {}
    BY <1>5 DEF PartsApart
  <2>1. part'[q].rows = part[q].rows /\ part'[t].rows = part[t].rows
    BY <1>1, <1>2, <1>6
  <2> QED BY <1>1, <1>8, <1>9, <1>10, <2>1
<1>12. \A x : x \in RowsOf(Live)' <=> (x \in RowsOf(Live) /\ x \notin RowsOf(m.src)) \/ x \in RowsOf(m.dst)
  <2>1. \A x : x \in RowsOf(Live)' <=> \E q \in listed' : x \in part[q].rows
    <3>1. listed' \subseteq PartIds
      BY <1>1, <1>6
    <3> QED BY <1>2, <1>5, <3>1 DEF RowsOf
  <2>2. \A x : x \in RowsOf(Live) /\ x \notin RowsOf(m.src) <=> \E q \in listed \ m.src : x \in part[q].rows
    BY <1>5, <1>10 DEF RowsOf
  <2>3. \A x : x \in RowsOf(m.dst) <=> \E q \in m.dst : x \in part[q].rows
    BY DEF RowsOf
  <2> QED BY <1>1, <2>1, <2>2, <2>3
<1>13. RowsOf(m.src) \subseteq RowsOf(Live)
  BY <1>3, <1>5 DEF RowsOf
<1>14. \A x \in Rows : Raw(x)' <=> Raw(x)
  BY <1>1 DEF Raw, Sharded, Queued, HeldBy
<1>15. RowsPlaced'
  <2>1. \A x \in Rows : (x \in accepted <=> Raw(x) \/ x \in RowsOf(Live)) /\ (Raw(x) => x \notin RowsOf(Live))
    BY DEF PlaceInv, RowsPlaced
  <2>2. \A x \in Rows : x \in accepted' <=> Raw(x)' \/ x \in RowsOf(Live)'
    BY <1>1, <1>7, <1>12, <1>13, <1>14, <2>1
  <2>3. \A x \in Rows : Raw(x)' => x \notin RowsOf(Live)'
    BY <1>7, <1>12, <1>13, <1>14, <2>1
  <2>4. accepted' \cap dropped' = {}
    BY <1>1 DEF PlaceInv, RowsPlaced
  <2> QED BY <2>2, <2>3, <2>4 DEF RowsPlaced
<1>16. RawRowsApart'
  BY <1>1 DEF PlaceInv, RawRowsApart, Apart, Sharded, Queued, HeldBy
<1> QED BY <1>11, <1>15, <1>16 DEF PlaceInv

\* While the partition is up or down, what parts.json lists is in the table.
LEMMA JsonLive == ASSUME IndInv PROVE partsJson \subseteq Live
BY DEF IndInv, TableInv, JsonIsList, Live, FileParts

\* A crash leaves the durable rows.
LEMMA CrashPlaces == ASSUME TypeOK, IndInv, PlaceInv, Crash PROVE PlaceInv'
<1>1. /\ \A q \in partsJson : part'[q].rows = part[q].rows
      /\ partsJson' = partsJson /\ Live' = partsJson /\ accepted' = DurableRows /\ dropped' = dropped
      /\ (\A s \in Shards : shards'[s] = {}) /\ rowssToFlush' = {} /\ \A f \in Flushers : hands'[f].rowss = {}
  BY DEF Crash, disk, TypeOK, Live, Idle
<1>2. RawRowsApart' /\ \A x : ~Raw(x)'
  BY <1>1 DEF RawRowsApart, Apart, Raw, Sharded, Queued, HeldBy
<1>3. PartsApart(Live)'
  BY <1>1, JsonLive DEF PlaceInv, PartsApart
<1>4. RowsOf(Live)' = DurableRows
  BY <1>1 DEF RowsOf, DurableRows
<1>5. DurableRows \subseteq RowsOf(Live) /\ DurableRows \subseteq Rows
  BY JsonLive, RowsTyped DEF DurableRows, RowsOf, TypeOK
<1>6. RowsPlaced'
  BY <1>1, <1>2, <1>4, <1>5 DEF RowsPlaced, PlaceInv
<1> QED BY <1>2, <1>3, <1>6 DEF PlaceInv

\* Every step keeps rows in one place.
LEMMA PlacesStep == ASSUME TypeOK, IndInv, PlaceInv, MergedRows, Next PROVE PlaceInv'
<1>1. ASSUME UNCHANGED mem, SameRows PROVE PlaceInv'
  <2>1. UNCHANGED <<shards, rowssToFlush, hands>>
    BY <1>1 DEF mem
  <2>2. RawRowsApart' /\ \A x \in Rows : Raw(x)' <=> Raw(x)
    BY <2>1 DEF PlaceInv, RawRowsApart, Apart, Raw, Sharded, Queued, HeldBy
  <2> QED BY <1>1, <2>2, PlacesSame
<1>2. ASSUME NEW a \in Adders, add_rows_to_flush(a) PROVE PlaceInv'
  <2>1. a \in Flushers /\ SameRows /\ shards' = shards
    BY <1>2, ConstantsTyped DEF add_rows_to_flush, SameRows, Live, tbl, disk, hist
  <2> DEFINE queue == rowssToFlush \cup hands[a].rowss
  <2>2. CASE Cardinality(queue) >= DefaultPartsToMerge
    <3>1. rowssToFlush' = {} /\ hands' = [hands EXCEPT ![a] = [pc |-> "convert", todo |-> {}, rowss |-> queue]]
      BY <1>2, <2>2 DEF add_rows_to_flush
    <3>2. Holds(a, queue)
      BY <2>1, <3>1 DEF Holds, TypeOK
    <3> QED BY <2>1, <3>1, <3>2, BatchesMove
  <2>3. CASE ~(Cardinality(queue) >= DefaultPartsToMerge)
    <3>1. rowssToFlush' = queue /\ hands' = [hands EXCEPT ![a] = Idle] /\ Idle.rowss = {}
      BY <1>2, <2>3 DEF add_rows_to_flush, Idle
    <3>2. Holds(a, {})
      BY <2>1, <3>1 DEF Holds, TypeOK
    <3> QED BY <2>1, <3>1, <3>2, BatchesMove
  <2> QED BY <2>2, <2>3
<1>3. ASSUME NEW f \in Flushers, FlushQueue(f), hands[f].rowss = {}, SameRows PROVE PlaceInv'
  <2>1. Holds(f, rowssToFlush) /\ rowssToFlush' = {} /\ shards' = shards
    BY <1>3 DEF FlushQueue, Holds, TypeOK
  <2> QED BY <1>3, <2>1, BatchesMove
<1>4. ASSUME NEW f \in Flushers, FlushNothing(f) PROVE PlaceInv'
  <2>1. Holds(f, {}) /\ rowssToFlush' = rowssToFlush /\ shards' = shards /\ hands[f].rowss = {}
    <3>1. hands' = [hands EXCEPT ![f] = Idle] /\ Idle.rowss = {} /\ hands[f].rowss = {}
      BY <1>4 DEF FlushNothing, Idle
    <3> QED BY <1>4, <3>1 DEF FlushNothing, Holds, TypeOK
  <2>2. SameRows
    BY <1>4 DEF FlushNothing, SameRows, Live, tbl, disk, hist
  <2> QED BY <2>1, <2>2, BatchesMove
<1> QED BY <1>1, <1>2, <1>3, <1>4, StepCases, AddRowsPlaces, AppendPlaces, ConvertPlaces, SwapPlaces, CrashPlaces
        DEF MovesRows

----------------------------------------------------------------------------
(* What merges, searches and the snapshot rely on.                         *)

\* Parts in use have the rows they had.
LEMMA SameRowsOf ==
  ASSUME PartsKept, NEW S, S \subseteq AllRefs, S \subseteq AllRefs' PROVE RowsOf(S)' = RowsOf(S)
BY DEF PartsKept, RowsOf

\* A merge whose result has just been written has written rows of its sources only.
LEMMA WrittenRows ==
  ASSUME TypeOK, IndInv, PartsKept, NEW m \in merges, NEW p \in m.dst, NEW lost \in SUBSET Rows,
         merge_parts_internal(m, p, lost), NEW n \in merges' \ merges
  PROVE  RowsOf(n.dst)' \subseteq RowsOf(n.src)'
<1> USE DEF mem, tbl, disk, users, hist, bounds
<1> DEFINE rows == RowsOf(m.src) \ lost
<1>1. /\ n = [m EXCEPT !.phase = "written", !.dst = IF rows = {} THEN {} ELSE @]
      /\ part' = [part EXCEPT ![p] = IF rows = {} THEN NoPart ELSE [@ EXCEPT !.rows = rows]]
      /\ merges' = (merges \ {m}) \cup {n}
  BY DEF merge_parts_internal
<1>2. m \in Merge /\ p \in PartIds /\ m.dst = {p}
  BY RefsTyped DEF TypeOK, IndInv, TableInv, MergeTargets, TargetOf
<1>3. n.src = m.src /\ n.dst = IF rows = {} THEN {} ELSE {p}
  BY <1>1, <1>2 DEF Merge
<1>4. m.src \subseteq AllRefs /\ n.src \subseteq AllRefs'
  <2>1. m.src \subseteq AllRefs
    BY RefsAre DEF AllRefs
  <2>2. n.src \subseteq AllRefs'
    BY <1>1, RefsAre DEF AllRefs
  <2> QED BY <2>1, <2>2
<1>5. RowsOf(m.src)' = RowsOf(m.src)
  BY <1>3, <1>4, SameRowsOf
<1>6. CASE rows = {}
  BY <1>3, <1>6 DEF RowsOf
<1>7. CASE rows # {}
  <2>1. part'[p].rows = rows
    BY ZenonT(40), <1>1, <1>2, <1>7 DEF TypeOK, Part
  <2>2. n.dst = {p}
    BY <1>3, <1>7
  <2>3. RowsOf(n.dst)' = rows
    <3> HIDE DEF rows
    <3> QED BY <2>1, <2>2 DEF RowsOf
  <2> QED BY <1>3, <1>5, <2>3
<1> QED BY <1>6, <1>7

\* Where a merge with a written result comes from.
LEMMA NewWritten ==
  ASSUME TypeOK, IndInv, Next, NEW n \in merges', n \notin merges, n.phase = "written"
  PROVE  \/ n.dst = {}
         \/ \E m \in merges : \E p \in m.dst, lost \in SUBSET Rows : merge_parts_internal(m, p, lost)
<1> USE DEF mem, tbl, disk, users, hist, bounds
<1>1. \A o, G : \A x \in Picked(o, G) : x.phase = "picked"
  BY DEF Picked
<1>2. ASSUME Ingest PROVE merges' = merges
  BY <1>2 DEF Ingest, add_rows, add_rows_to_flush, pending_rows_flusher, append_raw_rows_to_flush,
         add_to_inmemory_parts, FlushNothing, DeadlinePasses
<1>3. ASSUME Read PROVE n.phase = "picked"
  BY <1>1, <1>3 DEF Read, get_parts, EndSearch, must_create_snapshot_at, SnapFlushParts, PickParts, SnapRefParts,
         must_hard_link_parts, SnapDone
<1>4. ASSUME Life PROVE n.phase = "picked"
  BY <1>1, <1>4 DEF Life, must_close, signal, CloseFlushRows, CloseFlushParts, PickParts, CloseDone, Crash,
         must_open_partition
<1>5. ASSUME MergeStep
      PROVE  \/ n.dst = {}
             \/ \E m \in merges : \E p \in m.dst, lost \in SUBSET Rows : merge_parts_internal(m, p, lost)
  <2>1. ASSUME NEW S, parts_merger(S) \/ inmemory_parts_flusher(S) \/ force_merge_all_parts(S) PROVE n.phase = "picked"
    BY <1>1, <2>1 DEF parts_merger, inmemory_parts_flusher, force_merge_all_parts, PickParts
  <2>2. ASSUME remove_stale_parts PROVE n.dst = {}
    BY <2>2 DEF remove_stale_parts
  <2>3. ASSUME NEW m \in merges, ForciblyStopped(m) \/ release_parts_to_merge(m) PROVE FALSE
    BY <2>3 DEF ForciblyStopped, release_parts_to_merge
  <2>4. ASSUME NEW m \in merges, NEW k \in Kinds, merge_parts(m, k) PROVE FALSE
    <3>1. PICK d : n = [m EXCEPT !.dst = d, !.phase = "writing"]
      BY <2>4 DEF merge_parts
    <3>2. m \in Merge
      BY DEF TypeOK
    <3> QED BY <3>1, <3>2 DEF Merge
  <2>5. ASSUME NEW m \in merges, swap_src_with_dst_parts(m) PROVE FALSE
    <3>1. n = [m EXCEPT !.phase = "swapped", !.dst = {}]
      BY <2>5 DEF swap_src_with_dst_parts
    <3>2. m \in Merge
      BY DEF TypeOK
    <3> QED BY <3>1, <3>2 DEF Merge
  <2>6. ASSUME NEW p \in PartIds, remove_dir(p) PROVE FALSE
    BY <2>6 DEF remove_dir
  <2>7. ASSUME NEW r \in Rows, Perish(r) PROVE FALSE
    BY <2>7 DEF Perish
  <2> QED BY <1>5, <2>1, <2>2, <2>3, <2>4, <2>5, <2>6, <2>7 DEF MergeStep
<1> QED BY <1>2, <1>3, <1>4, <1>5 DEF Next

\* Merges go on adding no row.
LEMMA MergedStep == ASSUME TypeOK, IndInv, MergedRows, Next PROVE MergedRows'
<1>1. PartsKept
  BY PartsAreKept
<1>2. SUFFICES ASSUME NEW n \in merges', n.phase = "written" PROVE RowsOf(n.dst)' \subseteq RowsOf(n.src)'
  BY DEF MergedRows
<1>3. CASE n \in merges
  <2>1. n.src \subseteq AllRefs /\ n.src \subseteq AllRefs'
    <3>1. n.src \subseteq AllRefs
      BY <1>3, RefsAre DEF AllRefs
    <3>2. n.src \subseteq AllRefs'
      BY RefsAre DEF AllRefs
    <3> QED BY <3>1, <3>2
  <2>2. RowsOf(n.src)' = RowsOf(n.src)
    BY <1>1, <2>1, SameRowsOf
  <2>3. RowsOf(n.dst)' = RowsOf(n.dst)
    BY <1>1, <1>3 DEF PartsKept, RowsOf
  <2> QED BY <1>2, <1>3, <2>2, <2>3 DEF MergedRows
<1>4. CASE n \notin merges
  <2>1. CASE n.dst = {}
    BY <2>1 DEF RowsOf
  <2> QED BY <1>1, <1>2, <1>4, <2>1, NewWritten, WrittenRows
<1> QED BY <1>3, <1>4

\* A search has the parts it had, lets go of them or takes those of the table.
LEMMA SearchParts ==
  ASSUME TypeOK, Next, NEW s \in Searchers
  PROVE  \/ searches'[s] = searches[s] \/ searches'[s] = {}
         \/ searches'[s] = listed /\ part' = part /\ status = "open"
<1> USE DEF mem, tbl, disk, users, hist, bounds
<1>1. CASE Ingest
  BY <1>1 DEF Ingest, add_rows, add_rows_to_flush, pending_rows_flusher, append_raw_rows_to_flush,
         add_to_inmemory_parts, FlushNothing, DeadlinePasses
<1>2. CASE MergeStep
  BY ZenonT(40), <1>2 DEF MergeStep, parts_merger, inmemory_parts_flusher, force_merge_all_parts, remove_stale_parts, ForciblyStopped,
         merge_parts, merge_parts_internal, swap_src_with_dst_parts, release_parts_to_merge, remove_dir, Perish
<1>3. CASE Read
  <2>1. ASSUME NEW q \in Searchers, get_parts(q) \/ EndSearch(q)
        PROVE  \/ searches'[s] = searches[s] \/ searches'[s] = {}
               \/ searches'[s] = listed /\ part' = part /\ status = "open"
    BY <2>1 DEF get_parts, EndSearch, TypeOK
  <2> QED BY <1>3, <2>1 DEF Read, must_create_snapshot_at, SnapFlushParts, SnapRefParts, must_hard_link_parts, SnapDone
<1>4. CASE Life
  BY <1>4 DEF Life, must_close, signal, CloseFlushRows, CloseFlushParts, CloseDone, Crash, must_open_partition
<1> QED BY <1>1, <1>2, <1>3, <1>4 DEF Next

\* The parts of a search stay apart.
LEMMA SearchStep ==
  ASSUME TypeOK, IndInv, PlaceInv, Next, NEW s \in Searchers, PartsApart(searches[s])
  PROVE  PartsApart(searches[s])'
<1>1. PartsKept
  BY PartsAreKept
<1>2. CASE searches'[s] = searches[s]
  <2>1. \A q \in searches[s] : q \in AllRefs /\ q \in AllRefs'
    <3>1. \A q \in searches[s] : q \in AllRefs
      BY RefsAre DEF AllRefs
    <3>2. \A q \in searches'[s] : q \in AllRefs'
      BY RefsAre DEF AllRefs
    <3> QED BY <1>2, <3>1, <3>2
  <2> QED BY <1>1, <1>2, <2>1 DEF PartsKept, PartsApart
<1>3. CASE searches'[s] = {}
  BY <1>3 DEF PartsApart
<1>4. CASE searches'[s] = listed /\ part' = part /\ status = "open"
  BY <1>4 DEF PartsApart, PlaceInv, Live
<1> QED BY <1>2, <1>3, <1>4, SearchParts

\* Dropped rows stay dropped, and durable ones stay durable or are dropped.
LEMMA DroppedGrows == ASSUME TypeOK, IndInv, Next PROVE dropped \subseteq dropped' /\ DurableKept
<1>1. DurableKept
  BY KeptByIngest, KeptByMerge, KeptByRead, KeptByLife DEF Next
<1>2. dropped \subseteq dropped'
  BY StepCases DEF MovesRows, SameRows, add_rows, add_rows_to_flush, append_raw_rows_to_flush,
         add_to_inmemory_parts, FlushNothing, swap_src_with_dst_parts, Crash, hist
<1> QED BY <1>1, <1>2

\* A merge that a snapshot waits for goes on, or has made its rows durable.
LEMMA FlushGoesOn ==
  ASSUME TypeOK, IndInv, Next, snap' = snap, snap.pc = "parts", NEW m \in Flushing
  PROVE  \/ \E n \in Flushing' : n.src = m.src
         \/ RowsOf(m.src) \subseteq DurableRows' \cup dropped'
<1> USE DEF mem, tbl, disk, users, hist, bounds
<1>1. m \in merges /\ m \in Merge /\ m.owner = "snapshot" /\ m.phase # "swapped"
  BY DEF Flushing, TypeOK
<1>2. ASSUME merges \subseteq merges' PROVE \E n \in Flushing' : n.src = m.src
  BY <1>1, <1>2 DEF Flushing
<1>3. ASSUME Ingest PROVE merges' = merges
  BY <1>3 DEF Ingest, add_rows, add_rows_to_flush, pending_rows_flusher, append_raw_rows_to_flush,
         add_to_inmemory_parts, FlushNothing, DeadlinePasses
<1>4. ASSUME Read PROVE merges \subseteq merges'
  BY <1>4 DEF Read, get_parts, EndSearch, must_create_snapshot_at, SnapFlushParts, PickParts, SnapRefParts,
         must_hard_link_parts, SnapDone
<1>5. ASSUME Life PROVE merges \subseteq merges'
  <2>1. ASSUME Crash PROVE FALSE
    <3>1. snap'.pc = "idle"
      BY <2>1 DEF Crash, NoSnap
    <3> QED BY <3>1
  <2> QED BY <1>5, <2>1 DEF Life, must_close, signal, CloseFlushRows, CloseFlushParts, PickParts, CloseDone,
            must_open_partition
<1>6. ASSUME NEW n, merges' = (merges \ {m}) \cup {n}, n.owner = m.owner, n.src = m.src, n.phase # "swapped"
      PROVE  \E x \in Flushing' : x.src = m.src
  BY <1>1, <1>6 DEF Flushing
<1>7. ASSUME NEW x \in merges, merges \ {x} \subseteq merges', x # m PROVE \E n \in Flushing' : n.src = m.src
  BY <1>1, <1>7 DEF Flushing
<1>8. ASSUME MergeStep
      PROVE  \/ \E n \in Flushing' : n.src = m.src
             \/ RowsOf(m.src) \subseteq DurableRows' \cup dropped'
  <2>1. ASSUME NEW S, parts_merger(S) \/ inmemory_parts_flusher(S) \/ force_merge_all_parts(S) PROVE merges \subseteq merges'
    BY <2>1 DEF parts_merger, inmemory_parts_flusher, force_merge_all_parts, PickParts
  <2>2. ASSUME remove_stale_parts PROVE merges \subseteq merges'
    BY <2>2 DEF remove_stale_parts
  <2>3. ASSUME NEW x \in merges, ForciblyStopped(x) \/ release_parts_to_merge(x) PROVE merges \ {x} \subseteq merges' /\ x # m
    BY <1>1, <2>3 DEF ForciblyStopped, release_parts_to_merge
  <2>4. ASSUME NEW x \in merges, NEW k \in Kinds, merge_parts(x, k) PROVE \E n \in Flushing' : n.src = m.src
    <3>1. PICK n, d : n = [x EXCEPT !.dst = d, !.phase = "writing"] /\ merges' = (merges \ {x}) \cup {n}
      BY <2>4 DEF merge_parts
    <3>2. CASE x = m
      <4>1. n.owner = m.owner /\ n.src = m.src /\ n.phase # "swapped"
        BY <1>1, <3>1, <3>2 DEF Merge
      <4> QED BY <1>6, <3>1, <3>2, <4>1
    <3> QED BY <1>7, <3>1, <3>2
  <2>5. ASSUME NEW x \in merges, NEW p \in x.dst, NEW lost \in SUBSET Rows, merge_parts_internal(x, p, lost)
        PROVE  \E n \in Flushing' : n.src = m.src
    <3>1. PICK n, d : n = [x EXCEPT !.phase = "written", !.dst = d] /\ merges' = (merges \ {x}) \cup {n}
      BY <2>5 DEF merge_parts_internal
    <3>2. CASE x = m
      <4>1. n.owner = m.owner /\ n.src = m.src /\ n.phase # "swapped"
        BY <1>1, <3>1, <3>2 DEF Merge
      <4> QED BY <1>6, <3>1, <3>2, <4>1
    <3> QED BY <1>7, <3>1, <3>2
  <2>6. ASSUME NEW x \in merges, swap_src_with_dst_parts(x)
        PROVE  \/ \E n \in Flushing' : n.src = m.src
               \/ RowsOf(m.src) \subseteq DurableRows' \cup dropped'
    <3>1. CASE x # m
      <4>1. merges \ {x} \subseteq merges'
        BY <2>6 DEF swap_src_with_dst_parts
      <4> QED BY <1>7, <3>1, <4>1
    <3>2. CASE x = m
      <4>1. /\ m.phase = "written" /\ listed' = (listed \ m.src) \cup m.dst
            /\ part' = [p \in PartIds |-> IF p \in m.dst THEN get_flush_to_disk_deadline(p, m) ELSE part[p]]
            /\ dropped' = dropped \cup (RowsOf(m.src) \ RowsOf(m.dst))
        BY <2>6, <3>2 DEF swap_src_with_dst_parts
      <4>2. \A q \in PartIds : part'[q].kind = part[q].kind /\ part'[q].rows = part[q].rows
        BY <4>1 DEF get_flush_to_disk_deadline, TypeOK, Part
      <4>3. status \notin Over /\ status' = status
        <5>1. m.src \subseteq listed
          BY <1>1, <4>1 DEF IndInv, TableInv, MergeSources
        <5> QED BY <1>1, <2>6, <3>2, <5>1, MergesMeanUp DEF swap_src_with_dst_parts, Panic
      <4>4. partsJson' = FileParts(listed)'
        BY <1>1, <2>6, <3>2, <4>3, SwapInd DEF IndInv, TableInv, JsonIsList, Over
      <4>5. \A p \in m.dst : p \in PartIds /\ ~isInmemory(p)
        BY <1>1, RefsTyped DEF IndInv, TableInv, MergeTargets, TargetOf, isFinal
      <4>6. m.dst \subseteq partsJson'
        BY <4>1, <4>2, <4>4, <4>5 DEF FileParts, isInmemory
      <4>7. RowsOf(m.dst) \subseteq DurableRows'
        BY <4>2, <4>5, <4>6 DEF RowsOf, DurableRows
      <4> QED BY <4>1, <4>7
    <3> QED BY <3>1, <3>2
  <2>7. ASSUME NEW p \in PartIds, remove_dir(p) PROVE merges \subseteq merges'
    BY <2>7 DEF remove_dir
  <2>8. ASSUME NEW r \in Rows, Perish(r) PROVE merges \subseteq merges'
    BY <2>8 DEF Perish
  <2> QED BY <1>2, <1>7, <1>8, <2>1, <2>2, <2>3, <2>4, <2>5, <2>6, <2>7, <2>8 DEF MergeStep
<1> QED BY <1>2, <1>3, <1>4, <1>5, <1>8 DEF Next

\* Steps of others keep what a snapshot has to contain.
LEMMA SnapSame ==
  ASSUME TypeOK, IndInv, SnapKeeps, Next, snap' = snap PROVE SnapKeeps'
<1>1. PartsKept /\ DurableKept /\ dropped \subseteq dropped'
  BY PartsAreKept, DroppedGrows
<1>2. \A r \in DurableRows \cup dropped : r \in DurableRows' \cup dropped'
  BY <1>1 DEF DurableKept
<1>3. snap.pc = "rows" => snap.must \subseteq DurableRows' \cup dropped'
  BY <1>2 DEF SnapKeeps
<1>4. ASSUME snap.pc = "parts", NEW r \in snap.must
      PROVE  r \in DurableRows' \cup dropped' \/ \E m \in Flushing' : r \in RowsOf(m.src)'
  <2>1. CASE r \in DurableRows \cup dropped
    BY <1>2, <2>1
  <2>2. ASSUME NEW m \in Flushing, r \in RowsOf(m.src)
        PROVE  r \in DurableRows' \cup dropped' \/ \E n \in Flushing' : r \in RowsOf(n.src)'
    <3>1. ASSUME NEW n \in Flushing', n.src = m.src PROVE r \in RowsOf(n.src)'
      <4>1. m.src \subseteq AllRefs
        BY RefsAre DEF AllRefs, Flushing
      <4>2. n.src \subseteq AllRefs'
        BY RefsAre DEF AllRefs, Flushing
      <4>3. RowsOf(m.src)' = RowsOf(m.src)
        BY <1>1, <3>1, <4>1, <4>2, SameRowsOf
      <4> QED BY <2>2, <3>1, <4>3
    <3> QED BY <1>4, <2>2, <3>1, FlushGoesOn
  <2> QED BY <1>4, <2>1, <2>2 DEF SnapKeeps
<1>5. ASSUME snap.pc = "link"
      PROVE  /\ snap.linked \subseteq snap.parts /\ RowsOf(snap.linked)' \subseteq snap.rows
             /\ snap.must \subseteq RowsOf(snap.parts)' \cup dropped'
  <2>1. \A q \in snap.parts : q \in AllRefs /\ q \in AllRefs'
    <3>1. \A q \in snap.parts : q \in AllRefs
      BY RefsAre DEF AllRefs
    <3>2. \A q \in snap'.parts : q \in AllRefs'
      BY RefsAre DEF AllRefs
    <3> QED BY <3>1, <3>2
  <2>2. \A q \in snap.parts : part'[q].rows = part[q].rows
    BY <1>1, <2>1 DEF PartsKept
  <2>3. snap.linked \subseteq snap.parts
    BY <1>5 DEF SnapKeeps
  <2>4. RowsOf(snap.parts)' = RowsOf(snap.parts) /\ RowsOf(snap.linked)' = RowsOf(snap.linked)
    BY <2>2, <2>3 DEF RowsOf
  <2> QED BY <1>1, <1>5, <2>3, <2>4 DEF SnapKeeps
<1>6. snap.pc = "done" => snap.must \subseteq snap.rows \cup dropped'
  BY <1>1 DEF SnapKeeps
<1> QED BY <1>3, <1>4, <1>5, <1>6 DEF SnapKeeps

\* The snapshot's own steps.
LEMMA SnapStep == ASSUME TypeOK, IndInv, SnapKeeps, Next PROVE SnapKeeps'
<1> USE DEF mem, tbl, disk, users, hist, bounds
<1>0. snap \in Snap
  BY DEF TypeOK
<1>1. ASSUME must_create_snapshot_at PROVE SnapKeeps'
  <2>1. /\ snap'.pc = "rows" /\ snap'.must = DurableRows /\ snap'.linked = {}
        /\ part' = part /\ partsJson' = partsJson
    BY <1>1 DEF must_create_snapshot_at, NoSnap
  <2>2. DurableRows' = DurableRows
    BY <2>1 DEF DurableRows, RowsOf
  <2> QED BY <2>1, <2>2 DEF SnapKeeps
<1>2. ASSUME NEW G \in Groups(PartsToFlush(TRUE)), SnapFlushParts(G) PROVE SnapKeeps'
  <2>1. /\ snap.pc = "rows" /\ snap'.pc = "parts" /\ snap'.linked = snap.linked
        /\ snap'.must = snap.must \cup DurableRows \cup RowsOf(PartsToFlush(TRUE))
        /\ part' = part /\ partsJson' = partsJson /\ dropped' = dropped /\ merges' = merges \cup Picked("snapshot", G)
    BY <1>0, <1>2 DEF SnapFlushParts, PickParts, Snap
  <2>2. DurableRows' = DurableRows /\ snap.linked = {} /\ snap.must \subseteq DurableRows \cup dropped
    BY <2>1 DEF DurableRows, RowsOf, SnapKeeps
  <2>3. ASSUME NEW r \in RowsOf(PartsToFlush(TRUE)) PROVE \E m \in Flushing' : r \in RowsOf(m.src)'
    <3>1. PICK p \in PartsToFlush(TRUE) : r \in part[p].rows
      BY <2>3 DEF RowsOf
    <3>2. PICK g \in G : p \in g
      <4>1. UNION G = PartsToFlush(TRUE)
        BY Zenon DEF Groups
      <4> QED BY ONLY <3>1, <4>1
    <3> DEFINE m == [owner |-> "snapshot", src |-> g, dst |-> {}, phase |-> "picked"]
    <3>3. m \in Picked("snapshot", G) /\ m.src = g /\ m.owner = "snapshot" /\ m.phase = "picked"
      BY DEF Picked
    <3> HIDE DEF m
    <3>4. m \in Flushing' /\ p \in m.src
      BY <2>1, <3>2, <3>3 DEF Flushing
    <3>5. r \in RowsOf(m.src)'
      BY <2>1, <3>1, <3>4 DEF RowsOf
    <3> QED BY <3>4, <3>5
  <2> QED BY <2>1, <2>2, <2>3 DEF SnapKeeps
<1>3. ASSUME SnapRefParts PROVE SnapKeeps'
  <2>1. /\ snap.pc = "parts" /\ snap'.pc = "link" /\ snap'.parts = FileParts(listed) /\ snap'.linked = snap.linked
        /\ snap'.must = snap.must /\ snap'.rows = snap.rows /\ part' = part /\ dropped' = dropped /\ ~Merging("snapshot")
    BY <1>0, <1>3 DEF SnapRefParts, Snap
  <2>2. Flushing = {} /\ snap.linked = {}
    BY <2>1 DEF Flushing, Merging, SnapKeeps
  <2>3. status = "open"
    BY <2>1, UsersMeanOpen DEF NoUsers
  <2>4. FileParts(listed) = partsJson
    BY <2>3 DEF IndInv, TableInv, JsonIsList
  <2>5. RowsOf(snap.parts)' = DurableRows
    BY <2>1, <2>4 DEF RowsOf, DurableRows
  <2>6. snap.must \subseteq DurableRows \cup dropped
    BY <2>1, <2>2 DEF SnapKeeps
  <2>7. RowsOf(snap.linked)' = {}
    BY <2>1, <2>2 DEF RowsOf
  <2> QED BY <2>1, <2>2, <2>5, <2>6, <2>7 DEF SnapKeeps
<1>4. ASSUME NEW p \in PartIds, must_hard_link_parts(p) PROVE SnapKeeps'
  <2>1. /\ snap.pc = "link" /\ snap'.pc = "link" /\ snap'.parts = snap.parts /\ snap'.linked = snap.linked \cup {p}
        /\ snap'.must = snap.must /\ snap'.rows = snap.rows \cup part[p].rows /\ part' = part /\ dropped' = dropped
        /\ p \in snap.parts
    BY <1>0, <1>4 DEF must_hard_link_parts, Snap
  <2>2. RowsOf(snap.parts)' = RowsOf(snap.parts) /\ RowsOf(snap.linked)' = RowsOf(snap.linked) \cup part[p].rows
    BY <2>1 DEF RowsOf
  <2> QED BY <2>1, <2>2 DEF SnapKeeps
<1>5. ASSUME SnapDone PROVE SnapKeeps'
  <2>1. /\ snap.pc = "link" /\ snap'.pc = "done" /\ snap'.linked = {} /\ snap.parts = snap.linked
        /\ snap'.must = snap.must /\ snap'.rows = snap.rows /\ dropped' = dropped
    BY <1>0, <1>5 DEF SnapDone, Snap
  <2> QED BY <2>1 DEF SnapKeeps
<1>6. ASSUME Crash PROVE SnapKeeps'
  BY <1>6 DEF Crash, NoSnap, SnapKeeps
<1>7. \/ snap' = snap \/ must_create_snapshot_at \/ (\E G \in Groups(PartsToFlush(TRUE)) : SnapFlushParts(G))
      \/ SnapRefParts \/ (\E p \in PartIds : must_hard_link_parts(p)) \/ SnapDone \/ Crash
  <2>1. ASSUME Ingest PROVE snap' = snap
    <3>1. ASSUME NEW a \in Adders, NEW s \in Shards, NEW r \in Rows, add_rows(a, s, r) PROVE snap' = snap
      BY ONLY <3>1 DEF add_rows, users
    <3>2. ASSUME NEW a \in Adders, add_rows_to_flush(a) PROVE snap' = snap BY ONLY <3>2 DEF add_rows_to_flush, users
    <3>3. ASSUME pending_rows_flusher PROVE snap' = snap BY ONLY <3>3 DEF pending_rows_flusher, users
    <3>4. ASSUME NEW f \in Flushers, NEW s \in Shards, append_raw_rows_to_flush(f, s) PROVE snap' = snap
      BY ONLY <3>4 DEF append_raw_rows_to_flush, users
    <3>5. ASSUME NEW f \in Flushers, NEW bs, NEW gone, add_to_inmemory_parts(f, bs, gone) PROVE snap' = snap
      BY ONLY <3>5 DEF add_to_inmemory_parts, users
    <3>6. ASSUME NEW f \in Flushers, FlushNothing(f) PROVE snap' = snap BY ONLY <3>6 DEF FlushNothing, users
    <3>7. ASSUME NEW p \in PartIds, DeadlinePasses(p) PROVE snap' = snap BY ONLY <3>7 DEF DeadlinePasses, users
    <3> QED BY ONLY <2>1, <3>1, <3>2, <3>3, <3>4, <3>5, <3>6, <3>7 DEF Ingest
  <2>2. ASSUME MergeStep PROVE snap' = snap
    BY ZenonT(40), <2>2 DEF MergeStep, parts_merger, inmemory_parts_flusher, force_merge_all_parts, remove_stale_parts,
           ForciblyStopped, merge_parts, merge_parts_internal, swap_src_with_dst_parts, release_parts_to_merge,
           remove_dir, Perish
  <2>3. ASSUME Life PROVE snap' = snap \/ Crash
    BY <2>3 DEF Life, must_close, signal, CloseFlushRows, CloseFlushParts, CloseDone, must_open_partition
  <2> QED BY <2>1, <2>2, <2>3 DEF Next, Read, get_parts, EndSearch
<1> QED BY <1>1, <1>2, <1>3, <1>4, <1>5, <1>6, <1>7, SnapSame

----------------------------------------------------------------------------
(* The theorems about rows.                                                *)

\* Initially there are no rows.
LEMMA RowsStart == ASSUME Init PROVE RowInv
<1>1. RawRowsApart /\ \A r : ~Raw(r)
  BY DEF Init, RawRowsApart, Apart, Raw, Sharded, Queued, HeldBy, Idle
<1>2. Live = {} /\ RowsOf(Live) = {} /\ PartsApart(Live)
  BY DEF Init, Live, RowsOf, PartsApart
<1>3. RowsPlaced
  BY <1>1, <1>2 DEF Init, RowsPlaced
<1>4. MergedRows /\ \A s \in Searchers : PartsApart(searches[s])
  BY DEF Init, MergedRows, PartsApart
<1>5. SnapKeeps
  BY DEF Init, SnapKeeps, NoSnap
<1> QED BY <1>1, <1>2, <1>3, <1>4, <1>5 DEF RowInv

\* Every step keeps the invariant about rows.
LEMMA RowsStep == ASSUME TypeOK, IndInv, RowInv, [Next]_vars PROVE RowInv'
<1>1. CASE Next
  <2>1. PlaceInv'
    BY <1>1, PlacesStep DEF RowInv, PlaceInv
  <2>2. MergedRows' /\ SnapKeeps'
    BY <1>1, MergedStep, SnapStep DEF RowInv
  <2>3. \A s \in Searchers : PartsApart(searches[s])'
    BY <1>1, SearchStep DEF RowInv, PlaceInv
  <2> QED BY <2>1, <2>2, <2>3 DEF RowInv, PlaceInv
<1>2. CASE UNCHANGED vars
  <2> USE DEF vars, mem, tbl, disk, users, hist, bounds
  <2>1. RawRowsApart' /\ \A r : Raw(r)' <=> Raw(r)
    BY <1>2 DEF RowInv, RawRowsApart, Apart, Raw, Sharded, Queued, HeldBy
  <2>2. Live' = Live /\ (RowsOf(Live)' = RowsOf(Live)) /\ PartsApart(Live)'
    BY <1>2 DEF RowInv, Live, RowsOf, PartsApart
  <2>3. RowsPlaced'
    BY <1>2, <2>1, <2>2 DEF RowInv, RowsPlaced
  <2>4. MergedRows' /\ \A s \in Searchers : PartsApart(searches[s])'
    BY <1>2 DEF RowInv, MergedRows, PartsApart, RowsOf
  <2>5. SnapKeeps'
    BY <1>2 DEF RowInv, SnapKeeps, Flushing, DurableRows, RowsOf
  <2> QED BY <2>1, <2>2, <2>3, <2>4, <2>5 DEF RowInv
<1> QED BY <1>1, <1>2

\* The invariant about rows holds in every reachable state of the partition.
THEOREM RowsInductive == Spec => []RowInv
<1>1. Init => RowInv
  BY RowsStart
<1>2. TypeOK /\ IndInv /\ RowInv /\ [Next]_vars => RowInv'
  BY RowsStep
<1> QED BY <1>1, <1>2, TypeCorrect, Inductive, PTL DEF Spec

\* What the containers hold.
LEMMA ContainersAre ==
  ASSUME NEW c
  PROVE  c \in Containers <=>
           \/ \E s \in Shards : c = <<"shard", s>>
           \/ \E b \in rowssToFlush : c = <<"queue", b>>
           \/ \E f \in Flushers : \E b \in hands[f].rowss : c = <<"hand", f, b>>
           \/ \E p \in Live : c = <<"part", p>>
BY DEF Containers

\* What each of them contains.
LEMMA ContentsAre ==
  /\ \A s : Content(<<"shard", s>>) = shards[s]
  /\ \A b : Content(<<"queue", b>>) = b
  /\ \A f, b : Content(<<"hand", f, b>>) = b
  /\ \A p : Content(<<"part", p>>) = part[p].rows
BY DEF Content

\* A row has one container.
LEMMA OneContainer ==
  ASSUME TypeOK, RowInv, NEW r \in accepted
  PROVE  Cardinality({c \in Containers : r \in Content(c)}) = 1
<1> DEFINE W == {c \in Containers : r \in Content(c)}
<1>1. r \in Rows /\ (Raw(r) \/ r \in RowsOf(Live)) /\ (Raw(r) => r \notin RowsOf(Live))
  BY DEF TypeOK, RowInv, RowsPlaced
<1>2. /\ Sharded(r) => ~Queued(r) /\ \A f \in Flushers : ~HeldBy(f, r)
      /\ Queued(r) => \A f \in Flushers : ~HeldBy(f, r)
      /\ \A f, g \in Flushers : HeldBy(f, r) /\ HeldBy(g, r) => f = g
  BY <1>1 DEF RowInv, RawRowsApart
<1>3. \A c : c \in W <=>
        \/ \E s \in Shards : c = <<"shard", s>> /\ r \in shards[s]
        \/ \E b \in rowssToFlush : c = <<"queue", b>> /\ r \in b
        \/ \E f \in Flushers : \E b \in hands[f].rowss : c = <<"hand", f, b>> /\ r \in b
        \/ \E p \in Live : c = <<"part", p>> /\ r \in part[p].rows
  BY ContainersAre, ContentsAre
<1>5. W \in SUBSET Containers
  OBVIOUS
<1> HIDE DEF W
<1>4. \E c : W = {c}
  <2>1. CASE Sharded(r)
    <3>1. PICK s \in Shards : r \in shards[s]
      BY <2>1 DEF Sharded
    <3>2. \A t \in Shards : r \in shards[t] => t = s
      BY <3>1 DEF RowInv, RawRowsApart
    <3>3. ~Queued(r) /\ (\A f \in Flushers : ~HeldBy(f, r)) /\ r \notin RowsOf(Live)
      BY <1>1, <1>2, <2>1 DEF Raw
    <3>4. \A c : c \in W <=> c = <<"shard", s>>
      BY <1>3, <3>1, <3>2, <3>3 DEF Queued, HeldBy, RowsOf
    <3>6. PICK d : d = <<"shard", s>>
      OBVIOUS
    <3>7. \A c : c \in W <=> c = d
      BY <3>4, <3>6
    <3>8. W = {d}
      BY <1>5, <3>7
    <3> QED BY <3>8
  <2>2. CASE Queued(r)
    <3>1. PICK b \in rowssToFlush : r \in b
      BY <2>2 DEF Queued
    <3>2. \A d \in rowssToFlush : r \in d => d = b
      BY <3>1 DEF RowInv, RawRowsApart, Apart
    <3>3. ~Sharded(r) /\ (\A f \in Flushers : ~HeldBy(f, r)) /\ r \notin RowsOf(Live)
      BY <1>1, <1>2, <2>2 DEF Raw
    <3>4. \A c : c \in W <=> c = <<"queue", b>>
      BY <1>3, <3>1, <3>2, <3>3 DEF Sharded, HeldBy, RowsOf
    <3>6. PICK d : d = <<"queue", b>>
      OBVIOUS
    <3>7. \A c : c \in W <=> c = d
      BY <3>4, <3>6
    <3>8. W = {d}
      BY <1>5, <3>7
    <3> QED BY <3>8
  <2>3. ASSUME NEW f \in Flushers, HeldBy(f, r) PROVE \E c : W = {c}
    <3>1. PICK b \in hands[f].rowss : r \in b
      BY <2>3 DEF HeldBy
    <3>2. \A d \in hands[f].rowss : r \in d => d = b
      BY <3>1 DEF RowInv, RawRowsApart, Apart
    <3>3. \A g \in Flushers : HeldBy(g, r) => g = f
      BY <1>2, <2>3
    <3>4. ~Sharded(r) /\ ~Queued(r) /\ r \notin RowsOf(Live)
      BY <1>1, <1>2, <2>3 DEF Raw
    <3>5. \A c : c \in W <=> c = <<"hand", f, b>>
      BY <1>3, <3>1, <3>2, <3>3, <3>4 DEF Sharded, Queued, HeldBy, RowsOf
    <3>6. PICK d : d = <<"hand", f, b>>
      OBVIOUS
    <3>7. \A c : c \in W <=> c = d
      BY <3>5, <3>6
    <3>8. W = {d}
      BY <1>5, <3>7
    <3> QED BY <3>8
  <2>4. CASE r \in RowsOf(Live)
    <3>1. PICK p \in Live : r \in part[p].rows
      BY <2>4 DEF RowsOf
    <3>2. \A q \in Live : r \in part[q].rows => q = p
      BY <3>1 DEF RowInv, PartsApart
    <3>3. ~Sharded(r) /\ ~Queued(r) /\ \A f \in Flushers : ~HeldBy(f, r)
      BY <1>1, <2>4 DEF Raw
    <3>4. \A c : c \in W <=> c = <<"part", p>>
      BY <1>3, <3>1, <3>2, <3>3 DEF Sharded, Queued, HeldBy
    <3>6. PICK d : d = <<"part", p>>
      OBVIOUS
    <3>7. \A c : c \in W <=> c = d
      BY <3>4, <3>6
    <3>8. W = {d}
      BY <1>5, <3>7
    <3> QED BY <3>8
  <2> QED BY <1>1, <2>1, <2>2, <2>3, <2>4 DEF Raw
<1> QED BY <1>4, FS_Singleton DEF W

\* Every accepted row is in exactly one shard, batch or part, through overflowing shards, flushes,
\* merges, crashes and restarts (add_rows, flush_rowss_to_inmemory_parts, swap_src_with_dst_parts).
THEOREM RowsHaveOnePlace == Spec => []RowsInOnePlace
<1>1. TypeOK /\ RowInv => RowsInOnePlace
  BY OneContainer DEF RowsInOnePlace
<1> QED BY <1>1, TypeCorrect, RowsInductive, PTL

\* The parts a search got are complete on disk or in memory and share no row, however many merges
\* have replaced them since (get_parts, PartWrapper::drop).
THEOREM SearchesConsistent == Spec => []SearchSeesConsistentParts
<1>1. IndInv /\ RowInv => SearchSeesConsistentParts
  <2> SUFFICES ASSUME IndInv, RowInv, NEW s \in Searchers
               PROVE  Full(FileParts(searches[s])) /\ PartsApart(searches[s])
    BY DEF SearchSeesConsistentParts, PartsApart
  <2>1. \A p \in searches[s] : p \in AllRefs
    BY RefsAre DEF AllRefs
  <2> QED BY <2>1 DEF Full, FileParts, RowInv, IndInv, TableInv, RefsOnDisk
<1> QED BY <1>1, Inductive, RowsInductive, PTL

\* A finished snapshot has every row it had to contain, unless a merge left it out as dead
\* (must_create_snapshot_at).
THEOREM SnapshotsComplete == Spec => []SnapshotComplete
<1>1. RowInv => SnapshotComplete
  BY DEF RowInv, SnapKeeps, SnapshotComplete
<1> QED BY <1>1, RowsInductive, PTL

\* What the listed parts are after a step.
LEMMA ListedAfter ==
  ASSUME TypeOK, IndInv, Next, NEW q \in listed', q \notin listed
  PROVE  \/ q \in partsJson'
         \/ \E f \in Flushers : \E bs \in SUBSET hands[f].rowss, lost \in SUBSET Rows :
              add_to_inmemory_parts(f, bs, lost)
         \/ \E m \in merges : swap_src_with_dst_parts(m) /\ q \in m.dst
<1> USE DEF mem, tbl, disk, users, hist, bounds
<1>1. ASSUME Ingest
      PROVE  \E f \in Flushers : \E bs \in SUBSET hands[f].rowss, lost \in SUBSET Rows : add_to_inmemory_parts(f, bs, lost)
  BY <1>1 DEF Ingest, add_rows, add_rows_to_flush, pending_rows_flusher, append_raw_rows_to_flush,
         FlushNothing, DeadlinePasses
<1>2. ASSUME MergeStep PROVE \E m \in merges : swap_src_with_dst_parts(m) /\ q \in m.dst
  <2>1. ASSUME NEW m \in merges, swap_src_with_dst_parts(m) PROVE q \in m.dst
    BY <2>1 DEF swap_src_with_dst_parts
  <2> QED BY ZenonT(40), <1>2, <2>1 DEF MergeStep, parts_merger, inmemory_parts_flusher, force_merge_all_parts, PickParts,
         remove_stale_parts, ForciblyStopped, merge_parts, merge_parts_internal, release_parts_to_merge, remove_dir, Perish
<1>3. ASSUME Read PROVE FALSE
  BY <1>3 DEF Read, get_parts, EndSearch, must_create_snapshot_at, SnapFlushParts, PickParts, SnapRefParts,
         must_hard_link_parts, SnapDone
<1>4. ASSUME Life PROVE q \in partsJson'
  BY <1>4 DEF Life, must_close, signal, CloseFlushRows, CloseFlushParts, PickParts, CloseDone, Crash, must_open_partition
<1> QED BY <1>1, <1>2, <1>3, <1>4 DEF Next

\* A row that is due stays due.
LEMMA DueStep ==
  ASSUME TypeOK, IndInv, RowInv, Next, NEW p \in listed, NEW q \in listed', isInmemory(p), part[p].due,
         part'[q].kind = "inmemory", part[p].rows \cap part'[q].rows # {}
  PROVE  part'[q].due
<1> USE DEF mem, tbl, disk, users, hist, bounds
<1>1. status \notin Over /\ Live = listed
  BY DEF IndInv, Closing, Over, Live
<1>2. \A x, y \in listed : part[x].rows \cap part[y].rows # {} => x = y
  BY <1>1 DEF RowInv, PartsApart
<1>3. PartsKept /\ IndInv'
  BY PartsAreKept, NextInd
<1>4. CASE q \in listed
  <2>1. q \in AllRefs /\ q \in AllRefs'
    <3>1. q \in AllRefs
      BY <1>4, RefsAre DEF AllRefs
    <3>2. q \in AllRefs'
      BY RefsAre DEF AllRefs
    <3> QED BY <3>1, <3>2
  <2>2. part'[q].rows = part[q].rows /\ (part[q].due => part'[q].due)
    BY <1>3, <2>1 DEF PartsKept
  <2> QED BY <1>2, <1>4, <2>2
<1>5. CASE q \in partsJson'
  BY <1>3, <1>5 DEF IndInv, TableInv, JsonOnDisk, isInmemory
<1>6. ASSUME q \notin listed, NEW f \in Flushers, NEW bs \in SUBSET hands[f].rowss, NEW lost \in SUBSET Rows,
             add_to_inmemory_parts(f, bs, lost)
      PROVE  FALSE
  <2>1. PICK n : /\ n = next_merge_idx /\ Unused # {} /\ part' = [part EXCEPT ![n].rows = (UNION bs) \ lost]
                 /\ listed' \subseteq listed \cup {n}
    BY <1>6 DEF add_to_inmemory_parts
  <2>2. n = q /\ n \in PartIds
    BY <1>6, <2>1, FreshPart DEF IndInv
  <2>3. part'[q].rows = (UNION bs) \ lost
    BY <2>1, <2>2 DEF TypeOK, Part
  <2>4. PICK r : r \in part[p].rows /\ \E b \in bs : r \in b
    BY <2>3
  <2>5. r \in Rows /\ HeldBy(f, r)
    BY <2>4, RawTyped DEF HeldBy
  <2>6. Raw(r) /\ r \in RowsOf(Live)
    BY <1>1, <2>4, <2>5 DEF Raw, RowsOf
  <2> QED BY <2>5, <2>6 DEF RowInv, RowsPlaced
<1>7. ASSUME NEW m \in merges, swap_src_with_dst_parts(m), q \in m.dst PROVE part'[q].due
  <2>1. /\ m.phase = "written"
        /\ part' = [x \in PartIds |-> IF x \in m.dst THEN get_flush_to_disk_deadline(x, m) ELSE part[x]]
    BY <1>7 DEF swap_src_with_dst_parts
  <2>2. q \in PartIds /\ m.src \subseteq listed
    BY <1>7, <2>1, RefsTyped DEF IndInv, TableInv, MergeSources
  <2>3. part[q] \in Part
    BY <2>2 DEF TypeOK
  <2>4. part'[q] = [part[q] EXCEPT !.due = isInmemory(q) /\ \E x \in m.src : part[x].due]
    BY <1>7, <2>1, <2>2 DEF get_flush_to_disk_deadline
  <2>5. /\ part'[q].rows = part[q].rows /\ part'[q].kind = part[q].kind
        /\ part'[q].due = (isInmemory(q) /\ \E x \in m.src : part[x].due)
    BY <2>3, <2>4 DEF Part
  <2>6. PICK r : r \in part[p].rows /\ r \in RowsOf(m.dst)
    BY <1>7, <2>5 DEF RowsOf
  <2>7. r \in RowsOf(m.src)
    BY <2>1, <2>6 DEF RowInv, MergedRows
  <2>8. PICK x \in m.src : r \in part[x].rows
    BY <2>7 DEF RowsOf
  <2>9. x = p
    BY <1>2, <2>2, <2>6, <2>8
  <2> QED BY <2>5, <2>8, <2>9 DEF isInmemory
<1> QED BY <1>4, <1>5, <1>6, <1>7, ListedAfter

\* No merge and no flush to an in-memory part puts off the flush to disk of a row that is due
\* (get_flush_to_disk_deadline).
THEOREM FlushesNotPostponed == Spec => FlushNotPostponed
<1>1. ASSUME TypeOK, IndInv, RowInv, [Next]_vars
      PROVE  [\A p \in listed, q \in listed' :
                 /\ isInmemory(p) /\ part[p].due
                 /\ part'[q].kind = "inmemory" /\ part[p].rows \cap part'[q].rows # {}
                 => part'[q].due]_vars
  BY <1>1, DueStep
<1>2. TypeOK /\ IndInv /\ RowInv /\ [Next]_vars =>
        [\A p \in listed, q \in listed' :
            /\ isInmemory(p) /\ part[p].due
            /\ part'[q].kind = "inmemory" /\ part[p].rows \cap part'[q].rows # {}
            => part'[q].due]_vars
  BY <1>1
<1> QED BY <1>2, TypeCorrect, Inductive, RowsInductive, PTL DEF Spec, FlushNotPostponed

----------------------------------------------------------------------------
(* The partition implements RowStore.                                      *)

\* The durable rows are among the accepted ones, which have not been left out.
LEMMA DurableAccepted ==
  ASSUME TypeOK, IndInv, RowInv PROVE DurableRows \subseteq accepted /\ accepted \cap dropped = {}
<1>1. DurableRows \subseteq RowsOf(Live) /\ DurableRows \subseteq Rows
  BY JsonLive, RowsTyped DEF DurableRows, RowsOf, TypeOK
<1> QED BY <1>1 DEF RowInv, RowsPlaced

\* Rows die in no step but Perish.
LEMMA DeadStays == ASSUME Next PROVE dead' = dead \/ \E r \in Rows : Perish(r)
<1> USE DEF mem, tbl, disk, users, hist, bounds
<1>1. ASSUME Ingest PROVE dead' = dead
  BY <1>1 DEF Ingest, add_rows, add_rows_to_flush, pending_rows_flusher, append_raw_rows_to_flush,
              add_to_inmemory_parts, FlushNothing, DeadlinePasses
<1>2. ASSUME MergeStep PROVE dead' = dead \/ \E r \in Rows : Perish(r)
  BY ZenonT(40), <1>2 DEF MergeStep, parts_merger, inmemory_parts_flusher, force_merge_all_parts, ForciblyStopped,
              merge_parts, merge_parts_internal, swap_src_with_dst_parts, release_parts_to_merge,
              remove_stale_parts, remove_dir
<1>3. ASSUME Read PROVE dead' = dead
  BY <1>3 DEF Read, get_parts, EndSearch, must_create_snapshot_at, SnapFlushParts, SnapRefParts,
              must_hard_link_parts, SnapDone
<1>4. ASSUME Life PROVE dead' = dead
  BY <1>4 DEF Life, must_close, signal, CloseFlushRows, CloseFlushParts, CloseDone,
              must_open_partition, Crash
<1> QED BY <1>1, <1>2, <1>3, <1>4 DEF Next

\* A step that only moves rows, or leaves out the dead rows lost.
LEMMA IsPersist ==
  ASSUME DurableKept, NEW lost, lost \subseteq accepted \cap dead,
         accepted' = accepted \ lost, dropped' = dropped \cup lost, dead' = dead,
         DurableRows \subseteq accepted, DurableRows' \subseteq accepted', accepted \cap dropped = {}
  PROVE  Store!Next
<1> DEFINE moved == DurableRows' \ DurableRows
<1>1. \A r \in DurableRows : r \in DurableRows' \/ r \in lost
  BY DEF DurableKept
<1>2. moved \in SUBSET (accepted \ DurableRows) /\ lost \in SUBSET dead
  OBVIOUS
<1>3. (accepted \ DurableRows)' = (accepted \ DurableRows) \ (moved \cup lost)
  BY <1>1
<1>4. DurableRows' = (DurableRows \cup moved) \ lost
  BY <1>1
<1>5. Store!Persist(moved, lost)
  BY <1>2, <1>3, <1>4 DEF Store!Persist
<1> HIDE DEF moved
<1> QED BY <1>2, <1>5 DEF Store!Next

\* A step that leaves out nothing.
LEMMA IsQuiet ==
  ASSUME DurableKept, accepted' = accepted, dropped' = dropped, dead' = dead,
         DurableRows \subseteq accepted, DurableRows' \subseteq accepted', accepted \cap dropped = {}
  PROVE  Store!Next
<1>1. accepted' = accepted \ {} /\ dropped' = dropped \cup {} /\ {} \subseteq accepted \cap dead
  OBVIOUS
<1> QED BY <1>1, IsPersist

\* Every step of the partition is a step of the store.
LEMMA StoreStep ==
  ASSUME TypeOK, IndInv, RowInv, Next, DurableRows' \subseteq accepted' PROVE Store!Next
<1> USE DEF mem, tbl, disk, users, hist, bounds
<1>2. /\ DurableRows \subseteq accepted /\ DurableRows' \subseteq accepted'
      /\ accepted \cap dropped = {} /\ DurableKept
  BY DurableAccepted, DroppedGrows
<1>3. ASSUME NEW a \in Adders, NEW s \in Shards, NEW r \in Rows, add_rows(a, s, r) PROVE Store!Next
  <2>1. DurableRows' = DurableRows
    BY <1>3 DEF add_rows, DurableRows, RowsOf
  <2>2. accepted' = accepted \cup {r} /\ r \notin accepted \cup dropped /\ dead' = dead /\ dropped' = dropped
    BY <1>3 DEF add_rows
  <2>3. (accepted \ DurableRows)' = (accepted \ DurableRows) \cup {r}
    BY <1>2, <2>1, <2>2
  <2>4. Store!Add(r)
    BY <1>2, <2>1, <2>2, <2>3 DEF Store!Add
  <2> QED BY <2>4 DEF Store!Next
<1>4. ASSUME NEW r \in Rows, Perish(r) PROVE Store!Next
  <2>1. DurableRows' = DurableRows /\ accepted' = accepted /\ dropped' = dropped /\ dead' = dead \cup {r}
    BY <1>4 DEF Perish, DurableRows, RowsOf
  <2>2. r \in Perishable
    BY <1>4 DEF Perish
  <2>3. Store!Perish(r)
    BY <2>1 DEF Store!Perish
  <2> QED BY <2>2, <2>3 DEF Store!Next
<1>5. ASSUME Crash PROVE Store!Next
  <2>1. /\ partsJson' = partsJson /\ accepted' = DurableRows /\ dropped' = dropped /\ dead' = dead
        /\ \A q \in partsJson : part'[q].rows = part[q].rows
    BY <1>5 DEF Crash, TypeOK
  <2>2. DurableRows' = DurableRows
    BY <2>1 DEF DurableRows, RowsOf
  <2>3. (accepted \ DurableRows)' = {}
    BY <2>1, <2>2
  <2>4. Store!Crash
    BY <2>1, <2>2, <2>3 DEF Store!Crash
  <2> QED BY <2>4 DEF Store!Next
<1>6. ASSUME NEW f \in Flushers, NEW bs \in SUBSET hands[f].rowss, NEW lost \in SUBSET Rows,
             add_to_inmemory_parts(f, bs, lost)
      PROVE  Store!Next
  <2>1. /\ accepted' = accepted \ lost /\ dropped' = dropped \cup lost /\ dead' = dead
        /\ lost \subseteq UNION bs /\ lost \subseteq dead
    BY <1>6 DEF add_to_inmemory_parts, Droppable
  <2>2. \A x \in UNION bs : x \in Rows /\ Raw(x)
    BY RawTyped DEF Raw, HeldBy
  <2>3. lost \subseteq accepted \cap dead
    BY <2>1, <2>2 DEF RowInv, RowsPlaced
  <2> QED BY <1>2, <2>1, <2>3, IsPersist
<1>7. ASSUME NEW m \in merges, swap_src_with_dst_parts(m) PROVE Store!Next
  <2> DEFINE lost == RowsOf(m.src) \ RowsOf(m.dst)
  <2>1. m.phase = "written" /\ accepted' = accepted \ lost /\ dropped' = dropped \cup lost /\ dead' = dead
    BY <1>7 DEF swap_src_with_dst_parts
  <2>2. m.src \subseteq listed /\ lost \subseteq dead
    BY <2>1 DEF IndInv, TableInv, MergeSources, MergeTargets, TargetOf
  <2>3. Live = listed
    BY MergesMeanUp DEF Live, Over
  <2>4. RowsOf(m.src) \subseteq RowsOf(Live) /\ RowsOf(m.src) \subseteq Rows
    <3>1. m.src \in SUBSET PartIds
      BY <2>2 DEF TypeOK
    <3> QED BY <2>2, <2>3, <3>1, RowsTyped DEF RowsOf
  <2>5. lost \subseteq accepted \cap dead
    BY <2>2, <2>4 DEF RowInv, RowsPlaced
  <2> HIDE DEF lost
  <2> QED BY <1>2, <2>1, <2>5, IsPersist
<1>8. ASSUME SameRows PROVE Store!Next
  <2>1. CASE dead' = dead
    BY <1>2, <1>8, <2>1, IsQuiet DEF SameRows
  <2> QED BY <1>4, <2>1, DeadStays
<1>9. ASSUME \/ \E a \in Adders : add_rows_to_flush(a)
             \/ \E f \in Flushers, s \in Shards : append_raw_rows_to_flush(f, s)
             \/ \E f \in Flushers : FlushNothing(f)
      PROVE  Store!Next
  <2>1. accepted' = accepted /\ dropped' = dropped /\ dead' = dead
    BY <1>9 DEF add_rows_to_flush, append_raw_rows_to_flush, FlushNothing
  <2> QED BY <1>2, <2>1, IsQuiet
<1> QED BY <1>3, <1>5, <1>6, <1>7, <1>8, <1>9, StepCases DEF MovesRows

\* The partition implements the two-tier store: seen as rows in memory and rows on disk, whatever
\* its threads do is adding a row, moving rows to disk, leaving out dead ones, or a crash.
THEOREM ImplementsStore == Spec => ImplementsRowStore
<1>1. Init => Store!Init
  <2>1. Init => accepted = {} /\ dead = {} /\ dropped = {} /\ DurableRows = {}
    BY DEF Init, DurableRows, RowsOf
  <2> QED BY <2>1 DEF Store!Init
<1>2. TypeOK /\ IndInv /\ RowInv => DurableRows \subseteq accepted
  BY DurableAccepted
<1>3. /\ TypeOK /\ IndInv /\ RowInv /\ (DurableRows \subseteq accepted)'
      /\ [Next]_vars
      => [Store!Next]_(Store!vars)
  <2>1. ASSUME vars' = vars PROVE Store!vars' = Store!vars
    BY <2>1 DEF vars, tbl, disk, hist, Store!vars, DurableRows, RowsOf
  <2> QED BY <2>1, StoreStep
<1> QED BY <1>1, <1>2, <1>3, TypeCorrect, Inductive, RowsInductive, PTL
        DEF Spec, ImplementsRowStore, Store!Spec
=============================================================================
