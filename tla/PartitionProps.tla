--------------------------- MODULE PartitionProps ---------------------------
(***************************************************************************)
(* What makes a partition correct.                                         *)
(***************************************************************************)
EXTENDS Partition

\* No assertion of the code fails: parts.json never lists a part that is missing or
\* incomplete on disk when must_open_parts reads it, swap_src_with_dst_parts finds all
\* its sources in the lists, release_parts_to_merge finds the is_in_merge flags set,
\* must_hard_link_parts finds the directories, and must_close finds nothing in memory.
NoFatalPanic == status # "fatal"

\* The parts of the table, or those it would be opened with.
Live == IF status \in {"closed", "down"} THEN partsJson ELSE listed

\* Where a row may be: the shards, the queue, the threads' hands and the parts.
Containers ==
  UNION { {<<"shard", s>> : s \in Shards},
          {<<"queue", b>> : b \in rowssToFlush},
          UNION {{<<"hand", f, b>> : b \in hands[f].rowss} : f \in Flushers},
          {<<"part", p>> : p \in Live} }
Content(c) ==
  CASE c[1] = "shard" -> shards[c[2]]
    [] c[1] = "queue" -> c[2]
    [] c[1] = "hand"  -> c[3]
    [] c[1] = "part"  -> part[c[2]].rows

\* Every row the partition has accepted is in exactly one place, whatever flushes,
\* merges, stops and failures are under way (add_rows, flush_rowss_to_inmemory_parts,
\* swap_src_with_dst_parts): none is lost, and none is seen twice by a search.
RowsInOnePlace ==
  \A r \in accepted : Cardinality({c \in Containers : r \in Content(c)}) = 1

\* Only rows of deleted series or outside the retention are ever left out by a merge
\* (merge_parts_internal, remove_stale_parts).
OnlyDeadRowsDropped == dropped \subseteq dead

\* parts.json is what the lists of file parts say whenever the lock is free, and all
\* of it is complete on disk (must_write_part_names under the parts lock).
PartsJsonComplete ==
  /\ Full(partsJson)
  /\ status \notin {"closed", "down"} => partsJson = FileParts(listed)

\* A search keeps reading complete parts, and sees no row twice, however many merges
\* replace its parts meanwhile (get_parts, PartWrapper::drop).
SearchSeesConsistentParts ==
  \A s \in Searchers :
     /\ Full(FileParts(searches[s]))
     /\ \A p, q \in searches[s] : p # q => part[p].rows \cap part[q].rows = {}

\* A finished snapshot has every row that was in file parts when it began, or in an
\* in-memory part outside merges when it flushed (must_create_snapshot_at).
SnapshotComplete == snap.pc = "done" => snap.must \subseteq snap.rows \cup dropped

\* No part is a source of two merges at once (the is_in_merge flags).
MergesDisjoint ==
  \A m, n \in merges : m # n => m.src \cap n.src = {}

\* A row that parts.json makes durable stays durable, until its series is deleted or
\* it leaves the retention: merges, crashes and restarts included.
DurableRowsStay ==
  [][\A r \in DurableRows : r \in DurableRows' \/ r \in dead]_vars

\* Merging in-memory parts never postpones the flush to disk of a row that is due
\* (get_flush_to_disk_deadline).
FlushNotPostponed ==
  [][\A p \in listed, q \in listed' :
        /\ isInmemory(p) /\ part[p].due
        /\ part'[q].kind = "inmemory" /\ part[p].rows \cap part'[q].rows # {}
        => part'[q].due]_vars

\* The partition implements the two-tier store that it promises to be: rows in memory,
\* rows on disk, and a crash that costs the former only.
Store == INSTANCE RowStore WITH
           mem <- accepted \ DurableRows, disk <- DurableRows, gone <- dropped

\* Every step of the partition, seen as rows in memory and rows on disk, is a step of
\* RowStore: flushes and merges only move rows towards the disk or leave out dead ones.
ImplementsRowStore == Store!Spec

\* Every accepted row reaches a file part listed in parts.json while the partition stays
\* open (pending_rows_flusher, then inmemory_parts_flusher), unless a merge leaves it out.
RowsBecomeDurable ==
  \A r \in Rows : r \in accepted ~> (r \in DurableRows \/ r \in dropped)

\* must_close terminates: the workers can be joined, and the last flush ends.
CloseTerminates == status = "stopped" ~> status = "closed"
=============================================================================
