---------------------------- MODULE PartitionInv ----------------------------
(***************************************************************************)
(* The inductive invariant behind the safety properties of the partition.  *)
(***************************************************************************)
EXTENDS PartitionProps

AllRefs == Refs(listed, merges, searches, snap)

\* The sources of a merge are flagged, and listed until they are swapped.
MergeSources ==
  \A m \in merges : /\ m.src # {} /\ m.src \subseteq inMerge
                    /\ m.phase # "swapped" => m.src \subseteq listed
                    /\ m.phase = "swapped" => m.src \cap listed = {}

\* The destination of a merge is its own until the swap, and of a kind that keeps
\* durable rows durable; once written it has all rows of the sources but dead ones.
TargetOf(m) ==
  /\ m.phase \in {"picked", "swapped"} => m.dst = {}
  /\ \A p \in m.dst : /\ m.dst = {p} /\ p \notin AllRefs
                      /\ isFinal(m) \/ FileParts(m.src) # {} => ~isInmemory(p)
                      /\ m.phase = "written" => isInmemory(p) \/ dirs[p] = "full"
  /\ m.phase = "written" => RowsOf(m.src) \ RowsOf(m.dst) \subseteq dead
MergeTargets ==
  /\ \A m \in merges : TargetOf(m)
  /\ \A m, n \in merges : m # n => m.dst \cap n.dst = {}

\* What is referenced is in memory or complete on disk; what is to be dropped is
\* referenced by somebody, but not listed.
RefsOnDisk == \A p \in AllRefs : isInmemory(p) \/ dirs[p] = "full"
DropFlags  == mustDrop \cap listed = {} /\ mustDrop \subseteq AllRefs

\* A part in merge is referenced, and a listed one is a source of some merge.
Flags ==
  /\ inMerge \subseteq AllRefs
  /\ \A p \in listed \cap inMerge : \E m \in merges : p \in m.src

\* A snapshot links file parts; a name without a part does not stand for a file part.
SnapFiles  == \A p \in snap.parts : ~isInmemory(p)
FreshNames ==
  \A p \in PartIds :
     p \in AllRefs \/ p \in partsJson \/ (\E m \in merges : p \in m.dst) \/ isInmemory(p)

\* parts.json.
JsonOnDisk == \A p \in partsJson : ~isInmemory(p) /\ dirs[p] = "full"
JsonIsList == status \notin {"closed", "down"} => partsJson = FileParts(listed)

\* What every thread is up to, as far as closing depends on it.
Threads ==
  /\ \A f \in Flushers : hands[f].pc # "take" => hands[f].todo = {}
  /\ \A f \in Flushers : hands[f].pc = "idle" => hands[f].rowss = {}
  /\ hands["snapshot"].pc # "idle" => snap.pc = "rows"
  /\ hands["close"].pc # "idle" => status = "close_rows"
  /\ \A m \in merges : /\ m.owner = "snapshot" => snap.pc = "parts"
                       /\ m.owner = "close" => status = "close_parts"
  /\ snap.pc # "link" => snap.parts = {}

\* A partition being closed has no users, then no workers, then nothing in memory.
Closing ==
  /\ status \in {"stopped", "signalled", "close_rows", "close_parts"} => NoUsers
  /\ status \in {"close_rows", "close_parts"} =>
       /\ ~BackgroundBusy /\ rowssToFlush = {}
       /\ \A s \in Shards : s \in hands["close"].todo \/ shards[s] = {}
  /\ status = "close_parts" =>
       \A p \in listed : isInmemory(p) => \E m \in merges : p \in m.src
  /\ status \in {"closed", "down"} =>
       /\ listed = {} /\ merges = {} /\ NoUsers
       /\ \A f \in Flushers : hands[f].pc = "idle"
       /\ rowssToFlush = {} /\ \A s \in Shards : shards[s] = {}

TableInv ==
  /\ MergeSources /\ MergesDisjoint /\ MergeTargets /\ RefsOnDisk /\ DropFlags /\ Flags
  /\ SnapFiles /\ FreshNames /\ JsonOnDisk /\ JsonIsList

IndInv == NoFatalPanic /\ TableInv /\ Threads /\ Closing /\ OnlyDeadRowsDropped

----------------------------------------------------------------------------
(* Where the rows are.                                                     *)

\* Raw rows are in a shard, in a batch of the queue or in a batch of some thread.
Sharded(r)   == \E s \in Shards : r \in shards[s]
Queued(r)    == \E b \in rowssToFlush : r \in b
HeldBy(f, r) == \E b \in hands[f].rowss : r \in b
Raw(r)       == Sharded(r) \/ Queued(r) \/ \E f \in Flushers : HeldBy(f, r)

Apart(B) == \A b, c \in B : b # c => b \cap c = {}
RawRowsApart ==
  /\ \A s, t \in Shards : s # t => shards[s] \cap shards[t] = {}
  /\ Apart(rowssToFlush) /\ \A f \in Flushers : Apart(hands[f].rowss)
  /\ \A r \in Rows :
       /\ Sharded(r) => ~Queued(r) /\ \A f \in Flushers : ~HeldBy(f, r)
       /\ Queued(r) => \A f \in Flushers : ~HeldBy(f, r)
       /\ \A f, g \in Flushers : HeldBy(f, r) /\ HeldBy(g, r) => f = g

PartsApart(S) == \A p, q \in S : p # q => part[p].rows \cap part[q].rows = {}

\* The accepted rows are the raw ones and those of the parts, which are others.
RowsPlaced ==
  /\ \A r \in Rows : r \in accepted <=> Raw(r) \/ r \in RowsOf(Live)
  /\ \A r \in Rows : Raw(r) => r \notin RowsOf(Live)
  /\ accepted \cap dropped = {}

\* A merge adds no row.
MergedRows == \A m \in merges : m.phase = "written" => RowsOf(m.dst) \subseteq RowsOf(m.src)

\* What the snapshot has to contain is durable or about to be, then referenced, then linked.
Flushing == {m \in merges : m.owner = "snapshot" /\ m.phase # "swapped"}
SnapKeeps ==
  /\ snap.pc = "rows"  => snap.must \subseteq DurableRows \cup dropped
  /\ snap.pc = "parts" => \A r \in snap.must : \/ r \in DurableRows \cup dropped
                                               \/ \E m \in Flushing : r \in RowsOf(m.src)
  /\ snap.pc = "link"  => /\ snap.linked \subseteq snap.parts /\ RowsOf(snap.linked) \subseteq snap.rows
                         /\ snap.must \subseteq RowsOf(snap.parts) \cup dropped
  /\ snap.pc = "done"  => snap.must \subseteq snap.rows \cup dropped
  /\ snap.pc # "grab" /\ (snap.pc # "link" => snap.linked = {})

RowInv ==
  /\ RawRowsApart /\ PartsApart(Live) /\ RowsPlaced /\ MergedRows
  /\ (\A s \in Searchers : PartsApart(searches[s])) /\ SnapKeeps
=============================================================================
