------------------------------ MODULE Mergeset ------------------------------
(***************************************************************************)
(* A table of the mergeset, the log-structured tree the index is kept in   *)
(* (esm-mergeset: raw_items.rs, table.rs, table_merge.rs).  Items go from  *)
(* the raw shards to in-memory parts, where a search finds them, and on to *)
(* file parts.  Two semaphores throttle this: inmemory_parts_limit counts  *)
(* in-memory parts, and inmemory_parts_concurrency counts the threads that *)
(* work on them.                                                           *)
(*                                                                         *)
(* A part is its items and where it is kept; a merge is known by the parts *)
(* it takes.  Which parts suit each other in size is left open.  The list  *)
(* of file parts on disk changes with the list in memory, under one lock,  *)
(* so a crash leaves the file parts and nothing else.                      *)
(***************************************************************************)
EXTENDS Integers, FiniteSets

CONSTANTS
  MaxItems,       \* bound on the items added; the n-th is called n
  IndexAdders,    \* threads that add items
  PendingFlusher, \* the thread of pending_items_flusher
  MaxMemParts,    \* MAX_INMEMORY_PARTS
  CpuSlots,       \* inmemory_parts_concurrency
  MinMerge,       \* the fewest parts a background merge of in-memory parts takes
  MaxTableCrashes \* bound on the crashes

ASSUME MergesetAssumption ==
  /\ MaxItems \in Nat /\ IsFiniteSet(IndexAdders) /\ PendingFlusher \notin IndexAdders
  /\ MaxMemParts \in Nat \ {0} /\ CpuSlots \in Nat \ {0} /\ MinMerge \in Nat \ {0, 1}
  /\ MaxTableCrashes \in Nat

VARIABLES
  added,     \* history: items given to add_items
  rawItems,  \* items in the shards and in ibs_to_flush
  parts,     \* the parts of the table
  inMerge,   \* parts with is_in_merge set
  permits,   \* of inmemory_parts_limit
  slots,     \* of inmemory_parts_concurrency
  flushes,   \* per thread: its flush of blocks to in-memory parts
  toFlush,   \* parts merge_inmemory_parts_to_files has not handed out yet
  merges,    \* the merges under way
  closing,   \* how far must_close has come
  crashed    \* history: crashes

mergesetVars ==
  <<added, rawItems, parts, inMerge, permits, slots, flushes, toFlush, merges, closing, crashed>>

Items        == 1..MaxItems
FlushThreads == IndexAdders \cup {PendingFlusher}
PartSet      == [items : (SUBSET Items) \ {{}}, mem : BOOLEAN]
MemParts     == {p \in parts : p.mem}
Resting      == [pc |-> "idle", items |-> {}]

\* The type of every variable.
MergesetTypeOK ==
  /\ added \subseteq Items /\ rawItems \subseteq added
  /\ parts \subseteq PartSet /\ inMerge \subseteq PartSet /\ toFlush \subseteq PartSet
  /\ permits \in Nat /\ slots \in 0..CpuSlots
  /\ flushes \in [FlushThreads -> [pc : {"idle", "blocks", "part", "push"}, items : SUBSET Items]]
  /\ merges \subseteq [src : SUBSET PartSet, pc : {"picked", "merging", "swapped"}, final : BOOLEAN]
  /\ closing \in {"open", "stopped", "items", "parts", "closed"}
  /\ crashed \in 0..MaxTableCrashes

\* must_open of a table with the file parts fs.
Opened(fs) ==
  /\ rawItems' = {} /\ parts' = fs /\ inMerge' = {}
  /\ permits' = MaxMemParts /\ slots' = CpuSlots
  /\ flushes' = [t \in FlushThreads |-> Resting]
  /\ toFlush' = {} /\ merges' = {} /\ closing' = "open"

MergesetInit ==
  /\ added = {} /\ rawItems = {} /\ parts = {} /\ inMerge = {}
  /\ permits = MaxMemParts /\ slots = CpuSlots
  /\ flushes = [t \in FlushThreads |-> Resting]
  /\ toFlush = {} /\ merges = {} /\ closing = "open" /\ crashed = 0

----------------------------------------------------------------------------
(* From the raw shards to in-memory parts.                                 *)

\* The items fit into a shard.
add_items(a, i) ==
  /\ closing = "open" /\ flushes[a].pc = "idle" /\ added = 1..i - 1
  /\ added' = added \cup {i} /\ rawItems' = rawItems \cup {i}
  /\ UNCHANGED <<parts, inMerge, permits, slots, flushes, toFlush, merges, closing, crashed>>

\* Thread t takes the items S out of the raw shards.
TakeBlocks(t, S) ==
  /\ S # {} /\ flushes[t].pc = "idle"
  /\ rawItems' = rawItems \ S
  /\ flushes' = [flushes EXCEPT ![t] = [pc |-> "blocks", items |-> S]]
  /\ UNCHANGED <<added, parts, inMerge, permits, slots, toFlush, merges, crashed>>

\* A shard and ibs_to_flush overflow, so that the adder has to flush before it goes on.
add_ibs_to_flush(a, S) == closing = "open" /\ TakeBlocks(a, S) /\ UNCHANGED closing

\* Mutant: the deadline is forgotten, so that a single block waits for another.
flush_pending_items_Full(S) ==
  closing \in {"open", "stopped"} /\ Cardinality(S) > 1 /\ TakeBlocks(PendingFlusher, S) /\ UNCHANGED closing

\* The blocks whose deadline has passed, once a second.
flush_pending_items(S) ==
  closing \in {"open", "stopped"} /\ TakeBlocks(PendingFlusher, S) /\ UNCHANGED closing

\* The blocks become a part that is not in the table yet; the slot is held meanwhile.
create_inmemory_part(t) ==
  /\ flushes[t].pc = "blocks" /\ slots > 0
  /\ flushes' = [flushes EXCEPT ![t].pc = "part"]
  /\ UNCHANGED <<added, rawItems, parts, inMerge, permits, slots, toFlush, merges, closing, crashed>>

\* A permit of the limit, or none when there is none and the table stops.
acquire_or_stop ==
  \/ permits > 0 /\ permits' = permits - 1
  \/ permits = 0 /\ closing # "open" /\ permits' = permits

\* A part waits until there are fewer than MAX_INMEMORY_PARTS ...
acquire_limit(t) ==
  /\ flushes[t].pc = "part" /\ acquire_or_stop
  /\ flushes' = [flushes EXCEPT ![t].pc = "push"]
  /\ UNCHANGED <<added, rawItems, parts, inMerge, slots, toFlush, merges, closing, crashed>>

\* ... and joins the table.  Items too many for one part make more of them.
add_to_inmemory_parts(t, S) ==
  /\ flushes[t].pc = "push" /\ S # {}
  /\ parts' = parts \cup {[items |-> S, mem |-> TRUE]}
  /\ flushes' = [flushes EXCEPT ![t] =
       IF S = @.items THEN Resting ELSE [pc |-> "part", items |-> @.items \ S]]
  /\ UNCHANGED <<added, rawItems, inMerge, permits, slots, toFlush, merges, closing, crashed>>

----------------------------------------------------------------------------
(* Merges.                                                                 *)

\* A background merger picks parts of one kind that no merge has.  A merger is started with
\* every part that joins the table; one that picks parts after the shutdown is stopped at once.
get_parts_to_merge(S) ==
  /\ closing = "open"
  /\ S \subseteq parts \ inMerge /\ Cardinality(S) >= MinMerge
  /\ \A p, q \in S : p.mem = q.mem
  /\ inMerge' = inMerge \cup S
  /\ merges' = merges \cup {[src |-> S, pc |-> "picked", final |-> FALSE]}
  /\ UNCHANGED <<added, rawItems, parts, permits, slots, flushes, toFlush, closing, crashed>>

InMemory(g) == \A p \in g.src : p.mem
GoOn(g, pc) == merges' = (merges \ {g}) \cup {[g EXCEPT !.pc = pc]}

\* Mutant: the last block of the merge is not written.
Result_Last(g, m) == LET l == CHOOSE p \in g.src : TRUE
                     IN  [items |-> UNION {p.items : p \in IF g.src = {l} THEN {l} ELSE g.src \ {l}}, mem |-> m]

\* The part that the merge makes.
Result(g, m) == [items |-> UNION {p.items : p \in g.src}, mem |-> m]

\* The merger waits for a slot; file parts have a semaphore of their own, which no thread
\* holds while it waits for anything.
StartMerge(g) ==
  /\ g.pc = "picked" /\ GoOn(g, "merging")
  /\ InMemory(g) => slots > 0
  /\ slots' = IF InMemory(g) THEN slots - 1 ELSE slots
  /\ UNCHANGED <<added, rawItems, parts, inMerge, permits, flushes, toFlush, closing, crashed>>

\* Mutant: parts that are on disk may be merged into memory.
get_dst_part_type_Any(g) == IF g.final THEN {FALSE} ELSE BOOLEAN

\* Whether the result may be kept in memory: not a final one and none with file parts in it,
\* and otherwise one that is not too big.
get_dst_part_type(g) == IF g.final \/ ~InMemory(g) THEN {FALSE} ELSE BOOLEAN

\* Mutant: a merge of file parts gives back a slot as well.
EndMerge_Any(g) ==
  /\ merges' = merges \ {g}
  /\ inMerge' = inMerge \ g.src
  /\ slots' = slots + 1

\* The merge gives back its sources and its slot.
EndMerge(g) ==
  /\ merges' = merges \ {g}
  /\ inMerge' = inMerge \ g.src
  /\ slots' = IF InMemory(g) THEN slots + 1 ELSE slots

\* Mutant: one permit is given back, however many parts were merged.
Released_One(g) == IF InMemory(g) THEN 1 ELSE 0

\* The permits that the in-memory sources give back.
Released(g) == IF InMemory(g) THEN Cardinality(g.src) ELSE 0

\* The result takes the place of the sources, and their permits are given back.  A result in
\* memory needs a permit of its own: the merge is not over before it has that.
swap_src_with_dst_parts(g, mem) ==
  /\ g.pc = "merging" /\ mem \in get_dst_part_type(g)
  /\ parts' = (parts \ g.src) \cup {Result(g, mem)}
  /\ permits' = permits + Released(g)
  /\ IF mem THEN GoOn(g, "swapped") /\ UNCHANGED <<inMerge, slots>> ELSE EndMerge(g)
  /\ UNCHANGED <<added, rawItems, flushes, toFlush, closing, crashed>>

\* The merge has its permit.
AcquireForResult(g) ==
  /\ g.pc = "swapped" /\ acquire_or_stop /\ EndMerge(g)
  /\ UNCHANGED <<added, rawItems, parts, flushes, toFlush, closing, crashed>>

\* The shutdown interrupts a merge that is not final.
ForciblyStopped(g) ==
  /\ g.pc = "merging" /\ ~g.final /\ closing # "open" /\ EndMerge(g)
  /\ UNCHANGED <<added, rawItems, parts, permits, flushes, toFlush, closing, crashed>>

\* The in-memory parts that no merge has: those that are due, or all when the table closes.
FlushParts(S) ==
  /\ S \subseteq MemParts \ inMerge
  /\ toFlush = {} /\ \A g \in merges : ~g.final
  /\ inMerge' = inMerge \cup S /\ toFlush' = S
  /\ UNCHANGED <<added, rawItems, parts, permits, slots, flushes, merges, crashed>>

inmemory_parts_flusher(S) ==
  closing \in {"open", "stopped"} /\ S # {} /\ FlushParts(S) /\ UNCHANGED closing

\* The parts are handed out in groups, each to a thread with a slot.
merge_inmemory_parts_to_files(S) ==
  /\ S # {} /\ slots > 0
  /\ toFlush' = toFlush \ S /\ slots' = slots - 1
  /\ merges' = merges \cup {[src |-> S, pc |-> "merging", final |-> TRUE]}
  /\ UNCHANGED <<added, rawItems, parts, inMerge, permits, flushes, closing, crashed>>

----------------------------------------------------------------------------
(* Closing, and a crash with the restart.                                  *)

NoWork == merges = {} /\ toFlush = {} /\ \A t \in FlushThreads : flushes[t].pc = "idle"

\* must_close, which is not called while the table is in use.
Stop ==
  /\ closing = "open" /\ \A a \in IndexAdders : flushes[a].pc = "idle"
  /\ closing' = "stopped"
  /\ UNCHANGED <<added, rawItems, parts, inMerge, permits, slots, flushes, toFlush, merges, crashed>>

\* Mutant: the blocks in the shards are not flushed.
CloseFlushItems_Skip ==
  /\ closing = "stopped" /\ NoWork /\ closing' = "items"
  /\ UNCHANGED <<added, parts, inMerge, permits, slots, toFlush, merges, crashed, rawItems, flushes>>

\* The workers are gone; the rest of the raw items becomes parts ...
CloseFlushItems ==
  /\ closing = "stopped" /\ NoWork /\ closing' = "items"
  /\ IF rawItems = {} THEN UNCHANGED <<added, rawItems, parts, inMerge, permits, slots, flushes, toFlush, merges, crashed>>
                      ELSE TakeBlocks(PendingFlusher, rawItems)

\* ... and all in-memory parts become file parts.
CloseFlushParts ==
  closing = "items" /\ NoWork /\ closing' = "parts" /\ FlushParts(MemParts \ inMerge)

must_close ==
  /\ closing = "parts" /\ NoWork /\ closing' = "closed"
  /\ UNCHANGED <<added, rawItems, parts, inMerge, permits, slots, flushes, toFlush, merges, crashed>>

\* The process ends anywhere, or after an orderly close; the table is opened again.
CrashTable ==
  /\ crashed < MaxTableCrashes /\ crashed' = crashed + 1
  /\ Opened({p \in parts : ~p.mem}) /\ UNCHANGED added

WriteSteps ==
  \/ \E a \in IndexAdders :
       (\E i \in Items : add_items(a, i)) \/ \E S \in SUBSET rawItems : add_ibs_to_flush(a, S)
  \/ \E S \in SUBSET rawItems : flush_pending_items(S)
  \/ \E t \in FlushThreads :
       \/ create_inmemory_part(t) \/ acquire_limit(t)
       \/ \E S \in SUBSET flushes[t].items : add_to_inmemory_parts(t, S)

MergeSteps ==
  \/ \E S \in SUBSET parts : get_parts_to_merge(S) \/ inmemory_parts_flusher(S)
  \/ \E S \in SUBSET toFlush : merge_inmemory_parts_to_files(S)
  \/ \E g \in merges :
       \/ StartMerge(g) \/ AcquireForResult(g) \/ ForciblyStopped(g)
       \/ \E m \in BOOLEAN : swap_src_with_dst_parts(g, m)

MergesetNext == WriteSteps \/ MergeSteps \/ Stop \/ CloseFlushItems \/ CloseFlushParts \/ must_close \/ CrashTable

MergesetSpec == MergesetInit /\ [][MergesetNext]_mergesetVars
----------------------------------------------------------------------------
(* What makes a table correct.                                             *)

Swapped == {g \in merges : g.pc = "swapped"}
OnDisk  == UNION {p.items : p \in parts \ MemParts}

\* The permits of inmemory_parts_limit match the in-memory parts at every step of every thread,
\* but for parts about to join and results still without a permit; so no permit leaks and the
\* parts exceed the limit by no more than the mergers that wait.
PermitsAccounted ==
  closing = "open" =>
    permits + Cardinality(MemParts) + Cardinality({t \in FlushThreads : flushes[t].pc = "push"})
      = MaxMemParts + Cardinality(Swapped)

\* However flushes and merges interleave, every item is in one place at most, and an item that
\* was added is somewhere unless a crash took it.
ItemsInOnePlace ==
  /\ \A p, q \in parts : p # q => p.items \cap q.items = {}
  /\ \A p \in parts : p.items \cap rawItems = {}
  /\ \A t \in FlushThreads :
       /\ flushes[t].items \cap (rawItems \cup UNION {p.items : p \in parts}) = {}
       /\ \A u \in FlushThreads \ {t} : flushes[t].items \cap flushes[u].items = {}
  /\ crashed = 0 =>
       added = rawItems \cup (UNION {p.items : p \in parts}) \cup (UNION {flushes[t].items : t \in FlushThreads})

\* must_close's assertions hold: it leaves neither raw items nor in-memory parts behind.
CloseLeavesNothing == closing = "closed" => rawItems = {} /\ MemParts = {} /\ inMerge = {}

\* An item that has reached a file part is in a file part ever after, over merges and crashes.
DurableItemsStay == [][OnDisk \subseteq OnDisk']_mergesetVars

\* The guaranteed flush: whatever was added reaches the disk once the adders pause, as they do
\* after MaxItems, unless the process crashes.  No thread waits for ever for a permit or a slot.
ItemsReachDisk == added \ OnDisk # {} ~> added \subseteq OnDisk \/ crashed > 0

\* No item is lost or doubled, no permit leaks and a close leaves nothing in memory, however
\* flushes, merges, a stop and a crash interleave (Table of the mergeset).
MergesetSound == MergesetTypeOK /\ PermitsAccounted /\ ItemsInOnePlace /\ CloseLeavesNothing
=============================================================================
