-------------------------- MODULE PersistentQueue --------------------------
(***************************************************************************)
(* The durable queue between the agent's ingestion and its remote-write    *)
(* clients: one file per block, named by an index, replayed in the order   *)
(* of the indices when the queue is opened.                                *)
(*                                                                         *)
(* A push holds the mutex from its disk write to the append, so it is one  *)
(* operation for the other threads, but a crash may cut it short anywhere: *)
(* it is modelled by its disk effects, one step each.  Temporary files are *)
(* never taken for blocks and are left out.                                *)
(***************************************************************************)
EXTENDS Integers, Sequences, FiniteSets

CONSTANTS
  Blocks,      \* what a block may hold
  Size,        \* the length of every block
  MaxBytes,    \* max_bytes; 0 means unlimited
  MaxIndex,    \* bound on next_index
  Faulty,      \* the file operations that may fail
  MaxFaults,   \* bound on failing file operations
  MaxCrashes   \* bound on the crashes of the process

ASSUME PersistentQueueAssumption ==
  /\ Size \in [Blocks -> Nat \ {0}]
  /\ Faulty \subseteq {"write", "remove", "read"}
  /\ MaxBytes \in Nat /\ MaxIndex \in Nat /\ MaxFaults \in Nat /\ MaxCrashes \in Nat

VARIABLES
  files,         \* the block files in the queue directory
  blocks,        \* Inner.blocks
  currentBytes,  \* Inner.current_bytes
  nextIndex,     \* Inner.next_index
  writer,        \* the push under way, if any; after a crash, the push it cut short
  status,        \* "open", "closed" or, after a crash, "down"
  evicted,       \* history: blocks dropped for space
  faults,        \* history: file operations that failed
  crashes        \* history: crashes

vars == <<files, blocks, currentBytes, nextIndex, writer, status, evicted, faults, crashes>>

QueuedBlock == [index : Nat, data : Blocks]

\* The type of every variable.
TypeOK ==
  /\ files \subseteq QueuedBlock
  /\ blocks \in Seq(QueuedBlock)
  /\ currentBytes \in Nat
  /\ nextIndex \in Nat
  /\ writer \subseteq QueuedBlock
  /\ status \in {"open", "closed", "down"}
  /\ evicted \subseteq Blocks
  /\ faults \in Nat /\ crashes \in Nat

----------------------------------------------------------------------------
Elements(s) == {s[i] : i \in DOMAIN s}
Over(n)     == MaxBytes # 0 /\ n > MaxBytes

\* The bytes of the blocks S, counted one by one.
BytePositions(S) == UNION {{b} \X (1..Size[b.data]) : b \in S}
Bytes(S)         == Cardinality(BytePositions(S))

\* The blocks of S in the order of their file names: first the one with none before it.
UpTo(b, S) == {c \in S : c.index <= b.index}
ByIndex(S) == [i \in 1..Cardinality(S) |-> CHOOSE b \in S : Cardinality(UpTo(b, S)) = i]

\* Mutant: the files are replayed as the directory lists them.
Replayed_Unsorted(S) == [i \in 1..Cardinality(S) |-> ByIndex(S)[Cardinality(S) + 1 - i]]

\* The queue open makes of the files it keeps.
Replayed(S) == ByIndex(S)

\* Mutant: the number of the files instead of the index after the last.
IndexAfter_Count(S) == Cardinality(S)

\* The block of S with the last file name.
LastOf(S) == CHOOSE b \in S : \A c \in S : c.index <= b.index

\* Mutant: the index of the last file instead of the one after it.
IndexAfter_Last(S) == IF S = {} THEN -1 ELSE LastOf(S).index

\* The index after all those of S.
IndexAfter(S) == IF S = {} THEN 0 ELSE LastOf(S).index + 1

\* Mutant: a full queue counts as over its limit.
Surplus_Full(S) == IF MaxBytes # 0 /\ S # {} /\ Bytes(S) >= MaxBytes
                   THEN {CHOOSE b \in S : \A c \in S : b.index <= c.index} ELSE {}

\* The blocks open drops: the oldest, until the others fit (even the last one, if need be).
Surplus(S) ==
  CHOOSE D \in SUBSET S :
    LET Oldest(E) == \A b \in E, c \in S \ E : b.index < c.index
        Fits(E)   == ~Over(Bytes(S \ E))
    IN /\ Oldest(D) /\ Fits(D)
       /\ \A E \in SUBSET S : Oldest(E) /\ Fits(E) => Cardinality(D) <= Cardinality(E)

Init ==
  /\ files = {} /\ blocks = <<>> /\ currentBytes = 0 /\ nextIndex = 0
  /\ writer = {} /\ status = "open" /\ evicted = {} /\ faults = 0 /\ crashes = 0

\* A file operation fails.
Fault(op) == op \in Faulty /\ faults < MaxFaults /\ faults' = faults + 1

\* remove_block_file: a removal that fails is only logged.
remove_block_file(b) ==
  \/ files' = files \ {b} /\ UNCHANGED faults
  \/ Fault("remove") /\ UNCHANGED files

----------------------------------------------------------------------------
\* push, up to next_index += 1.  write_block_file renames the complete, synced file over
\* whatever has its name.
write_block_file(d) ==
  /\ status = "open" /\ writer = {} /\ nextIndex < MaxIndex
  /\ LET b == [index |-> nextIndex, data |-> d]
     IN /\ files' = {f \in files : f.index # nextIndex} \cup {b}
        /\ writer' = {b}
  /\ nextIndex' = nextIndex + 1
  /\ UNCHANGED <<blocks, currentBytes, status, evicted, faults, crashes>>

\* push returns Err when the file cannot be written; the queue is as it was.
PushFails(d) ==
  /\ status = "open" /\ writer = {}
  /\ Fault("write")
  /\ UNCHANGED <<files, blocks, currentBytes, nextIndex, writer, status, evicted, crashes>>

\* Mutant: the new block is not counted.
TooMuch_WithoutNew(b) == Over(currentBytes)

\* Whether a push has to drop blocks before it adds b.
TooMuch(b) == Over(currentBytes + Size[b.data])

\* push drops its oldest block ...
PushEvict(b) ==
  /\ status = "open" /\ b \in writer /\ TooMuch(b) /\ blocks # <<>>
  /\ LET old == Head(blocks)
     IN /\ currentBytes' = currentBytes - Size[old.data]
        /\ remove_block_file(old)
        /\ evicted' = evicted \cup {old.data}
  /\ blocks' = Tail(blocks)
  /\ UNCHANGED <<nextIndex, writer, status, crashes>>

\* ... until the new one fits, or is alone.
PushBack(b) ==
  /\ status = "open" /\ b \in writer /\ (TooMuch(b) => blocks = <<>>)
  /\ currentBytes' = currentBytes + Size[b.data]
  /\ blocks' = Append(blocks, b)
  /\ writer' = {}
  /\ UNCHANGED <<files, nextIndex, status, evicted, faults, crashes>>

\* pop: the file is removed before the block is handed out.
pop ==
  /\ status = "open" /\ writer = {} /\ blocks # <<>>
  /\ LET b == Head(blocks)
     IN currentBytes' = currentBytes - Size[b.data] /\ remove_block_file(b)
  /\ blocks' = Tail(blocks)
  /\ UNCHANGED <<nextIndex, writer, status, evicted, crashes>>

\* pop returns None: nothing came before the deadline, or the queue was closed.
PopNone == status = "open" /\ writer = {} /\ blocks = <<>> /\ UNCHANGED vars

\* close takes the queue by value, so nobody uses it any more.
close ==
  /\ status = "open" /\ writer = {}
  /\ status' = "closed"
  /\ UNCHANGED <<files, blocks, currentBytes, nextIndex, writer, evicted, faults, crashes>>

\* The process dies.
Crash ==
  /\ status = "open" /\ crashes < MaxCrashes
  /\ status' = "down" /\ crashes' = crashes + 1
  /\ UNCHANGED <<files, blocks, currentBytes, nextIndex, writer, evicted, faults>>

\* open, where the files in bad cannot be read and those in stay cannot be removed.
open(bad, stay) ==
  /\ status # "open"
  /\ (bad = {} \/ "read" \in Faulty) /\ (stay = {} \/ "remove" \in Faulty)
  /\ faults' = faults + Cardinality(bad) + Cardinality(stay) /\ faults' <= MaxFaults
  /\ LET found == files \ bad
         kept  == found \ Surplus(found)
     IN /\ stay \subseteq Surplus(found)
        /\ files' = files \ (Surplus(found) \ stay)
        /\ blocks' = Replayed(kept)
        /\ currentBytes' = Bytes(kept)
        /\ nextIndex' = IndexAfter(found)
        /\ evicted' = evicted \cup {b.data : b \in Surplus(found)}
  /\ writer' = {} /\ status' = "open"
  /\ UNCHANGED crashes

Next ==
  \/ \E d \in Blocks : write_block_file(d) \/ PushFails(d)
  \/ \E b \in writer : PushEvict(b) \/ PushBack(b)
  \/ pop \/ PopNone \/ close \/ Crash
  \/ \E bad \in SUBSET files : \E stay \in SUBSET files : open(bad, stay)

Spec == Init /\ [][Next]_vars

----------------------------------------------------------------------------
(* Properties.                                                             *)

\* Whenever the mutex is free, current_bytes is the length of the queued blocks, and
\* within max_bytes unless a single block is longer than that (push, pop, open).
BytesAccounted ==
  status = "open" =>
    /\ currentBytes = Bytes(Elements(blocks))
    /\ writer = {} /\ Over(currentBytes) => Len(blocks) = 1

\* The queue is in the order of the indices, all below next_index, and every queued
\* block has its file: what a pop returns is what a restart would replay first.
QueueOnDisk ==
  status = "open" =>
    /\ \A i, j \in DOMAIN blocks : i < j => blocks[i].index < blocks[j].index
    /\ \A i \in DOMAIN blocks : blocks[i].index < nextIndex
    /\ Elements(blocks) \cup writer \subseteq files

\* What the files hold, in the order of their names.
FileOrder(S) == [i \in 1..Cardinality(S) |-> ByIndex(S)[i].data]

\* The files are a FIFO that crashes and restarts do not disturb, as long as no file
\* operation fails.
Fifo == INSTANCE DurableFifo WITH q <- FileOrder(files)
ImplementsDurableFifo == Fifo!Spec

\* A block whose push returned Ok is replayed by the open that follows a crash.
PushSurvivesCrash ==
  [][status = "down" /\ status' = "open" /\ writer = {} => files' = files]_vars

\* The target of the rename in write_block_file does not exist: indices are never reused.
RenameTargetAbsent ==
  [][writer = {} /\ writer' # {} => \A f \in files : f.index # nextIndex]_vars

\* The queue in memory and its files agree, though file operations fail: the byte count is
\* exact and the queued blocks have their files in the order of their indices (push, pop, open).
QueueSound == TypeOK /\ BytesAccounted /\ QueueOnDisk
=============================================================================
