--------------------------- MODULE MCRemoteWrite ---------------------------
(* A remote-write destination on small instances.                          *)
EXTENDS RemoteWrite

MCBlocks == (SUBSET Series) \ {{}}
MCSize   == [b \in MCBlocks |-> Cardinality(b)]

\* The properties of the persistent queue, under the threads that really use it.

\* The files are a FIFO that pushes, pops, evictions, crashes and restarts of the
\* destination do not disturb (PersistentQueue::push, pop, open).
QueueIsDurableFifo == Queue!ImplementsDurableFifo

\* A block whose push returned Ok is replayed by the open that follows a crash, for
\* blocks that fit in max_bytes, and no later push renames over its file: indices are not
\* reused, also not after a restart (write_block_file, open).
QueuedSurvivesCrash == Queue!PushSurvivesCrash /\ Queue!RenameTargetAbsent
=============================================================================
