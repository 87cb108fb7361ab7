---------------------------- MODULE MCPartition ----------------------------
(* The partition on small instances.                                       *)
EXTENDS PartitionInv, TLC

\* Rows, shards and searches are interchangeable as long as all rows perish or none does.
RowSymmetry == Permutations(Rows) \cup Permutations(Shards)
=============================================================================
