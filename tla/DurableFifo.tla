---------------------------- MODULE DurableFifo ----------------------------
(***************************************************************************)
(* What the persistent queue of the agent promises: a first-in, first-out  *)
(* queue of blocks that outlives the process.  Blocks leave at the head    *)
(* (taken or dropped for space) and come at the tail; a crash or a restart *)
(* does not reorder, double or invent anything.                            *)
(***************************************************************************)
EXTENDS Integers, Sequences

CONSTANT Blocks
VARIABLE q

Init == q = <<>>

Put(b)  == q' = Append(q, b)
Take(n) == q' = SubSeq(q, n + 1, Len(q))

Next == (\E b \in Blocks : Put(b)) \/ (\E n \in 1..Len(q) : Take(n))

Spec == Init /\ [][Next]_q
=============================================================================
