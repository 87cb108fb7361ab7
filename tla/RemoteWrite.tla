---------------------------- MODULE RemoteWrite ----------------------------
(***************************************************************************)
(* One remote-write destination of the agent (RemoteWriteCtx): series are  *)
(* buffered in PendingSeries, sealed into blocks, pushed to the persistent *)
(* queue and delivered by a pool of workers that retry; an orderly stop    *)
(* hands what is left to the queue, a crash keeps what is in the queue.    *)
(*                                                                         *)
(* A block is the set of the series in it, and its length their number.    *)
(* Series that the per-URL relabelling drops, or that a stream aggregation *)
(* consumes, never get here.  The endpoint is external: it gives any       *)
(* answer at any time.                                                     *)
(***************************************************************************)
EXTENDS Integers, Sequences, FiniteSets

CONSTANTS
  Series,         \* the series that may be pushed
  Pushers,        \* ingestion threads
  Workers,        \* the worker threads of the client
  MaxBlockSize,   \* max_block_size: series in a block before it is sealed
  Blocks,         \* what a block may hold: some series
  Size,           \* the number of series in a block
  MaxBytes, MaxIndex, Faulty, MaxFaults, MaxCrashes,  \* as in PersistentQueue
  MaxStops        \* bound on the orderly stops

ASSUME RemoteWriteAssumption ==
  /\ IsFiniteSet(Series) /\ MaxBlockSize \in Nat \ {0} /\ MaxStops \in Nat
  /\ MaxBytes \in Nat /\ MaxIndex \in Nat /\ MaxFaults \in Nat /\ MaxCrashes \in Nat
  /\ Faulty \subseteq {"write", "remove", "read"}
  /\ Blocks = (SUBSET Series) \ {{}}
  /\ Size = [b \in Blocks |-> Cardinality(b)]
  /\ {"flush_loop", "stop"} \cap (Pushers \cup Workers) = {} /\ Pushers \cap Workers = {}

VARIABLES
  files, blocks, currentBytes, nextIndex, writer, status, evicted, faults, crashes,
  pending,    \* PendingSeries.buffered
  hands,      \* the block every thread holds outside the queue, if any
  holder,     \* the thread whose push is under way, if any
  pc,         \* where every worker is
  stage,      \* how far RemoteWriteCtx::stop has got
  accepted,   \* history: series the destination has to deliver
  delivered,  \* history: series of blocks the endpoint answered with success
  rejected,   \* history: series of blocks dropped as unrecoverable
  failed,     \* history: series of blocks whose push returned an error
  stops       \* history: orderly stops

Queue == INSTANCE PersistentQueue

queue   == <<files, blocks, currentBytes, nextIndex, writer, status, evicted, faults, crashes>>
results == <<delivered, rejected, failed>>
vars    == <<queue, pending, hands, holder, pc, stage, accepted, results, stops>>

Threads == Pushers \cup {"flush_loop", "stop"} \cup Workers
Steps   == {"loop", "pop", "send", "backoff", "requeue", "exit"}

\* The type of every variable.
TypeOK ==
  /\ Queue!TypeOK
  /\ pending \subseteq Series
  /\ hands \in [Threads -> SUBSET Blocks]
  /\ holder \subseteq Threads
  /\ pc \in [Workers -> Steps]
  /\ stage \in {"running", "flush_stop", "final_flush", "client_stop", "stopped"}
  /\ accepted \subseteq Series /\ delivered \subseteq Series
  /\ rejected \subseteq Series /\ failed \subseteq Series
  /\ stops \in Nat

----------------------------------------------------------------------------
stop_flag == stage \in {"client_stop", "stopped"}
Queued    == UNION {b.data : b \in files}
Evicted   == UNION evicted
Settled   == delivered \cup rejected \cup Evicted \cup failed

Init ==
  /\ Queue!Init
  /\ pending = {} /\ hands = [t \in Threads |-> {}] /\ holder = {}
  /\ pc = [w \in Workers |-> "loop"] /\ stage = "running"
  /\ accepted = {} /\ delivered = {} /\ rejected = {} /\ failed = {} /\ stops = 0

\* push: the series is buffered, and a full buffer becomes a block in the pusher's hand.
push(t, s) ==
  /\ status = "open" /\ stage = "running"
  /\ hands[t] = {} /\ holder # {t}
  /\ s \in Series \ (accepted \cup Settled)
  /\ accepted' = accepted \cup {s}
  /\ IF Cardinality(pending) + 1 >= MaxBlockSize
     THEN pending' = {} /\ hands' = [hands EXCEPT ![t] = {pending \cup {s}}]
     ELSE pending' = pending \cup {s} /\ UNCHANGED hands
  /\ UNCHANGED <<queue, holder, pc, stage, results, stops>>

\* Mutant: an empty buffer makes a block too.
Flush_Empty(t) ==
  /\ hands' = [hands EXCEPT ![t] = {pending}]
  /\ pending' = {}

\* PendingSeries::flush into the hand of thread t.
Flush(t) ==
  /\ hands' = [hands EXCEPT ![t] = IF pending = {} THEN {} ELSE {pending}]
  /\ pending' = {}

\* Mutant: only a full buffer is flushed.
flush_loop_FullOnly ==
  /\ status = "open" /\ stage \in {"running", "flush_stop"}
  /\ hands["flush_loop"] = {} /\ holder # {"flush_loop"}
  /\ Cardinality(pending) >= MaxBlockSize
  /\ Flush("flush_loop")
  /\ UNCHANGED <<queue, holder, pc, stage, accepted, results, stops>>

\* One turn of flush_loop; it may have looked at its stop flag just before it was set.
flush_loop ==
  /\ status = "open" /\ stage \in {"running", "flush_stop"}
  /\ hands["flush_loop"] = {} /\ holder # {"flush_loop"} /\ pending # {}
  /\ Flush("flush_loop")
  /\ UNCHANGED <<queue, holder, pc, stage, accepted, results, stops>>

\* A thread with a block that is to be queued calls PersistentQueue::push ...
Pushing(t) == t \in Workers => pc[t] = "requeue"

PushWrite(t, d) ==
  /\ d \in hands[t] /\ Pushing(t)
  /\ Queue!write_block_file(d)
  /\ hands' = [hands EXCEPT ![t] = {}] /\ holder' = {t}
  /\ UNCHANGED <<pending, pc, stage, accepted, results, stops>>

PushEvict(b) ==
  /\ Queue!PushEvict(b)
  /\ UNCHANGED <<pending, hands, holder, pc, stage, accepted, results, stops>>

Requeued(t) == IF t \in Workers THEN [pc EXCEPT ![t] = "loop"] ELSE pc

PushBack(b, t) ==
  /\ Queue!PushBack(b) /\ holder = {t}
  /\ holder' = {} /\ pc' = Requeued(t)
  /\ UNCHANGED <<pending, hands, stage, accepted, results, stops>>

\* ... and only logs an error.
PushFails(t, d) ==
  /\ d \in hands[t] /\ Pushing(t)
  /\ Queue!PushFails(d)
  /\ hands' = [hands EXCEPT ![t] = {}] /\ pc' = Requeued(t)
  /\ failed' = failed \cup d
  /\ UNCHANGED <<pending, holder, stage, accepted, delivered, rejected, stops>>

----------------------------------------------------------------------------
(* The workers.                                                            *)

\* worker_loop looks at the stop flag before every pop.
worker_loop(w) ==
  /\ status = "open" /\ pc[w] = "loop"
  /\ pc' = [pc EXCEPT ![w] = IF stop_flag THEN "exit" ELSE "pop"]
  /\ UNCHANGED <<queue, pending, hands, holder, stage, accepted, results, stops>>

pop(w) ==
  /\ pc[w] = "pop"
  /\ \/ /\ Queue!pop
        /\ hands' = [hands EXCEPT ![w] = {Head(blocks).data}]
        /\ pc' = [pc EXCEPT ![w] = "send"]
     \/ /\ Queue!PopNone
        /\ pc' = [pc EXCEPT ![w] = "loop"]
        /\ UNCHANGED hands
  /\ UNCHANGED <<pending, holder, stage, accepted, results, stops>>

\* deliver_with_retry: send_once got a success or an unrecoverable status ...
Answered(w, d) ==
  /\ status = "open" /\ pc[w] = "send" /\ d \in hands[w]
  /\ \/ delivered' = delivered \cup d /\ UNCHANGED rejected
     \/ rejected' = rejected \cup d /\ UNCHANGED delivered
  /\ hands' = [hands EXCEPT ![w] = {}]
  /\ pc' = [pc EXCEPT ![w] = "loop"]
  /\ UNCHANGED <<queue, pending, holder, stage, accepted, failed, stops>>

\* ... or another status, a transport error or the send timeout.
Retryable(w) ==
  /\ status = "open" /\ pc[w] = "send"
  /\ pc' = [pc EXCEPT ![w] = "backoff"]
  /\ UNCHANGED <<queue, pending, hands, holder, stage, accepted, results, stops>>

\* Mutants: the block is let go of at a stop; the stop flag is not looked at.
wait_or_stop_Forget(w) ==
  /\ status = "open" /\ pc[w] = "backoff"
  /\ pc' = [pc EXCEPT ![w] = IF stop_flag THEN "loop" ELSE "send"]
  /\ hands' = [hands EXCEPT ![w] = IF stop_flag THEN {} ELSE @]
  /\ UNCHANGED <<queue, pending, holder, stage, accepted, results, stops>>
wait_or_stop_Ignore(w) ==
  /\ status = "open" /\ pc[w] = "backoff"
  /\ pc' = [pc EXCEPT ![w] = "send"]
  /\ UNCHANGED <<queue, pending, hands, holder, stage, accepted, results, stops>>

\* wait_or_stop: the backoff ends, and a stop makes the worker re-queue its block.
wait_or_stop(w) ==
  /\ status = "open" /\ pc[w] = "backoff"
  /\ pc' = [pc EXCEPT ![w] = IF stop_flag THEN "requeue" ELSE "send"]
  /\ UNCHANGED <<queue, pending, hands, holder, stage, accepted, results, stops>>

----------------------------------------------------------------------------
(* Stopping, crashing, starting.                                           *)

Quiet(T) == holder \cap T = {} /\ \A t \in T : hands[t] = {}

\* stop takes the destination by value, so no thread is pushing.
stop ==
  /\ status = "open" /\ stage = "running" /\ Quiet(Pushers) /\ stops < MaxStops
  /\ stage' = "flush_stop" /\ stops' = stops + 1
  /\ UNCHANGED <<queue, pending, hands, holder, pc, accepted, results>>

\* Mutant: the flush thread is not joined before the last flush.
FinalFlush_NoJoin ==
  /\ status = "open" /\ stage = "flush_stop"
  /\ stage' = "final_flush"
  /\ Flush("stop")
  /\ UNCHANGED <<queue, holder, pc, accepted, results, stops>>

\* The flush thread is joined, then what is buffered is flushed ...
FinalFlush ==
  /\ status = "open" /\ stage = "flush_stop" /\ Quiet({"flush_loop"})
  /\ stage' = "final_flush"
  /\ Flush("stop")
  /\ UNCHANGED <<queue, holder, pc, accepted, results, stops>>

\* ... then Client::stop sets the workers' flag and joins them ...
ClientStop ==
  /\ status = "open" /\ stage = "final_flush" /\ Quiet({"stop"})
  /\ stage' = "client_stop"
  /\ UNCHANGED <<queue, pending, hands, holder, pc, accepted, results, stops>>

\* ... and the queue is closed.
Close ==
  /\ stage = "client_stop" /\ \A w \in Workers : pc[w] = "exit"
  /\ Queue!close
  /\ stage' = "stopped"
  /\ UNCHANGED <<pending, hands, holder, pc, accepted, results, stops>>

\* The process dies, and with it what only memory holds.
Crash ==
  /\ Queue!Crash
  /\ pending' = {} /\ hands' = [t \in Threads |-> {}] /\ holder' = {}
  /\ accepted' = Settled \cup Queued
  /\ UNCHANGED <<pc, stage, results, stops>>

start(bad, stay) ==
  /\ Queue!open(bad, stay)
  /\ pc' = [w \in Workers |-> "loop"] /\ stage' = "running"
  /\ UNCHANGED <<pending, hands, holder, accepted, results, stops>>

Next ==
  \/ \E t \in Pushers, s \in Series : push(t, s)
  \/ flush_loop
  \/ \E t \in Threads : \E d \in hands[t] : PushWrite(t, d) \/ PushFails(t, d)
  \/ \E b \in writer : PushEvict(b) \/ \E t \in Threads : PushBack(b, t)
  \/ \E w \in Workers : \/ worker_loop(w) \/ pop(w) \/ Retryable(w) \/ wait_or_stop(w)
                        \/ \E d \in hands[w] : Answered(w, d)
  \/ stop \/ FinalFlush \/ ClientStop \/ Close \/ Crash
  \/ \E bad \in SUBSET files : \E stay \in SUBSET files : start(bad, stay)

Spec == Init /\ [][Next]_vars

\* Every thread carries on: a send ends at the latest with its timeout, a backoff and a
\* pop with theirs, flush_loop flushes at every interval, and a stop is carried out.
Fairness ==
  /\ WF_vars(flush_loop)
  /\ \A t \in Threads : WF_vars(\E d \in hands[t] : PushWrite(t, d))
  /\ WF_vars(\E b \in writer : PushEvict(b) \/ \E t \in Threads : PushBack(b, t))
  /\ \A w \in Workers :
       /\ WF_vars(worker_loop(w)) /\ WF_vars(wait_or_stop(w)) /\ WF_vars(pop(w))
       /\ WF_vars(Retryable(w) \/ \E d \in hands[w] : Answered(w, d))
  /\ WF_vars(FinalFlush) /\ WF_vars(ClientStop) /\ WF_vars(Close)

\* The endpoint does not turn every attempt to send a block down.
EndpointRecovers == \A w \in Workers : SF_vars(\E d \in hands[w] : Answered(w, d))

FairSpec == Spec /\ Fairness

----------------------------------------------------------------------------
(* Properties.                                                             *)

\* Where a series may be.
Places(s) ==
  UNION { {<<"pending">> : x \in {x \in pending : x = s}},
          {<<"hand", t>> : t \in {t \in Threads : \E d \in hands[t] : s \in d}},
          {<<"file", b>> : b \in {b \in files : s \in b.data}},
          {<<"delivered">> : x \in delivered \cap {s}},
          {<<"rejected">> : x \in rejected \cap {s}},
          {<<"evicted">> : x \in Evicted \cap {s}},
          {<<"failed">> : x \in failed \cap {s}} }

\* Every accepted series is buffered, in one thread's hands, in one block file, or has
\* been delivered, rejected, dropped for space or given up with a disk error, and only
\* one of these: no handover between threads loses a block or sends it twice.
SeriesInOnePlace == \A s \in accepted : Cardinality(Places(s)) = 1

\* After an orderly stop everything that is not settled is in the queue's files.
StopKeepsSeries == stage = "stopped" => accepted \subseteq Settled \cup Queued

\* If the endpoint does not turn down every attempt for ever (EndpointRecovers), every
\* accepted series is delivered, rejected, dropped for space or given up, unless the
\* destination is stopped or the process dies first.
SeriesSettle ==
  EndpointRecovers =>
    \A s \in Series : s \in accepted ~> (s \in Settled \/ stage # "running" \/ status = "down")

\* RemoteWriteCtx::stop returns even if the endpoint never answers again, unless the
\* process dies first.
StopTerminates == stage = "flush_stop" ~> (stage = "stopped" \/ status = "down")

\* Every accepted series is in one place, and after an orderly stop that is a file or an end it
\* has come to (worker_loop, buffer_and_enqueue, RemoteWriteCtx::stop).
PipelineSound == TypeOK /\ SeriesInOnePlace /\ StopKeepsSeries
=============================================================================
