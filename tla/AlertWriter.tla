---------------------------- MODULE AlertWriter ----------------------------
(***************************************************************************)
(* The remote-write client of esmalert (RwClient): push appends to a       *)
(* bounded queue, the workers wait on a condition variable and drain the   *)
(* queue in batches, shutdown sets `stopping`, notifies and joins them.    *)
(*                                                                         *)
(* Waiting on the condition variable is two steps, since `stopping` is     *)
(* not written under the queue lock: the predicate is evaluated with the   *)
(* lock held, and then wait_timeout parks the thread and releases it.      *)
(* Encoding and the POST are one step that succeeds or loses the batch.    *)
(***************************************************************************)
EXTENDS Integers, Sequences, FiniteSets

CONSTANTS
  Flushers,     \* the worker threads
  MaxQueueSize, \* RwConfig::max_queue_size
  BatchSize,    \* RwConfig::max_batch_size
  MaxPushes     \* bound on the series that are offered

ASSUME WriterAssumption ==
  /\ IsFiniteSet(Flushers) /\ Flushers # {} /\ "none" \notin Flushers
  /\ MaxQueueSize \in Nat \ {0} /\ BatchSize \in Nat \ {0} /\ MaxPushes \in Nat

VARIABLES
  pending,   \* Inner::queue
  holder,    \* the worker that holds the queue lock between two steps, or "none"
  flusher,   \* what every worker is doing
  stopping,  \* Inner::stopping
  ending,   \* how far shutdown is
  offered,    \* the number of calls of push
  posted,    \* the series that were sent, or lost with their batch
  refused    \* the series that found the queue full

writerVars == <<pending, holder, flusher, stopping, ending, offered, posted, refused>>

WriterInit ==
  /\ pending = <<>> /\ holder = "none"
  /\ flusher = [f \in Flushers |-> [pc |-> "check", stop |-> FALSE, batch |-> <<>>]]
  /\ stopping = FALSE /\ ending = "no"
  /\ offered = 0 /\ posted = <<>> /\ refused = {}

\* notify_all wakes the threads that are parked, and no others.
Woken(ws) == [f \in Flushers |-> IF ws[f].pc = "parked" THEN [ws[f] EXCEPT !.pc = "woken"] ELSE ws[f]]

\* A series is dropped when the queue is full; a full batch wakes the workers.
push ==
  /\ ending = "no" /\ holder = "none" /\ offered < MaxPushes
  /\ offered' = offered + 1
  /\ IF Len(pending) >= MaxQueueSize
     THEN refused' = refused \cup {offered'} /\ UNCHANGED <<pending, flusher>>
     ELSE /\ pending' = Append(pending, offered')
          /\ flusher' = IF Len(pending') >= BatchSize THEN Woken(flusher) ELSE flusher
          /\ UNCHANGED refused
  /\ UNCHANGED <<holder, stopping, ending, posted>>

\* run: the predicate, under the lock.  With nothing to do the lock is kept.
Check(f) ==
  /\ flusher[f].pc = "check" /\ holder = "none"
  /\ IF stopping \/ pending # <<>>
     THEN /\ flusher' = [flusher EXCEPT ![f].pc = "drain", ![f].stop = stopping]
          /\ UNCHANGED holder
     ELSE /\ flusher' = [flusher EXCEPT ![f].pc = "park"]
          /\ holder' = f
  /\ UNCHANGED <<pending, stopping, ending, offered, posted, refused>>

\* Mutant: the lock is not released.
Park_Keeps(f) ==
  /\ flusher[f].pc = "park"
  /\ flusher' = [flusher EXCEPT ![f].pc = "parked"]
  /\ UNCHANGED <<pending, holder, stopping, ending, offered, posted, refused>>

\* wait_timeout: the thread is parked and the lock released.
Park(f) ==
  /\ flusher[f].pc = "park"
  /\ flusher' = [flusher EXCEPT ![f].pc = "parked"]
  /\ holder' = "none"
  /\ UNCHANGED <<pending, stopping, ending, offered, posted, refused>>

\* flush_interval, or the jitter of the first round, is over.
TimesOut(f) ==
  /\ flusher[f].pc = "parked"
  /\ flusher' = [flusher EXCEPT ![f].pc = "woken"]
  /\ UNCHANGED <<pending, holder, stopping, ending, offered, posted, refused>>

\* The lock is taken again, and `stopping` read.
Wakes(f) ==
  /\ flusher[f].pc = "woken" /\ holder = "none"
  /\ flusher' = [flusher EXCEPT ![f].pc = "drain", ![f].stop = stopping]
  /\ UNCHANGED <<pending, holder, stopping, ending, offered, posted, refused>>

\* Mutant: a worker that was told to stop does not drain.
drain_and_flush_NotLast(f) ==
  /\ flusher[f].pc = "drain" /\ holder = "none"
  /\ LET n == IF Len(pending) < BatchSize THEN Len(pending) ELSE BatchSize
     IN  IF n = 0 \/ flusher[f].stop
         THEN /\ flusher' = [flusher EXCEPT ![f].pc = IF flusher[f].stop THEN "exited" ELSE "check"]
              /\ UNCHANGED pending
         ELSE /\ flusher' = [flusher EXCEPT ![f].pc = "send", ![f].batch = SubSeq(pending, 1, n)]
              /\ pending' = SubSeq(pending, n + 1, Len(pending))
  /\ UNCHANGED <<holder, stopping, ending, offered, posted, refused>>

\* Mutant: the series stay in the queue while they are sent.
drain_and_flush_Peek(f) ==
  /\ flusher[f].pc = "drain" /\ holder = "none"
  /\ IF pending = <<>>
     THEN flusher' = [flusher EXCEPT ![f].pc = IF flusher[f].stop THEN "exited" ELSE "check"]
     ELSE flusher' = [flusher EXCEPT ![f].pc = "send", ![f].batch = SubSeq(pending, 1, 1)]
  /\ UNCHANGED <<pending, holder, stopping, ending, offered, posted, refused>>

\* Mutant: the worker goes on after its last drain.
drain_and_flush_Forever(f) ==
  /\ flusher[f].pc = "drain" /\ holder = "none"
  /\ LET n == IF Len(pending) < BatchSize THEN Len(pending) ELSE BatchSize
     IN  IF n = 0
         THEN flusher' = [flusher EXCEPT ![f].pc = "check"] /\ UNCHANGED pending
         ELSE /\ flusher' = [flusher EXCEPT ![f].pc = "send", ![f].batch = SubSeq(pending, 1, n)]
              /\ pending' = SubSeq(pending, n + 1, Len(pending))
  /\ UNCHANGED <<holder, stopping, ending, offered, posted, refused>>

\* One round of the loop: a batch leaves the queue under the lock; an empty queue ends
\* it, and with it the worker when it was told to stop.
drain_and_flush(f) ==
  /\ flusher[f].pc = "drain" /\ holder = "none"
  /\ LET n == IF Len(pending) < BatchSize THEN Len(pending) ELSE BatchSize
     IN  IF n = 0
         THEN /\ flusher' = [flusher EXCEPT ![f].pc = IF flusher[f].stop THEN "exited" ELSE "check"]
              /\ UNCHANGED pending
         ELSE /\ flusher' = [flusher EXCEPT ![f].pc = "send", ![f].batch = SubSeq(pending, 1, n)]
              /\ pending' = SubSeq(pending, n + 1, Len(pending))
  /\ UNCHANGED <<holder, stopping, ending, offered, posted, refused>>

\* The POST, without the lock; a batch that fails is dropped.
send_batch(f) ==
  /\ flusher[f].pc = "send"
  /\ posted' = posted \o flusher[f].batch
  /\ flusher' = [flusher EXCEPT ![f].pc = "drain", ![f].batch = <<>>]
  /\ UNCHANGED <<pending, holder, stopping, ending, offered, refused>>

\* shutdown: the flag, without the lock; nobody pushes any more, since it owns the client.
shutdown ==
  /\ ending = "no"
  /\ stopping' = TRUE /\ ending' = "flag"
  /\ UNCHANGED <<pending, holder, flusher, offered, posted, refused>>

Notify ==
  /\ ending = "flag"
  /\ flusher' = Woken(flusher) /\ ending' = "join"
  /\ UNCHANGED <<pending, holder, stopping, offered, posted, refused>>

Joined ==
  /\ ending = "join" /\ \A f \in Flushers : flusher[f].pc = "exited"
  /\ ending' = "closed"
  /\ UNCHANGED <<pending, holder, flusher, stopping, offered, posted, refused>>

FlusherNext(f) ==
  \/ Check(f) \/ Park(f) \/ TimesOut(f) \/ Wakes(f)
  \/ drain_and_flush(f) \/ send_batch(f)

WriterNext ==
  \/ push \/ shutdown \/ Notify \/ Joined
  \/ \E f \in Flushers : FlusherNext(f)

WriterSpec == WriterInit /\ [][WriterNext]_writerVars
-----------------------------------------------------------------------------
\* The states of the workers, and that the lock is held only while one is about to park.
WriterTypeOK ==
  /\ pending \in Seq(1..MaxPushes) /\ Len(pending) <= MaxQueueSize
  /\ holder \in Flushers \cup {"none"}
  /\ \A f \in Flushers :
       /\ flusher[f].pc \in {"check", "park", "parked", "woken", "drain", "send", "exited"}
       /\ Len(flusher[f].batch) <= BatchSize
       /\ flusher[f].pc = "park" <=> holder = f
  /\ ending \in {"no", "flag", "join", "closed"} /\ offered \in 0..MaxPushes

Places(x) ==
  Cardinality({k \in DOMAIN pending : pending[k] = x})
  + Cardinality({k \in DOMAIN posted : posted[k] = x})
  + Cardinality({f \in Flushers : \E k \in DOMAIN flusher[f].batch : flusher[f].batch[k] = x})
  + (IF x \in refused THEN 1 ELSE 0)

\* An offered series is sent once: it waits in the queue, is in the batch of one worker, was
\* sent, or was refused by a full queue (drain_and_flush with several workers).
SeriesSentOnce == \A x \in 1..offered : Places(x) = 1

\* When shutdown returns nothing is left behind, in the queue or with a worker (the doc of
\* shutdown: "so no queued series is silently lost on a clean shutdown").
ShutdownDrains ==
  ending = "closed" => pending = <<>> /\ \A f \in Flushers : flusher[f].batch = <<>>

\* A shutdown that was begun returns.
ShutdownReturns == ending # "no" ~> ending = "closed"

\* Once shutdown has notified them, no worker sleeps: the notification cannot be lost.
NoLostWakeup == ending \in {"join", "closed"} => \A f \in Flushers : flusher[f].pc # "parked"

\* An offered series is sent at most once and, over a clean shutdown, not left behind, however
\* the workers interleave (push, drain_and_flush, shutdown).
WriterSound == WriterTypeOK /\ SeriesSentOnce /\ ShutdownDrains
=============================================================================
