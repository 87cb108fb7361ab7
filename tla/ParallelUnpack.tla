--------------------------- MODULE ParallelUnpack ---------------------------
(***************************************************************************)
(* unpack_series_parallel of esm-storage: the calling thread of a query    *)
(* and the workers of the process-wide pool claim batches of series off    *)
(* the job's cursor; the workers send one message per claimed series, and  *)
(* the caller counts results until none is outstanding.                    *)
(*                                                                         *)
(* Unpacking one series is one step that succeeds, or fails for the series *)
(* whose blocks are corrupt.  A query of at most MinParallel series, or    *)
(* one with a single worker, runs on the calling thread alone, which is    *)
(* the same loop without helpers.  Panics abort the process.               *)
(***************************************************************************)
EXTENDS Integers, Sequences, FiniteSets, FiniteSetsExt

CONSTANTS
  Jobs,           \* queries, each with a calling thread of its own
  PoolWorkers,    \* the threads of the pool
  MaxWorkers,     \* query_workers::max_workers()
  Totals,         \* how many series a query may have
  MinParallel,    \* MIN_PARALLEL_SERIES
  PerWorker,      \* batches per worker that plan_unpack aims at (4 in the code)
  MaxBatchSize,   \* MAX_BATCH_SIZE
  MaxCorrupt      \* bound on the corrupt series of a query

ASSUME UnpackAssumption ==
  /\ IsFiniteSet(PoolWorkers) /\ PoolWorkers # {} /\ Totals \subseteq Nat \ {0}
  /\ MaxWorkers \in Nat \ {0} /\ PerWorker \in Nat \ {0} /\ MaxBatchSize \in Nat \ {0}
  /\ MinParallel \in Nat /\ MaxCorrupt \in Nat

VARIABLES
  job,      \* the UnpackJob of every query, with the caller's own variables
  handles,  \* UnpackPool::queue
  worker    \* what every worker of the pool is doing

unpackVars == <<job, handles, worker>>

\* Threads that may work on one query, the caller included.
Threads == Min({Cardinality(PoolWorkers), MaxWorkers})
Serial(total) == Threads = 1 \/ total <= MinParallel

\* plan_unpack
Batch(total) ==
  IF Serial(total) THEN 1 ELSE Min({MaxBatchSize, Max({1, total \div (Threads * PerWorker)})})
Helpers(total) ==
  IF Serial(total) THEN 0
  ELSE Min({Threads - 1, (total + Batch(total) - 1) \div Batch(total) - 1})

Idle == [pc |-> "idle"]

UnpackInit ==
  /\ job \in [Jobs -> {[pc |-> "new", total |-> n, corrupt |-> c, late |-> FALSE,
                        cursor |-> 0, must_stop |-> FALSE, msgs |-> <<>>,
                        next |-> 0, end |-> 0, out |-> [i \in 0..n - 1 |-> "none"],
                        outstanding |-> n] :
                         n \in Totals, c \in UNION {kSubset(k, 0..Max(Totals) - 1) : k \in 0..MaxCorrupt}}]
  /\ \A j \in Jobs : job[j].corrupt \subseteq 0..job[j].total - 1
  /\ handles = <<>>
  /\ worker = [w \in PoolWorkers |-> Idle]

Done(j) == job[j].pc \in {"ok", "err"}
-----------------------------------------------------------------------------
(* The calling thread *)

\* The job is made and Helpers handles of it are submitted to the pool.
unpack_series_parallel(j) ==
  /\ job[j].pc = "new"
  /\ job' = [job EXCEPT ![j].pc = "claim"]
  /\ handles' = handles \o [k \in 1..Helpers(job[j].total) |-> j]
  /\ UNCHANGED worker

\* The caller returns an error, and lets the workers skip what is left.  Its variables
\* and the receiving end of the channel go with it.
Failed(f, j) == [f EXCEPT ![j].must_stop = TRUE, ![j].pc = "err", ![j].msgs = <<>>,
                          ![j].out = [i \in DOMAIN @ |-> "none"], ![j].outstanding = 0,
                          ![j].next = 0, ![j].end = 0]

\* Mutant: the cursor is read but not moved.
Claimed_Load(j) == job

\* cursor.fetch_add(batch)
Claimed(j) == [job EXCEPT ![j].cursor = @ + Batch(job[j].total)]

BatchEnd(j) == Min({job[j].cursor + Batch(job[j].total), job[j].total})

CallerClaims(j) ==
  /\ job[j].pc = "claim"
  /\ IF job[j].cursor >= job[j].total
     THEN job' = [Claimed(j) EXCEPT ![j].pc = "collect"]
     ELSE IF job[j].late
     THEN job' = Failed(Claimed(j), j)
     ELSE job' = [Claimed(j) EXCEPT ![j].pc = "unpack", ![j].next = job[j].cursor,
                                    ![j].end = BatchEnd(j)]
  /\ UNCHANGED <<handles, worker>>

\* Next series of the caller's batch.
CallerUnpacks(j) ==
  /\ job[j].pc = "unpack"
  /\ LET i == job[j].next
     IN  IF i \in job[j].corrupt THEN job' = Failed(job, j)
         ELSE job' = [job EXCEPT ![j].out[i] = "series", ![j].outstanding = @ - 1,
                                 ![j].next = i + 1,
                                 ![j].pc = IF i + 1 = job[j].end THEN "claim" ELSE "unpack"]
  /\ UNCHANGED <<handles, worker>>

\* rx.recv: the channel never disconnects, since the caller's job holds a sender.
CallerReceives(j) ==
  /\ job[j].pc = "collect" /\ job[j].outstanding > 0 /\ job[j].msgs # <<>>
  /\ LET m == Head(job[j].msgs)
     IN  IF m.res = "error" THEN job' = Failed(job, j)
         ELSE job' = [job EXCEPT ![j].out[m.i] = m.res, ![j].outstanding = @ - 1,
                                 ![j].msgs = Tail(@)]
  /\ UNCHANGED <<handles, worker>>

CallerReturns(j) ==
  /\ job[j].pc = "collect" /\ job[j].outstanding = 0
  /\ job' = [job EXCEPT ![j].pc = "ok"]
  /\ UNCHANGED <<handles, worker>>
-----------------------------------------------------------------------------
(* The workers: run_job *)

pop_job(w) ==
  /\ worker[w].pc = "idle" /\ handles # <<>>
  /\ worker' = [worker EXCEPT ![w] = [pc |-> "claim", job |-> Head(handles)]]
  /\ handles' = Tail(handles)
  /\ UNCHANGED job

\* Mutant: the cursor must have passed the number of series.
WorkerClaims_Past(w) ==
  /\ worker[w].pc = "claim"
  /\ LET j == worker[w].job
     IN  /\ job' = Claimed(j)
         /\ worker' = [worker EXCEPT ![w] =
              IF job[j].cursor > job[j].total THEN Idle
              ELSE [pc |-> "decide", job |-> j, next |-> job[j].cursor, end |-> BatchEnd(j)]]
  /\ UNCHANGED handles

\* Next batch of the job, or none left.
WorkerClaims(w) ==
  /\ worker[w].pc = "claim"
  /\ LET j == worker[w].job
     IN  /\ job' = Claimed(j)
         /\ worker' = [worker EXCEPT ![w] =
              IF job[j].cursor >= job[j].total THEN Idle
              ELSE [pc |-> "decide", job |-> j, next |-> job[j].cursor, end |-> BatchEnd(j)]]
  /\ UNCHANGED handles

\* Mutant: a failure is logged and the empty series sent in its place.
Outcome_Swallow(j, i) ==
  IF job[j].must_stop \/ job[j].late \/ i \in job[j].corrupt THEN "default" ELSE "series"

\* What the worker makes of series i: an empty placeholder once must_stop is set.
Outcome(j, i) ==
  IF job[j].must_stop THEN "default"
  ELSE IF job[j].late \/ i \in job[j].corrupt THEN "error" ELSE "series"

run_job(w) ==
  /\ worker[w].pc = "decide"
  /\ LET res == Outcome(worker[w].job, worker[w].next)
     IN  worker' = [worker EXCEPT ![w] =
           [pc |-> IF res = "error" THEN "stop" ELSE "send", job |-> @.job,
            next |-> @.next, end |-> @.end, res |-> res]]
  /\ UNCHANGED <<job, handles>>

\* Mutant: the worker gives up without telling the caller.
StopOthers_Silent(w) ==
  /\ worker[w].pc = "stop"
  /\ job' = [job EXCEPT ![worker[w].job].must_stop = TRUE]
  /\ UNCHANGED <<handles, worker>>

\* must_stop is stored before the error is sent.
StopOthers(w) ==
  /\ worker[w].pc = "stop"
  /\ job' = [job EXCEPT ![worker[w].job].must_stop = TRUE]
  /\ worker' = [worker EXCEPT ![w].pc = "send"]
  /\ UNCHANGED handles

\* The message; to a caller that has returned it fails, and the rest is skipped.
Send(w) ==
  /\ worker[w].pc = "send"
  /\ LET j == worker[w].job
         m == [i |-> worker[w].next, res |-> worker[w].res]
     IN  /\ job' = IF Done(j) THEN [job EXCEPT ![j].must_stop = TRUE]
                   ELSE [job EXCEPT ![j].msgs = Append(@, m)]
         /\ worker' = [worker EXCEPT ![w] =
              IF m.i + 1 = @.end THEN [pc |-> "claim", job |-> j]
              ELSE [pc |-> "decide", job |-> j, next |-> m.i + 1, end |-> @.end]]
  /\ UNCHANGED handles

\* The deadline of a query passes.
DeadlinePasses(j) ==
  /\ job[j].pc # "new" /\ ~Done(j) /\ ~job[j].late
  /\ job' = [job EXCEPT ![j].late = TRUE]
  /\ UNCHANGED <<handles, worker>>
-----------------------------------------------------------------------------
CallerNext(j) ==
  \/ unpack_series_parallel(j) \/ CallerClaims(j) \/ CallerUnpacks(j)
  \/ CallerReceives(j) \/ CallerReturns(j)

WorkerNext(w) ==
  pop_job(w) \/ WorkerClaims(w) \/ run_job(w) \/ StopOthers(w) \/ Send(w)

UnpackNext ==
  \/ \E j \in Jobs : CallerNext(j) \/ DeadlinePasses(j)
  \/ \E w \in PoolWorkers : WorkerNext(w)

UnpackSpec == UnpackInit /\ [][UnpackNext]_unpackVars
-----------------------------------------------------------------------------
\* The states of a job and of a worker, and that a batch in hand is not empty.
UnpackTypeOK ==
  /\ \A j \in Jobs :
       /\ job[j].pc \in {"new", "claim", "unpack", "collect", "ok", "err"}
       /\ job[j].outstanding \in 0..job[j].total
       /\ job[j].pc = "unpack" => job[j].next < job[j].end /\ job[j].end <= job[j].total
  /\ handles \in Seq(Jobs)
  /\ \A w \in PoolWorkers :
       /\ worker[w].pc \in {"idle", "claim", "decide", "stop", "send"}
       /\ worker[w].pc \in {"decide", "stop", "send"} =>
            worker[w].next < worker[w].end /\ worker[w].end <= job[worker[w].job].total

InHand(w, j) ==
  IF worker[w].pc \in {"decide", "stop", "send"} /\ worker[w].job = j
  THEN worker[w].next..worker[w].end - 1 ELSE {}

\* While a query runs, every series that has no result yet is in exactly one place: not
\* yet claimed, in the batch of one thread, or in one message; and outstanding counts
\* them (the accounting on which the caller's loop ends).
OutstandingAccounted ==
  \A j \in Jobs :
    ~Done(j) =>
      LET J == job[j]
          Mine == IF J.pc = "unpack" THEN J.next..J.end - 1 ELSE {}
          Sent == {J.msgs[k].i : k \in DOMAIN J.msgs}
          Ahead == {i \in 0..J.total - 1 : i >= J.cursor}
          Has(i) == J.out[i] # "none"
      IN  /\ \A i \in 0..J.total - 1 :
               (IF Has(i) THEN 1 ELSE 0) + (IF i \in Ahead THEN 1 ELSE 0)
               + (IF i \in Mine THEN 1 ELSE 0)
               + Cardinality({w \in PoolWorkers : i \in InHand(w, j)})
               + Cardinality({k \in DOMAIN J.msgs : J.msgs[k].i = i}) = 1
          /\ J.outstanding = Cardinality({i \in 0..J.total - 1 : ~Has(i)})

\* A query that succeeds has the unpacked samples of every series: never the empty
\* placeholder that a worker sends after another one failed, and never a corrupt series
\* (the comment in run_job: the placeholder only keeps the accounting exact).
OkMeansEverySeries ==
  \A j \in Jobs :
    job[j].pc = "ok" =>
      /\ job[j].corrupt = {}
      /\ \A i \in 0..job[j].total - 1 : job[j].out[i] = "series"

\* A query that has begun returns, whatever fails and however busy the pool is.
QueriesReturn == \A j \in Jobs : job[j].pc # "new" ~> Done(j)

\* Every series of a query is accounted for in one place until its result is in, and success
\* means that all are unpacked (unpack_series_parallel, run_job).
UnpackSound == UnpackTypeOK /\ OutstandingAccounted /\ OkMeansEverySeries
=============================================================================
