----------------------------- MODULE MCThreads ------------------------------
(***************************************************************************)
(* Components whose threads must not stop for ever, on small instances:    *)
(* the mergeset table, the tag-filter cache and the deletion of series on  *)
(* top of it, the parallel unpacking of series, the watch of a Kubernetes  *)
(* API, the remote-write client of esmalert and the queue of esmagent with *)
(* failing file operations.  They share no variable: a behaviour is one of *)
(* `component`, while the others stand still in an initial state.          *)
(***************************************************************************)
EXTENDS PersistentQueue, Mergeset, IndexSearch, ParallelUnpack, KubeWatch, AlertWriter, TLC

CONSTANT Checked   \* which of the components are checked

VARIABLE component

\* A block is known by its length.
SizeOf == [b \in Blocks |-> b]

threadVars == <<component, vars, mergesetVars, searchVars, unpackVars, kubeVars, writerVars>>

\* The queries of the components that are not checked are all the same.
ThreadsInit ==
  /\ component \in Checked
  /\ Init /\ MergesetInit /\ SearchInit /\ UnpackInit /\ KubeInit /\ WriterInit
  /\ component # "unpack" => \A j \in Jobs : job[j].corrupt = {} /\ job[j].total = Max(Totals)

ThreadsNext ==
  /\ UNCHANGED component
  /\ \/ /\ component = "mergeset" /\ MergesetNext
        /\ UNCHANGED <<vars, searchVars, unpackVars, kubeVars, writerVars>>
     \/ /\ component = "search" /\ SearchNext
        /\ UNCHANGED <<vars, mergesetVars, unpackVars, kubeVars, writerVars>>
     \/ /\ component = "unpack" /\ UnpackNext
        /\ UNCHANGED <<vars, mergesetVars, searchVars, kubeVars, writerVars>>
     \/ /\ component = "kube" /\ KubeNext
        /\ UNCHANGED <<vars, mergesetVars, searchVars, unpackVars, writerVars>>
     \/ /\ component = "writer" /\ WriterNext
        /\ UNCHANGED <<vars, mergesetVars, searchVars, unpackVars, kubeVars>>
     \/ /\ component = "queue" /\ Next
        /\ UNCHANGED <<mergesetVars, searchVars, unpackVars, kubeVars, writerVars>>

\* The threads run; a deadline that has passed is noticed.  Nothing forces an adder to add, a
\* size to suit a merge, a close or a crash.
MergesetFairness ==
  /\ WF_mergesetVars(component = "mergeset" /\ (\E S \in SUBSET rawItems : flush_pending_items(S)))
  /\ \A t \in FlushThreads :
       /\ WF_mergesetVars(component = "mergeset" /\ create_inmemory_part(t))
       /\ WF_mergesetVars(component = "mergeset" /\ acquire_limit(t))
       /\ WF_mergesetVars(component = "mergeset" /\ (\E S \in SUBSET flushes[t].items : add_to_inmemory_parts(t, S)))
  /\ WF_mergesetVars(component = "mergeset" /\ (\E S \in SUBSET parts : inmemory_parts_flusher(S)))
  /\ WF_mergesetVars(component = "mergeset" /\ (\E S \in SUBSET toFlush : merge_inmemory_parts_to_files(S)))
  /\ WF_mergesetVars(component = "mergeset" /\ (\E g \in merges : StartMerge(g)))
  /\ WF_mergesetVars(component = "mergeset" /\ (\E g \in merges : AcquireForResult(g)))
  /\ WF_mergesetVars(component = "mergeset" /\ (\E g \in merges, m \in BOOLEAN : swap_src_with_dst_parts(g, m)))
  /\ WF_mergesetVars(component = "mergeset" /\ CloseFlushItems)
  /\ WF_mergesetVars(component = "mergeset" /\ CloseFlushParts)
  /\ WF_mergesetVars(component = "mergeset" /\ must_close)

\* Every thread that can go on does.
UnpackFairness ==
  /\ \A j \in Jobs : WF_unpackVars(component = "unpack" /\ CallerNext(j))
  /\ \A w \in PoolWorkers : WF_unpackVars(component = "unpack" /\ WorkerNext(w))

\* The thread takes its next step, and the server sends what it has for an open
\* stream, or tells that it no longer has it.
KubeFairness ==
  /\ WF_kubeVars(component = "kube" /\ WatcherWorks)
  /\ SF_kubeVars(component = "kube" /\ (StreamEvent \/ StreamGone))

\* Threads go on when they can; a POST ends, by its timeout if not before, and a
\* worker waits flush_interval at most.
WriterFairness ==
  /\ WF_writerVars(component = "writer" /\ Notify) /\ WF_writerVars(component = "writer" /\ Joined)
  /\ \A f \in Flushers : WF_writerVars(component = "writer" /\ FlusherNext(f))

ThreadsSpec ==
  /\ ThreadsInit /\ [][ThreadsNext]_threadVars
  /\ MergesetFairness
  /\ UnpackFairness
  /\ KubeFairness
  /\ WriterFairness

\* The cache of the watcher becomes what the objects are, in the behaviours of the
\* watcher (run, watch_once and list_all of the Kubernetes watcher).
WatchCatchesUp == component = "kube" => CacheCatchesUp

\* Nothing waits for ever: items of the mergeset reach the disk, a query returns, the
\* watcher catches up and a shutdown of the alert writer ends, whatever holds permits, slots,
\* locks and channels meanwhile (swap_src_with_dst_parts, unpack_series_parallel, watch_once,
\* shutdown).
ThreadsGoOn == ItemsReachDisk /\ QueriesReturn /\ WatchCatchesUp /\ ShutdownReturns
=============================================================================
