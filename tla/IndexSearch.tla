---------------------------- MODULE IndexSearch -----------------------------
(***************************************************************************)
(* Searches in an index database, and the cache of their results           *)
(* (IndexDb of esm-storage/src/index/mod.rs).  The mergeset table resets   *)
(* the cache through its flush callback after new items have become        *)
(* visible, and the deletion of series resets it too.                      *)
(*                                                                         *)
(* One query, that every series matches, stands for all keys of the cache. *)
(***************************************************************************)
EXTENDS Integers, FiniteSets

CONSTANTS
  SeriesIds,     \* metric ids
  IndexReaders   \* threads that search

VARIABLES
  visible,     \* ids in the parts of the table
  pushed,      \* ids whose part has joined the table while its thread is yet to ask for the callback
  needCallback,\* need_flush_callback_call
  inCallback,  \* whether the callback worker has taken the flag and is yet to reset
  tfCache,     \* tag_filters_to_metric_ids_cache: at most one entry
  dmis,        \* deleted_metric_ids
  readers,     \* per thread: its search
  deletion,    \* save_deleted_metric_ids under way
  deletedDone  \* history: ids whose deletion has returned

searchVars == <<visible, pushed, needCallback, inCallback, tfCache, dmis, readers, deletion, deletedDone>>

Rest      == [pc |-> "idle", ids |-> {}, overlapped |-> FALSE]
SearchRec == [pc : {"idle", "miss", "found", "filtered"}, ids : SUBSET SeriesIds, overlapped : BOOLEAN]

\* The type of every variable; what is deleted has been visible.
IndexSearchTypeOK ==
  /\ visible \subseteq SeriesIds /\ pushed \subseteq visible
  /\ needCallback \in BOOLEAN /\ inCallback \in BOOLEAN
  /\ tfCache \subseteq [ids : SUBSET visible, overlapped : BOOLEAN] /\ Cardinality(tfCache) <= 1
  /\ dmis \subseteq visible /\ deletedDone \subseteq dmis
  /\ readers \in [IndexReaders -> SearchRec]
  /\ deletion \in [pc : {"idle", "save", "reset", "store"}, ids : SUBSET SeriesIds]

SearchInit ==
  /\ visible = {} /\ pushed = {} /\ needCallback = FALSE /\ inCallback = FALSE
  /\ tfCache = {} /\ dmis = {} /\ deletedDone = {}
  /\ readers = [r \in IndexReaders |-> Rest]
  /\ deletion = [pc |-> "idle", ids |-> {}]

----------------------------------------------------------------------------
(* Items become visible, and the cache is reset after that.                *)

\* Mutant: the part is not in the table yet when its thread goes on.
PartJoins_Late(x) ==
  /\ x \notin visible /\ pushed' = pushed \cup {x}
  /\ UNCHANGED <<visible, needCallback, inCallback, tfCache, dmis, readers, deletion, deletedDone>>

\* add_to_inmemory_parts: a part joins the table, ...
PartJoins(x) ==
  /\ x \notin visible
  /\ visible' = visible \cup {x} /\ pushed' = pushed \cup {x}
  /\ UNCHANGED <<needCallback, inCallback, tfCache, dmis, readers, deletion, deletedDone>>

\* Mutant: the flag is only looked at.
AskForCallback_Not(x) ==
  /\ x \in pushed /\ pushed' = pushed \ {x}
  /\ UNCHANGED <<visible, needCallback, inCallback, tfCache, dmis, readers, deletion, deletedDone>>

\* ... and its thread asks for the callback.
AskForCallback(x) ==
  /\ x \in pushed /\ pushed' = pushed \ {x} /\ needCallback' = TRUE
  /\ UNCHANGED <<visible, inCallback, tfCache, dmis, readers, deletion, deletedDone>>

\* The callback worker takes the flag ...
flush_callback_worker ==
  /\ needCallback /\ ~inCallback
  /\ needCallback' = FALSE /\ inCallback' = TRUE
  /\ UNCHANGED <<visible, pushed, tfCache, dmis, readers, deletion, deletedDone>>

\* The entry goes; the searches that have looked at the table are remembered to be older.
ResetCache ==
  /\ tfCache' = {}
  /\ readers' = [r \in IndexReaders |->
       [readers[r] EXCEPT !.overlapped = @ \/ readers[r].pc \in {"found", "filtered"}]]

\* ... and resets the cache.
flush_callback ==
  /\ inCallback /\ inCallback' = FALSE /\ ResetCache
  /\ UNCHANGED <<visible, pushed, needCallback, dmis, deletion, deletedDone>>

----------------------------------------------------------------------------
(* search_metric_ids.  A hit changes nothing.                              *)

get_metric_ids_from_tag_filters_cache(r) ==
  /\ readers[r].pc = "idle" /\ tfCache = {}
  /\ readers' = [readers EXCEPT ![r].pc = "miss"]
  /\ UNCHANGED <<visible, pushed, needCallback, inCallback, tfCache, dmis, deletion, deletedDone>>

\* The parts of the table as they are now.
search_metric_ids_internal(r) ==
  /\ readers[r].pc = "miss"
  /\ readers' = [readers EXCEPT ![r] = [pc |-> "found", ids |-> visible, overlapped |-> FALSE]]
  /\ UNCHANGED <<visible, pushed, needCallback, inCallback, tfCache, dmis, deletion, deletedDone>>

\* The deleted ids are taken out after that.
search_metric_ids(r) ==
  /\ readers[r].pc = "found"
  /\ readers' = [readers EXCEPT ![r].pc = "filtered", ![r].ids = @ \ dmis]
  /\ UNCHANGED <<visible, pushed, needCallback, inCallback, tfCache, dmis, deletion, deletedDone>>

put_metric_ids_to_tag_filters_cache(r) ==
  /\ readers[r].pc = "filtered"
  /\ tfCache' = {[ids |-> readers[r].ids, overlapped |-> readers[r].overlapped]}
  /\ readers' = [readers EXCEPT ![r] = Rest]
  /\ UNCHANGED <<visible, pushed, needCallback, inCallback, dmis, deletion, deletedDone>>

\* A generation of the cache is dropped for its size.
maybe_rotate ==
  /\ tfCache # {} /\ tfCache' = {}
  /\ UNCHANGED <<visible, pushed, needCallback, inCallback, dmis, readers, deletion, deletedDone>>

----------------------------------------------------------------------------
(* delete_series.                                                          *)

\* The search for what to delete does not use the cache.
delete_series(S) ==
  /\ deletion.pc = "idle" /\ S # {} /\ S \subseteq visible \ dmis
  /\ deletion' = [pc |-> "save", ids |-> S]
  /\ UNCHANGED <<visible, pushed, needCallback, inCallback, tfCache, dmis, readers, deletedDone>>

\* Mutant: the ids are marked only together with their tombstones.
update_deleted_metric_ids_Late ==
  /\ deletion.pc = "save" /\ deletion' = [deletion EXCEPT !.pc = "reset"]
  /\ UNCHANGED <<visible, pushed, needCallback, inCallback, tfCache, dmis, readers, deletedDone>>

\* save_deleted_metric_ids: the set in memory first, ...
update_deleted_metric_ids ==
  /\ deletion.pc = "save" /\ deletion' = [deletion EXCEPT !.pc = "reset"]
  /\ dmis' = dmis \cup deletion.ids
  /\ UNCHANGED <<visible, pushed, needCallback, inCallback, tfCache, readers, deletedDone>>

\* ... then the cache, ...
DeletionResets ==
  /\ deletion.pc = "reset" /\ deletion' = [deletion EXCEPT !.pc = "store"] /\ ResetCache
  /\ UNCHANGED <<visible, pushed, needCallback, inCallback, dmis, deletedDone>>

\* ... then the tombstones, and the call returns.
save_deleted_metric_ids ==
  /\ deletion.pc = "store" /\ deletion' = [pc |-> "idle", ids |-> {}]
  /\ dmis' = dmis \cup deletion.ids /\ deletedDone' = deletedDone \cup deletion.ids
  /\ UNCHANGED <<visible, pushed, needCallback, inCallback, tfCache, readers>>

SearchNext ==
  \/ \E x \in SeriesIds : PartJoins(x) \/ AskForCallback(x)
  \/ flush_callback_worker \/ flush_callback \/ maybe_rotate
  \/ \E r \in IndexReaders :
       \/ get_metric_ids_from_tag_filters_cache(r) \/ search_metric_ids_internal(r)
       \/ search_metric_ids(r) \/ put_metric_ids_to_tag_filters_cache(r)
  \/ \E S \in SUBSET visible : delete_series(S)
  \/ update_deleted_metric_ids \/ DeletionResets \/ save_deleted_metric_ids

SearchSpec == SearchInit /\ [][SearchNext]_searchVars

----------------------------------------------------------------------------
(* What makes the cached results right.                                    *)

Settled == pushed = {} /\ ~needCallback /\ ~inCallback

\* When no callback is due, a cached result has every series that can be found, unless its
\* search was under way during a reset.
CachedResultsComplete ==
  Settled => \A e \in tfCache : ~e.overlapped => visible \ dmis \subseteq e.ids

\* Once the deletion of a series has returned, no cached result has the series, unless the
\* search was under way during the reset.
DeletedNotCached == \A e \in tfCache : ~e.overlapped => e.ids \cap deletedDone = {}

\* The same for every search: what the reset in save_deleted_metric_ids is there for.
DeletedNeverCached == \A e \in tfCache : e.ids \cap deletedDone = {}

\* The tag-filter cache answers as the index would: complete once the callbacks have run, and
\* without series whose deletion has returned (search_metric_ids, save_deleted_metric_ids).
SearchCacheSound == IndexSearchTypeOK /\ CachedResultsComplete /\ DeletedNotCached
=============================================================================
