---------------------------- MODULE RollupCache ----------------------------
(***************************************************************************)
(* The rollup result cache of esm-promql around the evaluation of a range  *)
(* query: get_series answers a prefix of the requested grid, the storage   *)
(* is read for the rest, merge_series joins the two and put_series stores  *)
(* the points that are too old to change.                                  *)
(*                                                                         *)
(* One query identity (expression, window, step, filters) is modelled, so  *)
(* the byte cache holds one metainfo value, under key 0, and one blob per  *)
(* call of put_series, under the number key_suffix gave it.  Times are     *)
(* ticks; the grid has a point every Step ticks.  A point's value stands   *)
(* for the samples in its window: 0 is NaN, and every sample that reaches  *)
(* the storage makes it another value.  Marshalling is left out, and so    *)
(* are sizes: an insertion may or may not exceed half of the budget.       *)
(*                                                                         *)
(* reset_rollup_result_cache has no caller in the repository, so no action *)
(* changes the key prefix.                                                 *)
(***************************************************************************)
EXTENDS Integers, Sequences, SequencesExt, FiniteSets, Functions

CONSTANTS
  RolledSeries,   \* the series that the query selects
  Queriers,       \* threads that evaluate range queries
  Step,           \* ticks between two points of the grid
  CacheOffset,    \* CACHE_TIMESTAMP_OFFSET_MS, in ticks
  MaxEntries,     \* MAX_METAINFO_ENTRIES
  QueryTicks,     \* bound on the ticks between reading the storage and put_series
  Backfill,       \* whether samples may come later than CacheOffset
  MaxTicks,       \* bound on the clock
  MaxIngested,    \* bound on the samples that are ingested
  MaxBlobs,       \* bound on key_suffix
  MaxRotations    \* bound on the rotations of the byte cache

ASSUME RollupAssumption ==
  /\ Step \in Nat \ {0} /\ CacheOffset \in Nat /\ MaxEntries \in Nat \ {0, 1}
  /\ QueryTicks \in Nat /\ Backfill \in BOOLEAN
  /\ MaxTicks \in Nat /\ MaxIngested \in Nat /\ MaxBlobs \in Nat
  /\ MaxRotations \in Nat

VARIABLES
  tick,      \* the wall clock
  stored,    \* the value of every series at every point, as the storage has it
  ingested,  \* the number of samples that reached the storage
  curr,      \* ByteCacheInner::curr
  prev,      \* ByteCacheInner::prev
  rotations, \* how often the current generation became the previous one
  suffix,    \* key_suffix
  query      \* what every querier is doing

cacheVars == <<curr, prev, rotations>>
rollupVars == <<tick, stored, ingested, cacheVars, suffix, query>>

Grid == {p \in 0..MaxTicks : p % Step = 0}
Points(from, to) == {p \in Grid : from <= p /\ p <= to}
MetaKey == 0
NoQuery == [pc |-> "idle"]
NoValues == [p \in Grid |-> 0]

RollupInit ==
  /\ tick = 0 /\ ingested = 0 /\ suffix = 0
  /\ stored = [s \in RolledSeries |-> NoValues]
  /\ curr = <<>> /\ prev = <<>> /\ rotations = 0
  /\ query = [q \in Queriers |-> NoQuery]
-----------------------------------------------------------------------------
(* ByteCache *)

\* Generation c with value v under key k.
With(c, k, v) == [x \in DOMAIN c \cup {k} |-> IF x = k THEN v ELSE c[x]]

\* insert: the current generation may have to become the previous one first.
insert(c, p, k, v) ==
  \/ curr' = With(c, k, v) /\ prev' = p /\ UNCHANGED rotations
  \/ /\ rotations < MaxRotations
     /\ curr' = [x \in {k} |-> v] /\ prev' = c /\ rotations' = rotations + 1

Cached(k) == k \in DOMAIN curr \cup DOMAIN prev
Value(k) == IF k \in DOMAIN curr THEN curr[k] ELSE prev[k]

\* get of an entry that is there: a hit in the previous generation is promoted.
Touch(k) ==
  IF k \in DOMAIN curr THEN UNCHANGED cacheVars
  ELSE insert(curr, Restrict(prev, DOMAIN prev \ {k}), k, prev[k])
-----------------------------------------------------------------------------
(* RollupResultCache::get_series *)

Covers(e, from, to) == e.from <= from /\ to <= e.to

Span(e, from, to) == Min({to, e.to}) - from

\* get_best_key: the last of the entries that cover most of from..to, from on.
get_best_key(mi, from, to) ==
  LET fit == {i \in DOMAIN mi : mi[i].from <= from /\ Span(mi[i], from, to) >= 0}
      best == {i \in fit : \A j \in fit : Span(mi[j], from, to) <= Span(mi[i], from, to)}
  IN  IF fit = {} THEN 0 ELSE mi[Max(best)].key

\* remove_key: the first entry with that key goes.
remove_key(mi, key) ==
  LET at == {i \in DOMAIN mi : mi[i].key = key}
  IN  IF at = {} THEN mi ELSE RemoveAt(mi, Min(at))

\* A query begins: the metainfo is looked up, and with it the blob to use.
get_series(q, from, to) ==
  /\ query[q].pc = "idle"
  /\ LET mi  == IF Cached(MetaKey) THEN Value(MetaKey) ELSE <<>>
         key == get_best_key(mi, from, to)
     IN  query' = [query EXCEPT ![q] =
           [pc |-> IF key = 0 THEN "eval" ELSE "blob", from |-> from, to |-> to,
            seen |-> stored, mi |-> IF key = 0 THEN <<>> ELSE mi, key |-> key,
            a |-> <<>>, tail |-> from, read |-> 0]]
  /\ IF Cached(MetaKey) THEN Touch(MetaKey) ELSE UNCHANGED cacheVars
  /\ UNCHANGED <<tick, stored, ingested, suffix>>

\* Mutant: the point after the cached ones is taken for cached too.
NewStart_Skips(last) == last + 2 * Step

NewStart(last) == last + Step

\* The blob is there: its points inside the request are the cached part.
ReadBlob(q) ==
  /\ query[q].pc = "blob" /\ Cached(query[q].key)
  /\ LET r   == query[q]
         b   == Value(r.key)
         cut == Points(r.from, Min({r.to, b.to}))
         hit == b.from <= r.from /\ cut # {}
     IN  query' = [query EXCEPT
           ![q].a = IF hit THEN [s \in DOMAIN b.tss |-> Restrict(b.tss[s], cut)] ELSE <<>>,
           ![q].tail = IF hit THEN NewStart(Max(cut)) ELSE r.from,
           ![q].pc = IF hit /\ NewStart(Max(cut)) > r.to THEN "hit" ELSE "eval",
           ![q].mi = <<>>, ![q].key = 0]
  /\ Touch(query[q].key)
  /\ UNCHANGED <<tick, stored, ingested, suffix>>

\* The blob was evicted.
BlobEvicted(q) ==
  /\ query[q].pc = "blob" /\ ~Cached(query[q].key)
  /\ query' = [query EXCEPT ![q].pc = "dangling"]
  /\ UNCHANGED <<tick, stored, ingested, cacheVars, suffix>>

\* The metainfo is stored again without the dangling key, as it was read before.
DropDangling(q) ==
  /\ query[q].pc = "dangling"
  /\ insert(curr, prev, MetaKey, remove_key(query[q].mi, query[q].key))
  /\ query' = [query EXCEPT ![q].pc = "eval", ![q].mi = <<>>, ![q].key = 0]
  /\ UNCHANGED <<tick, stored, ingested, suffix>>

\* A fully cached answer is returned.
FullHit(q) ==
  /\ query[q].pc = "hit"
  /\ query' = [query EXCEPT ![q] = NoQuery]
  /\ UNCHANGED <<tick, stored, ingested, cacheVars, suffix>>
-----------------------------------------------------------------------------
(* The evaluation *)

\* The series with a value somewhere in from..to, as a search finds them.
Evaluated(from, to) ==
  LET found == {s \in RolledSeries : \E p \in Points(from, to) : stored[s][p] # 0}
  IN  [s \in found |-> Restrict(stored[s], Points(from, to))]

\* Mutant: a series that only the cached part has is left out.
merge_series_OnlyTail(a, b, tail, from, to) ==
  [s \in DOMAIN b |->
     [p \in Points(from, to) |->
        IF p < tail THEN IF s \in DOMAIN a THEN a[s][p] ELSE 0 ELSE b[s][p]]]

\* merge_series: a series that one side lacks is NaN there.
merge_series(a, b, tail, from, to) ==
  LET SideOf(p) == IF p < tail THEN a ELSE b
  IN  [s \in DOMAIN a \cup DOMAIN b |->
         [p \in Points(from, to) |-> IF s \in DOMAIN SideOf(p) THEN SideOf(p)[s][p] ELSE 0]]

\* The rest of the grid is evaluated and merged with what was cached.
EvalTail(q) ==
  /\ query[q].pc = "eval"
  /\ LET r == query[q]
     IN  query' = [query EXCEPT
           ![q].a = merge_series(r.a, Evaluated(r.tail, r.to), r.tail, r.from, r.to),
           ![q].read = tick, ![q].pc = "put"]
  /\ UNCHANGED <<tick, stored, ingested, cacheVars, suffix>>

\* The evaluation fails, for instance at its deadline; nothing is stored.
EvalFails(q) ==
  /\ query[q].pc = "eval"
  /\ query' = [query EXCEPT ![q] = NoQuery]
  /\ UNCHANGED <<tick, stored, ingested, cacheVars, suffix>>
-----------------------------------------------------------------------------
(* RollupResultCache::put_series *)

\* Mutant: the points of the last step count as final.
Deadline_NoStep == tick - CacheOffset

\* Points after this one may still change.
Deadline == tick - Step - CacheOffset

Storable(r) == {p \in Points(r.from, r.to) : p <= Deadline}

\* Mutant: the entry names the requested range.
EntryEnd_Requested(r) == r.to

\* The end of the range that the metainfo entry names.
EntryEnd(r) == Max(Storable(r))

\* The final points of the answer, and the metainfo as it is now.
put_series(q) ==
  /\ query[q].pc = "put"
  /\ LET r   == query[q]
         mi  == IF Cached(MetaKey) THEN Value(MetaKey) ELSE <<>>
         fin == Storable(r)
         new == r.a # <<>> /\ fin # {}
                /\ \A i \in DOMAIN mi : ~Covers(mi[i], r.from, Max(fin))
     IN  query' = [query EXCEPT ![q] =
           IF ~new THEN NoQuery
           ELSE [pc |-> "store", mi |-> mi, read |-> r.read, from |-> r.from, last |-> Max(fin),
                 to |-> EntryEnd(r), tss |-> [s \in DOMAIN r.a |-> Restrict(r.a[s], fin)]]]
  /\ IF query[q].a # <<>> /\ Storable(query[q]) # {} /\ Cached(MetaKey)
     THEN Touch(MetaKey) ELSE UNCHANGED cacheVars
  /\ UNCHANGED <<tick, stored, ingested, suffix>>

\* The blob goes in under a key of its own, before the metainfo names it.
StoreBlob(q) ==
  /\ query[q].pc = "store" /\ suffix < MaxBlobs
  /\ suffix' = suffix + 1
  /\ LET r == query[q]
     IN  /\ insert(curr, prev, suffix', [from |-> r.from, to |-> r.last, tss |-> r.tss])
         /\ query' = [query EXCEPT ![q] =
              [pc |-> "name", mi |-> r.mi, read |-> r.read,
               entry |-> [from |-> r.from, to |-> r.to, key |-> suffix']]]
  /\ UNCHANGED <<tick, stored, ingested>>

\* add_key: over the bound, the older half of the entries is dropped.
add_key(mi, e) ==
  LET all == Append(mi, e)
  IN  IF Len(all) > MaxEntries THEN SubSeq(all, MaxEntries \div 2 + 1, Len(all)) ELSE all

\* The metainfo read in put_series is stored with the new entry.
NameBlob(q) ==
  /\ query[q].pc = "name"
  /\ insert(curr, prev, MetaKey, add_key(query[q].mi, query[q].entry))
  /\ query' = [query EXCEPT ![q] = NoQuery]
  /\ UNCHANGED <<tick, stored, ingested, suffix>>
-----------------------------------------------------------------------------
\* A sample in the window of point p reaches the storage.
Ingest(s, p) ==
  /\ ingested < MaxIngested
  /\ p - Step < tick
  /\ Backfill \/ tick <= p + CacheOffset
  /\ ingested' = ingested + 1
  /\ stored' = [stored EXCEPT ![s][p] = ingested + 1]
  /\ UNCHANGED <<tick, cacheVars, suffix, query>>

\* Time passes; a query stores its result QueryTicks after it read the data at most.
ClockTicks ==
  /\ tick < MaxTicks
  /\ \A q \in Queriers :
       query[q].pc \in {"put", "store", "name"} => tick + 1 - query[q].read <= QueryTicks
  /\ tick' = tick + 1
  /\ UNCHANGED <<stored, ingested, cacheVars, suffix, query>>

Ranges == {r \in Grid \X Grid : r[1] < r[2]}

RollupNext ==
  \/ \E q \in Queriers :
       \/ \E r \in Ranges : get_series(q, r[1], r[2])
       \/ ReadBlob(q) \/ BlobEvicted(q) \/ DropDangling(q) \/ FullHit(q)
       \/ EvalTail(q) \/ EvalFails(q)
       \/ put_series(q) \/ StoreBlob(q) \/ NameBlob(q)
  \/ \E s \in RolledSeries, p \in Grid : Ingest(s, p)
  \/ ClockTicks

RollupSpec == RollupInit /\ [][RollupNext]_rollupVars
-----------------------------------------------------------------------------
Blobs == {k \in DOMAIN curr \cup DOMAIN prev : k # MetaKey}

\* The cache holds what its types say: at most MaxEntries ranges, of blobs that
\* were stored with exactly those ranges.
RollupTypeOK ==
  /\ tick \in 0..MaxTicks /\ ingested \in 0..MaxIngested /\ suffix \in 0..MaxBlobs
  /\ stored \in [RolledSeries -> [Grid -> 0..MaxIngested]]
  /\ \A q \in Queriers :
       query[q].pc \in {"idle", "blob", "dangling", "hit", "eval", "put", "store", "name"}
  /\ Cached(MetaKey) =>
       LET mi == Value(MetaKey)
       IN  /\ Len(mi) <= MaxEntries
           /\ \A i \in DOMAIN mi :
                /\ mi[i].key \in 1..suffix
                /\ Cached(mi[i].key) =>
                     Value(mi[i].key).from = mi[i].from /\ Value(mi[i].key).to = mi[i].to

\* A cached point is final: whatever a blob says of a series at a point is what the
\* storage says now, so that a later query may use it instead of the data
\* (put_series cuts the points that samples may still change).
CachedPointsFinal ==
  \A k \in Blobs :
    \A p \in Points(Value(k).from, Value(k).to), s \in RolledSeries :
      stored[s][p] = IF s \in DOMAIN Value(k).tss THEN Value(k).tss[s][p] ELSE 0

\* The answer of a query, cached or merged, covers the whole grid it asked for and
\* gives every point a value the storage had between the query's begin and its end
\* (get_series, eval_rollup_func_with_metric_expr, merge_series).
AnswerIsCurrent ==
  \A q \in Queriers :
    query[q].pc \in {"put", "hit"} =>
      LET r == query[q]
      IN  /\ \A s \in DOMAIN r.a : DOMAIN r.a[s] = Points(r.from, r.to)
          /\ \A s \in RolledSeries, p \in Points(r.from, r.to) :
               LET v == IF s \in DOMAIN r.a THEN r.a[s][p] ELSE 0
               IN  r.seen[s][p] <= v /\ v <= stored[s][p]

\* Cached points are final, and an answer with cached points is one the storage could have given
\* during the query, though queries share and evict entries (get_series, put_series).
RollupSound == RollupTypeOK /\ CachedPointsFinal /\ AnswerIsCurrent
=============================================================================
