--------------------------- MODULE ThreadsProofs ---------------------------
(***************************************************************************)
(* Proofs about components whose threads share state, for all sets of      *)
(* threads, items and objects and for every bound: the tag-filter cache,   *)
(* the Kubernetes watch, the remote-write client of esmalert, the parallel *)
(* unpacking of series and a table of the mergeset.  They share no         *)
(* variable, so each has a theorem of its own specification.               *)
(***************************************************************************)
EXTENDS IndexSearch, KubeWatch, AlertWriter, ParallelUnpack, Mergeset,
        FiniteSetTheorems, SequenceTheorems, WellFoundedInduction, TLAPS

----------------------------------------------------------------------------
(* IndexSearch: the tag-filter cache.                                      *)

\* What searches and the deletion under way have in hand is visible, and the ids of a deletion
\* are marked before the cache is reset.
HandsVisible ==
  /\ \A r \in IndexReaders : readers[r].ids \subseteq visible
  /\ deletion.ids \subseteq visible
  /\ deletion.pc \in {"reset", "store"} => deletion.ids \subseteq dmis

\* The ids whose deletion has reset the cache.
ResetFor == deletedDone \cup {x \in deletion.ids : deletion.pc = "store"}

\* The searches that no reset has overtaken.
Current(pc) == {r \in IndexReaders : readers[r].pc = pc /\ ~readers[r].overlapped}

\* Between two resets, every result on its way to the cache has all that was visible, and
\* nothing that was deleted before the last one.
ResultsComplete ==
  Settled =>
    /\ \A e \in tfCache : ~e.overlapped => visible \ dmis \subseteq e.ids
    /\ \A r \in Current("found") : visible \subseteq readers[r].ids
    /\ \A r \in Current("filtered") : visible \ dmis \subseteq readers[r].ids

ResultsWithoutDeleted ==
  /\ \A e \in tfCache : ~e.overlapped => e.ids \cap ResetFor = {}
  /\ \A r \in Current("filtered") : readers[r].ids \cap ResetFor = {}

SearchInv == IndexSearchTypeOK /\ HandsVisible /\ ResultsComplete /\ ResultsWithoutDeleted

\* One entry at most.
LEMMA OneEntry ==
  /\ Cardinality({}) <= 1
  /\ \A e : Cardinality({e}) <= 1
BY FS_EmptySet, FS_Singleton

\* The invariant holds initially.
LEMMA SearchInitInv == SearchInit => SearchInv
<1> SUFFICES ASSUME SearchInit PROVE SearchInv OBVIOUS
<1>1. IndexSearchTypeOK BY OneEntry DEF SearchInit, IndexSearchTypeOK, SearchRec, Rest
<1>2. HandsVisible BY DEF SearchInit, HandsVisible, Rest
<1>3. ResultsComplete BY DEF SearchInit, ResultsComplete, Current, Rest
<1>4. ResultsWithoutDeleted BY DEF SearchInit, ResultsWithoutDeleted, Current, Rest
<1> QED BY <1>1, <1>2, <1>3, <1>4 DEF SearchInv

\* A reset leaves no entry, and no search that could be taken to be newer.
LEMMA ResetForgets ==
  ASSUME IndexSearchTypeOK, ResetCache
  PROVE  /\ tfCache' = {} /\ readers' \in [IndexReaders -> SearchRec]
         /\ \A r \in IndexReaders : readers'[r].ids = readers[r].ids
         /\ Current("found")' = {} /\ Current("filtered")' = {}
BY ZenonT(40) DEF IndexSearchTypeOK, ResetCache, SearchRec, Current

\* Every step keeps the invariant.
LEMMA SearchStep == SearchInv /\ [SearchNext]_searchVars => SearchInv'
<1> SUFFICES ASSUME SearchInv, [SearchNext]_searchVars PROVE SearchInv' OBVIOUS
<1> USE DEF SearchInv
<1>1. ASSUME NEW x \in SeriesIds, PartJoins(x) PROVE SearchInv'
  <2>1. IndexSearchTypeOK' BY <1>1 DEF PartJoins, IndexSearchTypeOK
  <2>2. HandsVisible' BY <1>1 DEF PartJoins, HandsVisible
  <2>3. ~Settled' BY <1>1 DEF PartJoins, Settled
  <2>4. ResultsWithoutDeleted' BY <1>1 DEF PartJoins, ResultsWithoutDeleted, ResetFor, Current
  <2> QED BY <2>1, <2>2, <2>3, <2>4 DEF ResultsComplete
<1>2. ASSUME NEW x \in SeriesIds, AskForCallback(x) PROVE SearchInv'
  <2>1. IndexSearchTypeOK' BY <1>2 DEF AskForCallback, IndexSearchTypeOK
  <2>2. HandsVisible' BY <1>2 DEF AskForCallback, HandsVisible
  <2>3. ~Settled' BY <1>2 DEF AskForCallback, Settled
  <2>4. ResultsWithoutDeleted' BY <1>2 DEF AskForCallback, ResultsWithoutDeleted, ResetFor, Current
  <2> QED BY <2>1, <2>2, <2>3, <2>4 DEF ResultsComplete
<1>3. ASSUME flush_callback_worker PROVE SearchInv'
  <2>1. IndexSearchTypeOK' BY <1>3 DEF flush_callback_worker, IndexSearchTypeOK
  <2>2. HandsVisible' BY <1>3 DEF flush_callback_worker, HandsVisible
  <2>3. ~Settled' BY <1>3 DEF flush_callback_worker, Settled
  <2>4. ResultsWithoutDeleted' BY <1>3 DEF flush_callback_worker, ResultsWithoutDeleted, ResetFor, Current
  <2> QED BY <2>1, <2>2, <2>3, <2>4 DEF ResultsComplete
<1>4. ASSUME flush_callback PROVE SearchInv'
  <2>1. IndexSearchTypeOK' BY <1>4, ResetForgets, OneEntry DEF flush_callback, IndexSearchTypeOK
  <2>2. HandsVisible' BY <1>4, ResetForgets DEF flush_callback, HandsVisible
  <2>3. ResultsComplete' BY <1>4, ResetForgets DEF flush_callback, ResultsComplete
  <2>4. ResultsWithoutDeleted' BY <1>4, ResetForgets DEF flush_callback, ResultsWithoutDeleted
  <2> QED BY <2>1, <2>2, <2>3, <2>4
<1>5. ASSUME maybe_rotate PROVE SearchInv'
  <2>1. IndexSearchTypeOK' BY <1>5, OneEntry DEF maybe_rotate, IndexSearchTypeOK
  <2>2. HandsVisible' BY <1>5 DEF maybe_rotate, HandsVisible
  <2>3. ResultsComplete' BY <1>5 DEF maybe_rotate, ResultsComplete, Settled, Current
  <2>4. ResultsWithoutDeleted' BY <1>5 DEF maybe_rotate, ResultsWithoutDeleted, ResetFor, Current
  <2> QED BY <2>1, <2>2, <2>3, <2>4
<1>6. ASSUME NEW r \in IndexReaders, get_metric_ids_from_tag_filters_cache(r) PROVE SearchInv'
  <2> USE <1>6 DEF get_metric_ids_from_tag_filters_cache
  <2>1. IndexSearchTypeOK' BY DEF IndexSearchTypeOK, SearchRec
  <2>2. HandsVisible' BY DEF HandsVisible, IndexSearchTypeOK, SearchRec
  <2>3. ResultsComplete' BY DEF ResultsComplete, Settled, Current, IndexSearchTypeOK, SearchRec
  <2>4. ResultsWithoutDeleted' BY DEF ResultsWithoutDeleted, ResetFor, Current, IndexSearchTypeOK, SearchRec
  <2> QED BY <2>1, <2>2, <2>3, <2>4
<1>7. ASSUME NEW r \in IndexReaders, search_metric_ids_internal(r) PROVE SearchInv'
  <2> USE <1>7 DEF search_metric_ids_internal
  <2>1. IndexSearchTypeOK' BY DEF IndexSearchTypeOK, SearchRec
  <2>2. HandsVisible' BY DEF HandsVisible, IndexSearchTypeOK, SearchRec
  <2>3. ResultsComplete' BY DEF ResultsComplete, Settled, Current, IndexSearchTypeOK, SearchRec
  <2>4. ResultsWithoutDeleted' BY DEF ResultsWithoutDeleted, ResetFor, Current, IndexSearchTypeOK, SearchRec
  <2> QED BY <2>1, <2>2, <2>3, <2>4
<1>8. ASSUME NEW r \in IndexReaders, search_metric_ids(r) PROVE SearchInv'
  <2> USE <1>8 DEF search_metric_ids
  <2>1. IndexSearchTypeOK' BY ZenonT(40) DEF IndexSearchTypeOK, SearchRec
  <2>2. HandsVisible' BY DEF HandsVisible, IndexSearchTypeOK, SearchRec
  <2>3. ResultsComplete' BY DEF ResultsComplete, Settled, Current, IndexSearchTypeOK, SearchRec
  <2>4. ResetFor \subseteq dmis BY DEF ResetFor, HandsVisible, IndexSearchTypeOK
  <2>5. ResultsWithoutDeleted' BY <2>4 DEF ResultsWithoutDeleted, ResetFor, Current, IndexSearchTypeOK, SearchRec
  <2> QED BY <2>1, <2>2, <2>3, <2>5
<1>9. ASSUME NEW r \in IndexReaders, put_metric_ids_to_tag_filters_cache(r) PROVE SearchInv'
  <2> USE <1>9 DEF put_metric_ids_to_tag_filters_cache
  <2>1. IndexSearchTypeOK'
    <3>1. Cardinality(tfCache') <= 1 BY OneEntry
    <3>2. readers' \in [IndexReaders -> SearchRec] BY DEF IndexSearchTypeOK, SearchRec, Rest
    <3>3. tfCache' \subseteq [ids : SUBSET visible, overlapped : BOOLEAN]
      BY DEF IndexSearchTypeOK, HandsVisible, SearchRec
    <3> QED BY <3>1, <3>2, <3>3 DEF IndexSearchTypeOK
  <2>2. HandsVisible' BY DEF HandsVisible, IndexSearchTypeOK, SearchRec, Rest
  <2>3. ResultsComplete' BY DEF ResultsComplete, Settled, Current, IndexSearchTypeOK, SearchRec, Rest
  <2>4. ResultsWithoutDeleted' BY DEF ResultsWithoutDeleted, ResetFor, Current, IndexSearchTypeOK, SearchRec, Rest
  <2> QED BY <2>1, <2>2, <2>3, <2>4
<1>10. ASSUME NEW S \in SUBSET visible, delete_series(S) PROVE SearchInv'
  <2> USE <1>10 DEF delete_series
  <2>1. IndexSearchTypeOK' BY DEF IndexSearchTypeOK
  <2>2. HandsVisible' BY DEF HandsVisible
  <2>3. ResultsComplete' BY DEF ResultsComplete, Settled, Current
  <2>4. ResultsWithoutDeleted' BY DEF ResultsWithoutDeleted, ResetFor, Current
  <2> QED BY <2>1, <2>2, <2>3, <2>4
<1>11. ASSUME update_deleted_metric_ids PROVE SearchInv'
  <2> USE <1>11 DEF update_deleted_metric_ids
  <2>1. IndexSearchTypeOK' BY DEF IndexSearchTypeOK, HandsVisible
  <2>2. HandsVisible' BY DEF HandsVisible, IndexSearchTypeOK
  <2>3. ResultsComplete' BY DEF ResultsComplete, Settled, Current
  <2>4. ResultsWithoutDeleted' BY DEF ResultsWithoutDeleted, ResetFor, Current, IndexSearchTypeOK
  <2> QED BY <2>1, <2>2, <2>3, <2>4
<1>12. ASSUME DeletionResets PROVE SearchInv'
  <2> USE <1>12 DEF DeletionResets
  <2>1. IndexSearchTypeOK' BY ResetForgets, OneEntry DEF IndexSearchTypeOK
  <2>2. HandsVisible' BY ResetForgets DEF HandsVisible, IndexSearchTypeOK
  <2>3. ResultsComplete' BY ResetForgets DEF ResultsComplete
  <2>4. ResultsWithoutDeleted' BY ResetForgets DEF ResultsWithoutDeleted
  <2> QED BY <2>1, <2>2, <2>3, <2>4
<1>13. ASSUME save_deleted_metric_ids PROVE SearchInv'
  <2> USE <1>13 DEF save_deleted_metric_ids
  <2>1. IndexSearchTypeOK' BY DEF IndexSearchTypeOK, HandsVisible
  <2>2. HandsVisible' BY DEF HandsVisible
  <2>3. ResultsComplete' BY DEF ResultsComplete, Settled, Current
  <2>4. ResetFor' = ResetFor BY DEF ResetFor
  <2>5. ResultsWithoutDeleted' BY <2>4 DEF ResultsWithoutDeleted, Current
  <2> QED BY <2>1, <2>2, <2>3, <2>5
<1>14. ASSUME UNCHANGED searchVars PROVE SearchInv'
  BY <1>14 DEF searchVars, IndexSearchTypeOK, HandsVisible, ResultsComplete, ResultsWithoutDeleted,
               Settled, Current, ResetFor
<1> QED BY <1>1, <1>2, <1>3, <1>4, <1>5, <1>6, <1>7, <1>8, <1>9, <1>10, <1>11, <1>12, <1>13, <1>14 DEF SearchNext

\* For all series and searchers: a cached result is complete once the flush callbacks have run and
\* never has a series whose deletion had returned, unless its search overlapped the reset.
THEOREM SearchCache == SearchSpec => []SearchCacheSound
<1>1. SearchInv => SearchCacheSound
  BY DEF SearchInv, SearchCacheSound, ResultsComplete, CachedResultsComplete, ResultsWithoutDeleted,
         DeletedNotCached, ResetFor
<1> QED BY <1>1, SearchInitInv, SearchStep, PTL DEF SearchSpec

----------------------------------------------------------------------------
(* KubeWatch: the cache of a Kubernetes watcher.                           *)

Versions   == 0..Newest
WatcherRec ==
  [pc : {"list", "pages", "watch", "stream", "exited"}, rv : Versions, at : Versions,
   left : SUBSET Objects, got : [Objects -> 0..MaxVersions], stop : BOOLEAN]

HistoryType ==
  /\ history \in Seq([Objects -> 0..MaxVersions]) /\ Newest \in 1..MaxVersions
  /\ floor \in 1..Newest /\ apiFaults \in 0..MaxApiFaults
  /\ kw \in WatcherRec
  /\ kw.pc \in {"watch", "stream"} => kw.rv # 0
  /\ kw.pc \in {"list", "pages"} => kw.rv = 0

\* No object is newer than the version it is seen in.
ObjectsNotNewer == \A v \in 1..Newest : \A o \in Objects : history[v][o] <= v

\* The pages so far are those of one version.
PagesOfOneVersion ==
  kw.pc = "pages" =>
    /\ kw.at # 0 /\ kw.left \subseteq {o \in Objects : history[kw.at][o] # 0}
    /\ kw.got = [o \in Objects |-> IF o \in kw.left THEN 0 ELSE history[kw.at][o]]

KubeInv == HistoryType /\ ObjectsNotNewer /\ PagesOfOneVersion /\ CacheAtVersion /\ CacheWasReal

\* Every set of naturals that is not empty has a least element.
LEMMA LeastElement ==
  ASSUME NEW S \in SUBSET Nat, S # {}
  PROVE  \E m \in S : \A n \in S : m <= n
<1> DEFINE R == {p \in Nat \X Nat : p[1] < p[2]}
<1>1. IsWellFoundedOn(R, Nat) BY NatLessThanWellFounded DEF OpToRel
<1> HIDE DEF R
<1>2. PICK m \in S : \A y \in S : ~(<<y, m>> \in R) BY <1>1, WFMin
<1>3. \A y \in S : ~(y < m) BY <1>2 DEF R
<1> QED BY <1>3

\* A sequence of values that never differ from the one before stays what it was.
LEMMA ConstantRun ==
  ASSUME NEW f, NEW a \in Nat, NEW b \in Nat, a <= b, \A w \in a + 1 .. b : f[w] = f[w - 1]
  PROVE  f[b] = f[a]
<1> SUFFICES ASSUME f[b] # f[a] PROVE FALSE OBVIOUS
<1> DEFINE S == {w \in Nat : w \in a..b /\ f[w] # f[a]}
<1>1. S \in SUBSET Nat /\ b \in S OBVIOUS
<1>2. PICK m \in S : \A n \in S : m <= n BY <1>1, LeastElement
<1>3. m \in a + 1 .. b BY <1>2
<1>4. f[m] = f[m - 1] BY <1>3
<1>5. m - 1 \in S BY <1>2, <1>3, <1>4
<1> QED BY <1>2, <1>5

\* The invariant holds initially.
LEMMA KubeInitInv == KubeInit => KubeInv
<1> SUFFICES ASSUME KubeInit PROVE KubeInv OBVIOUS
<1> USE KubeAssumption DEF KubeInit
<1>1. Empty \in [Objects -> 0..MaxVersions] BY DEF Empty
<1>2. Newest = 1 /\ history[1] = Empty /\ history \in Seq([Objects -> 0..MaxVersions]) BY <1>1 DEF Newest
<1>3. HistoryType BY <1>1, <1>2 DEF HistoryType, WatcherRec, Versions
<1>4. ObjectsNotNewer BY <1>2 DEF ObjectsNotNewer, Empty
<1>5. PagesOfOneVersion /\ CacheAtVersion /\ CacheWasReal
  BY <1>2 DEF PagesOfOneVersion, CacheAtVersion, CacheWasReal
<1> QED BY <1>3, <1>4, <1>5 DEF KubeInv

\* The server adds a version: what was known of the older ones stays true.
VersionAdded(s) == history' = Append(history, s)

\* The API server records one more version.
LEMMA HistoryGrows ==
  ASSUME KubeInv, NEW s \in [Objects -> 0..MaxVersions], Newest < MaxVersions,
         \A o \in Objects : s[o] <= Newest + 1,
         VersionAdded(s), UNCHANGED <<floor, kw, objects, apiFaults>>
  PROVE  KubeInv'
<1> USE KubeAssumption DEF KubeInv
<1>1. history' \in Seq([Objects -> 0..MaxVersions]) /\ Newest' = Newest + 1
  BY DEF HistoryType, Newest, VersionAdded
<1>2. \A v \in 1..Newest : history'[v] = history[v] BY <1>1 DEF HistoryType, Newest, VersionAdded
<1>3. history'[Newest'] = s BY <1>1 DEF HistoryType, Newest, VersionAdded
<1>0. Newest \in Nat /\ kw.rv \in 0..Newest /\ kw.at \in 0..Newest BY DEF HistoryType, WatcherRec, Versions
<1>4. HistoryType' BY <1>1, <1>0 DEF HistoryType, WatcherRec, Versions
<1>5. ObjectsNotNewer'
  <2> SUFFICES ASSUME NEW v \in 1..Newest', NEW o \in Objects PROVE history'[v][o] <= v
    BY DEF ObjectsNotNewer
  <2>1. CASE v = Newest' BY <2>1, <1>1, <1>3
  <2>2. CASE v # Newest'
    <3>1. v \in 1..Newest BY <2>2, <1>0, <1>1
    <3> QED BY <3>1, <1>2 DEF ObjectsNotNewer
  <2> QED BY <2>1, <2>2
<1>6. PagesOfOneVersion'
  <2>1. kw.at # 0 => history'[kw.at] = history[kw.at] BY <1>0, <1>2
  <2> QED BY <2>1 DEF PagesOfOneVersion
<1>7. CacheAtVersion'
  <2>1. kw.rv # 0 => history'[kw.rv] = history[kw.rv] BY <1>0, <1>2
  <2> QED BY <2>1 DEF CacheAtVersion
<1>8. CacheWasReal'
  <2>1. PICK v \in 1..Newest : objects = history[v] BY DEF CacheWasReal
  <2>2. v \in 1..Newest' /\ history'[v] = history[v] BY <1>0, <1>1, <1>2
  <2> QED BY <2>1, <2>2 DEF CacheWasReal
<1> QED BY <1>4, <1>5, <1>6, <1>7, <1>8

\* Steps that leave the history alone and the cache at a version.
LEMMA SameHistory ==
  ASSUME KubeInv, UNCHANGED history, HistoryType', PagesOfOneVersion', CacheAtVersion',
         objects' = objects \/ \E v \in 1..Newest : objects' = history[v]
  PROVE  KubeInv'
BY DEF KubeInv, ObjectsNotNewer, CacheWasReal, Newest

\* Every step keeps the invariant.
LEMMA KubeStep == KubeInv /\ [KubeNext]_kubeVars => KubeInv'
<1> SUFFICES ASSUME KubeInv, [KubeNext]_kubeVars PROVE KubeInv' OBVIOUS
<1> USE KubeAssumption
<1>a. /\ HistoryType /\ ObjectsNotNewer /\ PagesOfOneVersion /\ CacheAtVersion /\ CacheWasReal
      /\ \A v \in 1..Newest : history[v] \in [Objects -> 0..MaxVersions]
      /\ Empty \in [Objects -> 0..MaxVersions] /\ Newest \in Nat
      /\ floor \in Nat /\ kw \in WatcherRec /\ apiFaults \in Nat
      /\ \A v : v \in Versions <=> v \in 0..Newest
  BY DEF KubeInv, HistoryType, Empty, Newest, Versions
<1>b. ASSUME UNCHANGED <<history, floor>>, apiFaults' \in 0..MaxApiFaults, kw' \in WatcherRec,
             kw'.pc \in {"watch", "stream"} => kw'.rv # 0, kw'.pc \in {"list", "pages"} => kw'.rv = 0
      PROVE  HistoryType'
  <2>1. UNCHANGED Newest /\ UNCHANGED WatcherRec BY <1>b DEF Newest, WatcherRec, Versions
  <2> QED BY <1>a, <1>b, <2>1 DEF HistoryType
<1>1. ASSUME NEW o \in Objects, ObjectChanges(o) PROVE KubeInv'
  <2>1. PICK present \in BOOLEAN :
          history' = Append(history, [history[Newest] EXCEPT ![o] = IF present THEN Newest + 1 ELSE 0])
    BY <1>1 DEF ObjectChanges
  <2> DEFINE s == [history[Newest] EXCEPT ![o] = IF present THEN Newest + 1 ELSE 0]
  <2>2. s \in [Objects -> 0..MaxVersions] /\ \A p \in Objects : s[p] <= Newest + 1
    BY <1>a, <1>1 DEF ObjectChanges, HistoryType, ObjectsNotNewer
  <2> QED BY <1>1, <2>1, <2>2, HistoryGrows DEF ObjectChanges, VersionAdded
<1>2. ASSUME OtherChanges PROVE KubeInv'
  <2>1. history[Newest] \in [Objects -> 0..MaxVersions] /\ \A p \in Objects : history[Newest][p] <= Newest + 1
    BY <1>a DEF HistoryType, ObjectsNotNewer
  <2> QED BY <1>2, <2>1, HistoryGrows DEF OtherChanges, VersionAdded
<1>3. ASSUME Compact PROVE KubeInv'
  <2>1. UNCHANGED Newest /\ UNCHANGED WatcherRec BY <1>3 DEF Compact, Newest, WatcherRec, Versions
  <2>2. HistoryType' BY <1>3, <1>a, <2>1 DEF Compact, HistoryType
  <2> QED BY <1>3, <1>a, <2>2, SameHistory DEF Compact, PagesOfOneVersion, CacheAtVersion
<1>4. ASSUME list_all PROVE KubeInv'
  <2>1. PICK v \in floor..Newest :
          kw' = [kw EXCEPT !.pc = "pages", !.at = v, !.got = Empty, !.left = {o \in Objects : history[v][o] # 0}]
    BY <1>4 DEF list_all
  <2>2. HistoryType'
    <3>0. v \in Versions BY <1>a
    <3>1. kw' \in WatcherRec BY <2>1, <3>0, <1>a DEF WatcherRec
    <3>2. kw'.pc = "pages" /\ kw'.rv = 0 BY <1>4, <2>1, <1>a DEF list_all, WatcherRec
    <3> QED BY <1>4, <1>a, <1>b, <3>1, <3>2 DEF list_all, HistoryType
  <2>3. PagesOfOneVersion' BY <1>4, <2>1, <1>a DEF list_all, HistoryType, PagesOfOneVersion, Empty, WatcherRec
  <2>4. CacheAtVersion' BY <1>4, <2>1, <1>a DEF list_all, HistoryType, CacheAtVersion, WatcherRec
  <2> QED BY <1>4, <2>2, <2>3, <2>4, SameHistory DEF list_all
<1>5. ASSUME NEW o \in Objects, list_page(o) PROVE KubeInv'
  <2>1. HistoryType'
    <3>1. kw.at \in 1..Newest BY <1>5, <1>a DEF list_page, PagesOfOneVersion, WatcherRec
    <3>2. history[kw.at][o] \in 0..MaxVersions BY <3>1, <1>a
    <3>3. kw' \in WatcherRec BY <1>5, <3>2, <1>a DEF list_page, WatcherRec
    <3>4. kw'.pc = "pages" /\ kw'.rv = 0 BY <1>5, <1>a DEF list_page, HistoryType, WatcherRec
    <3> QED BY <1>5, <1>a, <1>b, <3>3, <3>4 DEF list_page, HistoryType
  <2>2. PagesOfOneVersion' BY <1>5, <1>a DEF list_page, HistoryType, PagesOfOneVersion, WatcherRec
  <2>3. CacheAtVersion' BY <1>5, <1>a DEF list_page, HistoryType, CacheAtVersion, WatcherRec
  <2> QED BY <1>5, <2>1, <2>2, <2>3, SameHistory DEF list_page
<1>6. ASSUME ListEnds PROVE KubeInv'
  <2>1. kw.at \in 1..Newest /\ kw.got = history[kw.at]
    BY <1>6, <1>a DEF ListEnds, HistoryType, WatcherRec, PagesOfOneVersion
  <2>2. HistoryType'
    <3>1. kw' \in WatcherRec BY <1>6, <1>a DEF ListEnds, WatcherRec
    <3>2. kw'.pc = "watch" /\ kw'.rv = kw.at BY <1>6, <1>a DEF ListEnds, WatcherRec
    <3> QED BY <1>6, <2>1, <1>a, <1>b, <3>1, <3>2 DEF ListEnds, HistoryType
  <2>3. PagesOfOneVersion' BY <1>6, <1>a DEF ListEnds, HistoryType, PagesOfOneVersion, WatcherRec
  <2>4. objects' = history[kw.at] /\ kw'.rv = kw.at
    BY <1>6, <2>1, <1>a DEF ListEnds, replace_cache, HistoryType, WatcherRec
  <2>5. CacheAtVersion' BY <1>6, <2>4 DEF ListEnds, CacheAtVersion
  <2> QED BY <1>6, <2>1, <2>2, <2>3, <2>4, <2>5, SameHistory DEF ListEnds
<1>7. ASSUME UNCHANGED <<history, floor, objects>>, apiFaults' \in 0..MaxApiFaults,
             kw' \in WatcherRec, kw'.rv = kw.rv \/ kw'.rv = 0,
             kw'.pc \in {"watch", "stream"} => kw'.rv # 0,
             kw'.pc = "list" => kw'.rv = 0, kw'.pc = "pages" => kw' = [kw EXCEPT !.stop = TRUE]
      PROVE  KubeInv'
  <2>1. kw'.pc = "pages" => /\ kw.pc = "pages" /\ kw'.rv = kw.rv /\ kw'.at = kw.at
                            /\ kw'.left = kw.left /\ kw'.got = kw.got
    BY <1>7, <1>a DEF HistoryType, WatcherRec
  <2>2. HistoryType' BY <1>7, <2>1, <1>a, <1>b DEF HistoryType, WatcherRec
  <2>3. PagesOfOneVersion' BY <1>7, <2>1, <1>a DEF PagesOfOneVersion
  <2>4. CacheAtVersion' BY <1>7, <1>a DEF CacheAtVersion
  <2> QED BY <1>7, <2>2, <2>3, <2>4, SameHistory
<1>8. ASSUME watch_once PROVE KubeInv'
  <2>1. kw' = Gone \/ kw' = [kw EXCEPT !.pc = "stream"] BY <1>8 DEF watch_once
  <2>2. CASE kw' = Gone
    <3>1. 0 \in Versions BY <1>a
    <3>2. kw' \in WatcherRec /\ kw'.pc = "list" /\ kw'.rv = 0 BY <2>2, <3>1, <1>a DEF Gone, WatcherRec
    <3> QED BY <1>8, <1>7, <1>a, <3>2 DEF watch_once, HistoryType
  <2>3. CASE kw' = [kw EXCEPT !.pc = "stream"]
    <3>1. kw' \in WatcherRec /\ kw'.pc = "stream" /\ kw'.rv = kw.rv BY <2>3, <1>a DEF WatcherRec
    <3>2. kw.rv # 0 BY <1>8, <1>a DEF watch_once, HistoryType
    <3> QED BY <1>8, <1>7, <1>a, <3>1, <3>2 DEF watch_once, HistoryType
  <2> QED BY <2>1, <2>2, <2>3
<1>9. ASSUME WatcherExits PROVE KubeInv'
  BY <1>9, <1>7, <1>a DEF WatcherExits, HistoryType, WatcherRec
<1>10. ASSUME ListFails PROVE KubeInv'
  <2>1. kw' \in WatcherRec /\ kw'.pc = "list" /\ kw'.rv = kw.rv BY <1>10, <1>a DEF ListFails, WatcherRec
  <2>2. kw.rv = 0 BY <1>10, <1>a DEF ListFails, HistoryType
  <2>3. apiFaults' \in 0..MaxApiFaults BY <1>10, <1>a DEF ListFails, HistoryType
  <2> QED BY <1>10, <1>7, <2>1, <2>2, <2>3 DEF ListFails
<1>11. ASSUME WatchFails PROVE KubeInv'
  <2>1. kw' \in WatcherRec /\ kw'.pc = "watch" /\ kw'.rv = kw.rv BY <1>11, <1>a DEF WatchFails, Resume, WatcherRec
  <2>2. kw.rv # 0 BY <1>11, <1>a DEF WatchFails, HistoryType
  <2>3. apiFaults' \in 0..MaxApiFaults BY <1>11, <1>a DEF WatchFails, HistoryType
  <2> QED BY <1>11, <1>7, <2>1, <2>2, <2>3 DEF WatchFails
<1>12. ASSUME StreamEvent PROVE KubeInv'
  <2>1. PICK v \in NextChange(kw.rv) : apply_watch_line(v) BY <1>12 DEF StreamEvent
  <2>2. /\ kw.rv \in 1..Newest /\ v \in kw.rv + 1 .. Newest /\ objects = history[kw.rv]
        /\ \A w \in kw.rv + 1 .. v - 1 : history[w] = history[w - 1]
    BY <1>12, <1>a, <2>1 DEF StreamEvent, NextChange, HistoryType, WatcherRec, CacheAtVersion
  <2>3. history[v - 1] = objects
    <3>1. /\ kw.rv \in Nat /\ v - 1 \in Nat /\ kw.rv <= v - 1
          /\ \A w \in kw.rv + 1 .. v - 1 : history[w] = history[w - 1]
      BY <2>2, <1>a
    <3>2. history[v - 1] = history[kw.rv] BY ONLY <3>1, ConstantRun
    <3> QED BY <2>2, <3>2
  <2>4. objects' = history[v]
    <3>1. history[v] \in [Objects -> 0..MaxVersions] BY <1>a, <2>2
    <3>2. objects' = [o \in Objects |-> history[v][o]] BY <2>1, <2>3 DEF apply_watch_line
    <3> QED BY <3>1, <3>2
  <2>5. kw' = [kw EXCEPT !.rv = v] BY <2>1 DEF apply_watch_line
  <2>6. HistoryType'
    <3>1. v \in Versions /\ v # 0 BY SMTT(40), <2>2, <1>a
    <3>2. kw' \in WatcherRec BY <2>5, <3>1, <1>a DEF WatcherRec
    <3>3. kw'.pc = "stream" /\ kw'.rv = v BY <1>12, <2>5, <1>a DEF StreamEvent, WatcherRec
    <3> QED BY <1>12, <1>a, <1>b, <3>1, <3>2, <3>3 DEF StreamEvent, HistoryType
  <2>7. PagesOfOneVersion' BY <1>12, <2>5, <1>a DEF StreamEvent, HistoryType, PagesOfOneVersion, WatcherRec
  <2>8. CacheAtVersion' BY <1>12, <2>4, <2>5, <1>a DEF StreamEvent, CacheAtVersion, HistoryType, WatcherRec
  <2>9. v \in 1..Newest BY <2>2, <1>a
  <2> QED BY <1>12, <2>4, <2>6, <2>7, <2>8, <2>9, SameHistory DEF StreamEvent
<1>13. ASSUME Bookmark PROVE KubeInv'
  <2>1. PICK v \in kw.rv + 1 .. Newest :
          (\A w \in kw.rv + 1 .. v : history[w] = history[w - 1]) /\ kw' = [kw EXCEPT !.rv = v]
    BY <1>13 DEF Bookmark
  <2>2. kw.rv \in 1..Newest /\ objects = history[kw.rv]
    BY <1>13, <1>a DEF Bookmark, HistoryType, WatcherRec, CacheAtVersion
  <2>3. history[v] = objects
    <3>1. /\ kw.rv \in Nat /\ v \in Nat /\ kw.rv <= v
          /\ \A w \in kw.rv + 1 .. v : history[w] = history[w - 1]
      BY <2>1, <2>2, <1>a
    <3>2. history[v] = history[kw.rv] BY ONLY <3>1, ConstantRun
    <3> QED BY <2>2, <3>2
  <2>4. HistoryType'
    <3>1. v \in Versions /\ v # 0 BY <2>1, <2>2, <1>a
    <3>2. kw' \in WatcherRec BY <2>1, <3>1, <1>a DEF WatcherRec
    <3>3. kw'.pc = "stream" /\ kw'.rv = v BY <1>13, <2>1, <1>a DEF Bookmark, WatcherRec
    <3> QED BY <1>13, <1>a, <1>b, <3>1, <3>2, <3>3 DEF Bookmark, HistoryType
  <2>5. PagesOfOneVersion' BY <1>13, <2>1, <1>a DEF Bookmark, HistoryType, PagesOfOneVersion, WatcherRec
  <2>6. CacheAtVersion' BY <1>13, <2>1, <2>3, <1>a DEF Bookmark, CacheAtVersion, HistoryType, WatcherRec
  <2> QED BY <1>13, <2>4, <2>5, <2>6, SameHistory DEF Bookmark
<1>14. ASSUME StreamGone PROVE KubeInv'
  <2>1. 0 \in Versions BY <1>a
  <2>2. kw' \in WatcherRec /\ kw'.pc = "list" /\ kw'.rv = 0 BY <1>14, <2>1, <1>a DEF StreamGone, Gone, WatcherRec
  <2> QED BY <1>14, <1>7, <1>a, <2>2 DEF StreamGone, HistoryType
<1>15. ASSUME StreamCloses PROVE KubeInv'
  BY <1>15, <1>7, <1>a DEF StreamCloses, Resume, HistoryType, WatcherRec
<1>16. ASSUME stop_watcher PROVE KubeInv'
  BY <1>16, <1>7, <1>a DEF stop_watcher, HistoryType, WatcherRec
<1>17. ASSUME UNCHANGED kubeVars PROVE KubeInv'
  BY <1>17 DEF kubeVars, KubeInv, HistoryType, ObjectsNotNewer, PagesOfOneVersion, CacheAtVersion,
               CacheWasReal, Newest, WatcherRec, Versions
<1> QED BY <1>1, <1>2, <1>3, <1>4, <1>5, <1>6, <1>8, <1>9, <1>10, <1>11, <1>12, <1>13, <1>14, <1>15, <1>16, <1>17
        DEF KubeNext, WatcherWorks

\* For all objects and any number of versions and faults: the cache of the watcher is the state of
\* the objects at the version it watches from, and never a mixture of two lists.
THEOREM WatchCache == KubeSpec => []WatchSound
<1>1. KubeInv => WatchSound
  <2> SUFFICES ASSUME KubeInv PROVE WatchSound OBVIOUS
  <2>1. PICK v \in 1..Newest : objects = history[v] BY DEF KubeInv, CacheWasReal
  <2>2. history[v] \in [Objects -> 0..MaxVersions] /\ \A o \in Objects : history[v][o] <= v
    BY DEF KubeInv, HistoryType, Newest, ObjectsNotNewer
  <2>3. objects \in [Objects -> 0..Newest]
    BY <2>1, <2>2, KubeAssumption DEF KubeInv, HistoryType
  <2> QED BY <2>3 DEF KubeInv, HistoryType, WatcherRec, WatchSound, KubeTypeOK, Versions
<1> QED BY <1>1, KubeInitInv, KubeStep, PTL DEF KubeSpec

----------------------------------------------------------------------------
(* Sequences of which no element comes twice.                              *)

Elems(s)    == {s[k] : k \in DOMAIN s}
Distinct(s) == \A j, k \in DOMAIN s : s[j] = s[k] => j = k

\* An element more.
LEMMA AppendElems ==
  ASSUME NEW s \in Seq(Nat), NEW x \in Nat
  PROVE  /\ Elems(Append(s, x)) = Elems(s) \cup {x}
         /\ Distinct(s) /\ x \notin Elems(s) => Distinct(Append(s, x))
<1> DEFINE t == Append(s, x)
<1>1. /\ t \in Seq(Nat) /\ DOMAIN t = DOMAIN s \cup {Len(s) + 1}
      /\ \A k \in DOMAIN s : t[k] = s[k]
      /\ t[Len(s) + 1] = x
  OBVIOUS
<1> HIDE DEF t
<1>2. Elems(t) = Elems(s) \cup {x} BY <1>1 DEF Elems
<1>3. Distinct(s) /\ x \notin Elems(s) => Distinct(t) BY <1>1 DEF Elems, Distinct
<1> QED BY <1>2, <1>3 DEF t

\* A sequence is cut in two.
LEMMA CutElems ==
  ASSUME NEW s \in Seq(Nat), NEW n \in 0..Len(s)
  PROVE  LET a == SubSeq(s, 1, n)
             b == SubSeq(s, n + 1, Len(s))
         IN  /\ a \in Seq(Nat) /\ b \in Seq(Nat) /\ Len(a) = n /\ Len(b) = Len(s) - n
             /\ Elems(a) \cup Elems(b) = Elems(s)
             /\ Distinct(s) => Distinct(a) /\ Distinct(b) /\ Elems(a) \cap Elems(b) = {}
<1> DEFINE a == SubSeq(s, 1, n)
           b == SubSeq(s, n + 1, Len(s))
           L == Len(s)
<1>1. a \in Seq(Nat) /\ b \in Seq(Nat) /\ Len(a) = n /\ Len(b) = L - n OBVIOUS
<1>2. \A k \in 1..n : a[k] = s[k] OBVIOUS
<1>3. \A k \in 1..L - n : b[k] = s[n + k] OBVIOUS
<1>4. DOMAIN s = 1..L /\ DOMAIN a = 1..n /\ DOMAIN b = 1..L - n /\ L \in Nat /\ n \in 0..L BY <1>1
<1> HIDE DEF a, b, L
<1>5. \A k \in 1..L - n : n + k \in 1..L BY <1>4
<1>6. Elems(a) \subseteq Elems(s) BY <1>2, <1>4 DEF Elems
<1>7. Elems(b) \subseteq Elems(s) BY <1>3, <1>4, <1>5 DEF Elems
<1>8. Elems(s) \subseteq Elems(a) \cup Elems(b)
  <2> SUFFICES ASSUME NEW k \in 1..L PROVE s[k] \in Elems(a) \cup Elems(b) BY <1>4 DEF Elems
  <2>1. CASE k <= n BY SMTT(40), <2>1, <1>2, <1>4 DEF Elems
  <2>2. CASE k > n
    <3>1. k - n \in 1..L - n /\ n + (k - n) = k BY <2>2, <1>4
    <3>2. b[k - n] = s[k] BY <3>1, <1>3
    <3> QED BY <3>1, <3>2, <1>4 DEF Elems
  <2> QED BY <2>1, <2>2, <1>4
<1>9. ASSUME Distinct(s) PROVE Distinct(a) BY <1>9, <1>2, <1>4 DEF Distinct
<1>10. ASSUME Distinct(s) PROVE Distinct(b)
  <2> SUFFICES ASSUME NEW j \in 1..L - n, NEW k \in 1..L - n, b[j] = b[k] PROVE j = k
    BY <1>4 DEF Distinct
  <2>1. s[n + j] = s[n + k] BY <1>3
  <2>2. n + j = n + k BY <2>1, <1>10, <1>5, <1>4 DEF Distinct
  <2> QED BY <2>2, <1>4
<1>11. ASSUME Distinct(s), NEW x \in Elems(a), x \in Elems(b) PROVE FALSE
  <2>1. PICK j \in 1..n : x = s[j] BY <1>11, <1>2, <1>4 DEF Elems
  <2>2. PICK k \in 1..L - n : x = s[n + k] BY <1>11, <1>3, <1>4 DEF Elems
  <2>3. j \in DOMAIN s /\ n + k \in DOMAIN s /\ s[j] = s[n + k] BY <2>1, <2>2, <1>5, <1>4
  <2>4. j = n + k BY <2>3, <1>11 DEF Distinct
  <2> QED BY <2>4, <1>4
<1> QED BY <1>1, <1>6, <1>7, <1>8, <1>9, <1>10, <1>11 DEF a, b, L

\* Two sequences are put together.
LEMMA ConcatElems ==
  ASSUME NEW s \in Seq(Nat), NEW t \in Seq(Nat)
  PROVE  /\ s \o t \in Seq(Nat)
         /\ Elems(s \o t) = Elems(s) \cup Elems(t)
         /\ Distinct(s) /\ Distinct(t) /\ Elems(s) \cap Elems(t) = {} => Distinct(s \o t)
<1> DEFINE c == s \o t
           m == Len(s)
           n == Len(t)
<1>1. c \in Seq(Nat) /\ Len(c) = m + n OBVIOUS
<1>2. \A k \in 1..m : c[k] = s[k] OBVIOUS
<1>3. \A k \in m + 1 .. m + n : c[k] = t[k - m] OBVIOUS
<1>4. DOMAIN s = 1..m /\ DOMAIN t = 1..n /\ DOMAIN c = 1..m + n /\ m \in Nat /\ n \in Nat BY <1>1
<1> HIDE DEF c, m, n
<1>5. Elems(c) \subseteq Elems(s) \cup Elems(t)
  <2> SUFFICES ASSUME NEW k \in 1..m + n PROVE c[k] \in Elems(s) \cup Elems(t) BY <1>4 DEF Elems
  <2>1. CASE k <= m BY <2>1, <1>2, <1>4 DEF Elems
  <2>2. CASE k > m
    <3>1. k \in m + 1 .. m + n /\ k - m \in 1..n BY <2>2, <1>4
    <3> QED BY <3>1, <1>3, <1>4 DEF Elems
  <2> QED BY <2>1, <2>2, <1>4
<1>6. Elems(s) \subseteq Elems(c) BY <1>2, <1>4 DEF Elems
<1>7. Elems(t) \subseteq Elems(c)
  <2> SUFFICES ASSUME NEW k \in 1..n PROVE t[k] \in Elems(c) BY <1>4 DEF Elems
  <2>1. m + k \in m + 1 .. m + n /\ (m + k) - m = k /\ m + k \in 1..m + n BY <1>4
  <2>2. c[m + k] = t[k] BY <2>1, <1>3
  <2> QED BY <2>1, <2>2, <1>4 DEF Elems
<1>8. ASSUME Distinct(s), Distinct(t), Elems(s) \cap Elems(t) = {} PROVE Distinct(c)
  <2> SUFFICES ASSUME NEW j \in 1..m + n, NEW k \in 1..m + n, c[j] = c[k], j < k PROVE FALSE
    BY <1>4 DEF Distinct
  <2>1. CASE k <= m BY <2>1, <1>2, <1>4, <1>8 DEF Distinct
  <2>2. CASE j <= m /\ k > m
    <3>1. k \in m + 1 .. m + n /\ k - m \in 1..n /\ j \in 1..m BY <2>2, <1>4
    <3> QED BY <3>1, <1>2, <1>3, <1>4, <1>8 DEF Elems
  <2>3. CASE j > m
    <3>1. j \in m + 1 .. m + n /\ k \in m + 1 .. m + n /\ j - m \in 1..n /\ k - m \in 1..n BY <2>3, <1>4
    <3>2. t[j - m] = t[k - m] BY <3>1, <1>3
    <3>3. j - m = k - m BY <3>1, <3>2, <1>4, <1>8 DEF Distinct
    <3> QED BY <3>1, <3>3, <1>4
  <2> QED BY <2>1, <2>2, <2>3, <1>4
<1> QED BY <1>1, <1>5, <1>6, <1>7, <1>8 DEF c

----------------------------------------------------------------------------
(* AlertWriter: the remote-write client of esmalert.                       *)

FlusherPcs == {"check", "park", "parked", "woken", "drain", "send", "exited"}

WriterVarsTyped ==
  /\ pending \in Seq(Nat) /\ Len(pending) <= MaxQueueSize
  /\ posted \in Seq(Nat) /\ refused \subseteq Nat
  /\ holder \in Flushers \cup {"none"}
  /\ flusher \in [Flushers -> [pc : FlusherPcs, stop : BOOLEAN, batch : Seq(Nat)]]
  /\ ending \in {"no", "flag", "join", "closed"} /\ stopping \in BOOLEAN /\ offered \in 0..MaxPushes

\* A worker has a batch only while it sends it, and the lock only while it is about to park.
WorkersInOrder ==
  \A f \in Flushers :
    /\ flusher[f].pc = "park" <=> holder = f
    /\ Len(flusher[f].batch) <= BatchSize
    /\ flusher[f].pc # "send" => flusher[f].batch = <<>>
    /\ flusher[f].stop => stopping
    /\ flusher[f].pc = "exited" => pending = <<>> /\ stopping

EndInOrder ==
  /\ stopping <=> ending # "no"
  /\ ending = "closed" => \A f \in Flushers : flusher[f].pc = "exited"

\* The series of a worker's batch.
Held(f) == Elems(flusher[f].batch)

\* The queue, the batches, what was sent and what was refused share no series, none has a series
\* twice, and together they have all that were offered.
PlacesApart ==
  /\ Distinct(pending) /\ Distinct(posted)
  /\ Elems(pending) \cap Elems(posted) = {}
  /\ refused \cap (Elems(pending) \cup Elems(posted)) = {}
  /\ \A f \in Flushers :
       /\ Distinct(flusher[f].batch)
       /\ Held(f) \cap (Elems(pending) \cup Elems(posted) \cup refused) = {}
       /\ \A g \in Flushers : f # g => Held(f) \cap Held(g) = {}

Offered ==
  \A x : x \in 1..offered <=>
           x \in Elems(pending) \/ x \in Elems(posted) \/ x \in refused \/ \E f \in Flushers : x \in Held(f)

WriterInv == WriterVarsTyped /\ WorkersInOrder /\ EndInOrder /\ PlacesApart /\ Offered

\* The empty batch.
LEMMA EmptyBatch == <<>> \in Seq(Nat) /\ Elems(<<>>) = {} /\ Distinct(<<>>)
BY DEF Elems, Distinct

\* The invariant holds initially.
LEMMA WriterInitInv == WriterInit => WriterInv
<1> SUFFICES ASSUME WriterInit PROVE WriterInv OBVIOUS
<1> USE WriterAssumption, EmptyBatch DEF WriterInit
<1>1. WriterVarsTyped
  <2>1. flusher \in [Flushers -> [pc : FlusherPcs, stop : BOOLEAN, batch : Seq(Nat)]] BY DEF FlusherPcs
  <2>2. Len(pending) <= MaxQueueSize /\ pending \in Seq(Nat) /\ posted \in Seq(Nat) OBVIOUS
  <2>3. stopping \in BOOLEAN BY Zenon
  <2>4. refused \subseteq Nat /\ holder \in Flushers \cup {"none"} BY Zenon
  <2>5. ending \in {"no", "flag", "join", "closed"} BY Zenon
  <2>6. offered \in 0..MaxPushes OBVIOUS
  <2> HIDE DEF WriterInit
  <2> QED BY <2>1, <2>2, <2>3, <2>4, <2>5, <2>6 DEF WriterVarsTyped
<1>2. WorkersInOrder BY DEF WorkersInOrder
<1>3. EndInOrder BY DEF EndInOrder
<1>4. PlacesApart BY DEF PlacesApart, Held
<1>5. Offered BY DEF Offered, Held
<1> QED BY <1>1, <1>2, <1>3, <1>4, <1>5 DEF WriterInv

\* Waking the parked workers changes nothing but that they are awake.
LEMMA WokenOnly ==
  ASSUME WriterVarsTyped
  PROVE  /\ Woken(flusher) \in [Flushers -> [pc : FlusherPcs, stop : BOOLEAN, batch : Seq(Nat)]]
         /\ \A f \in Flushers :
              /\ Woken(flusher)[f].batch = flusher[f].batch
              /\ Woken(flusher)[f].stop = flusher[f].stop
              /\ Woken(flusher)[f].pc = IF flusher[f].pc = "parked" THEN "woken" ELSE flusher[f].pc
BY DEF WriterVarsTyped, Woken, FlusherPcs

\* Steps that move no series.
LEMMA NothingMoves ==
  ASSUME WriterInv, UNCHANGED <<pending, posted, refused, offered>>,
         \A f \in Flushers : flusher'[f].batch = flusher[f].batch
  PROVE  PlacesApart' /\ Offered'
<1>1. \A f \in Flushers : Held(f)' = Held(f) BY DEF Held
<1> QED BY <1>1 DEF WriterInv, PlacesApart, Offered

\* A series is pushed into the queue, or refused when it is full.
LEMMA PushStep == WriterInv /\ push => WriterInv'
<1> SUFFICES ASSUME WriterInv, push PROVE WriterInv' OBVIOUS
<1> USE WriterAssumption
<1>0. /\ WriterVarsTyped /\ WorkersInOrder /\ EndInOrder /\ PlacesApart /\ Offered
      /\ offered \in Nat /\ offered' = offered + 1 /\ offered' \in 0..MaxPushes
      /\ ~stopping
      /\ UNCHANGED <<holder, stopping, ending, posted>>
  BY DEF WriterInv, WriterVarsTyped, push, EndInOrder
<1>1. offered' \notin 1..offered /\ \A x : x \in 1..offered' <=> x \in 1..offered \/ x = offered' BY <1>0
<1>2. /\ offered' \notin Elems(pending) /\ offered' \notin Elems(posted) /\ offered' \notin refused
      /\ \A f \in Flushers : offered' \notin Held(f)
  BY <1>0, <1>1 DEF Offered
<1>3. CASE Len(pending) >= MaxQueueSize
  <2>1. refused' = refused \cup {offered'} /\ UNCHANGED <<pending, flusher>> BY <1>3 DEF push
  <2>2. WriterVarsTyped' BY <1>0, <2>1 DEF WriterVarsTyped
  <2>3. WorkersInOrder' /\ EndInOrder' BY <1>0, <2>1 DEF WorkersInOrder, EndInOrder
  <2>4. PlacesApart' BY <1>0, <1>2, <2>1 DEF PlacesApart, Held
  <2>5. Offered' BY <1>0, <1>1, <2>1 DEF Offered, Held
  <2> QED BY <2>2, <2>3, <2>4, <2>5 DEF WriterInv
<1>4. CASE ~(Len(pending) >= MaxQueueSize)
  <2>1. /\ pending' = Append(pending, offered') /\ UNCHANGED refused
        /\ flusher' = Woken(flusher) \/ flusher' = flusher
    BY <1>4 DEF push
  <2>2. /\ flusher' \in [Flushers -> [pc : FlusherPcs, stop : BOOLEAN, batch : Seq(Nat)]]
        /\ \A f \in Flushers :
             /\ flusher'[f].batch = flusher[f].batch /\ flusher'[f].stop = flusher[f].stop
             /\ flusher'[f].pc = flusher[f].pc \/ (flusher[f].pc = "parked" /\ flusher'[f].pc = "woken")
    BY <1>0, <2>1, WokenOnly DEF WriterVarsTyped
  <2>3. pending' \in Seq(Nat) /\ Len(pending') = Len(pending) + 1 /\ Len(pending') <= MaxQueueSize
    BY <1>0, <1>4, <2>1 DEF WriterVarsTyped
  <2>4. Elems(pending') = Elems(pending) \cup {offered'} /\ Distinct(pending')
    BY <1>0, <1>2, <2>1, AppendElems DEF WriterVarsTyped, PlacesApart
  <2>5. WriterVarsTyped' BY <1>0, <2>1, <2>2, <2>3 DEF WriterVarsTyped
  <2>6. WorkersInOrder' BY <1>0, <2>2 DEF WorkersInOrder
  <2>7. EndInOrder' BY <1>0, <2>2 DEF EndInOrder
  <2>8. \A f \in Flushers : Held(f)' = Held(f) BY <2>2 DEF Held
  <2>9. PlacesApart' BY <1>0, <1>2, <2>1, <2>2, <2>4, <2>8 DEF PlacesApart
  <2>10. Offered' BY <1>0, <1>1, <2>1, <2>4, <2>8 DEF Offered
  <2> QED BY <2>5, <2>6, <2>7, <2>9, <2>10 DEF WriterInv
<1> QED BY <1>3, <1>4

\* A worker takes a batch, or finds nothing to take.
LEMMA DrainStep == ASSUME NEW f \in Flushers, WriterInv, drain_and_flush(f) PROVE WriterInv'
<1> USE WriterAssumption
<1> DEFINE n == IF Len(pending) < BatchSize THEN Len(pending) ELSE BatchSize
           a == SubSeq(pending, 1, n)
           b == SubSeq(pending, n + 1, Len(pending))
<1>0. /\ WriterVarsTyped /\ WorkersInOrder /\ EndInOrder /\ PlacesApart /\ Offered
      /\ pending \in Seq(Nat) /\ n \in 0..Len(pending) /\ n <= BatchSize
      /\ flusher[f].pc = "drain" /\ flusher[f].batch = <<>>
      /\ UNCHANGED <<holder, stopping, ending, offered, posted, refused>>
  BY DEF WriterInv, WriterVarsTyped, drain_and_flush, WorkersInOrder
<1>1. CASE n = 0
  <2>1. /\ UNCHANGED pending
        /\ flusher' = [flusher EXCEPT ![f].pc = IF flusher[f].stop THEN "exited" ELSE "check"]
    BY <1>1 DEF drain_and_flush
  <2>2. pending = <<>> BY <1>0, <1>1
  <2>3. WriterVarsTyped' BY <1>0, <2>1 DEF WriterVarsTyped, FlusherPcs
  <2>4. \A g \in Flushers :
          /\ flusher'[g].batch = flusher[g].batch /\ flusher'[g].stop = flusher[g].stop
          /\ g # f => flusher'[g].pc = flusher[g].pc
          /\ flusher'[f].pc = IF flusher[f].stop THEN "exited" ELSE "check"
    BY <1>0, <2>1 DEF WriterVarsTyped
  <2>5. WorkersInOrder' BY <1>0, <2>1, <2>2, <2>4 DEF WorkersInOrder
  <2>6. EndInOrder' BY <1>0, <2>4 DEF EndInOrder
  <2> QED BY <1>0, <2>1, <2>3, <2>4, <2>5, <2>6, NothingMoves DEF WriterInv
<1>2. CASE n # 0
  <2>1. /\ pending' = b
        /\ flusher' = [flusher EXCEPT ![f].pc = "send", ![f].batch = a]
    BY <1>2 DEF drain_and_flush
  <2>2. /\ a \in Seq(Nat) /\ b \in Seq(Nat) /\ Len(a) = n /\ Len(b) = Len(pending) - n
        /\ Elems(a) \cup Elems(b) = Elems(pending)
        /\ Distinct(a) /\ Distinct(b) /\ Elems(a) \cap Elems(b) = {}
    BY <1>0, CutElems DEF PlacesApart
  <2>3. pending # <<>> BY <1>0, <1>2
  <2> HIDE DEF n, a, b
  <2>4. WriterVarsTyped'
    <3>1. flusher' \in [Flushers -> [pc : FlusherPcs, stop : BOOLEAN, batch : Seq(Nat)]]
      BY ZenonT(40), <1>0, <2>1, <2>2 DEF WriterVarsTyped, FlusherPcs
    <3>2. n \in Nat /\ Len(pending) \in Nat BY <1>0
    <3>3. Len(pending') <= MaxQueueSize BY <1>0, <2>1, <2>2, <3>2 DEF WriterVarsTyped
    <3> QED BY <1>0, <2>1, <2>2, <3>1, <3>3 DEF WriterVarsTyped
  <2>5. /\ flusher'[f].batch = a /\ flusher'[f].pc = "send" /\ flusher'[f].stop = flusher[f].stop
        /\ \A g \in Flushers : g # f => flusher'[g] = flusher[g]
    BY <1>0, <2>1 DEF WriterVarsTyped
  <2>6. WorkersInOrder' BY <1>0, <2>2, <2>3, <2>5 DEF WorkersInOrder
  <2>7. EndInOrder' BY <1>0, <2>5 DEF EndInOrder
  <2>8. /\ Held(f)' = Elems(a) /\ Held(f) = {} /\ \A g \in Flushers : g # f => Held(g)' = Held(g)
    BY <1>0, <2>5, EmptyBatch DEF Held
  <2>0. /\ \A x : x \in Elems(pending) <=> x \in Held(f)' \/ x \in Elems(pending')
        /\ Held(f)' \cap Elems(pending') = {} /\ Distinct(pending') /\ Distinct(flusher'[f].batch)
    BY <2>1, <2>2, <2>5, <2>8
  <2>9. PlacesApart' BY <1>0, <2>0, <2>5, <2>8 DEF PlacesApart
  <2>10. Offered' BY <1>0, <2>0, <2>8 DEF Offered
  <2> QED BY <2>4, <2>6, <2>7, <2>9, <2>10 DEF WriterInv
<1> QED BY <1>1, <1>2

\* A batch is sent, or lost.
LEMMA SendStep == ASSUME NEW f \in Flushers, WriterInv, send_batch(f) PROVE WriterInv'
<1> USE WriterAssumption
<1>0. /\ WriterVarsTyped /\ WorkersInOrder /\ EndInOrder /\ PlacesApart /\ Offered
      /\ posted \in Seq(Nat) /\ flusher[f].batch \in Seq(Nat) /\ flusher[f].pc = "send"
      /\ flusher' = [flusher EXCEPT ![f].pc = "drain", ![f].batch = <<>>]
      /\ UNCHANGED <<pending, holder, stopping, ending, offered, refused>>
  BY DEF WriterInv, WriterVarsTyped, send_batch
<1>1. posted' = posted \o flusher[f].batch BY DEF send_batch
<1>2. posted' \in Seq(Nat) /\ Elems(posted') = Elems(posted) \cup Held(f) /\ Distinct(posted')
  BY <1>0, <1>1, ConcatElems DEF PlacesApart, Held
<1>3. WriterVarsTyped' BY <1>0, <1>2, EmptyBatch DEF WriterVarsTyped, FlusherPcs
<1>4. /\ flusher'[f].batch = <<>> /\ flusher'[f].pc = "drain" /\ flusher'[f].stop = flusher[f].stop
      /\ \A g \in Flushers : g # f => flusher'[g] = flusher[g]
  BY <1>0 DEF WriterVarsTyped
<1>5. WorkersInOrder'
  <2>1. Len(<<>>) <= BatchSize OBVIOUS
  <2>2. UNCHANGED <<pending, holder, stopping>> BY <1>0
  <2>3. WorkersInOrder /\ flusher[f].pc = "send" BY <1>0
  <2> QED BY <1>4, <2>1, <2>2, <2>3 DEF WorkersInOrder
<1>6. EndInOrder' BY <1>0, <1>4 DEF EndInOrder
<1>7. /\ Held(f)' = {} /\ \A g \in Flushers : g # f => Held(g)' = Held(g)
  BY <1>0, <1>4, EmptyBatch DEF Held
<1>8. PlacesApart'
  <2>1. Distinct(flusher'[f].batch) BY <1>4, EmptyBatch
  <2>2. \A x : x \in Elems(posted') <=> x \in Elems(posted) \/ x \in Held(f) BY <1>2
  <2>3. UNCHANGED <<pending, refused>> BY <1>0
  <2>4. PlacesApart BY <1>0
  <2> QED BY <1>2, <1>4, <1>7, <2>1, <2>2, <2>3, <2>4 DEF PlacesApart
<1>9. Offered' BY ZenonT(40), <1>0, <1>2, <1>7 DEF Offered
<1> QED BY <1>3, <1>5, <1>6, <1>8, <1>9 DEF WriterInv

\* Every step keeps the invariant.
LEMMA WriterStep == WriterInv /\ [WriterNext]_writerVars => WriterInv'
<1> SUFFICES ASSUME WriterInv, [WriterNext]_writerVars PROVE WriterInv' OBVIOUS
<1> USE WriterAssumption
<1>0. WriterVarsTyped /\ WorkersInOrder /\ EndInOrder BY DEF WriterInv
<1>1. ASSUME shutdown PROVE WriterInv'
  <2>1. /\ stopping' = TRUE /\ ending' = "flag" /\ ending = "no"
        /\ UNCHANGED <<pending, holder, flusher, offered, posted, refused>>
    BY <1>1 DEF shutdown
  <2>2. WriterVarsTyped' BY <1>0, <2>1 DEF WriterVarsTyped
  <2>3. WorkersInOrder' /\ EndInOrder' BY <1>0, <2>1 DEF WorkersInOrder, EndInOrder
  <2> QED BY <2>1, <2>2, <2>3, NothingMoves DEF WriterInv
<1>2. ASSUME Notify PROVE WriterInv'
  <2>1. /\ flusher' = Woken(flusher) /\ ending' = "join" /\ ending = "flag"
        /\ UNCHANGED <<pending, holder, stopping, offered, posted, refused>>
    BY <1>2 DEF Notify
  <2>2. WriterVarsTyped' BY <1>0, <2>1, WokenOnly DEF WriterVarsTyped
  <2>3. WorkersInOrder' /\ EndInOrder' BY <1>0, <2>1, WokenOnly DEF WorkersInOrder, EndInOrder
  <2> QED BY <1>0, <2>1, <2>2, <2>3, WokenOnly, NothingMoves DEF WriterInv
<1>3. ASSUME Joined PROVE WriterInv'
  <2>1. /\ \A f \in Flushers : flusher[f].pc = "exited"
        /\ ending' = "closed" /\ ending = "join"
        /\ UNCHANGED <<pending, holder, flusher, stopping, offered, posted, refused>>
    BY <1>3 DEF Joined
  <2>2. WriterVarsTyped' BY <1>0, <2>1 DEF WriterVarsTyped
  <2>3. WorkersInOrder' /\ EndInOrder' BY <1>0, <2>1 DEF WorkersInOrder, EndInOrder
  <2> QED BY <2>1, <2>2, <2>3, NothingMoves DEF WriterInv
<1>4. ASSUME NEW f \in Flushers, NEW pc \in FlusherPcs, NEW st \in BOOLEAN,
             flusher' = [flusher EXCEPT ![f].pc = pc, ![f].stop = st],
             pc # "exited", flusher[f].pc \notin {"send", "exited"}, st => stopping,
             pc = "park" => holder' = f,
             (pc # "park" /\ flusher[f].pc = "park") => holder' = "none",
             (pc # "park" /\ flusher[f].pc # "park") => holder' = holder,
             pc = "park" => holder = "none",
             UNCHANGED <<pending, stopping, ending, offered, posted, refused>>
      PROVE  WriterInv'
  <2>1. /\ flusher'[f].pc = pc /\ flusher'[f].stop = st /\ flusher'[f].batch = flusher[f].batch
        /\ \A g \in Flushers : g # f => flusher'[g] = flusher[g]
    BY <1>0, <1>4 DEF WriterVarsTyped
  <2>2. flusher' \in [Flushers -> [pc : FlusherPcs, stop : BOOLEAN, batch : Seq(Nat)]]
    BY <1>0, <1>4 DEF WriterVarsTyped
  <2>3. holder' \in Flushers \cup {"none"} BY <1>0, <1>4 DEF WriterVarsTyped
  <2>4. UNCHANGED <<pending, stopping, ending, offered, posted, refused>> BY <1>4
  <2>5. WriterVarsTyped' BY <1>0, <2>2, <2>3, <2>4 DEF WriterVarsTyped
  <2>6. \A g \in Flushers : flusher'[g].pc = "park" <=> holder' = g
    BY <1>0, <1>4, <2>1 DEF WorkersInOrder
  <2>7. WorkersInOrder'
    <3>1. pc # "exited" /\ flusher[f].pc # "send" /\ (st => stopping) BY <1>4
    <3> QED BY <1>0, <3>1, <2>1, <2>4, <2>6 DEF WorkersInOrder
  <2>8. EndInOrder'
    <3>1. flusher[f].pc # "exited" BY <1>4
    <3>2. ending # "closed" BY <1>0, <3>1 DEF EndInOrder
    <3> QED BY <1>0, <3>2, <2>4 DEF EndInOrder
  <2> QED BY <2>1, <2>4, <2>5, <2>7, <2>8, NothingMoves DEF WriterInv
<1>5. ASSUME NEW f \in Flushers, Check(f) PROVE WriterInv'
  <2>1. flusher[f].pc = "check" /\ holder = "none" /\ flusher[f].stop \in BOOLEAN /\ (flusher[f].stop => stopping)
    BY <1>0, <1>5 DEF Check, WriterVarsTyped, WorkersInOrder
  <2>2. CASE stopping \/ pending # <<>>
    <3>1. /\ flusher' = [flusher EXCEPT ![f].pc = "drain", ![f].stop = stopping] /\ UNCHANGED holder
          /\ UNCHANGED <<pending, stopping, ending, offered, posted, refused>>
      BY <1>5, <2>2 DEF Check
    <3> QED BY <1>0, <1>4, <2>1, <3>1 DEF FlusherPcs, WriterVarsTyped
  <2>3. CASE ~(stopping \/ pending # <<>>)
    <3>1. /\ flusher' = [flusher EXCEPT ![f].pc = "park"] /\ holder' = f
          /\ UNCHANGED <<pending, stopping, ending, offered, posted, refused>>
      BY <1>5, <2>3 DEF Check
    <3>2. flusher' = [flusher EXCEPT ![f].pc = "park", ![f].stop = flusher[f].stop]
      BY <1>0, <3>1 DEF WriterVarsTyped
    <3> QED BY <1>4, <2>1, <3>1, <3>2 DEF FlusherPcs
  <2> QED BY <2>2, <2>3
<1>6. ASSUME NEW f \in Flushers, Park(f) PROVE WriterInv'
  <2>1. flusher' = [flusher EXCEPT ![f].pc = "parked", ![f].stop = flusher[f].stop]
    BY <1>0, <1>6 DEF Park, WriterVarsTyped
  <2>2. flusher[f].stop \in BOOLEAN /\ (flusher[f].stop => stopping) BY <1>0 DEF WriterVarsTyped, WorkersInOrder
  <2> QED BY <1>4, <1>6, <2>1, <2>2 DEF Park, FlusherPcs
<1>7. ASSUME NEW f \in Flushers, TimesOut(f) PROVE WriterInv'
  <2>1. flusher' = [flusher EXCEPT ![f].pc = "woken", ![f].stop = flusher[f].stop]
    BY <1>0, <1>7 DEF TimesOut, WriterVarsTyped
  <2>2. flusher[f].stop \in BOOLEAN /\ (flusher[f].stop => stopping) BY <1>0 DEF WriterVarsTyped, WorkersInOrder
  <2> QED BY <1>4, <1>7, <2>1, <2>2 DEF TimesOut, FlusherPcs
<1>8. ASSUME NEW f \in Flushers, Wakes(f) PROVE WriterInv'
  BY <1>0, <1>4, <1>8 DEF Wakes, FlusherPcs, WriterVarsTyped
<1>9. ASSUME UNCHANGED writerVars PROVE WriterInv'
  <2>1. WriterVarsTyped' /\ WorkersInOrder' /\ EndInOrder'
    BY <1>0, <1>9 DEF writerVars, WriterVarsTyped, WorkersInOrder, EndInOrder
  <2> QED BY <1>9, <2>1, NothingMoves DEF WriterInv, writerVars
<1> QED BY <1>1, <1>2, <1>3, <1>5, <1>6, <1>7, <1>8, <1>9, PushStep, DrainStep, SendStep DEF WriterNext, FlusherNext

\* In a sequence without repetition an element has one position, and others have none.
LEMMA OnePosition ==
  ASSUME NEW s \in Seq(Nat), Distinct(s), NEW x
  PROVE  Cardinality({k \in DOMAIN s : s[k] = x}) = IF x \in Elems(s) THEN 1 ELSE 0
<1>1. CASE x \in Elems(s)
  <2>1. PICK k \in DOMAIN s : s[k] = x BY <1>1 DEF Elems
  <2>2. {j \in DOMAIN s : s[j] = x} = {k} BY <2>1 DEF Distinct
  <2> QED BY <1>1, <2>2, FS_Singleton
<1>2. CASE x \notin Elems(s)
  <2>1. {j \in DOMAIN s : s[j] = x} = {} BY <1>2 DEF Elems
  <2> QED BY <1>2, <2>1, FS_EmptySet
<1> QED BY <1>1, <1>2

\* For any number of workers, series and sizes: an offered series is in one place, and when
\* shutdown has returned none is left in the queue or with a worker.
THEOREM Writer == WriterSpec => []WriterSound
<1>1. WriterInv => WriterSound
  <2> SUFFICES ASSUME WriterInv PROVE WriterSound OBVIOUS
  <2>0. WriterVarsTyped /\ WorkersInOrder /\ EndInOrder /\ PlacesApart /\ Offered BY DEF WriterInv
  <2>1. WriterTypeOK
    <3>1. \A k \in DOMAIN pending : pending[k] \in 1..offered BY <2>0 DEF Offered, Elems
    <3>2. offered \in 0..MaxPushes BY <2>0 DEF WriterVarsTyped
    <3>3. \A k \in 1..Len(pending) : pending[k] \in 1..MaxPushes
      BY <3>1, <3>2, <2>0, WriterAssumption DEF WriterVarsTyped
    <3>4. Len(pending) \in Nat /\ pending \in [1..Len(pending) -> 1..MaxPushes]
      BY <2>0, <3>3 DEF WriterVarsTyped
    <3>5. pending \in Seq(1..MaxPushes) BY <3>4, SeqDef
    <3> QED BY <2>0, <3>5 DEF WriterTypeOK, WriterVarsTyped, WorkersInOrder, FlusherPcs
  <2>2. SeriesSentOnce
    <3> SUFFICES ASSUME NEW x \in 1..offered PROVE Places(x) = 1 BY DEF SeriesSentOnce
    <3> DEFINE H == {f \in Flushers : \E k \in DOMAIN flusher[f].batch : flusher[f].batch[k] = x}
    <3>1. H = {f \in Flushers : x \in Held(f)} BY DEF Held, Elems
    <3>2. Cardinality(H) = IF \E f \in Flushers : x \in Held(f) THEN 1 ELSE 0
      <4>1. CASE \E f \in Flushers : x \in Held(f)
        <5>1. PICK f \in Flushers : x \in Held(f) BY <4>1
        <5>2. H = {f} BY <3>1, <5>1, <2>0 DEF PlacesApart
        <5> QED BY <4>1, <5>2, FS_Singleton
      <4>2. CASE ~\E f \in Flushers : x \in Held(f)
        <5>1. H = {} BY <3>1, <4>2
        <5> QED BY <4>2, <5>1, FS_EmptySet
      <4> QED BY <4>1, <4>2
    <3>3. /\ Cardinality({k \in DOMAIN pending : pending[k] = x}) = IF x \in Elems(pending) THEN 1 ELSE 0
          /\ Cardinality({k \in DOMAIN posted : posted[k] = x}) = IF x \in Elems(posted) THEN 1 ELSE 0
      BY <2>0, OnePosition DEF WriterVarsTyped, PlacesApart
    <3>4. x \in Elems(pending) \/ x \in Elems(posted) \/ x \in refused \/ \E f \in Flushers : x \in Held(f)
      BY <2>0 DEF Offered
    <3>5. Places(x) = (IF x \in Elems(pending) THEN 1 ELSE 0) + (IF x \in Elems(posted) THEN 1 ELSE 0)
                      + (IF \E f \in Flushers : x \in Held(f) THEN 1 ELSE 0) + (IF x \in refused THEN 1 ELSE 0)
      BY <3>2, <3>3 DEF Places
    <3>6. /\ x \in Elems(pending) => x \notin Elems(posted) /\ x \notin refused /\ ~\E f \in Flushers : x \in Held(f)
          /\ x \in Elems(posted) => x \notin refused /\ ~\E f \in Flushers : x \in Held(f)
          /\ x \in refused => ~\E f \in Flushers : x \in Held(f)
      BY <2>0 DEF PlacesApart
    <3> HIDE DEF H
    <3> QED BY <3>4, <3>5, <3>6
  <2>3. ShutdownDrains BY <2>0, WriterAssumption DEF ShutdownDrains, EndInOrder, WorkersInOrder
  <2> QED BY <2>1, <2>2, <2>3 DEF WriterSound
<1> QED BY <1>1, WriterInitInv, WriterStep, PTL DEF WriterSpec

----------------------------------------------------------------------------
(* ParallelUnpack: a query's series among its threads.                     *)

\* The values of the variables.
Results   == {"series", "default", "error"}
MsgType   == [i : Nat, res : Results]
JobType ==
  [pc : {"new", "claim", "unpack", "collect", "ok", "err"}, total : Nat, corrupt : SUBSET Nat, late : BOOLEAN,
   cursor : Nat, must_stop : BOOLEAN, msgs : Seq(MsgType), next : Nat, end : Nat,
   out : UNION {[0..n - 1 -> {"none", "series", "default"}] : n \in Nat}, outstanding : Nat]
WorkerType ==
  {Idle} \cup [pc : {"claim"}, job : Jobs] \cup [pc : {"decide"}, job : Jobs, next : Nat, end : Nat]
         \cup [pc : {"stop", "send"}, job : Jobs, next : Nat, end : Nat, res : Results]

\* The series that the thread with record r has in hand of query j.
Busy(r)    == r.pc \in {"decide", "stop", "send"}
Hand(r, j) == IF Busy(r) /\ r.job = j THEN r.next..r.end - 1 ELSE {}
Answer(r)  == r.pc \in {"stop", "send"}

\* A worker's batch is not empty and in range; it knows whether its series was corrupt.
WorkerSound(r, J) ==
  /\ Busy(r) => r.next < r.end /\ r.end <= J[r.job].total
  /\ r.pc = "stop" => r.res = "error"
  /\ Answer(r) /\ r.res = "series" => r.next \notin J[r.job].corrupt

Series(J) == 0..J.total - 1
Has(J, i)       == J.out[i] # "none"
Mine(J, i)      == J.pc = "unpack" /\ J.next <= i /\ i < J.end
Sent(J, k, i)   == J.msgs[k].i = i

\* What is claimed and has no result is with one thread or in one message, the rest is ahead of
\* the cursor.
Claims(J, j, W) ==
  /\ \A k \in DOMAIN J.msgs : J.msgs[k].i \in Series(J) /\ J.msgs[k].i < J.cursor
  /\ \A w \in PoolWorkers : \A i \in Hand(W[w], j) : i \in Series(J) /\ i < J.cursor
  /\ \A i \in Series(J) : Mine(J, i) \/ Has(J, i) => i < J.cursor
Covered(J, j, W) ==
  \A i \in Series(J) :
    \/ Has(J, i) \/ J.cursor <= i \/ Mine(J, i)
    \/ (\E w \in PoolWorkers : i \in Hand(W[w], j)) \/ (\E k \in DOMAIN J.msgs : Sent(J, k, i))
HasAlone(J, j, W) ==
  \A i \in Series(J) : Has(J, i) =>
    /\ ~Mine(J, i) /\ (\A w \in PoolWorkers : i \notin Hand(W[w], j)) /\ (\A k \in DOMAIN J.msgs : ~Sent(J, k, i))
MineAlone(J, j, W) ==
  \A i \in Series(J) : Mine(J, i) =>
    (\A w \in PoolWorkers : i \notin Hand(W[w], j)) /\ (\A k \in DOMAIN J.msgs : ~Sent(J, k, i))
HandAlone(J, j, W) ==
  \A w \in PoolWorkers : \A i \in Hand(W[w], j) :
    (\A v \in PoolWorkers : i \in Hand(W[v], j) => v = w) /\ (\A k \in DOMAIN J.msgs : ~Sent(J, k, i))
SentOnce(J) == \A k, l \in DOMAIN J.msgs : J.msgs[k].i = J.msgs[l].i => k = l
Placed(J, j, W) ==
  Claims(J, j, W) /\ Covered(J, j, W) /\ HasAlone(J, j, W) /\ MineAlone(J, j, W) /\ HandAlone(J, j, W) /\ SentOnce(J)

Counted(J) == J.outstanding = Cardinality({i \in Series(J) : ~Has(J, i)})

\* The stop flag of a query that goes on announces an error that is under way, and only the stop
\* flag makes a placeholder.
ErrorFollows(J, j, W) ==
  J.must_stop =>
    \/ \E w \in PoolWorkers : W[w].pc = "send" /\ W[w].job = j /\ W[w].res = "error"
    \/ \E k \in DOMAIN J.msgs : J.msgs[k].res = "error"
DefaultsFollow(J, j, W) ==
  ~J.must_stop =>
    /\ \A i \in Series(J) : J.out[i] # "default"
    /\ \A k \in DOMAIN J.msgs : J.msgs[k].res # "default"
    /\ \A w \in PoolWorkers : Answer(W[w]) /\ W[w].job = j => W[w].res # "default"
SeriesClean(J) ==
  /\ \A i \in Series(J) : J.out[i] = "series" => i \notin J.corrupt
  /\ \A k \in DOMAIN J.msgs : J.msgs[k].res = "series" => J.msgs[k].i \notin J.corrupt

Running(J) == J.pc \notin {"ok", "err"}
JobSound(J, j, W) ==
  /\ J.out \in [Series(J) -> {"none", "series", "default"}] /\ J.corrupt \subseteq Series(J) /\ J.outstanding \in 0..J.total
  /\ J.pc = "unpack" => J.next < J.end /\ J.end <= J.total
  /\ J.pc = "ok" => J.corrupt = {} /\ \A i \in Series(J) : J.out[i] = "series"
  /\ Running(J) => /\ Placed(J, j, W) /\ Counted(J)
                   /\ ErrorFollows(J, j, W) /\ DefaultsFollow(J, j, W) /\ SeriesClean(J)

UnpackInv ==
  /\ handles \in Seq(Jobs) /\ job \in [Jobs -> JobType] /\ worker \in [PoolWorkers -> WorkerType]
  /\ \A j \in Jobs : JobSound(job[j], j, worker)
  /\ \A w \in PoolWorkers : WorkerSound(worker[w], job)

\* The lesser of two numbers.
LEMMA MinOf ==
  ASSUME NEW a \in Int, NEW b \in Int
  PROVE  Min({a, b}) \in {a, b} /\ Min({a, b}) <= a /\ Min({a, b}) <= b
<1>1. \E x \in {a, b} : \A y \in {a, b} : x <= y
  <2>1. CASE a <= b
    BY <2>1
  <2>2. CASE ~(a <= b)
    BY <2>2
  <2> QED BY <2>1, <2>2
<1> QED BY <1>1 DEF Min

\* The greater of two numbers.
LEMMA MaxOf ==
  ASSUME NEW a \in Int, NEW b \in Int
  PROVE  Max({a, b}) \in {a, b} /\ Max({a, b}) >= a /\ Max({a, b}) >= b
<1>1. \E x \in {a, b} : \A y \in {a, b} : x >= y
  <2>1. CASE a <= b
    BY <2>1
  <2>2. CASE ~(a <= b)
    BY <2>2
  <2> QED BY <2>1, <2>2
<1> QED BY <1>1 DEF Max

\* plan_unpack: a batch is never empty, and the number of helpers is a number.
LEMMA PlanSound ==
  ASSUME NEW n \in Nat
  PROVE  Batch(n) \in Nat /\ Batch(n) > 0 /\ Helpers(n) \in Int
<1>1. Threads \in Nat /\ Threads >= 1
  <2>1. Cardinality(PoolWorkers) \in Nat /\ Cardinality(PoolWorkers) # 0
    BY UnpackAssumption, FS_CardinalityType, FS_EmptySet
  <2> QED BY <2>1, UnpackAssumption, MinOf DEF Threads
<1>2. PICK d \in Nat : d = Threads * PerWorker /\ d > 0
  <2>1. Threads * PerWorker \in Nat /\ Threads * PerWorker > 0
    BY <1>1, UnpackAssumption
  <2> QED BY <2>1
<1>3. PICK q \in Nat : q = n \div d
  BY <1>2
<1>4. PICK m \in Int : m = Max({1, q}) /\ m >= 1
  BY MaxOf
<1>5. Batch(n) \in Nat /\ Batch(n) > 0
  <2>1. Min({MaxBatchSize, m}) \in {MaxBatchSize, m}
    BY <1>4, UnpackAssumption, MinOf
  <2> QED BY <1>2, <1>3, <1>4, <2>1, UnpackAssumption DEF Batch
<1>6. Helpers(n) \in Int
  <2>1. PICK c \in Int : c = (n + Batch(n) - 1) \div Batch(n) - 1
    BY <1>5
  <2>2. PICK t \in Int : t = Threads - 1
    BY <1>1
  <2>3. Min({t, c}) \in {t, c}
    BY <2>1, <2>2, MinOf
  <2> QED BY <2>1, <2>2, <2>3 DEF Helpers
<1> QED BY <1>5, <1>6

\* The job of a query that another step leaves alone.
LEMMA JobSoundSame ==
  ASSUME NEW J, NEW k \in Jobs, NEW W, NEW V, JobSound(J, k, W),
         \A w \in PoolWorkers : \/ V[w] = W[w]
                                \/ /\ W[w].pc # "idle" => W[w].job # k
                                   /\ V[w].pc # "idle" => V[w].job # k
  PROVE  JobSound(J, k, V)
<1>1. \A w \in PoolWorkers : Hand(V[w], k) = Hand(W[w], k)
  BY DEF Hand, Busy
<1>2. Running(J) => Placed(J, k, V)
  BY <1>1 DEF JobSound, Placed, Claims, Covered, HasAlone, MineAlone, HandAlone
<1>3. Running(J) => ErrorFollows(J, k, V)
  BY DEF JobSound, ErrorFollows
<1>4. Running(J) => DefaultsFollow(J, k, V)
  BY DEF JobSound, DefaultsFollow, Answer
<1> QED BY <1>2, <1>3, <1>4 DEF JobSound

\* A step works on one query.
LEMMA JobMoves ==
  ASSUME UnpackInv, NEW j \in Jobs, NEW n \in JobType, job' = [job EXCEPT ![j] = n],
         n.total = job[j].total, n.corrupt = job[j].corrupt,
         worker' \in [PoolWorkers -> WorkerType], handles' \in Seq(Jobs),
         \A w \in PoolWorkers : \/ worker'[w] = worker[w]
                                \/ /\ worker[w].pc # "idle" => worker[w].job = j
                                   /\ worker'[w].pc # "idle" => worker'[w].job = j
                                   /\ WorkerSound(worker'[w], job'),
         JobSound(n, j, worker')
  PROVE  UnpackInv'
<1>1. job' \in [Jobs -> JobType] /\ \A k \in Jobs : job'[k] = IF k = j THEN n ELSE job[k]
  BY DEF UnpackInv
<1>2. ASSUME NEW k \in Jobs PROVE JobSound(job'[k], k, worker')
  <2>1. CASE k = j
    BY <1>1, <2>1
  <2>2. CASE k # j
    <3>1. JobSound(job[k], k, worker)
      BY DEF UnpackInv
    <3>2. \A w \in PoolWorkers : \/ worker'[w] = worker[w]
                                 \/ /\ worker[w].pc # "idle" => worker[w].job # k
                                    /\ worker'[w].pc # "idle" => worker'[w].job # k
      BY <2>2
    <3>3. JobSound(job[k], k, worker')
      BY <3>1, <3>2, JobSoundSame
    <3> QED BY <1>1, <2>2, <3>3
  <2> QED BY <2>1, <2>2
<1>3. \A k \in Jobs : job'[k].total = job[k].total /\ job'[k].corrupt = job[k].corrupt
  BY <1>1
<1>4. ASSUME NEW w \in PoolWorkers PROVE WorkerSound(worker'[w], job')
  <2>1. CASE worker'[w] = worker[w]
    <3>1. WorkerSound(worker[w], job) /\ worker[w] \in WorkerType
      BY DEF UnpackInv
    <3>2. Busy(worker[w]) => worker[w].job \in Jobs
      BY <3>1 DEF WorkerType, Busy, Idle
    <3> QED BY <1>3, <2>1, <3>1, <3>2 DEF WorkerSound, Answer, Busy
  <2> QED BY <2>1
<1> QED BY <1>1, <1>2, <1>4 DEF UnpackInv

\* What the invariant says of one job.
LEMMA JobParts ==
  ASSUME UnpackInv, NEW j \in Jobs
  PROVE  /\ job[j] \in JobType /\ job \in [Jobs -> JobType] /\ JobSound(job[j], j, worker)
         /\ job[j].total \in Nat /\ job[j].cursor \in Nat /\ Series(job[j]) \subseteq Nat
         /\ worker \in [PoolWorkers -> WorkerType] /\ handles \in Seq(Jobs)
BY DEF UnpackInv, JobType, Series

\* Nothing but the pc of the caller, or the deadline.
LEMMA CallerMoves ==
  ASSUME UnpackInv, NEW j \in Jobs, NEW n \in JobType, job' = [job EXCEPT ![j] = n], UNCHANGED worker, handles' \in Seq(Jobs),
         Running(job[j]), Running(n), \A i \in Nat : Mine(n, i) <=> Mine(job[j], i),
         n.pc = "unpack" => job[j].pc = "unpack" /\ n.next = job[j].next /\ n.end = job[j].end,
         n.total = job[j].total, n.corrupt = job[j].corrupt, n.cursor = job[j].cursor, n.msgs = job[j].msgs,
         n.out = job[j].out, n.outstanding = job[j].outstanding, n.must_stop = job[j].must_stop
  PROVE  UnpackInv'
<1>1. JobSound(job[j], j, worker) /\ worker \in [PoolWorkers -> WorkerType] /\ Series(job[j]) \subseteq Nat
  BY JobParts
<1>2. Series(n) = Series(job[j])
  BY DEF Series
<1>3. Placed(n, j, worker)
  <2>1. Placed(job[j], j, worker)
    BY <1>1 DEF JobSound
  <2>2. \A i \in Series(job[j]) : Mine(n, i) <=> Mine(job[j], i)
    BY <1>1
  <2>3. Claims(n, j, worker) /\ SentOnce(n) /\ HandAlone(n, j, worker)
    BY <1>2, <2>1, <2>2 DEF Placed, Claims, Has, SentOnce, HandAlone, Sent
  <2>4. Covered(n, j, worker)
    BY <1>2, <2>1, <2>2 DEF Placed, Covered, Has, Sent
  <2>5. HasAlone(n, j, worker) /\ MineAlone(n, j, worker)
    BY <1>2, <2>1, <2>2 DEF Placed, HasAlone, MineAlone, Has, Sent
  <2> QED BY <2>3, <2>4, <2>5 DEF Placed
<1>4. Counted(n)
  BY <1>1, <1>2 DEF JobSound, Counted, Has
<1>5. ErrorFollows(n, j, worker) /\ DefaultsFollow(n, j, worker) /\ SeriesClean(n)
  BY <1>1, <1>2 DEF JobSound, ErrorFollows, DefaultsFollow, SeriesClean
<1>6. JobSound(n, j, worker)
  BY <1>1, <1>2, <1>3, <1>4, <1>5 DEF JobSound, Running
<1> QED BY <1>1, <1>6, JobMoves

\* A query hands out its series.
LEMMA UnpackBeginsStep ==
  ASSUME UnpackInv, NEW j \in Jobs, unpack_series_parallel(j)
  PROVE  UnpackInv'
<1> DEFINE n == [job[j] EXCEPT !.pc = "claim"]
<1>1. job[j].pc = "new" /\ UNCHANGED worker /\ handles' = handles \o [k \in 1..Helpers(job[j].total) |-> j]
  BY DEF unpack_series_parallel
<1>2. job[j] \in JobType /\ job \in [Jobs -> JobType] /\ job[j].total \in Nat /\ handles \in Seq(Jobs)
  BY JobParts
<1>3. job' = [job EXCEPT ![j] = n]
  BY <1>2 DEF unpack_series_parallel
<1>4. /\ n \in JobType /\ n.pc = "claim" /\ n.total = job[j].total /\ n.corrupt = job[j].corrupt /\ n.cursor = job[j].cursor
      /\ n.msgs = job[j].msgs /\ n.out = job[j].out /\ n.outstanding = job[j].outstanding /\ n.must_stop = job[j].must_stop
  BY <1>2 DEF JobType
<1> HIDE DEF n
<1>5. handles' \in Seq(Jobs)
  <2>1. Helpers(job[j].total) \in Int
    BY <1>2, PlanSound
  <2>2. [k \in 1..Helpers(job[j].total) |-> j] \in Seq(Jobs)
    <3>1. CASE Helpers(job[j].total) \in Nat
      BY <3>1, IsASeq
    <3>2. CASE Helpers(job[j].total) < 0
      <4>1. 1..Helpers(job[j].total) = 1..0
        BY <2>1, <3>2
      <4>2. [k \in 1..Helpers(job[j].total) |-> j] = [k \in 1..0 |-> j]
        BY <4>1
      <4>3. [k \in 1..0 |-> j] \in Seq(Jobs)
        BY IsASeq
      <4> QED BY <4>2, <4>3
    <3> QED BY <2>1, <3>1, <3>2
  <2> QED BY <1>1, <1>2, <2>2, ConcatProperties
<1>6. \A i \in Nat : Mine(n, i) <=> Mine(job[j], i)
  BY <1>1, <1>4 DEF Mine
<1> QED BY <1>1, <1>3, <1>4, <1>5, <1>6, CallerMoves DEF Running

\* The deadline of a query passes.
LEMMA DeadlineStep ==
  ASSUME UnpackInv, NEW j \in Jobs, DeadlinePasses(j)
  PROVE  UnpackInv'
<1> DEFINE n == [job[j] EXCEPT !.late = TRUE]
<1>1. ~Done(j) /\ UNCHANGED <<handles, worker>>
  BY DEF DeadlinePasses
<1>2. job[j] \in JobType /\ job \in [Jobs -> JobType] /\ handles \in Seq(Jobs)
  BY JobParts
<1>3. job' = [job EXCEPT ![j] = n]
  BY <1>2 DEF DeadlinePasses
<1>4. /\ n \in JobType /\ n.pc = job[j].pc /\ n.total = job[j].total /\ n.corrupt = job[j].corrupt /\ n.cursor = job[j].cursor
      /\ n.msgs = job[j].msgs /\ n.out = job[j].out /\ n.outstanding = job[j].outstanding /\ n.must_stop = job[j].must_stop
      /\ n.next = job[j].next /\ n.end = job[j].end
  BY <1>2 DEF JobType
<1> HIDE DEF n
<1>5. \A i \in Nat : Mine(n, i) <=> Mine(job[j], i)
  BY <1>4 DEF Mine
<1>6. Running(job[j]) /\ Running(n)
  BY <1>1, <1>4 DEF Running, Done
<1> QED BY <1>1, <1>2, <1>3, <1>4, <1>5, <1>6, CallerMoves

\* A caller that returns an error.
LEMMA FailedStep ==
  ASSUME UnpackInv, NEW j \in Jobs, UNCHANGED <<handles, worker>>, NEW c \in Nat,
         job' = Failed([job EXCEPT ![j].cursor = c], j)
  PROVE  UnpackInv'
<1> DEFINE o == [i \in Series(job[j]) |-> "none"]
           n == [job[j] EXCEPT !.cursor = c, !.must_stop = TRUE, !.pc = "err", !.msgs = <<>>, !.out = o,
                               !.outstanding = 0, !.next = 0, !.end = 0]
<1>1. /\ job[j] \in JobType /\ job \in [Jobs -> JobType] /\ handles \in Seq(Jobs) /\ JobSound(job[j], j, worker)
      /\ worker \in [PoolWorkers -> WorkerType] /\ job[j].total \in Nat
  BY JobParts
<1>2. DOMAIN job[j].out = Series(job[j])
  BY <1>1 DEF JobSound
<1>3. job' = [job EXCEPT ![j] = n]
  <2>1. PICK F : F = [job EXCEPT ![j].cursor = c]
    OBVIOUS
  <2>2. /\ DOMAIN F = Jobs /\ F[j] = [job[j] EXCEPT !.cursor = c] /\ \A k \in Jobs \ {j} : F[k] = job[k]
        /\ DOMAIN F[j].out = Series(job[j])
    BY <1>1, <1>2, <2>1 DEF JobType
  <2>3. job' = [F EXCEPT ![j] = [F[j] EXCEPT !.must_stop = TRUE, !.pc = "err", !.msgs = <<>>, !.out = o,
                                             !.outstanding = 0, !.next = 0, !.end = 0]]
    <3>1. [i \in DOMAIN F[j].out |-> "none"] = o
      BY <2>2
    <3>2. job' = Failed(F, j)
      BY <2>1
    <3> HIDE DEF o
    <3> QED BY <2>2, <3>1, <3>2 DEF Failed
  <2> HIDE DEF o
  <2>4. [F[j] EXCEPT !.must_stop = TRUE, !.pc = "err", !.msgs = <<>>, !.out = o, !.outstanding = 0, !.next = 0, !.end = 0] = n
    BY <2>2
  <2> HIDE DEF n
  <2>5. job' = [F EXCEPT ![j] = n]
    BY <2>3, <2>4
  <2> QED BY <1>1, <2>2, <2>5
<1>4. o \in [Series(job[j]) -> {"none", "series", "default"}]
  OBVIOUS
<1>5. o \in UNION {[0..m - 1 -> {"none", "series", "default"}] : m \in Nat}
  BY <1>1, <1>4 DEF Series
<1>6. <<>> \in Seq(MsgType)
  BY EmptySeq
<1> HIDE DEF o
<1>7. /\ n \in JobType /\ n.pc = "err" /\ n.total = job[j].total /\ n.corrupt = job[j].corrupt /\ n.out = o /\ n.outstanding = 0
  BY <1>1, <1>5, <1>6 DEF JobType
<1> HIDE DEF n
<1>8. Series(n) = Series(job[j])
  BY <1>7 DEF Series
<1>9. JobSound(n, j, worker)
  BY <1>1, <1>4, <1>7, <1>8 DEF JobSound, Running
<1> QED BY <1>1, <1>3, <1>7, <1>9, JobMoves

\* The end of a batch.
LEMMA BatchEndOf ==
  ASSUME UnpackInv, NEW j \in Jobs
  PROVE  /\ BatchEnd(j) \in Int /\ BatchEnd(j) <= job[j].total
         /\ BatchEnd(j) <= job[j].cursor + Batch(job[j].total)
         /\ BatchEnd(j) = job[j].total \/ BatchEnd(j) = job[j].cursor + Batch(job[j].total)
         /\ Batch(job[j].total) \in Nat /\ Batch(job[j].total) > 0
<1>1. job[j].total \in Nat /\ job[j].cursor \in Nat
  BY JobParts
<1>2. Batch(job[j].total) \in Nat /\ Batch(job[j].total) > 0
  BY <1>1, PlanSound
<1>3. PICK e \in Int : e = job[j].cursor + Batch(job[j].total)
  BY <1>1, <1>2
<1>4. PICK t \in Int : t = job[j].total
  BY <1>1
<1>5. BatchEnd(j) = Min({e, t})
  BY <1>3, <1>4 DEF BatchEnd
<1>6. Min({e, t}) \in {e, t} /\ Min({e, t}) <= e /\ Min({e, t}) <= t
  BY <1>3, <1>4, MinOf
<1> QED BY <1>1, <1>2, <1>3, <1>4, <1>5, <1>6

\* The caller claims a batch.
LEMMA CallerClaimsStep ==
  ASSUME UnpackInv, NEW j \in Jobs, CallerClaims(j)
  PROVE  UnpackInv'
<1>1. /\ job[j] \in JobType /\ job \in [Jobs -> JobType] /\ JobSound(job[j], j, worker)
      /\ job[j].total \in Nat /\ job[j].cursor \in Nat /\ Series(job[j]) \subseteq Nat
      /\ worker \in [PoolWorkers -> WorkerType] /\ handles \in Seq(Jobs)
  BY JobParts
<1>2. job[j].pc = "claim" /\ UNCHANGED <<handles, worker>>
  BY DEF CallerClaims
<1>3. /\ BatchEnd(j) \in Int /\ BatchEnd(j) <= job[j].total
      /\ BatchEnd(j) <= job[j].cursor + Batch(job[j].total)
      /\ BatchEnd(j) = job[j].total \/ BatchEnd(j) = job[j].cursor + Batch(job[j].total)
      /\ Batch(job[j].total) \in Nat /\ Batch(job[j].total) > 0
  BY BatchEndOf
<1>4. PICK c \in Nat : c = job[j].cursor + Batch(job[j].total)
  BY <1>1, <1>3
<1>5. PICK e \in Int : e = BatchEnd(j)
  BY <1>3
<1>6. Claimed(j) = [job EXCEPT ![j].cursor = c]
  BY <1>1, <1>4 DEF Claimed
<1>7. /\ Placed(job[j], j, worker) /\ Counted(job[j]) /\ ErrorFollows(job[j], j, worker)
      /\ DefaultsFollow(job[j], j, worker) /\ SeriesClean(job[j])
      /\ \A i \in Series(job[j]) : ~Mine(job[j], i)
  BY <1>1, <1>2 DEF JobSound, Running, Mine
<1>8. CASE job[j].cursor >= job[j].total
  <2> DEFINE n == [job[j] EXCEPT !.cursor = c, !.pc = "collect"]
  <2>1. job' = [job EXCEPT ![j] = n]
    BY <1>1, <1>6, <1>8 DEF CallerClaims
  <2>2. /\ n \in JobType /\ n.pc = "collect" /\ n.total = job[j].total /\ n.corrupt = job[j].corrupt /\ n.cursor = c
        /\ n.msgs = job[j].msgs /\ n.out = job[j].out /\ n.outstanding = job[j].outstanding /\ n.must_stop = job[j].must_stop
    BY <1>1 DEF JobType
  <2> HIDE DEF n
  <2>3. Series(n) = Series(job[j]) /\ \A i \in Series(job[j]) : i < c /\ i < job[j].cursor /\ i \in Nat
    BY <1>1, <1>3, <1>4, <1>8, <2>2 DEF Series
  <2>4. Placed(n, j, worker)
    <3>1. Claims(n, j, worker)
      BY <1>7, <2>2, <2>3 DEF Placed, Claims, Mine, Has
    <3>2. Covered(n, j, worker)
      BY <1>1, <1>7, <2>2, <2>3 DEF Placed, Covered, Mine, Has, Sent
    <3>3. HasAlone(n, j, worker) /\ MineAlone(n, j, worker) /\ HandAlone(n, j, worker) /\ SentOnce(n)
      BY <1>7, <2>2, <2>3 DEF Placed, HasAlone, MineAlone, HandAlone, SentOnce, Mine, Has, Sent
    <3> QED BY <3>1, <3>2, <3>3 DEF Placed
  <2>5. Counted(n) /\ ErrorFollows(n, j, worker) /\ DefaultsFollow(n, j, worker) /\ SeriesClean(n)
    BY <1>7, <2>2, <2>3 DEF Counted, Has, ErrorFollows, DefaultsFollow, SeriesClean
  <2>6. JobSound(n, j, worker)
    BY <1>1, <2>2, <2>3, <2>4, <2>5 DEF JobSound
  <2> QED BY <1>1, <1>2, <2>1, <2>2, <2>6, JobMoves
<1>9. CASE job[j].cursor < job[j].total /\ job[j].late
  <2>1. job' = Failed([job EXCEPT ![j].cursor = c], j)
    BY <1>1, <1>6, <1>9 DEF CallerClaims
  <2> QED BY <1>2, <2>1, FailedStep
<1>10. CASE job[j].cursor < job[j].total /\ ~job[j].late
  <2> DEFINE n == [job[j] EXCEPT !.cursor = c, !.pc = "unpack", !.next = job[j].cursor, !.end = e]
  <2>0. e \in Nat /\ job[j].cursor < e /\ e <= c /\ e <= job[j].total /\ (e = c \/ e = job[j].total)
    BY <1>1, <1>3, <1>4, <1>5, <1>10
  <2>1. job' = [job EXCEPT ![j] = n]
    <3>1. job' = [Claimed(j) EXCEPT ![j].pc = "unpack", ![j].next = job[j].cursor, ![j].end = e]
      BY <1>1, <1>5, <1>10 DEF CallerClaims
    <3> QED BY <1>1, <1>6, <3>1
  <2>2. /\ n \in JobType /\ n.pc = "unpack" /\ n.total = job[j].total /\ n.corrupt = job[j].corrupt /\ n.cursor = c
        /\ n.next = job[j].cursor /\ n.end = e
        /\ n.msgs = job[j].msgs /\ n.out = job[j].out /\ n.outstanding = job[j].outstanding /\ n.must_stop = job[j].must_stop
    BY <1>1, <2>0 DEF JobType
  <2> HIDE DEF n
  <2>3. Series(n) = Series(job[j]) /\ \A i \in Series(job[j]) : i \in Nat /\ i < job[j].total
    BY <1>1, <2>2 DEF Series
  <2>4. \A i \in Series(job[j]) : (Mine(n, i) <=> job[j].cursor <= i /\ i < e) /\ (Mine(n, i) \/ i < job[j].cursor => i < c)
    BY <1>1, <2>0, <2>2, <2>3 DEF Mine
  <2>5. Placed(n, j, worker)
    <3>1. Claims(n, j, worker)
      BY <1>7, <2>2, <2>3, <2>4 DEF Placed, Claims, Has
    <3>2. Covered(n, j, worker)
      BY <1>1, <1>7, <2>0, <2>2, <2>3, <2>4 DEF Placed, Covered, Has, Sent
    <3>3. MineAlone(n, j, worker)
      <4> SUFFICES ASSUME NEW i \in Series(job[j]), Mine(n, i)
                   PROVE  (\A w \in PoolWorkers : i \notin Hand(worker[w], j)) /\ (\A k \in DOMAIN n.msgs : ~Sent(n, k, i))
        BY <2>3 DEF MineAlone
      <4>1. ~(i < job[j].cursor)
        BY <1>1, <2>3, <2>4
      <4> QED BY <1>7, <2>2, <4>1 DEF Placed, Claims, Sent
    <3>4. HasAlone(n, j, worker)
      <4> SUFFICES ASSUME NEW i \in Series(job[j]), Has(n, i)
                   PROVE  /\ ~Mine(n, i) /\ (\A w \in PoolWorkers : i \notin Hand(worker[w], j))
                          /\ (\A k \in DOMAIN n.msgs : ~Sent(n, k, i))
        BY <2>3 DEF HasAlone
      <4>1. Has(job[j], i)
        BY <2>2 DEF Has
      <4>2. i < job[j].cursor
        BY <1>7, <4>1 DEF Placed, Claims
      <4>3. ~Mine(n, i)
        BY <1>1, <2>3, <2>4, <4>2
      <4> QED BY <1>7, <2>2, <4>1, <4>3 DEF Placed, HasAlone, Sent
    <3>5. HandAlone(n, j, worker) /\ SentOnce(n)
      BY <1>7, <2>2, <2>3 DEF Placed, HandAlone, SentOnce, Sent
    <3> QED BY <3>1, <3>2, <3>3, <3>4, <3>5 DEF Placed
  <2>6. Counted(n) /\ ErrorFollows(n, j, worker) /\ DefaultsFollow(n, j, worker) /\ SeriesClean(n)
    BY <1>7, <2>2, <2>3 DEF Counted, Has, ErrorFollows, DefaultsFollow, SeriesClean
  <2>7. JobSound(n, j, worker)
    BY <1>1, <2>0, <2>2, <2>3, <2>5, <2>6 DEF JobSound
  <2> QED BY <1>1, <1>2, <2>1, <2>2, <2>7, JobMoves
<1> QED BY <1>1, <1>8, <1>9, <1>10

\* The results that are missing, and one fewer.
LEMMA OneResult ==
  ASSUME NEW J \in JobType, NEW n, Counted(J), NEW i \in Series(J), ~Has(J, i), Series(n) = Series(J),
         \A k \in Series(J) : Has(n, k) <=> (k = i \/ Has(J, k)), n.outstanding = J.outstanding - 1
  PROVE  Counted(n) /\ n.outstanding \in 0..J.total
<1>1. IsFiniteSet(Series(J)) /\ Cardinality(Series(J)) = J.total
  <2>1. J.total \in Nat
    BY DEF JobType
  <2>2. CASE J.total = 0
    <3>1. Series(J) = {}
      BY <2>2 DEF Series
    <3> QED BY <2>2, <3>1, FS_EmptySet
  <2>3. CASE J.total # 0
    <3>1. 0 <= J.total - 1 /\ J.total - 1 \in Int /\ (J.total - 1) - 0 + 1 = J.total
      BY <2>1, <2>3
    <3> QED BY SMTT(40), <3>1, FS_Interval DEF Series
  <2> QED BY <2>2, <2>3
<1> DEFINE A == {k \in Series(J) : ~Has(J, k)}
           B == {k \in Series(n) : ~Has(n, k)}
<1>2. i \in A /\ B = A \ {i}
  OBVIOUS
<1>3. IsFiniteSet(A) /\ Cardinality(A) <= J.total
  BY <1>1, FS_Subset
<1>4. J.outstanding = Cardinality(A)
  BY DEF Counted
<1> HIDE DEF A, B
<1>5. Cardinality(B) = Cardinality(A) - 1 /\ Cardinality(A) \in Nat /\ Cardinality(B) \in Nat
  <2>1. IsFiniteSet(A \ {i}) /\ Cardinality(A \ {i}) = Cardinality(A) - 1
    BY <1>2, <1>3, FS_RemoveElement
  <2> QED BY <1>2, <1>3, <2>1, FS_CardinalityType
<1>6. n.outstanding = Cardinality(B)
  BY <1>4, <1>5
<1>7. J.total \in Nat
  BY DEF JobType
<1> QED BY <1>3, <1>5, <1>6, <1>7 DEF Counted, B

\* The caller unpacks the next series of its batch.
LEMMA CallerUnpacksStep ==
  ASSUME UnpackInv, NEW j \in Jobs, CallerUnpacks(j)
  PROVE  UnpackInv'
<1>1. /\ job[j] \in JobType /\ job \in [Jobs -> JobType] /\ JobSound(job[j], j, worker)
      /\ job[j].total \in Nat /\ job[j].cursor \in Nat /\ Series(job[j]) \subseteq Nat
      /\ worker \in [PoolWorkers -> WorkerType] /\ handles \in Seq(Jobs)
  BY JobParts
<1>2. job[j].pc = "unpack" /\ UNCHANGED <<handles, worker>>
  BY DEF CallerUnpacks
<1>3. PICK i : i = job[j].next
  OBVIOUS
<1>4. CASE i \in job[j].corrupt
  <2>1. job' = Failed(job, j)
    BY <1>3, <1>4 DEF CallerUnpacks
  <2>2. [job EXCEPT ![j].cursor = job[j].cursor] = job
    BY <1>1 DEF JobType
  <2>3. job' = Failed([job EXCEPT ![j].cursor = job[j].cursor], j)
    BY <2>1, <2>2
  <2> QED BY <1>1, <1>2, <2>3, FailedStep
<1>5. CASE i \notin job[j].corrupt
  <2> DEFINE o == [job[j].out EXCEPT ![i] = "series"]
             p == IF i + 1 = job[j].end THEN "claim" ELSE "unpack"
             n == [job[j] EXCEPT !.out = o, !.outstanding = job[j].outstanding - 1, !.next = i + 1, !.pc = p]
  <2>1. job' = [job EXCEPT ![j] = n]
    BY <1>1, <1>3, <1>5 DEF CallerUnpacks
  <2>2. /\ Placed(job[j], j, worker) /\ Counted(job[j]) /\ ErrorFollows(job[j], j, worker)
        /\ DefaultsFollow(job[j], j, worker) /\ SeriesClean(job[j])
        /\ job[j].out \in [Series(job[j]) -> {"none", "series", "default"}]
        /\ job[j].next < job[j].end /\ job[j].end <= job[j].total
    BY <1>1, <1>2 DEF JobSound, Running
  <2>3. i \in Nat /\ i < job[j].end /\ job[j].end \in Nat /\ i \in Series(job[j]) /\ Mine(job[j], i) /\ i + 1 \in Nat
    BY <1>1, <1>2, <1>3, <2>2 DEF JobType, Series, Mine
  <2>4. o \in [Series(job[j]) -> {"none", "series", "default"}]
    BY <2>2
  <2>5. o \in UNION {[0..m - 1 -> {"none", "series", "default"}] : m \in Nat}
    BY <1>1, <2>4 DEF Series
  <2>6. ~Has(job[j], i)
    BY <2>2, <2>3 DEF Placed, HasAlone
  <2>7. job[j].outstanding - 1 \in Nat
    <3>1. Series(job[j]) = Series([job[j] EXCEPT !.out = o, !.outstanding = job[j].outstanding - 1])
      BY <1>1 DEF Series, JobType
    <3>2. [job[j] EXCEPT !.out = o, !.outstanding = job[j].outstanding - 1].out = o
      BY <1>1 DEF JobType
    <3>3. \A k \in Series(job[j]) : Has([job[j] EXCEPT !.out = o, !.outstanding = job[j].outstanding - 1], k) <=> (k = i \/ Has(job[j], k))
      BY <2>2, <3>2 DEF Has
    <3>4. [job[j] EXCEPT !.out = o, !.outstanding = job[j].outstanding - 1].outstanding = job[j].outstanding - 1
      BY <1>1 DEF JobType
    <3>5. [job[j] EXCEPT !.out = o, !.outstanding = job[j].outstanding - 1].outstanding \in 0..job[j].total
      <4>1. PICK m : m = [job[j] EXCEPT !.out = o, !.outstanding = job[j].outstanding - 1]
        OBVIOUS
      <4>2. m.outstanding \in 0..job[j].total
        BY <1>1, <2>2, <2>3, <2>6, <3>1, <3>3, <3>4, <4>1, OneResult
      <4> QED BY <4>1, <4>2
    <3> QED BY <1>1, <3>4, <3>5
  <2>8. p \in {"claim", "unpack"} /\ (p = "unpack" => i + 1 # job[j].end) /\ (p = "claim" => i + 1 = job[j].end)
    OBVIOUS
  <2>9. \A k \in Series(job[j]) : o[k] = IF k = i THEN "series" ELSE job[j].out[k]
    BY <2>2
  <2> HIDE DEF o, p
  <2>10. /\ n \in JobType /\ n.pc = p /\ n.total = job[j].total /\ n.corrupt = job[j].corrupt /\ n.cursor = job[j].cursor
         /\ n.next = i + 1 /\ n.end = job[j].end
         /\ n.msgs = job[j].msgs /\ n.out = o /\ n.outstanding = job[j].outstanding - 1 /\ n.must_stop = job[j].must_stop
    BY <1>1, <2>3, <2>5, <2>7, <2>8 DEF JobType
  <2> HIDE DEF n
  <2>11. Series(n) = Series(job[j]) /\ \A k \in Series(job[j]) : k \in Nat
    BY <1>1, <2>10 DEF Series
  <2>12. \A k \in Series(job[j]) : Has(n, k) <=> (k = i \/ Has(job[j], k))
    BY <2>9, <2>10 DEF Has
  <2>13. \A k \in Series(job[j]) : Mine(n, k) <=> (k # i /\ Mine(job[j], k))
    <3>1. CASE p = "unpack"
      BY <1>2, <1>3, <2>3, <2>10, <2>11, <3>1 DEF Mine
    <3>2. CASE p = "claim"
      BY <1>2, <1>3, <2>3, <2>8, <2>10, <2>11, <3>2 DEF Mine
    <3> QED BY <2>8, <3>1, <3>2
  <2>14. Counted(n) /\ n.outstanding \in 0..n.total
    BY <1>1, <2>2, <2>3, <2>6, <2>10, <2>11, <2>12, OneResult
  <2>15. Placed(n, j, worker)
    <3>1. Claims(n, j, worker)
      BY <2>2, <2>3, <2>10, <2>11, <2>12, <2>13 DEF Placed, Claims
    <3>2. Covered(n, j, worker)
      BY <2>2, <2>10, <2>11, <2>12, <2>13 DEF Placed, Covered, Sent
    <3>3. HasAlone(n, j, worker)
      <4> SUFFICES ASSUME NEW k \in Series(job[j]), Has(n, k)
                   PROVE  /\ ~Mine(n, k) /\ (\A w \in PoolWorkers : k \notin Hand(worker[w], j))
                          /\ (\A l \in DOMAIN n.msgs : ~Sent(n, l, k))
        BY <2>11 DEF HasAlone
      <4>1. CASE k = i
        BY <2>2, <2>3, <2>10, <2>13, <4>1 DEF Placed, MineAlone, Sent
      <4>2. CASE k # i
        BY <2>2, <2>10, <2>12, <2>13, <4>2 DEF Placed, HasAlone, Sent
      <4> QED BY <4>1, <4>2
    <3>4. MineAlone(n, j, worker)
      BY <2>2, <2>10, <2>11, <2>13 DEF Placed, MineAlone, Sent
    <3>5. HandAlone(n, j, worker) /\ SentOnce(n)
      BY <2>2, <2>10 DEF Placed, HandAlone, SentOnce, Sent
    <3> QED BY <3>1, <3>2, <3>3, <3>4, <3>5 DEF Placed
  <2>16. ErrorFollows(n, j, worker)
    BY <2>2, <2>10 DEF ErrorFollows
  <2>17. DefaultsFollow(n, j, worker) /\ SeriesClean(n)
    BY <1>5, <2>2, <2>9, <2>10, <2>11 DEF DefaultsFollow, SeriesClean
  <2>18. n.pc = "unpack" => n.next < n.end /\ n.end <= n.total
    BY <2>2, <2>3, <2>8, <2>10
  <2>19. n.pc # "ok" /\ n.out \in [Series(n) -> {"none", "series", "default"}] /\ n.corrupt \subseteq Series(n)
    BY <1>1, <2>4, <2>8, <2>10, <2>11 DEF JobSound
  <2>20. JobSound(n, j, worker)
    BY <2>14, <2>15, <2>16, <2>17, <2>18, <2>19 DEF JobSound
  <2> QED BY <1>1, <1>2, <2>1, <2>10, <2>20, JobMoves
<1> QED BY <1>4, <1>5

\* A result arrives.
LEMMA CallerReceivesStep ==
  ASSUME UnpackInv, NEW j \in Jobs, CallerReceives(j)
  PROVE  UnpackInv'
<1>1. /\ job[j] \in JobType /\ job \in [Jobs -> JobType] /\ JobSound(job[j], j, worker)
      /\ job[j].total \in Nat /\ job[j].cursor \in Nat /\ Series(job[j]) \subseteq Nat
      /\ worker \in [PoolWorkers -> WorkerType] /\ handles \in Seq(Jobs)
  BY JobParts
<1>2. job[j].pc = "collect" /\ UNCHANGED <<handles, worker>> /\ job[j].outstanding > 0 /\ job[j].msgs # <<>>
  BY DEF CallerReceives
<1>3. PICK s : s = job[j].msgs
  OBVIOUS
<1>4. s \in Seq(MsgType) /\ s # <<>>
  BY <1>1, <1>2, <1>3 DEF JobType
<1>5. /\ Tail(s) \in Seq(MsgType) /\ Len(Tail(s)) = Len(s) - 1 /\ Len(s) \in Nat /\ Len(s) >= 1
      /\ DOMAIN s = 1..Len(s) /\ DOMAIN Tail(s) = 1..Len(Tail(s)) /\ Head(s) = s[1]
      /\ \A k \in 1..Len(Tail(s)) : Tail(s)[k] = s[k + 1]
  BY <1>4, HeadTailProperties, LenProperties, EmptySeq
<1>6. PICK m \in MsgType : m = s[1]
  BY <1>4, <1>5, ElementOfSeq
<1>7. /\ \A k \in DOMAIN Tail(s) : k + 1 \in DOMAIN s /\ Tail(s)[k] = s[k + 1] /\ k + 1 # 1 /\ k \in Nat
      /\ \A k \in DOMAIN s : k # 1 => k - 1 \in DOMAIN Tail(s) /\ Tail(s)[k - 1] = s[k]
      /\ 1 \in DOMAIN s
  BY <1>5
<1>8. CASE m.res = "error"
  <2>1. job' = Failed(job, j)
    BY <1>3, <1>5, <1>6, <1>8 DEF CallerReceives
  <2>2. [job EXCEPT ![j].cursor = job[j].cursor] = job
    BY <1>1 DEF JobType
  <2>3. job' = Failed([job EXCEPT ![j].cursor = job[j].cursor], j)
    BY <2>1, <2>2
  <2> QED BY <1>1, <1>2, <2>3, FailedStep
<1>9. CASE m.res # "error"
  <2> DEFINE o == [job[j].out EXCEPT ![m.i] = m.res]
             n == [job[j] EXCEPT !.out = o, !.outstanding = job[j].outstanding - 1, !.msgs = Tail(s)]
  <2>1. job' = [job EXCEPT ![j] = n]
    BY <1>1, <1>3, <1>5, <1>6, <1>9 DEF CallerReceives
  <2>2. /\ Placed(job[j], j, worker) /\ Counted(job[j]) /\ ErrorFollows(job[j], j, worker)
        /\ DefaultsFollow(job[j], j, worker) /\ SeriesClean(job[j])
        /\ job[j].out \in [Series(job[j]) -> {"none", "series", "default"}]
    BY <1>1, <1>2 DEF JobSound, Running
  <2>3. m.i \in Series(job[j]) /\ m.i < job[j].cursor /\ m.res \in {"series", "default"}
    BY <1>3, <1>6, <1>7, <1>9, <2>2 DEF Placed, Claims, MsgType, Results
  <2>4. o \in [Series(job[j]) -> {"none", "series", "default"}]
    BY <2>2, <2>3
  <2>5. o \in UNION {[0..k - 1 -> {"none", "series", "default"}] : k \in Nat}
    BY <1>1, <2>4 DEF Series
  <2>6. ~Has(job[j], m.i)
    BY <1>3, <1>6, <1>7, <2>2, <2>3 DEF Placed, HasAlone, Sent
  <2>7. job[j].outstanding - 1 \in Nat
    BY <1>1, <1>2 DEF JobType
  <2>8. \A k \in Series(job[j]) : o[k] = IF k = m.i THEN m.res ELSE job[j].out[k]
    BY <2>2
  <2> HIDE DEF o
  <2>9. /\ n \in JobType /\ n.pc = "collect" /\ n.total = job[j].total /\ n.corrupt = job[j].corrupt /\ n.cursor = job[j].cursor
        /\ n.msgs = Tail(s) /\ n.out = o /\ n.outstanding = job[j].outstanding - 1 /\ n.must_stop = job[j].must_stop
    BY <1>1, <1>2, <1>5, <2>5, <2>7 DEF JobType
  <2> HIDE DEF n
  <2>10. Series(n) = Series(job[j]) /\ \A k \in Series(job[j]) : k \in Nat
    BY <1>1, <2>9 DEF Series
  <2>a. /\ \A k \in DOMAIN n.msgs : \E l \in DOMAIN job[j].msgs : l = k + 1 /\ l # 1 /\ k \in Int /\ n.msgs[k] = job[j].msgs[l]
        /\ \A l \in DOMAIN job[j].msgs : l # 1 => \E k \in DOMAIN n.msgs : l = k + 1 /\ n.msgs[k] = job[j].msgs[l]
        /\ 1 \in DOMAIN job[j].msgs /\ job[j].msgs[1].i = m.i /\ job[j].msgs[1].res = m.res
    <3>1. \A l \in DOMAIN s : l # 1 => l - 1 \in DOMAIN Tail(s) /\ l = (l - 1) + 1
      BY <1>5
    <3> QED BY <1>3, <1>6, <1>7, <2>9, <3>1
  <2>11. \A k \in Series(job[j]) : Has(n, k) <=> (k = m.i \/ Has(job[j], k))
    BY <2>3, <2>8, <2>9 DEF Has
  <2>12. \A k \in Series(job[j]) : ~Mine(n, k) /\ ~Mine(job[j], k)
    BY <1>2, <2>9 DEF Mine
  <2>13. Counted(n) /\ n.outstanding \in 0..n.total
    BY <1>1, <2>2, <2>3, <2>6, <2>9, <2>10, <2>11, OneResult
  <2>14. SentOnce(n) /\ \A k \in DOMAIN n.msgs : n.msgs[k].i # m.i
    <3>1. SentOnce(job[j])
      BY <2>2 DEF Placed
    <3>2. \A k \in DOMAIN n.msgs : n.msgs[k].i # m.i
      BY <2>a, <3>1 DEF SentOnce
    <3>3. ASSUME NEW k \in DOMAIN n.msgs, NEW l \in DOMAIN n.msgs, n.msgs[k].i = n.msgs[l].i PROVE k = l
      <4>1. k + 1 \in DOMAIN job[j].msgs /\ l + 1 \in DOMAIN job[j].msgs /\ n.msgs[k] = job[j].msgs[k + 1]
            /\ n.msgs[l] = job[j].msgs[l + 1] /\ k \in Int /\ l \in Int
        BY <2>a
      <4>2. k + 1 = l + 1
        BY <3>1, <3>3, <4>1 DEF SentOnce
      <4> QED BY <4>1, <4>2
    <3> QED BY <3>2, <3>3 DEF SentOnce
  <2>15. \A k \in Series(job[j]) :
           (\E l \in DOMAIN job[j].msgs : Sent(job[j], l, k)) <=> (k = m.i \/ \E l \in DOMAIN n.msgs : Sent(n, l, k))
    BY <2>a, <2>9 DEF Sent
  <2>16. Placed(n, j, worker)
    <3>1. Claims(n, j, worker)
      BY <2>a, <2>2, <2>3, <2>9, <2>10, <2>11, <2>12 DEF Placed, Claims
    <3>2. Covered(n, j, worker)
      BY <2>2, <2>9, <2>10, <2>11, <2>12, <2>15 DEF Placed, Covered
    <3>3. HasAlone(n, j, worker)
      <4> SUFFICES ASSUME NEW k \in Series(job[j]), Has(n, k)
                   PROVE  /\ ~Mine(n, k) /\ (\A w \in PoolWorkers : k \notin Hand(worker[w], j))
                          /\ (\A l \in DOMAIN n.msgs : ~Sent(n, l, k))
        BY <2>10 DEF HasAlone
      <4>1. CASE k = m.i
        <5>1. \A w \in PoolWorkers : k \notin Hand(worker[w], j)
          BY <2>a, <2>2, <4>1 DEF Placed, HandAlone, Sent
        <5> QED BY <2>12, <2>14, <4>1, <5>1 DEF Sent
      <4>2. CASE k # m.i
        BY <2>2, <2>11, <2>12, <2>15, <4>2 DEF Placed, HasAlone
      <4> QED BY <4>1, <4>2
    <3>4. MineAlone(n, j, worker)
      BY <2>10, <2>12 DEF MineAlone
    <3>5. HandAlone(n, j, worker)
      <4>1. HandAlone(job[j], j, worker)
        BY <2>2 DEF Placed
      <4>2. \A k \in DOMAIN n.msgs : \E l \in DOMAIN job[j].msgs : n.msgs[k] = job[j].msgs[l]
        BY <2>a
      <4> QED BY <4>1, <4>2 DEF HandAlone, Sent
    <3> QED BY <2>14, <3>1, <3>2, <3>3, <3>4, <3>5 DEF Placed
  <2>17. ErrorFollows(n, j, worker)
    <3>1. \A k \in DOMAIN job[j].msgs : job[j].msgs[k].res = "error" => \E l \in DOMAIN n.msgs : n.msgs[l].res = "error"
      BY <1>9, <2>a, <2>9
    <3> QED BY <2>2, <2>9, <3>1 DEF ErrorFollows
  <2>18. DefaultsFollow(n, j, worker)
    BY <2>a, <2>2, <2>8, <2>9, <2>10 DEF DefaultsFollow
  <2>19. SeriesClean(n)
    BY SMTT(40), <2>a, <2>2, <2>8, <2>9, <2>10 DEF SeriesClean
  <2>20. n.out \in [Series(n) -> {"none", "series", "default"}] /\ n.corrupt \subseteq Series(n)
    BY <1>1, <2>4, <2>9, <2>10 DEF JobSound
  <2>21. JobSound(n, j, worker)
    BY <2>9, <2>13, <2>16, <2>17, <2>18, <2>19, <2>20 DEF JobSound
  <2> QED BY <1>1, <1>2, <2>1, <2>9, <2>21, JobMoves
<1> QED BY <1>8, <1>9

\* The caller has all results.
LEMMA CallerReturnsStep ==
  ASSUME UnpackInv, NEW j \in Jobs, CallerReturns(j)
  PROVE  UnpackInv'
<1> DEFINE n == [job[j] EXCEPT !.pc = "ok"]
<1>1. /\ job[j] \in JobType /\ job \in [Jobs -> JobType] /\ JobSound(job[j], j, worker)
      /\ job[j].total \in Nat /\ worker \in [PoolWorkers -> WorkerType] /\ handles \in Seq(Jobs)
  BY JobParts
<1>2. job[j].pc = "collect" /\ job[j].outstanding = 0 /\ UNCHANGED <<handles, worker>>
  BY DEF CallerReturns
<1>3. job' = [job EXCEPT ![j] = n]
  BY <1>1 DEF CallerReturns
<1>4. /\ n \in JobType /\ n.pc = "ok" /\ n.total = job[j].total /\ n.corrupt = job[j].corrupt
      /\ n.out = job[j].out /\ n.outstanding = job[j].outstanding
  BY <1>1 DEF JobType
<1> HIDE DEF n
<1>5. /\ Placed(job[j], j, worker) /\ Counted(job[j]) /\ ErrorFollows(job[j], j, worker)
      /\ DefaultsFollow(job[j], j, worker) /\ SeriesClean(job[j])
      /\ job[j].out \in [Series(job[j]) -> {"none", "series", "default"}] /\ job[j].corrupt \subseteq Series(job[j])
  BY <1>1, <1>2 DEF JobSound, Running
<1>6. \A i \in Series(job[j]) : Has(job[j], i)
  <2>1. IsFiniteSet(Series(job[j]))
    BY <1>1, FS_Interval DEF Series
  <2>2. IsFiniteSet({i \in Series(job[j]) : ~Has(job[j], i)})
    BY <2>1, FS_Subset
  <2>3. Cardinality({i \in Series(job[j]) : ~Has(job[j], i)}) = 0
    BY <1>2, <1>5 DEF Counted
  <2>4. {i \in Series(job[j]) : ~Has(job[j], i)} = {}
    BY <2>2, <2>3, FS_EmptySet
  <2> QED BY <2>4
<1>7. ~job[j].must_stop
  <2> SUFFICES ASSUME job[j].must_stop PROVE FALSE
    OBVIOUS
  <2>1. CASE \E k \in DOMAIN job[j].msgs : job[j].msgs[k].res = "error"
    BY <1>5, <1>6, <2>1 DEF Placed, Claims, HasAlone, Sent
  <2>2. ASSUME NEW w \in PoolWorkers, worker[w].pc = "send", worker[w].job = j PROVE FALSE
    <3>1. worker[w] \in WorkerType /\ WorkerSound(worker[w], job)
      BY DEF UnpackInv
    <3>2. worker[w].next \in Nat /\ worker[w].end \in Nat /\ worker[w].next < worker[w].end /\ worker[w].end <= job[j].total
      BY <2>2, <3>1 DEF WorkerType, Idle, WorkerSound, Busy
    <3>3. worker[w].next \in Hand(worker[w], j) /\ worker[w].next \in Series(job[j])
      BY <1>1, <2>2, <3>2 DEF Hand, Busy, Series
    <3> QED BY <1>5, <1>6, <3>3 DEF Placed, HasAlone
  <2> QED BY <1>5, <2>1, <2>2 DEF ErrorFollows
<1>8. \A i \in Series(job[j]) : job[j].out[i] = "series"
  BY <1>5, <1>6, <1>7 DEF DefaultsFollow, Has
<1>9. job[j].corrupt = {}
  BY <1>5, <1>8 DEF SeriesClean
<1>10. Series(n) = Series(job[j])
  BY <1>4 DEF Series
<1>11. JobSound(n, j, worker)
  BY <1>1, <1>4, <1>8, <1>9, <1>10 DEF JobSound, Running
<1> QED BY <1>1, <1>2, <1>3, <1>4, <1>11, JobMoves

\* Worker w becomes v.
LEMMA WorkerMoves ==
  ASSUME UnpackInv, NEW w \in PoolWorkers, NEW v \in WorkerType, worker' = [worker EXCEPT ![w] = v], handles' \in Seq(Jobs),
         NEW j \in Jobs, worker[w].pc # "idle" => worker[w].job = j, v.pc # "idle" => v.job = j,
         NEW n \in JobType, job' = [job EXCEPT ![j] = n], n.total = job[j].total, n.corrupt = job[j].corrupt,
         WorkerSound(v, job'), JobSound(n, j, worker')
  PROVE  UnpackInv'
<1>1. /\ worker' \in [PoolWorkers -> WorkerType] /\ worker'[w] = v
      /\ \A u \in PoolWorkers \ {w} : worker'[u] = worker[u]
  BY DEF UnpackInv
<1>2. \A u \in PoolWorkers : \/ worker'[u] = worker[u]
                             \/ /\ worker[u].pc # "idle" => worker[u].job = j
                                /\ worker'[u].pc # "idle" => worker'[u].job = j
                                /\ WorkerSound(worker'[u], job')
  BY <1>1
<1> QED BY <1>1, <1>2, JobMoves

\* What the invariant says of one worker.
LEMMA WorkerParts ==
  ASSUME UnpackInv, NEW w \in PoolWorkers
  PROVE  /\ worker[w] \in WorkerType /\ worker \in [PoolWorkers -> WorkerType] /\ WorkerSound(worker[w], job)
         /\ worker[w].pc # "idle" => worker[w].job \in Jobs
         /\ Busy(worker[w]) => /\ worker[w].next \in Nat /\ worker[w].end \in Nat /\ worker[w].next < worker[w].end
                               /\ worker[w].end <= job[worker[w].job].total
         /\ Answer(worker[w]) => worker[w].res \in Results
<1>1. worker[w] \in WorkerType /\ worker \in [PoolWorkers -> WorkerType] /\ WorkerSound(worker[w], job)
  BY DEF UnpackInv
<1> QED BY <1>1 DEF WorkerType, Idle, WorkerSound, Busy, Answer

\* The job stays as it is while a worker's batch stays the same.
LEMMA SameHand ==
  ASSUME NEW J, NEW j, NEW W, NEW V, Placed(J, j, W), \A u \in PoolWorkers : Hand(V[u], j) = Hand(W[u], j)
  PROVE  Placed(J, j, V)
BY DEF Placed, Claims, Covered, HasAlone, MineAlone, HandAlone

\* An idle worker takes a job handle from the queue.
LEMMA PopJobStep ==
  ASSUME UnpackInv, NEW w \in PoolWorkers, pop_job(w)
  PROVE  UnpackInv'
<1>1. worker[w].pc = "idle" /\ handles # <<>> /\ handles' = Tail(handles) /\ UNCHANGED job
  BY DEF pop_job
<1>2. handles \in Seq(Jobs)
  BY DEF UnpackInv
<1>3. PICK j \in Jobs : j = Head(handles)
  BY <1>1, <1>2, HeadTailProperties
<1>4. handles' \in Seq(Jobs)
  BY <1>1, <1>2, HeadTailProperties
<1> DEFINE v == [pc |-> "claim", job |-> j]
<1>5. worker' = [worker EXCEPT ![w] = v]
  BY <1>3 DEF pop_job
<1>6. v \in WorkerType /\ v.pc = "claim" /\ v.job = j
  BY DEF WorkerType
<1> HIDE DEF v
<1>7. job[j] \in JobType /\ job \in [Jobs -> JobType] /\ JobSound(job[j], j, worker) /\ worker \in [PoolWorkers -> WorkerType]
  BY JobParts
<1>8. job' = [job EXCEPT ![j] = job[j]]
  BY <1>1, <1>7
<1>9. \A u \in PoolWorkers : worker'[u] = IF u = w THEN v ELSE worker[u]
  BY <1>5, <1>7
<1>10. \A u \in PoolWorkers : Hand(worker'[u], j) = Hand(worker[u], j)
  BY <1>1, <1>6, <1>9 DEF Hand, Busy
<1>11. JobSound(job[j], j, worker')
  <2>1. Running(job[j]) => Placed(job[j], j, worker')
    BY <1>7, <1>10, SameHand DEF JobSound
  <2>2. Running(job[j]) => ErrorFollows(job[j], j, worker') /\ DefaultsFollow(job[j], j, worker')
    BY <1>1, <1>6, <1>7, <1>9 DEF JobSound, ErrorFollows, DefaultsFollow, Answer
  <2> QED BY <1>7, <2>1, <2>2 DEF JobSound
<1>12. WorkerSound(v, job')
  BY <1>6 DEF WorkerSound, Busy, Answer
<1> QED BY <1>1, <1>4, <1>5, <1>6, <1>7, <1>8, <1>11, <1>12, WorkerMoves

\* A worker claims a batch.
LEMMA WorkerClaimsStep ==
  ASSUME UnpackInv, NEW w \in PoolWorkers, WorkerClaims(w)
  PROVE  UnpackInv'
<1>1. worker[w].pc = "claim" /\ UNCHANGED handles
  BY DEF WorkerClaims
<1>2. PICK j \in Jobs : j = worker[w].job
  BY <1>1, WorkerParts
<1>3. /\ job[j] \in JobType /\ job \in [Jobs -> JobType] /\ JobSound(job[j], j, worker)
      /\ job[j].total \in Nat /\ job[j].cursor \in Nat /\ Series(job[j]) \subseteq Nat
      /\ worker \in [PoolWorkers -> WorkerType] /\ handles \in Seq(Jobs)
  BY JobParts
<1>4. /\ BatchEnd(j) \in Int /\ BatchEnd(j) <= job[j].total
      /\ BatchEnd(j) <= job[j].cursor + Batch(job[j].total)
      /\ BatchEnd(j) = job[j].total \/ BatchEnd(j) = job[j].cursor + Batch(job[j].total)
      /\ Batch(job[j].total) \in Nat /\ Batch(job[j].total) > 0
  BY BatchEndOf
<1>5. PICK c \in Nat : c = job[j].cursor + Batch(job[j].total)
  BY <1>3, <1>4
<1> DEFINE n == [job[j] EXCEPT !.cursor = c]
<1>6. job' = [job EXCEPT ![j] = n]
  BY <1>2, <1>3, <1>5 DEF WorkerClaims, Claimed
<1>7. /\ n \in JobType /\ n.pc = job[j].pc /\ n.total = job[j].total /\ n.corrupt = job[j].corrupt /\ n.cursor = c
      /\ n.next = job[j].next /\ n.end = job[j].end
      /\ n.msgs = job[j].msgs /\ n.out = job[j].out /\ n.outstanding = job[j].outstanding /\ n.must_stop = job[j].must_stop
  BY <1>3 DEF JobType
<1> HIDE DEF n
<1>8. PICK v : v = IF job[j].cursor >= job[j].total THEN Idle
                   ELSE [pc |-> "decide", job |-> j, next |-> job[j].cursor, end |-> BatchEnd(j)]
  OBVIOUS
<1>9. worker' = [worker EXCEPT ![w] = v]
  BY <1>2, <1>8 DEF WorkerClaims
<1>10. v \in WorkerType /\ (v.pc # "idle" => v.job = j) /\ ~Answer(v) /\ WorkerSound(v, job')
  <2>1. CASE job[j].cursor >= job[j].total
    BY <1>8, <2>1 DEF WorkerType, Idle, Answer, WorkerSound, Busy
  <2>2. CASE ~(job[j].cursor >= job[j].total)
    <3>1. BatchEnd(j) \in Nat /\ job[j].cursor < BatchEnd(j)
      BY <1>3, <1>4, <2>2
    <3>2. v \in WorkerType /\ v.pc = "decide" /\ v.job = j /\ v.next = job[j].cursor /\ v.end = BatchEnd(j)
      BY <1>3, <1>8, <2>2, <3>1 DEF WorkerType
    <3>3. job'[j].total = job[j].total
      BY <1>3, <1>6, <1>7
    <3> QED BY <1>4, <3>1, <3>2, <3>3 DEF Answer, WorkerSound, Busy
  <2> QED BY <2>1, <2>2
<1>11. \A u \in PoolWorkers : worker'[u] = IF u = w THEN v ELSE worker[u]
  BY <1>3, <1>9
<1>12. Series(n) = Series(job[j]) /\ \A i \in Series(job[j]) : i \in Nat /\ i < job[j].total
  BY <1>3, <1>7 DEF Series
<1>13. \A i \in Nat : i \in Hand(v, j) <=> job[j].cursor <= i /\ i < c /\ i < job[j].total
  <2>1. CASE job[j].cursor >= job[j].total
    <3>1. Hand(v, j) = {}
      BY <1>8, <2>1 DEF Hand, Busy, Idle
    <3> QED BY <1>3, <2>1, <3>1
  <2>2. CASE ~(job[j].cursor >= job[j].total)
    <3>1. Hand(v, j) = job[j].cursor..BatchEnd(j) - 1
      BY <1>8, <2>2 DEF Hand, Busy
    <3> QED BY <1>3, <1>4, <1>5, <3>1
  <2> QED BY <2>1, <2>2
<1>14. Hand(v, j) \subseteq Nat
  BY <1>3, <1>4, <1>8 DEF Hand, Busy, Idle
<1>15. Hand(worker[w], j) = {}
  BY <1>1 DEF Hand, Busy
<1>16. \A u \in PoolWorkers : Hand(worker'[u], j) = IF u = w THEN Hand(v, j) ELSE Hand(worker[u], j)
  BY <1>11
<1>17. ASSUME Running(job[j])
       PROVE  Placed(n, j, worker')
  <2>1. Placed(job[j], j, worker)
    BY <1>3, <1>17 DEF JobSound
  <2>2. \A i \in Series(job[j]) : Mine(n, i) <=> Mine(job[j], i)
    BY <1>7 DEF Mine
  <2>3. \A i \in Series(job[j]) : Has(n, i) <=> Has(job[j], i)
    BY <1>7 DEF Has
  <2>4. job[j].cursor < c
    BY <1>3, <1>4, <1>5
  <2>5. Claims(n, j, worker')
    <3>1. \A k \in DOMAIN n.msgs : n.msgs[k].i \in Series(n) /\ n.msgs[k].i < n.cursor
      BY <1>3, <1>7, <1>12, <2>1, <2>4 DEF Placed, Claims
    <3>2. \A i \in Series(n) : Mine(n, i) \/ Has(n, i) => i < n.cursor
      BY <1>3, <1>7, <1>12, <2>1, <2>2, <2>3, <2>4 DEF Placed, Claims
    <3>3. ASSUME NEW u \in PoolWorkers, NEW i \in Hand(worker'[u], j) PROVE i \in Series(n) /\ i < n.cursor
      <4>1. CASE u = w
        BY <1>3, <1>7, <1>12, <1>13, <1>14, <1>16, <3>3, <4>1 DEF Series
      <4>2. CASE u # w
        BY <1>3, <1>7, <1>12, <1>16, <2>1, <2>4, <3>3, <4>2 DEF Placed, Claims
      <4> QED BY <4>1, <4>2
    <3> QED BY <3>1, <3>2, <3>3 DEF Claims
  <2>6. Covered(n, j, worker')
    <3> SUFFICES ASSUME NEW i \in Series(job[j])
                 PROVE  \/ Has(n, i) \/ n.cursor <= i \/ Mine(n, i)
                        \/ (\E u \in PoolWorkers : i \in Hand(worker'[u], j)) \/ (\E k \in DOMAIN n.msgs : Sent(n, k, i))
      BY <1>12 DEF Covered
    <3>1. CASE job[j].cursor <= i
      BY <1>3, <1>7, <1>12, <1>13, <1>16, <3>1
    <3>2. CASE ~(job[j].cursor <= i)
      <4>1. \/ Has(job[j], i) \/ Mine(job[j], i)
            \/ (\E u \in PoolWorkers : i \in Hand(worker[u], j)) \/ (\E k \in DOMAIN job[j].msgs : Sent(job[j], k, i))
        BY <2>1, <3>2 DEF Placed, Covered
      <4> QED BY <1>7, <1>15, <1>16, <2>2, <2>3, <4>1 DEF Sent
    <3> QED BY <3>1, <3>2
  <2>7. ASSUME NEW i \in Series(job[j]), i \in Hand(v, j)
        PROVE  /\ ~Has(n, i) /\ ~Mine(n, i) /\ (\A u \in PoolWorkers : i \notin Hand(worker[u], j))
               /\ \A k \in DOMAIN n.msgs : ~Sent(n, k, i)
    <3>1. ~(i < job[j].cursor)
      BY <1>3, <1>12, <1>13, <2>7
    <3> QED BY <1>7, <2>1, <2>2, <2>3, <3>1 DEF Placed, Claims, Sent
  <2>8. HasAlone(n, j, worker') /\ MineAlone(n, j, worker')
    <3>1. HasAlone(job[j], j, worker) /\ MineAlone(job[j], j, worker)
      BY <2>1 DEF Placed
    <3> QED BY <1>7, <1>12, <1>16, <2>2, <2>3, <2>7, <3>1 DEF HasAlone, MineAlone, Sent
  <2>9. HandAlone(n, j, worker')
    <3> SUFFICES ASSUME NEW u \in PoolWorkers, NEW i \in Hand(worker'[u], j)
                 PROVE  (\A t \in PoolWorkers : i \in Hand(worker'[t], j) => t = u) /\ (\A k \in DOMAIN n.msgs : ~Sent(n, k, i))
      BY DEF HandAlone
    <3>1. i \in Series(job[j])
      BY <1>12, <2>5 DEF Claims
    <3>2. CASE u = w
      BY <1>16, <2>7, <3>1, <3>2
    <3>3. CASE u # w
      BY <1>7, <1>16, <2>1, <2>7, <3>1, <3>3 DEF Placed, HandAlone, Sent
    <3> QED BY <3>2, <3>3
  <2>10. SentOnce(n)
    BY <1>7, <2>1 DEF Placed, SentOnce
  <2> QED BY <2>5, <2>6, <2>8, <2>9, <2>10 DEF Placed
<1>18. Running(job[j]) => Counted(n) /\ SeriesClean(n)
  BY <1>3, <1>7, <1>12 DEF JobSound, Counted, Has, SeriesClean
<1>19. Running(job[j]) => ErrorFollows(n, j, worker') /\ DefaultsFollow(n, j, worker')
  BY <1>1, <1>3, <1>7, <1>10, <1>11, <1>12 DEF JobSound, ErrorFollows, DefaultsFollow, Answer
<1>20. JobSound(n, j, worker')
  BY <1>3, <1>7, <1>12, <1>17, <1>18, <1>19 DEF JobSound, Running
<1> QED BY <1>1, <1>2, <1>3, <1>6, <1>7, <1>9, <1>10, <1>20, WorkerMoves

\* A worker decides about the next series of its batch.
LEMMA RunJobStep ==
  ASSUME UnpackInv, NEW w \in PoolWorkers, run_job(w)
  PROVE  UnpackInv'
<1>1. worker[w].pc = "decide" /\ UNCHANGED <<job, handles>>
  BY DEF run_job
<1>2. PICK j \in Jobs : j = worker[w].job
  BY <1>1, WorkerParts
<1>3. /\ job[j] \in JobType /\ job \in [Jobs -> JobType] /\ JobSound(job[j], j, worker)
      /\ worker \in [PoolWorkers -> WorkerType] /\ handles \in Seq(Jobs)
  BY JobParts
<1>4. PICK i \in Nat : i = worker[w].next /\ worker[w].end \in Nat /\ i < worker[w].end /\ worker[w].end <= job[j].total
  BY <1>1, <1>2, WorkerParts DEF Busy
<1>5. PICK r \in Results : /\ r = Outcome(j, i)
                           /\ r = "default" => job[j].must_stop
                           /\ r = "series" => i \notin job[j].corrupt
  BY DEF Outcome, Results
<1> DEFINE p == IF r = "error" THEN "stop" ELSE "send"
           v == [pc |-> p, job |-> j, next |-> i, end |-> worker[w].end, res |-> r]
<1>6. worker' = [worker EXCEPT ![w] = v]
  BY <1>2, <1>3, <1>4, <1>5 DEF run_job
<1>7. p \in {"stop", "send"} /\ (p = "stop" <=> r = "error")
  OBVIOUS
<1> HIDE DEF p
<1>8. v \in WorkerType /\ v.pc = p /\ v.job = j /\ v.next = i /\ v.end = worker[w].end /\ v.res = r
  BY <1>4, <1>5, <1>7 DEF WorkerType
<1> HIDE DEF v
<1>9. job' = [job EXCEPT ![j] = job[j]]
  BY <1>1, <1>3
<1>10. \A u \in PoolWorkers : worker'[u] = IF u = w THEN v ELSE worker[u]
  BY <1>3, <1>6
<1>11. \A u \in PoolWorkers : Hand(worker'[u], j) = Hand(worker[u], j)
  BY <1>1, <1>2, <1>4, <1>7, <1>8, <1>10 DEF Hand, Busy
<1>12. JobSound(job[j], j, worker')
  <2>1. Running(job[j]) => Placed(job[j], j, worker')
    BY <1>3, <1>11, SameHand DEF JobSound
  <2>2. Running(job[j]) => ErrorFollows(job[j], j, worker')
    BY <1>1, <1>3, <1>10 DEF JobSound, ErrorFollows
  <2>3. Running(job[j]) => DefaultsFollow(job[j], j, worker')
    BY <1>3, <1>5, <1>8, <1>10 DEF JobSound, DefaultsFollow
  <2> QED BY <1>3, <2>1, <2>2, <2>3 DEF JobSound
<1>13. WorkerSound(v, job')
  BY <1>1, <1>4, <1>5, <1>7, <1>8 DEF WorkerSound, Busy, Answer
<1> QED BY <1>1, <1>2, <1>3, <1>6, <1>8, <1>9, <1>12, <1>13, WorkerMoves

\* The worker that met an error tells the others.
LEMMA StopOthersStep ==
  ASSUME UnpackInv, NEW w \in PoolWorkers, StopOthers(w)
  PROVE  UnpackInv'
<1>1. worker[w].pc = "stop" /\ UNCHANGED handles
  BY DEF StopOthers
<1>2. PICK j \in Jobs : j = worker[w].job
  BY <1>1, WorkerParts
<1>3. /\ job[j] \in JobType /\ job \in [Jobs -> JobType] /\ JobSound(job[j], j, worker)
      /\ worker \in [PoolWorkers -> WorkerType] /\ handles \in Seq(Jobs)
  BY JobParts
<1>4. /\ worker[w] \in WorkerType /\ worker[w].next \in Nat /\ worker[w].end \in Nat /\ worker[w].next < worker[w].end
      /\ worker[w].end <= job[j].total /\ worker[w].res = "error"
  BY <1>1, <1>2, WorkerParts DEF Busy, WorkerSound
<1> DEFINE n == [job[j] EXCEPT !.must_stop = TRUE]
           v == [worker[w] EXCEPT !.pc = "send"]
<1>5. job' = [job EXCEPT ![j] = n] /\ worker' = [worker EXCEPT ![w] = v]
  BY <1>2, <1>3 DEF StopOthers
<1>6. /\ n \in JobType /\ n.pc = job[j].pc /\ n.total = job[j].total /\ n.corrupt = job[j].corrupt /\ n.cursor = job[j].cursor
      /\ n.next = job[j].next /\ n.end = job[j].end
      /\ n.msgs = job[j].msgs /\ n.out = job[j].out /\ n.outstanding = job[j].outstanding /\ n.must_stop = TRUE
  BY <1>3 DEF JobType
<1>7. worker[w] \in [pc : {"stop", "send"}, job : Jobs, next : Nat, end : Nat, res : Results]
  BY <1>1, <1>4 DEF WorkerType, Idle
<1>8. v \in WorkerType /\ v.pc = "send" /\ v.job = j /\ v.next = worker[w].next /\ v.end = worker[w].end /\ v.res = "error"
  BY <1>2, <1>4, <1>7 DEF WorkerType
<1> HIDE DEF n, v
<1>9. \A u \in PoolWorkers : worker'[u] = IF u = w THEN v ELSE worker[u]
  BY <1>3, <1>5
<1>10. \A u \in PoolWorkers : Hand(worker'[u], j) = Hand(worker[u], j)
  BY <1>1, <1>2, <1>8, <1>9 DEF Hand, Busy
<1>11. Series(n) = Series(job[j])
  BY <1>6 DEF Series
<1>12. ASSUME Running(job[j]) PROVE Placed(n, j, worker') /\ Counted(n) /\ SeriesClean(n)
  <2>1. Placed(job[j], j, worker')
    BY <1>3, <1>10, <1>12, SameHand DEF JobSound
  <2>2. \A i : (Mine(n, i) <=> Mine(job[j], i)) /\ (Has(n, i) <=> Has(job[j], i)) /\ \A k : Sent(n, k, i) <=> Sent(job[j], k, i)
    BY <1>6 DEF Mine, Has, Sent
  <2>3. Claims(n, j, worker') /\ Covered(n, j, worker')
    BY <1>6, <1>11, <2>1, <2>2 DEF Placed, Claims, Covered
  <2>4. HasAlone(n, j, worker') /\ MineAlone(n, j, worker') /\ HandAlone(n, j, worker') /\ SentOnce(n)
    BY <1>6, <1>11, <2>1, <2>2 DEF Placed, HasAlone, MineAlone, HandAlone, SentOnce
  <2>5. Counted(n) /\ SeriesClean(n)
    BY <1>3, <1>6, <1>11, <1>12 DEF JobSound, Counted, Has, SeriesClean
  <2> QED BY <2>3, <2>4, <2>5 DEF Placed
<1>13. ErrorFollows(n, j, worker') /\ DefaultsFollow(n, j, worker')
  BY <1>6, <1>8, <1>9 DEF ErrorFollows, DefaultsFollow
<1>14. JobSound(n, j, worker')
  BY <1>3, <1>6, <1>11, <1>12, <1>13 DEF JobSound, Running
<1>15. WorkerSound(v, job')
  <2>1. job'[j].total = job[j].total
    BY <1>3, <1>5, <1>6
  <2> QED BY <1>4, <1>8, <2>1 DEF WorkerSound, Busy, Answer
<1> QED BY <1>1, <1>2, <1>3, <1>5, <1>6, <1>8, <1>14, <1>15, WorkerMoves

\* The worker sends its result and goes on.
LEMMA WorkerSendsStep ==
  ASSUME UnpackInv, NEW w \in PoolWorkers, Send(w)
  PROVE  UnpackInv'
<1>1. worker[w].pc = "send" /\ UNCHANGED handles
  BY DEF Send
<1>2. PICK j \in Jobs : j = worker[w].job
  BY <1>1, WorkerParts
<1>3. /\ job[j] \in JobType /\ job \in [Jobs -> JobType] /\ JobSound(job[j], j, worker)
      /\ job[j].total \in Nat /\ job[j].cursor \in Nat /\ Series(job[j]) \subseteq Nat
      /\ worker \in [PoolWorkers -> WorkerType] /\ handles \in Seq(Jobs)
  BY JobParts
<1>4. PICK i \in Nat : i = worker[w].next
  BY <1>1, WorkerParts DEF Busy
<1>5. PICK e \in Nat : e = worker[w].end /\ i < e /\ e <= job[j].total
  BY <1>1, <1>2, <1>4, WorkerParts DEF Busy
<1>6. PICK r \in Results : r = worker[w].res /\ (r = "series" => i \notin job[j].corrupt)
  BY <1>1, <1>2, <1>4, WorkerParts DEF Answer, WorkerSound
<1>7. PICK v : v = IF i + 1 = e THEN [pc |-> "claim", job |-> j]
                   ELSE [pc |-> "decide", job |-> j, next |-> i + 1, end |-> e]
  OBVIOUS
<1>8. worker' = [worker EXCEPT ![w] = v]
  BY <1>2, <1>3, <1>4, <1>5, <1>7 DEF Send
<1>9. v \in WorkerType /\ v.pc \in {"claim", "decide"} /\ v.job = j
  BY <1>5, <1>7 DEF WorkerType
<1>10. \A u \in PoolWorkers : worker'[u] = IF u = w THEN v ELSE worker[u]
  BY <1>3, <1>8
<1>11. Hand(worker[w], j) = i..e - 1
  BY <1>1, <1>2, <1>4, <1>5 DEF Hand, Busy
<1>12. Hand(v, j) = (i + 1)..e - 1
  <2>1. CASE i + 1 = e
    <3>1. Hand(v, j) = {} /\ (i + 1)..e - 1 = {}
      BY <1>7, <2>1 DEF Hand, Busy
    <3> QED BY <3>1
  <2>2. CASE i + 1 # e
    BY <1>7, <2>2 DEF Hand, Busy
  <2> QED BY <2>1, <2>2
<1>13. i \in Hand(worker[w], j) /\ Hand(v, j) = Hand(worker[w], j) \ {i} /\ i \in Series(job[j])
  BY <1>3, <1>5, <1>11, <1>12 DEF Series
<1>14. \A u \in PoolWorkers : Hand(worker'[u], j) = IF u = w THEN Hand(worker[w], j) \ {i} ELSE Hand(worker[u], j)
  BY <1>10, <1>13
<1>15. ASSUME job'[j].total = job[j].total PROVE WorkerSound(v, job')
  <2>1. CASE i + 1 = e
    BY <1>7, <2>1 DEF WorkerSound, Busy, Answer
  <2>2. CASE i + 1 # e
    <3>1. v.pc = "decide" /\ v.job = j /\ v.next = i + 1 /\ v.end = e
      BY <1>7, <2>2
    <3> QED BY <1>5, <1>15, <2>2, <3>1 DEF WorkerSound, Busy, Answer
  <2> QED BY <2>1, <2>2
<1>16. CASE Done(j)
  <2> DEFINE n == [job[j] EXCEPT !.must_stop = TRUE]
  <2>1. job' = [job EXCEPT ![j] = n]
    BY <1>2, <1>3, <1>16 DEF Send
  <2>2. /\ n \in JobType /\ n.pc = job[j].pc /\ n.total = job[j].total /\ n.corrupt = job[j].corrupt
        /\ n.out = job[j].out /\ n.outstanding = job[j].outstanding
    BY <1>3 DEF JobType
  <2> HIDE DEF n
  <2>3. Series(n) = Series(job[j])
    BY <2>2 DEF Series
  <2>4. JobSound(n, j, worker')
    BY <1>3, <1>16, <2>2, <2>3 DEF JobSound, Running, Done
  <2>5. job'[j].total = job[j].total
    BY <1>3, <2>1, <2>2
  <2> QED BY <1>1, <1>2, <1>3, <1>8, <1>9, <1>15, <2>1, <2>2, <2>4, <2>5, WorkerMoves
<1>17. CASE ~Done(j)
  <2> DEFINE m == [i |-> i, res |-> r]
  <2>1. m \in MsgType /\ m.i = i /\ m.res = r
    BY DEF MsgType
  <2>0. job' = [job EXCEPT ![j].msgs = Append(@, m)]
    BY <1>2, <1>4, <1>6, <1>17 DEF Send
  <2> HIDE DEF m
  <2>2. PICK s \in Seq(MsgType) : s = job[j].msgs
    BY <1>3 DEF JobType
  <2> DEFINE n == [job[j] EXCEPT !.msgs = Append(s, m)]
  <2>3. job' = [job EXCEPT ![j] = n]
    BY <1>3, <2>0, <2>2
  <2>4. /\ Append(s, m) \in Seq(MsgType) /\ Len(s) \in Nat /\ DOMAIN s = 1..Len(s)
        /\ DOMAIN Append(s, m) = 1..(Len(s) + 1)
        /\ (\A k \in 1..Len(s) : Append(s, m)[k] = s[k]) /\ Append(s, m)[Len(s) + 1] = m
    BY <2>1, AppendProperties, LenProperties
  <2>5. /\ n \in JobType /\ n.pc = job[j].pc /\ n.total = job[j].total /\ n.corrupt = job[j].corrupt /\ n.cursor = job[j].cursor
        /\ n.next = job[j].next /\ n.end = job[j].end /\ n.msgs = Append(s, m)
        /\ n.out = job[j].out /\ n.outstanding = job[j].outstanding /\ n.must_stop = job[j].must_stop
    BY <1>3, <2>4 DEF JobType
  <2> HIDE DEF n
  <2>6. PICK z : z = Len(s) + 1
    OBVIOUS
  <2>7. /\ DOMAIN n.msgs = DOMAIN job[j].msgs \cup {z} /\ z \notin DOMAIN job[j].msgs /\ n.msgs[z] = m
        /\ \A k \in DOMAIN job[j].msgs : n.msgs[k] = job[j].msgs[k]
    BY <2>2, <2>4, <2>5, <2>6
  <2>8. Series(n) = Series(job[j])
    BY <2>5 DEF Series
  <2>9. /\ Placed(job[j], j, worker) /\ Counted(job[j]) /\ ErrorFollows(job[j], j, worker)
        /\ DefaultsFollow(job[j], j, worker) /\ SeriesClean(job[j]) /\ Running(n) /\ Running(job[j])
    BY <1>3, <1>17, <2>5 DEF JobSound, Running, Done
  <2>10. \A k : (Mine(n, k) <=> Mine(job[j], k)) /\ (Has(n, k) <=> Has(job[j], k))
    BY <2>5 DEF Mine, Has
  <2>11. \A k : (\E l \in DOMAIN n.msgs : Sent(n, l, k)) <=> (k = i \/ \E l \in DOMAIN job[j].msgs : Sent(job[j], l, k))
    BY <2>1, <2>7 DEF Sent
  <2>12. /\ ~Has(job[j], i) /\ ~Mine(job[j], i) /\ (\A l \in DOMAIN job[j].msgs : ~Sent(job[j], l, i)) /\ i < job[j].cursor
         /\ \A u \in PoolWorkers : i \notin Hand(worker'[u], j)
    <3>1. HasAlone(job[j], j, worker) /\ MineAlone(job[j], j, worker) /\ HandAlone(job[j], j, worker) /\ Claims(job[j], j, worker)
      BY <2>9 DEF Placed
    <3>2. ~Has(job[j], i) /\ ~Mine(job[j], i)
      BY <1>13, <3>1 DEF HasAlone, MineAlone
    <3>3. (\A l \in DOMAIN job[j].msgs : ~Sent(job[j], l, i)) /\ \A u \in PoolWorkers : i \in Hand(worker[u], j) => u = w
      BY <1>13, <3>1 DEF HandAlone
    <3>4. \A u \in PoolWorkers : i \notin Hand(worker'[u], j)
      BY <1>14, <3>3
    <3> QED BY <1>13, <3>1, <3>2, <3>3, <3>4 DEF Claims
  <2>13. \A u \in PoolWorkers : Hand(worker'[u], j) \subseteq Hand(worker[u], j)
    BY <1>14
  <2>14. Placed(n, j, worker')
    <3>1. Claims(n, j, worker')
      BY <1>13, <2>1, <2>5, <2>7, <2>8, <2>9, <2>10, <2>12, <2>13 DEF Placed, Claims
    <3>2. Covered(n, j, worker')
      <4> SUFFICES ASSUME NEW k \in Series(job[j])
                   PROVE  \/ Has(n, k) \/ n.cursor <= k \/ Mine(n, k)
                          \/ (\E u \in PoolWorkers : k \in Hand(worker'[u], j)) \/ (\E l \in DOMAIN n.msgs : Sent(n, l, k))
        BY <2>8 DEF Covered
      <4>1. \/ Has(job[j], k) \/ job[j].cursor <= k \/ Mine(job[j], k)
            \/ (\E u \in PoolWorkers : k \in Hand(worker[u], j)) \/ (\E l \in DOMAIN job[j].msgs : Sent(job[j], l, k))
        BY <2>9 DEF Placed, Covered
      <4>2. CASE \E u \in PoolWorkers : k \in Hand(worker[u], j)
        BY <1>14, <2>11, <4>2
      <4> QED BY <2>5, <2>10, <2>11, <4>1, <4>2
    <3>3. HasAlone(n, j, worker')
      BY <2>8, <2>9, <2>10, <2>11, <2>12, <2>13 DEF Placed, HasAlone
    <3>4. MineAlone(n, j, worker')
      BY <2>8, <2>9, <2>10, <2>11, <2>12, <2>13 DEF Placed, MineAlone
    <3>5. HandAlone(n, j, worker')
      <4> SUFFICES ASSUME NEW u \in PoolWorkers, NEW k \in Hand(worker'[u], j)
                   PROVE  /\ \A t \in PoolWorkers : k \in Hand(worker'[t], j) => t = u
                          /\ ~\E l \in DOMAIN n.msgs : Sent(n, l, k)
        BY DEF HandAlone
      <4>1. k \in Hand(worker[u], j) /\ k # i
        BY <2>12, <2>13
      <4>2. HandAlone(job[j], j, worker)
        BY <2>9 DEF Placed
      <4>3. \A t \in PoolWorkers : k \in Hand(worker[t], j) => t = u
        BY <4>1, <4>2 DEF HandAlone
      <4>4. \A l \in DOMAIN job[j].msgs : ~Sent(job[j], l, k)
        BY <4>1, <4>2 DEF HandAlone
      <4>5. ~\E l \in DOMAIN n.msgs : Sent(n, l, k)
        BY <2>11, <4>1, <4>4
      <4> QED BY <2>13, <4>3, <4>5
    <3>6. SentOnce(n)
      BY <2>1, <2>7, <2>9, <2>12 DEF Placed, SentOnce, Sent
    <3> QED BY <3>1, <3>2, <3>3, <3>4, <3>5, <3>6 DEF Placed
  <2>15. ErrorFollows(n, j, worker')
    <3> SUFFICES ASSUME job[j].must_stop
                 PROVE  \/ \E u \in PoolWorkers : worker'[u].pc = "send" /\ worker'[u].job = j /\ worker'[u].res = "error"
                        \/ \E k \in DOMAIN n.msgs : n.msgs[k].res = "error"
      BY <2>5 DEF ErrorFollows
    <3>1. CASE \E k \in DOMAIN job[j].msgs : job[j].msgs[k].res = "error"
      BY <2>7, <3>1
    <3>2. ASSUME NEW u \in PoolWorkers, worker[u].pc = "send", worker[u].job = j, worker[u].res = "error"
          PROVE  \/ \E t \in PoolWorkers : worker'[t].pc = "send" /\ worker'[t].job = j /\ worker'[t].res = "error"
                 \/ \E k \in DOMAIN n.msgs : n.msgs[k].res = "error"
      <4>1. CASE u = w
        BY <1>6, <2>1, <2>7, <3>2, <4>1
      <4>2. CASE u # w
        BY <1>10, <3>2, <4>2
      <4> QED BY <4>1, <4>2
    <3> QED BY <2>9, <3>1, <3>2 DEF ErrorFollows
  <2>16. DefaultsFollow(n, j, worker')
    <3>1. ~job[j].must_stop => r # "default"
      BY <1>1, <1>2, <1>6, <2>9 DEF DefaultsFollow, Answer
    <3> QED BY <1>9, <1>10, <2>1, <2>5, <2>7, <2>8, <2>9, <3>1 DEF DefaultsFollow, Answer
  <2>17. SeriesClean(n) /\ Counted(n)
    BY <1>6, <2>1, <2>5, <2>7, <2>8, <2>9 DEF SeriesClean, Counted, Has
  <2>18. JobSound(n, j, worker')
    BY <1>3, <2>5, <2>8, <2>9, <2>14, <2>15, <2>16, <2>17 DEF JobSound, Running
  <2>19. job'[j].total = job[j].total
    BY <1>3, <2>3, <2>5
  <2> QED BY <1>1, <1>2, <1>3, <1>8, <1>9, <1>15, <2>3, <2>5, <2>18, <2>19, WorkerMoves
<1> QED BY <1>16, <1>17

\* The invariant holds initially.
LEMMA UnpackStart == UnpackInit => UnpackInv
<1> SUFFICES ASSUME UnpackInit PROVE UnpackInv
  OBVIOUS
<1>1. handles \in Seq(Jobs)
  BY EmptySeq DEF UnpackInit
<1>2. worker \in [PoolWorkers -> WorkerType] /\ \A w \in PoolWorkers : worker[w].pc = "idle"
  BY DEF UnpackInit, WorkerType, Idle
<1>3. \A w \in PoolWorkers : WorkerSound(worker[w], job)
  BY <1>2 DEF WorkerSound, Busy, Answer
<1>4. ASSUME NEW j \in Jobs PROVE job[j] \in JobType /\ JobSound(job[j], j, worker)
  <2>1. PICK n, c :
          /\ n \in Totals
          /\ job[j] = [pc |-> "new", total |-> n, corrupt |-> c, late |-> FALSE,
                       cursor |-> 0, must_stop |-> FALSE, msgs |-> <<>>,
                       next |-> 0, end |-> 0, out |-> [i \in 0..n - 1 |-> "none"], outstanding |-> n]
    BY DEF UnpackInit
  <2>2. n \in Nat /\ c \subseteq 0..n - 1
    BY <2>1, UnpackAssumption DEF UnpackInit
  <2> DEFINE o == [i \in 0..n - 1 |-> "none"]
  <2>3. o \in [0..n - 1 -> {"none", "series", "default"}] /\ \A i \in 0..n - 1 : o[i] = "none"
    OBVIOUS
  <2>4. <<>> \in Seq(MsgType) /\ DOMAIN <<>> = {}
    OBVIOUS
  <2>5. /\ job[j].pc = "new" /\ job[j].total = n /\ job[j].corrupt = c /\ job[j].cursor = 0 /\ job[j].must_stop = FALSE
        /\ job[j].msgs = <<>> /\ job[j].out = o /\ job[j].outstanding = n
    BY <2>1
  <2>6. c \subseteq Nat /\ o \in UNION {[0..k - 1 -> {"none", "series", "default"}] : k \in Nat}
    BY <2>2, <2>3
  <2> HIDE DEF o
  <2>7. job[j] \in JobType
    BY <2>1, <2>2, <2>4, <2>6 DEF JobType, o
  <2>8. Series(job[j]) = 0..n - 1 /\ \A i \in Series(job[j]) : ~Has(job[j], i)
    BY <2>3, <2>5 DEF Series, Has
  <2>9. \A i : ~Mine(job[j], i)
    BY <2>5 DEF Mine
  <2>10. \A w \in PoolWorkers : Hand(worker[w], j) = {}
    BY <1>2 DEF Hand, Busy
  <2>11. DOMAIN job[j].msgs = {}
    BY <2>4, <2>5
  <2>12. Placed(job[j], j, worker)
    <3>1. Claims(job[j], j, worker)
      BY <2>8, <2>9, <2>10, <2>11 DEF Claims
    <3>2. Covered(job[j], j, worker)
      <4>1. \A i \in Series(job[j]) : job[j].cursor <= i
        BY <2>5, <2>8
      <4> QED BY <4>1 DEF Covered
    <3>3. HasAlone(job[j], j, worker) /\ MineAlone(job[j], j, worker)
      BY <2>8, <2>9 DEF HasAlone, MineAlone
    <3>4. HandAlone(job[j], j, worker) /\ SentOnce(job[j])
      BY <2>10, <2>11 DEF HandAlone, SentOnce
    <3> QED BY <3>1, <3>2, <3>3, <3>4 DEF Placed
  <2>13. Counted(job[j])
    <3>1. {i \in Series(job[j]) : ~Has(job[j], i)} = 0..n - 1
      BY <2>8
    <3>2. n # 0 /\ 0 <= n - 1 /\ n - 1 \in Int /\ (n - 1) - 0 + 1 = n
      BY <2>1, UnpackAssumption
    <3>3. Cardinality(0..n - 1) = n
      BY <3>2, FS_Interval
    <3> QED BY <2>5, <3>1, <3>3 DEF Counted
  <2>14. ErrorFollows(job[j], j, worker)
    BY <2>5 DEF ErrorFollows
  <2>15. DefaultsFollow(job[j], j, worker)
    BY <1>2, <2>3, <2>5, <2>8, <2>11 DEF DefaultsFollow, Answer
  <2>16. SeriesClean(job[j])
    BY <2>3, <2>5, <2>8, <2>11 DEF SeriesClean
  <2>17. job[j].out \in [Series(job[j]) -> {"none", "series", "default"}] /\ job[j].corrupt \subseteq Series(job[j]) /\ job[j].outstanding \in 0..job[j].total
    BY <2>2, <2>3, <2>5, <2>8
  <2> QED BY <2>5, <2>7, <2>12, <2>13, <2>14, <2>15, <2>16, <2>17 DEF JobSound
<1>5. job \in [Jobs -> JobType]
  <2>1. DOMAIN job = Jobs /\ job = [j \in Jobs |-> job[j]]
    BY DEF UnpackInit
  <2> QED BY <1>4, <2>1
<1> QED BY <1>1, <1>2, <1>3, <1>4, <1>5 DEF UnpackInv

\* Every step keeps the invariant.
LEMMA UnpackStep == UnpackInv /\ [UnpackNext]_unpackVars => UnpackInv'
<1> SUFFICES ASSUME UnpackInv, [UnpackNext]_unpackVars PROVE UnpackInv'
  OBVIOUS
<1>1. ASSUME NEW j \in Jobs, CallerNext(j) PROVE UnpackInv'
  BY <1>1, UnpackBeginsStep, CallerClaimsStep, CallerUnpacksStep, CallerReceivesStep, CallerReturnsStep DEF CallerNext
<1>2. ASSUME NEW j \in Jobs, DeadlinePasses(j) PROVE UnpackInv'
  BY <1>2, DeadlineStep
<1>3. ASSUME NEW w \in PoolWorkers, WorkerNext(w) PROVE UnpackInv'
  BY <1>3, PopJobStep, WorkerClaimsStep, RunJobStep, StopOthersStep, WorkerSendsStep DEF WorkerNext
<1>4. CASE UNCHANGED unpackVars
  BY <1>4 DEF unpackVars, UnpackInv
<1> QED BY <1>1, <1>2, <1>3, <1>4 DEF UnpackNext

\* Where one series is, counted.
LEMMA OnePlace ==
  ASSUME UnpackInv, NEW j \in Jobs, ~Done(j), NEW i \in Series(job[j])
  PROVE  (IF Has(job[j], i) THEN 1 ELSE 0) + (IF i >= job[j].cursor THEN 1 ELSE 0)
         + (IF Mine(job[j], i) THEN 1 ELSE 0)
         + Cardinality({w \in PoolWorkers : i \in InHand(w, j)})
         + Cardinality({k \in DOMAIN job[j].msgs : job[j].msgs[k].i = i}) = 1
<1> DEFINE H == {w \in PoolWorkers : i \in InHand(w, j)}
           S == {k \in DOMAIN job[j].msgs : job[j].msgs[k].i = i}
<1>1. /\ job[j] \in JobType /\ Claims(job[j], j, worker) /\ Covered(job[j], j, worker) /\ HasAlone(job[j], j, worker)
      /\ MineAlone(job[j], j, worker) /\ HandAlone(job[j], j, worker) /\ SentOnce(job[j])
  BY DEF UnpackInv, JobSound, Running, Done, Placed
<1>2. i \in Nat /\ job[j].cursor \in Nat
  BY <1>1 DEF Series, JobType
<1>3. \A w \in PoolWorkers : w \in H <=> i \in Hand(worker[w], j)
  BY DEF InHand, Hand, Busy
<1>4. \A k \in DOMAIN job[j].msgs : k \in S <=> Sent(job[j], k, i)
  BY DEF Sent
<1>5. H \subseteq PoolWorkers /\ S \subseteq DOMAIN job[j].msgs
  OBVIOUS
<1> HIDE DEF H, S
<1>6. \/ Has(job[j], i) \/ job[j].cursor <= i \/ Mine(job[j], i) \/ H # {} \/ S # {}
  BY <1>1, <1>3, <1>4 DEF Covered
<1>7. Has(job[j], i) => ~Mine(job[j], i) /\ H = {} /\ S = {} /\ i < job[j].cursor
  BY <1>1, <1>3, <1>4, <1>5 DEF HasAlone, Claims
<1>8. Mine(job[j], i) => H = {} /\ S = {} /\ i < job[j].cursor
  BY <1>1, <1>3, <1>4, <1>5 DEF MineAlone, Claims
<1>9. ASSUME H # {} PROVE i < job[j].cursor /\ S = {} /\ \E w : H = {w}
  <2>1. PICK w \in PoolWorkers : w \in H
    BY <1>5, <1>9
  <2>2. i \in Hand(worker[w], j)
    BY <1>3, <2>1
  <2>3. \A v \in H : v = w
    BY <1>1, <1>3, <1>5, <2>2 DEF HandAlone
  <2>4. i < job[j].cursor /\ S = {}
    BY <1>1, <1>4, <1>5, <2>2 DEF HandAlone, Claims
  <2> QED BY <2>1, <2>3, <2>4
<1>10. ASSUME S # {} PROVE i < job[j].cursor /\ \E k : S = {k}
  <2>1. PICK k \in DOMAIN job[j].msgs : k \in S
    BY <1>5, <1>10
  <2>2. \A l \in S : l = k
    BY <1>1, <1>4, <1>5, <2>1 DEF SentOnce, Sent
  <2>3. i < job[j].cursor
    BY <1>1, <1>4, <2>1 DEF Sent, Claims
  <2> QED BY <2>1, <2>2, <2>3
<1>11. /\ H = {} => Cardinality(H) = 0
       /\ S = {} => Cardinality(S) = 0
       /\ H # {} => Cardinality(H) = 1
       /\ S # {} => Cardinality(S) = 1
  BY <1>9, <1>10, FS_EmptySet, FS_Singleton
<1>12. PICK a, b : a = Cardinality(H) /\ b = Cardinality(S)
  OBVIOUS
<1>13. i >= job[j].cursor <=> ~(i < job[j].cursor)
  BY <1>2
<1>14. (IF Has(job[j], i) THEN 1 ELSE 0) + (IF i >= job[j].cursor THEN 1 ELSE 0) + (IF Mine(job[j], i) THEN 1 ELSE 0) + a + b = 1
  <2>1. CASE Has(job[j], i)
    BY <1>7, <1>11, <1>12, <1>13, <2>1
  <2>2. CASE ~Has(job[j], i) /\ Mine(job[j], i)
    BY <1>8, <1>11, <1>12, <1>13, <2>2
  <2>3. CASE ~Has(job[j], i) /\ ~Mine(job[j], i) /\ H # {}
    BY <1>9, <1>11, <1>12, <1>13, <2>3
  <2>4. CASE ~Has(job[j], i) /\ ~Mine(job[j], i) /\ H = {} /\ S # {}
    BY <1>10, <1>11, <1>12, <1>13, <2>4
  <2>5. CASE ~Has(job[j], i) /\ ~Mine(job[j], i) /\ H = {} /\ S = {}
    BY <1>2, <1>6, <1>11, <1>12, <1>13, <2>5
  <2> QED BY <2>1, <2>2, <2>3, <2>4, <2>5
<1> QED BY <1>12, <1>14 DEF H, S

\* The invariant contains the property.
LEMMA UnpackInvSound == UnpackInv => UnpackSound
<1> SUFFICES ASSUME UnpackInv PROVE UnpackSound
  OBVIOUS
<1>1. UnpackTypeOK
  <2>1. \A j \in Jobs : /\ job[j].pc \in {"new", "claim", "unpack", "collect", "ok", "err"}
                        /\ job[j].outstanding \in 0..job[j].total
                        /\ job[j].pc = "unpack" => job[j].next < job[j].end /\ job[j].end <= job[j].total
    BY DEF UnpackInv, JobSound, JobType
  <2>2. \A w \in PoolWorkers :
          /\ worker[w].pc \in {"idle", "claim", "decide", "stop", "send"}
          /\ worker[w].pc \in {"decide", "stop", "send"} =>
               worker[w].next < worker[w].end /\ worker[w].end <= job[worker[w].job].total
    BY DEF UnpackInv, WorkerSound, Busy, WorkerType, Idle
  <2>3. handles \in Seq(Jobs)
    BY DEF UnpackInv
  <2> QED BY <2>1, <2>2, <2>3 DEF UnpackTypeOK
<1>2. OutstandingAccounted
  <2> SUFFICES ASSUME NEW j \in Jobs, ~Done(j)
               PROVE  LET J == job[j]
                          M == IF J.pc = "unpack" THEN J.next..J.end - 1 ELSE {}
                          A == {i \in 0..J.total - 1 : i >= J.cursor}
                          Out(i) == J.out[i] # "none"
                      IN  /\ \A i \in 0..J.total - 1 :
                               (IF Out(i) THEN 1 ELSE 0) + (IF i \in A THEN 1 ELSE 0)
                               + (IF i \in M THEN 1 ELSE 0)
                               + Cardinality({w \in PoolWorkers : i \in InHand(w, j)})
                               + Cardinality({k \in DOMAIN J.msgs : J.msgs[k].i = i}) = 1
                          /\ J.outstanding = Cardinality({i \in 0..J.total - 1 : ~Out(i)})
    BY DEF OutstandingAccounted
  <2> DEFINE M == IF job[j].pc = "unpack" THEN job[j].next..job[j].end - 1 ELSE {}
             A == {i \in 0..job[j].total - 1 : i >= job[j].cursor}
  <2>1. job[j] \in JobType /\ Counted(job[j])
    BY DEF UnpackInv, JobSound, Running, Done
  <2>2. job[j].outstanding = Cardinality({i \in 0..job[j].total - 1 : ~(job[j].out[i] # "none")})
    BY <2>1 DEF Counted, Series, Has
  <2>3. ASSUME NEW i \in 0..job[j].total - 1
        PROVE  (IF job[j].out[i] # "none" THEN 1 ELSE 0) + (IF i \in A THEN 1 ELSE 0)
               + (IF i \in M THEN 1 ELSE 0)
               + Cardinality({w \in PoolWorkers : i \in InHand(w, j)})
               + Cardinality({k \in DOMAIN job[j].msgs : job[j].msgs[k].i = i}) = 1
    <3>1. i \in A <=> i >= job[j].cursor
      OBVIOUS
    <3>2. i \in M <=> Mine(job[j], i)
      BY <2>1 DEF Mine, JobType
    <3>3. i \in Series(job[j])
      BY DEF Series
    <3>4. (IF job[j].out[i] # "none" THEN 1 ELSE 0) = (IF Has(job[j], i) THEN 1 ELSE 0)
      BY DEF Has
    <3> HIDE DEF A, M
    <3> QED BY <3>1, <3>2, <3>3, <3>4, OnePlace
  <2> QED BY <2>2, <2>3
<1>3. OkMeansEverySeries
  BY DEF OkMeansEverySeries, UnpackInv, JobSound, Series
<1> QED BY <1>1, <1>2, <1>3 DEF UnpackSound

\* However the caller and the pool interleave: every series of a running query has its result, or is
\* ahead of the cursor, in one thread's batch or in one message, outstanding counts what is missing,
\* and a query that succeeds has unpacked all its series (unpack_series_parallel, run_job).
THEOREM UnpackIsSound == UnpackSpec => []UnpackSound
<1>1. UnpackInit => UnpackInv
  BY UnpackStart
<1>2. UnpackInv /\ [UnpackNext]_unpackVars => UnpackInv'
  BY UnpackStep
<1>3. UnpackInv => UnpackSound
  BY UnpackInvSound
<1> QED BY <1>1, <1>2, <1>3, PTL DEF UnpackSpec

----------------------------------------------------------------------------
(* Mergeset: the two semaphores are accounted for by counting: the permits *)
(* against the in-memory parts, the slots against the merges that hold     *)
(* one.  For the counts to add up, merges must share no source and a       *)
(* result must not be a part that is in the table already, which follows   *)
(* from where the items are.                                               *)

\* Items are in one place, and those of an orderly run are somewhere.
Apart ==
  /\ \A p, q \in parts : p # q => p.items \cap q.items = {}
  /\ \A p \in parts : p.items \cap rawItems = {}
  /\ \A t \in FlushThreads :
       /\ flushes[t].items \cap rawItems = {}
       /\ \A p \in parts : flushes[t].items \cap p.items = {}
       /\ \A u \in FlushThreads : t # u => flushes[t].items \cap flushes[u].items = {}

Somewhere ==
  crashed = 0 =>
    \A i \in added : \/ i \in rawItems
                     \/ \E p \in parts : i \in p.items
                     \/ \E t \in FlushThreads : i \in flushes[t].items

ItemsKnown ==
  /\ \A p \in parts : p.items \subseteq added
  /\ \A t \in FlushThreads :
       /\ flushes[t].items \subseteq added
       /\ flushes[t].pc = "idle" <=> flushes[t].items = {}

\* Merges take parts of one kind, share no source, and have them marked.
MergesKnown ==
  /\ \A p : p \in inMerge <=> p \in toFlush \/ \E g \in merges : p \in g.src
  /\ toFlush \subseteq MemParts
  /\ \A g \in merges :
       /\ g.src # {} /\ g.src \cap toFlush = {}
       /\ g.pc # "swapped" => g.src \subseteq parts
       /\ InMemory(g) \/ \A p \in g.src : ~p.mem
       /\ g.final => InMemory(g) /\ g.pc = "merging"
       /\ g.pc = "swapped" => InMemory(g) /\ ~g.final
  /\ \A g, h \in merges : g # h => g.src \cap h.src = {}

\* The merges with a slot of inmemory_parts_concurrency.
WithSlot      == {g \in merges : InMemory(g) /\ g.pc # "picked"}
SlotsAccounted == slots + Cardinality(WithSlot) = CpuSlots

Pushing == {t \in FlushThreads : flushes[t].pc = "push"}

\* What must_close has done so far.
CloseInOrder ==
  /\ closing \in {"items", "parts", "closed"} => rawItems = {}
  /\ closing = "items" => merges = {} /\ toFlush = {}
  /\ closing \in {"parts", "closed"} =>
       /\ \A t \in FlushThreads : flushes[t].pc = "idle"
       /\ MemParts \subseteq inMerge /\ \A g \in merges : g.final
  /\ closing = "closed" => merges = {} /\ toFlush = {}

Finite == IsFiniteSet(parts) /\ IsFiniteSet(merges)

MergesetInv ==
  /\ MergesetTypeOK /\ Finite /\ Apart /\ Somewhere /\ ItemsKnown
  /\ MergesKnown /\ SlotsAccounted /\ PermitsAccounted /\ CloseInOrder

\* An adder at rest has the type of an adder.
LEMMA RestingTyped == Resting \in [pc : {"idle", "blocks", "part", "push"}, items : SUBSET Items]
BY DEF Resting

\* A table that was just opened, at the start or after a crash.
JustOpened ==
  /\ added \subseteq Items /\ crashed \in 0..MaxTableCrashes /\ rawItems = {} /\ parts \subseteq PartSet
  /\ IsFiniteSet(parts) /\ MemParts = {} /\ inMerge = {} /\ permits = MaxMemParts /\ slots = CpuSlots
  /\ flushes = [t \in FlushThreads |-> Resting] /\ toFlush = {} /\ merges = {} /\ closing = "open"
  /\ \A p \in parts : p.items \subseteq added
  /\ \A p, q \in parts : p # q => p.items \cap q.items = {}
  /\ crashed = 0 => added = {}

\* A table that was just opened satisfies the invariant.
LEMMA OpenedInv == JustOpened => MergesetInv
<1> SUFFICES ASSUME JustOpened PROVE MergesetInv OBVIOUS
<1> USE DEF JustOpened
<1> USE MergesetAssumption
<1>1. MergesetTypeOK BY RestingTyped DEF MergesetTypeOK
<1>2. Finite BY FS_EmptySet DEF Finite
<1>3. Apart BY DEF Apart, Resting
<1>4. Somewhere BY DEF Somewhere
<1>5. ItemsKnown BY DEF ItemsKnown, Resting
<1>6. MergesKnown BY DEF MergesKnown
<1>7. SlotsAccounted
  <2>1. WithSlot = {} BY DEF WithSlot
  <2> QED BY <2>1, FS_EmptySet DEF SlotsAccounted
<1>8. PermitsAccounted
  <2>1. Pushing = {} BY DEF Pushing, Resting
  <2>2. Swapped = {} /\ MemParts = {} /\ permits = MaxMemParts BY DEF Swapped
  <2>3. Cardinality(Swapped) = 0 /\ Cardinality(MemParts) = 0 /\ Cardinality(Pushing) = 0
    <3>1. Cardinality({}) = 0 BY FS_EmptySet
    <3> QED BY ONLY <2>1, <2>2, <3>1
  <2>4. MaxMemParts \in Nat OBVIOUS
  <2>5. permits + Cardinality(MemParts) + Cardinality(Pushing) = MaxMemParts + Cardinality(Swapped)
    <3> QED BY ONLY <2>2, <2>3, <2>4
  <2> QED BY <2>5 DEF PermitsAccounted, Pushing
<1>9. CloseInOrder BY DEF CloseInOrder
<1> QED BY <1>1, <1>2, <1>3, <1>4, <1>5, <1>6, <1>7, <1>8, <1>9 DEF MergesetInv

\* The invariant holds initially.
LEMMA MergesetInitInv == MergesetInit => MergesetInv
<1> SUFFICES ASSUME MergesetInit PROVE MergesetInv OBVIOUS
<1>1. MemParts = {} BY DEF MergesetInit, MemParts
<1>2. crashed \in 0..MaxTableCrashes BY MergesetAssumption DEF MergesetInit
<1> QED BY <1>1, <1>2, OpenedInv, FS_EmptySet DEF MergesetInit, JustOpened

\* What a crash leaves is a table to open.
LEMMA CrashStep == ASSUME MergesetInv, CrashTable PROVE MergesetInv'
<1> DEFINE fs == {p \in parts : ~p.mem}
<1>1. /\ MergesetTypeOK /\ Finite /\ Apart /\ ItemsKnown
      /\ Opened(fs) /\ UNCHANGED added /\ crashed' = crashed + 1 /\ crashed < MaxTableCrashes
  BY DEF MergesetInv, CrashTable
<1>2. crashed' \in 0..MaxTableCrashes /\ crashed' # 0 BY <1>1, MergesetAssumption DEF MergesetTypeOK
<1>3. IsFiniteSet(fs) BY <1>1, FS_Subset DEF Finite
<1>4. MemParts' = {} BY <1>1 DEF Opened, MemParts
<1>5. \A p \in fs : p.items \subseteq added BY <1>1 DEF ItemsKnown
<1>6. \A p, q \in fs : p # q => p.items \cap q.items = {} BY <1>1 DEF Apart
<1>7. added' \subseteq Items /\ fs \subseteq PartSet BY <1>1 DEF MergesetTypeOK
<1> HIDE DEF fs
<1>8. JustOpened' BY <1>1, <1>2, <1>3, <1>4, <1>5, <1>6, <1>7 DEF Opened, JustOpened
<1>9. (JustOpened => MergesetInv)' BY OpenedInv, PTL
<1> QED BY <1>8, <1>9

----------------------------------------------------------------------------
(* Counting.                                                               *)

\* The sets that are counted are finite.
LEMMA CountedFinite ==
  ASSUME MergesetInv
  PROVE  /\ IsFiniteSet(MemParts) /\ IsFiniteSet(Pushing) /\ IsFiniteSet(Swapped) /\ IsFiniteSet(WithSlot)
         /\ Cardinality(MemParts) \in Nat /\ Cardinality(Pushing) \in Nat
         /\ Cardinality(Swapped) \in Nat /\ Cardinality(WithSlot) \in Nat
<1>1. IsFiniteSet(FlushThreads) BY MergesetAssumption, FS_AddElement DEF FlushThreads
<1>2. IsFiniteSet(parts) /\ IsFiniteSet(merges) BY DEF MergesetInv, Finite
<1>3. /\ MemParts \in SUBSET parts /\ Pushing \in SUBSET FlushThreads
      /\ Swapped \in SUBSET merges /\ WithSlot \in SUBSET merges
  BY DEF MemParts, Pushing, Swapped, WithSlot
<1>4. /\ IsFiniteSet(MemParts) /\ IsFiniteSet(Pushing) /\ IsFiniteSet(Swapped) /\ IsFiniteSet(WithSlot)
  BY <1>1, <1>2, <1>3, FS_Subset
<1> QED BY <1>4, FS_CardinalityType

\* Steps that leave parts and merges alone.
LEMMA SameMerges ==
  ASSUME MergesetInv, UNCHANGED <<parts, inMerge, toFlush, merges, slots>>
  PROVE  Finite' /\ MergesKnown' /\ SlotsAccounted' /\ MemParts' = MemParts /\ Swapped' = Swapped
BY DEF MergesetInv, Finite, MergesKnown, SlotsAccounted, WithSlot, MemParts, Swapped

\* Steps that leave items and parts where they are.
LEMMA SameItems ==
  ASSUME MergesetInv, UNCHANGED <<added, rawItems, parts, crashed>>,
         \A t \in FlushThreads : /\ flushes'[t].items = flushes[t].items
                                 /\ flushes'[t].pc = "idle" <=> flushes[t].pc = "idle"
  PROVE  Apart' /\ Somewhere' /\ ItemsKnown'
BY DEF MergesetInv, Apart, Somewhere, ItemsKnown

----------------------------------------------------------------------------
(* From the raw shards to in-memory parts.                                 *)

\* An item is added to a shard.
LEMMA AddStep ==
  ASSUME MergesetInv, NEW a \in IndexAdders, NEW i \in Items, add_items(a, i)
  PROVE  MergesetInv'
<1>0. /\ MergesetTypeOK /\ Apart /\ Somewhere /\ ItemsKnown /\ PermitsAccounted /\ CloseInOrder
      /\ closing = "open" /\ added = 1..i - 1 /\ i \in Nat
      /\ added' = added \cup {i} /\ rawItems' = rawItems \cup {i}
      /\ UNCHANGED <<parts, inMerge, permits, slots, flushes, toFlush, merges, closing, crashed>>
  BY MergesetAssumption DEF MergesetInv, add_items, Items
<1>1. i \notin added BY <1>0
<1>2. MergesetTypeOK' BY <1>0 DEF MergesetTypeOK
<1>3. Apart' BY <1>0, <1>1 DEF Apart, ItemsKnown
<1>4. Somewhere' BY <1>0 DEF Somewhere
<1>5. ItemsKnown' BY <1>0 DEF ItemsKnown
<1>6. Finite' /\ MergesKnown' /\ SlotsAccounted' /\ MemParts' = MemParts /\ Swapped' = Swapped
  BY <1>0, SameMerges
<1>7. PermitsAccounted' BY <1>0, <1>6 DEF PermitsAccounted
<1>8. CloseInOrder' BY <1>0 DEF CloseInOrder
<1> QED BY <1>2, <1>3, <1>4, <1>5, <1>6, <1>7, <1>8 DEF MergesetInv

\* Blocks are taken out of the shards, by an adder, by the flusher or by must_close.
LEMMA TakeStep ==
  ASSUME MergesetInv, NEW t \in FlushThreads, NEW S \in SUBSET rawItems, TakeBlocks(t, S),
         closing \in {"open", "stopped"}, closing' = closing \/ (closing' = "items" /\ S = rawItems /\ NoWork)
  PROVE  MergesetInv'
<1>0. /\ MergesetTypeOK /\ Apart /\ Somewhere /\ ItemsKnown /\ PermitsAccounted /\ CloseInOrder
      /\ S # {} /\ flushes[t].pc = "idle" /\ rawItems' = rawItems \ S /\ S \subseteq added
      /\ UNCHANGED <<added, parts, inMerge, permits, slots, toFlush, merges, crashed>>
  BY DEF MergesetInv, TakeBlocks, MergesetTypeOK
<1>1. flushes' = [flushes EXCEPT ![t] = [pc |-> "blocks", items |-> S]] BY DEF TakeBlocks
<1>2. flushes' \in [FlushThreads -> [pc : {"idle", "blocks", "part", "push"}, items : SUBSET Items]]
  BY <1>0, <1>1 DEF MergesetTypeOK
<1>3. /\ flushes'[t].pc = "blocks" /\ flushes'[t].items = S /\ flushes[t].items = {}
      /\ \A u \in FlushThreads : u # t => flushes'[u] = flushes[u]
  BY <1>0, <1>1 DEF MergesetTypeOK, ItemsKnown
<1>4. MergesetTypeOK' BY <1>0, <1>2 DEF MergesetTypeOK
<1>5. Apart' BY <1>0, <1>3 DEF Apart
<1>6. Somewhere' BY <1>0, <1>3 DEF Somewhere
<1>7. ItemsKnown' BY <1>0, <1>3 DEF ItemsKnown
<1>8. Finite' /\ MergesKnown' /\ SlotsAccounted' /\ MemParts' = MemParts /\ Swapped' = Swapped
  BY <1>0, SameMerges
<1>9. {u \in FlushThreads : flushes'[u].pc = "push"} = {u \in FlushThreads : flushes[u].pc = "push"}
  BY <1>0, <1>3
<1>10. PermitsAccounted'
  <2>1. closing' = "open" => closing = "open" OBVIOUS
  <2> QED BY <1>0, <1>8, <1>9, <2>1 DEF PermitsAccounted
<1>11. CloseInOrder'
  <2>1. closing' \notin {"parts", "closed"} OBVIOUS
  <2>2. closing' = "items" => rawItems' = {} /\ merges' = {} /\ toFlush' = {} BY <1>0 DEF NoWork
  <2> QED BY <2>1, <2>2 DEF CloseInOrder
<1> QED BY <1>4, <1>5, <1>6, <1>7, <1>8, <1>10, <1>11 DEF MergesetInv

\* Steps of a flush that change its place only.
LEMMA PcStep ==
  ASSUME MergesetInv, NEW t \in FlushThreads, create_inmemory_part(t) \/ acquire_limit(t)
  PROVE  MergesetInv'
<1>0. /\ MergesetTypeOK /\ PermitsAccounted /\ CloseInOrder
      /\ UNCHANGED <<added, rawItems, parts, inMerge, slots, toFlush, merges, closing, crashed>>
  BY DEF MergesetInv, create_inmemory_part, acquire_limit
<1>1. PICK c \in {"part", "push"} :
        /\ flushes' = [flushes EXCEPT ![t].pc = c] /\ flushes[t].pc \in {"blocks", "part"}
        /\ c = "part" => UNCHANGED permits
        /\ c = "push" => acquire_or_stop
  BY DEF create_inmemory_part, acquire_limit
<1>2. flushes' \in [FlushThreads -> [pc : {"idle", "blocks", "part", "push"}, items : SUBSET Items]]
  BY <1>0, <1>1 DEF MergesetTypeOK
<1>3. /\ flushes'[t].pc = c /\ flushes'[t].items = flushes[t].items
      /\ \A u \in FlushThreads : u # t => flushes'[u] = flushes[u]
  BY <1>0, <1>1 DEF MergesetTypeOK
<1>4. permits' \in Nat BY <1>0, <1>1 DEF MergesetTypeOK, acquire_or_stop
<1>5. MergesetTypeOK' BY <1>0, <1>2, <1>4 DEF MergesetTypeOK
<1>6. Apart' /\ Somewhere' /\ ItemsKnown'
  <2>1. flushes[t].pc \in {"blocks", "part"} /\ c \in {"part", "push"} BY <1>1
  <2> QED BY <1>0, <1>3, <2>1, SameItems
<1>7. Finite' /\ MergesKnown' /\ SlotsAccounted' /\ MemParts' = MemParts /\ Swapped' = Swapped
  BY <1>0, SameMerges
<1>8. PermitsAccounted'
  <2>0. /\ IsFiniteSet(Pushing) /\ Cardinality(Pushing) \in Nat /\ Cardinality(MemParts) \in Nat
        /\ Cardinality(Swapped) \in Nat /\ permits \in Nat
    BY <1>0, CountedFinite DEF MergesetTypeOK
  <2>1. t \notin Pushing BY <1>1 DEF Pushing
  <2>2. CASE c = "part"
    <3>1. Pushing' = Pushing BY <1>1, <1>3, <2>1, <2>2 DEF Pushing
    <3> QED BY <1>0, <1>1, <1>7, <2>2, <3>1 DEF PermitsAccounted, Pushing
  <2>3. CASE c = "push"
    <3>1. Pushing' = Pushing \cup {t} BY <1>3, <2>3 DEF Pushing
    <3>2. Cardinality(Pushing') = Cardinality(Pushing) + 1 BY <2>0, <2>1, <3>1, FS_AddElement
    <3>3. SUFFICES ASSUME closing' = "open" PROVE PermitsAccounted' BY DEF PermitsAccounted
    <3>4. closing = "open" /\ permits > 0 /\ permits' = permits - 1
      BY <1>0, <1>1, <2>3, <3>3 DEF acquire_or_stop
    <3>5. permits + Cardinality(MemParts) + Cardinality(Pushing) = MaxMemParts + Cardinality(Swapped)
      BY <1>0, <3>4 DEF PermitsAccounted, Pushing
    <3>6. permits' + Cardinality(MemParts') + Cardinality(Pushing') = MaxMemParts + Cardinality(Swapped')
      BY <1>7, <2>0, <3>2, <3>4, <3>5, MergesetAssumption
    <3> QED BY <3>6 DEF PermitsAccounted, Pushing
  <2> QED BY <1>1, <2>2, <2>3
<1>9. CloseInOrder'
  <2>1. \E u \in FlushThreads : flushes[u].pc # "idle" BY <1>1
  <2>2. closing \notin {"parts", "closed"} BY <1>0, <2>1 DEF CloseInOrder
  <2> QED BY <1>0, <2>2 DEF CloseInOrder
<1> QED BY <1>5, <1>6, <1>7, <1>8, <1>9 DEF MergesetInv

\* A part joins the table.
LEMMA PushItemsStep ==
  ASSUME MergesetInv, NEW t \in FlushThreads, NEW S \in SUBSET flushes[t].items, add_to_inmemory_parts(t, S)
  PROVE  MergesetInv'
<1> DEFINE new == [items |-> S, mem |-> TRUE]
           fl  == IF S = flushes[t].items THEN Resting ELSE [pc |-> "part", items |-> flushes[t].items \ S]
<1>0. /\ MergesetTypeOK /\ Finite /\ Apart /\ Somewhere /\ ItemsKnown
      /\ MergesKnown /\ SlotsAccounted /\ PermitsAccounted /\ CloseInOrder
      /\ flushes[t].pc = "push" /\ S # {} /\ parts' = parts \cup {new}
      /\ UNCHANGED <<added, rawItems, inMerge, permits, slots, toFlush, merges, closing, crashed>>
  BY DEF MergesetInv, add_to_inmemory_parts
<1>1. flushes' = [flushes EXCEPT ![t] = fl] BY <1>0 DEF add_to_inmemory_parts, MergesetTypeOK
<1>2. flushes[t].items \subseteq Items /\ S \subseteq Items BY <1>0 DEF MergesetTypeOK
<1>3. fl \in [pc : {"idle", "blocks", "part", "push"}, items : SUBSET Items] BY <1>2, RestingTyped
<1>4. fl.items = flushes[t].items \ S /\ fl.pc # "push" /\ (fl.pc = "idle" <=> fl.items = {})
  BY DEF Resting
<1>5. new \in PartSet /\ new.items = S /\ new.mem BY <1>0, <1>2 DEF PartSet
<1> HIDE DEF new, fl
<1>6. flushes' \in [FlushThreads -> [pc : {"idle", "blocks", "part", "push"}, items : SUBSET Items]]
  BY <1>0, <1>1, <1>3 DEF MergesetTypeOK
<1>7. flushes'[t] = fl /\ \A u \in FlushThreads : u # t => flushes'[u] = flushes[u]
  BY <1>0, <1>1 DEF MergesetTypeOK
<1>8. \A p \in parts : p.items \cap S = {} BY <1>0 DEF Apart
<1>9. new \notin parts BY <1>0, <1>5, <1>8
<1>10. MergesetTypeOK' BY <1>0, <1>5, <1>6 DEF MergesetTypeOK
<1>11. Finite' BY <1>0, FS_AddElement DEF Finite
<1>12. Apart'
  <2>1. S \cap rawItems = {} /\ \A u \in FlushThreads : u # t => flushes[u].items \cap flushes[t].items = {}
    BY <1>0 DEF Apart
  <2>2. \A u \in FlushThreads : u # t => flushes'[u].items \cap flushes'[t].items = {} BY <1>4, <1>7, <2>1
  <2>3. \A u \in FlushThreads : flushes'[u].items \cap S = {} BY <1>4, <1>7, <2>1
  <2>4. \A u \in FlushThreads : flushes'[u].items \subseteq flushes[u].items BY <1>4, <1>7
  <2> QED BY <1>0, <1>5, <1>7, <1>8, <2>1, <2>2, <2>3, <2>4 DEF Apart
<1>13. Somewhere' BY <1>0, <1>4, <1>5, <1>7 DEF Somewhere
<1>14. ItemsKnown' BY <1>0, <1>4, <1>5, <1>7 DEF ItemsKnown
<1>15. MemParts' = MemParts \cup {new} /\ Swapped' = Swapped /\ WithSlot' = WithSlot
  BY <1>0, <1>5 DEF MemParts, Swapped, WithSlot
<1>16. MergesKnown' BY <1>0, <1>15 DEF MergesKnown
<1>17. SlotsAccounted' BY <1>0, <1>15 DEF SlotsAccounted
<1>18. PermitsAccounted'
  <2>0. /\ IsFiniteSet(Pushing) /\ Cardinality(Pushing) \in Nat /\ Cardinality(MemParts) \in Nat
        /\ IsFiniteSet(MemParts) /\ Cardinality(Swapped) \in Nat /\ permits \in Nat
    BY <1>0, CountedFinite DEF MergesetTypeOK
  <2>1. t \in Pushing /\ new \notin MemParts BY <1>0, <1>9 DEF Pushing, MemParts
  <2>2. Pushing' = Pushing \ {t} BY <1>4, <1>7 DEF Pushing
  <2>3. Cardinality(Pushing') = Cardinality(Pushing) - 1 BY <2>0, <2>1, <2>2, FS_RemoveElement
  <2>4. Cardinality(MemParts') = Cardinality(MemParts) + 1 BY <2>0, <2>1, <1>15, FS_AddElement
  <2>5. closing = "open" =>
          permits + Cardinality(MemParts) + Cardinality(Pushing) = MaxMemParts + Cardinality(Swapped)
    BY <1>0 DEF PermitsAccounted, Pushing
  <2>6. closing' = "open" =>
          permits' + Cardinality(MemParts') + Cardinality(Pushing') = MaxMemParts + Cardinality(Swapped')
    BY <1>0, <1>15, <2>0, <2>3, <2>4, <2>5, MergesetAssumption
  <2> QED BY <2>6 DEF PermitsAccounted, Pushing
<1>19. CloseInOrder'
  <2>1. \E u \in FlushThreads : flushes[u].pc # "idle" BY <1>0
  <2>2. closing \notin {"parts", "closed"} BY <1>0, <2>1 DEF CloseInOrder
  <2> QED BY <1>0, <2>2 DEF CloseInOrder
<1> QED BY <1>10, <1>11, <1>12, <1>13, <1>14, <1>16, <1>17, <1>18, <1>19 DEF MergesetInv

----------------------------------------------------------------------------
(* Merges.                                                                 *)

MergeSet == [src : SUBSET PartSet, pc : {"picked", "merging", "swapped"}, final : BOOLEAN]

\* Steps that leave items alone, with the threads that flush.
LEMMA SameFlushes ==
  ASSUME MergesetInv, UNCHANGED <<added, rawItems, parts, crashed, flushes>>
  PROVE  /\ Apart' /\ Somewhere' /\ ItemsKnown' /\ MemParts' = MemParts /\ Pushing' = Pushing
         /\ IsFiniteSet(parts')
<1>1. Apart' /\ Somewhere' /\ ItemsKnown' BY SameItems
<1>2. MemParts' = MemParts /\ Pushing' = Pushing BY DEF MemParts, Pushing
<1>3. IsFiniteSet(parts') BY DEF MergesetInv, Finite
<1> QED BY <1>1, <1>2, <1>3

\* Parts are chosen for a merge.
LEMMA PickStep ==
  ASSUME MergesetInv, NEW S \in SUBSET parts, get_parts_to_merge(S)
  PROVE  MergesetInv'
<1> DEFINE new == [src |-> S, pc |-> "picked", final |-> FALSE]
<1>0. /\ MergesetTypeOK /\ Finite /\ MergesKnown /\ SlotsAccounted /\ PermitsAccounted /\ CloseInOrder
      /\ closing = "open" /\ S \subseteq parts \ inMerge /\ Cardinality(S) >= MinMerge
      /\ \A p, q \in S : p.mem = q.mem
      /\ inMerge' = inMerge \cup S /\ merges' = merges \cup {new}
      /\ UNCHANGED <<added, rawItems, parts, permits, slots, flushes, toFlush, closing, crashed>>
  BY DEF MergesetInv, get_parts_to_merge
<1>1. S # {} BY <1>0, FS_EmptySet, MergesetAssumption
<1>2. new \in MergeSet /\ new.src = S /\ new.pc = "picked" /\ ~new.final
  BY <1>0 DEF MergeSet, MergesetTypeOK
<1> HIDE DEF new
<1>3. MergesetTypeOK' BY <1>0, <1>2 DEF MergesetTypeOK, MergeSet
<1>4. Apart' /\ Somewhere' /\ ItemsKnown' /\ MemParts' = MemParts /\ Pushing' = Pushing /\ IsFiniteSet(parts')
  BY <1>0, SameFlushes
<1>5. Finite' BY <1>0, <1>4, FS_AddElement DEF Finite
<1>6. MergesKnown'
  <2>1. InMemory(new) \/ \A p \in new.src : ~p.mem BY <1>0, <1>2 DEF InMemory
  <2>2. \A p : p \in inMerge' <=> p \in toFlush' \/ \E g \in merges' : p \in g.src BY <1>0, <1>2 DEF MergesKnown
  <2>3. S \cap toFlush = {} /\ \A g \in merges : S \cap g.src = {} BY <1>0 DEF MergesKnown
  <2>4. toFlush' \subseteq MemParts' BY <1>0, <1>4 DEF MergesKnown
  <2>5. \A g \in merges' :
          /\ g.src # {} /\ g.src \cap toFlush' = {}
          /\ g.pc # "swapped" => g.src \subseteq parts'
          /\ InMemory(g) \/ \A p \in g.src : ~p.mem
          /\ g.final => InMemory(g) /\ g.pc = "merging"
          /\ g.pc = "swapped" => InMemory(g) /\ ~g.final
    BY <1>0, <1>1, <1>2, <2>1, <2>3 DEF MergesKnown
  <2>6. \A g, h \in merges' : g # h => g.src \cap h.src = {} BY <1>0, <1>2, <2>3 DEF MergesKnown
  <2> QED BY <2>2, <2>4, <2>5, <2>6 DEF MergesKnown, InMemory
<1>7. Swapped' = Swapped /\ WithSlot' = WithSlot BY <1>0, <1>2 DEF Swapped, WithSlot, InMemory
<1>8. SlotsAccounted' BY <1>0, <1>7 DEF SlotsAccounted
<1>9. PermitsAccounted' BY <1>0, <1>4, <1>7 DEF PermitsAccounted, Pushing
<1>10. CloseInOrder' BY <1>0 DEF CloseInOrder
<1> QED BY <1>3, <1>4, <1>5, <1>6, <1>8, <1>9, <1>10 DEF MergesetInv

\* Parts are set aside for files, those that are due or, by must_close, all of them.
LEMMA SetAsideStep ==
  ASSUME MergesetInv, NEW S \in SUBSET parts, FlushParts(S),
         \/ closing \in {"open", "stopped"} /\ closing' = closing
         \/ closing = "items" /\ closing' = "parts" /\ NoWork /\ S = MemParts \ inMerge
  PROVE  MergesetInv'
<1>0. /\ MergesetTypeOK /\ Finite /\ MergesKnown /\ SlotsAccounted /\ PermitsAccounted /\ CloseInOrder
      /\ S \subseteq MemParts \ inMerge /\ toFlush = {}
      /\ inMerge' = inMerge \cup S /\ toFlush' = S
      /\ UNCHANGED <<added, rawItems, parts, permits, slots, flushes, merges, crashed>>
  BY DEF MergesetInv, FlushParts
<1>1. closing' \in {"open", "stopped", "parts"} /\ (closing' = "open" => closing = "open") OBVIOUS
<1>2. MergesetTypeOK' BY <1>0, <1>1 DEF MergesetTypeOK
<1>3. Apart' /\ Somewhere' /\ ItemsKnown' /\ MemParts' = MemParts /\ Pushing' = Pushing /\ IsFiniteSet(parts')
  BY <1>0, SameFlushes
<1>4. Finite' BY <1>0, <1>3 DEF Finite
<1>5. MergesKnown'
  <2>1. \A p : p \in inMerge' <=> p \in toFlush' \/ \E g \in merges' : p \in g.src BY <1>0 DEF MergesKnown
  <2>2. toFlush' \subseteq MemParts' BY <1>0, <1>3
  <2>3. \A g \in merges : S \cap g.src = {} BY <1>0 DEF MergesKnown
  <2> QED BY <1>0, <2>1, <2>2, <2>3 DEF MergesKnown
<1>6. Swapped' = Swapped /\ WithSlot' = WithSlot BY <1>0 DEF Swapped, WithSlot
<1>7. SlotsAccounted' BY <1>0, <1>6 DEF SlotsAccounted
<1>8. PermitsAccounted' BY <1>0, <1>1, <1>3, <1>6 DEF PermitsAccounted, Pushing
<1>9. CloseInOrder'
  <2>1. CASE closing \in {"open", "stopped"} /\ closing' = closing BY <2>1 DEF CloseInOrder
  <2>2. CASE closing = "items" /\ closing' = "parts" /\ NoWork /\ S = MemParts \ inMerge
    BY <1>0, <1>3, <2>2 DEF CloseInOrder, NoWork
  <2> QED BY <2>1, <2>2
<1> QED BY <1>2, <1>3, <1>4, <1>5, <1>7, <1>8, <1>9 DEF MergesetInv

\* A group of them goes to a thread with a slot.
LEMMA HandOutStep ==
  ASSUME MergesetInv, NEW S \in SUBSET toFlush, merge_inmemory_parts_to_files(S)
  PROVE  MergesetInv'
<1> DEFINE new == [src |-> S, pc |-> "merging", final |-> TRUE]
<1>0. /\ MergesetTypeOK /\ Finite /\ MergesKnown /\ SlotsAccounted /\ PermitsAccounted /\ CloseInOrder
      /\ S # {} /\ slots > 0 /\ toFlush' = toFlush \ S /\ slots' = slots - 1
      /\ merges' = merges \cup {new}
      /\ UNCHANGED <<added, rawItems, parts, inMerge, permits, flushes, closing, crashed>>
  BY DEF MergesetInv, merge_inmemory_parts_to_files
<1>1. new \in MergeSet /\ new.src = S /\ new.pc = "merging" /\ new.final
  BY <1>0 DEF MergeSet, MergesetTypeOK
<1> HIDE DEF new
<1>2. InMemory(new) BY <1>0, <1>1 DEF InMemory, MergesKnown, MemParts
<1>3. new \notin merges BY <1>0, <1>1 DEF MergesKnown
<1>4. slots \in Nat /\ slots' \in 0..CpuSlots BY <1>0, MergesetAssumption DEF MergesetTypeOK
<1>5. MergesetTypeOK' BY <1>0, <1>1, <1>4 DEF MergesetTypeOK, MergeSet
<1>6. Apart' /\ Somewhere' /\ ItemsKnown' /\ MemParts' = MemParts /\ Pushing' = Pushing /\ IsFiniteSet(parts')
  BY <1>0, SameFlushes
<1>7. Finite' BY <1>0, <1>6, FS_AddElement DEF Finite
<1>8. MergesKnown'
  <2>1. \A p : p \in inMerge' <=> p \in toFlush' \/ \E g \in merges' : p \in g.src BY <1>0, <1>1 DEF MergesKnown
  <2>2. \A g \in merges : S \cap g.src = {} BY <1>0 DEF MergesKnown
  <2>3. toFlush' \subseteq MemParts' /\ S \subseteq parts BY <1>0, <1>6 DEF MergesKnown, MemParts
  <2>4. \A g \in merges' :
          /\ g.src # {} /\ g.src \cap toFlush' = {}
          /\ g.pc # "swapped" => g.src \subseteq parts'
          /\ InMemory(g) \/ \A p \in g.src : ~p.mem
          /\ g.final => InMemory(g) /\ g.pc = "merging"
          /\ g.pc = "swapped" => InMemory(g) /\ ~g.final
    BY <1>0, <1>1, <1>2, <2>3 DEF MergesKnown
  <2>5. \A g, h \in merges' : g # h => g.src \cap h.src = {} BY <1>0, <1>1, <2>2 DEF MergesKnown
  <2> QED BY <2>1, <2>3, <2>4, <2>5 DEF MergesKnown, InMemory
<1>9. Swapped' = Swapped BY <1>0, <1>1 DEF Swapped
<1>10. SlotsAccounted'
  <2>1. WithSlot' = WithSlot \cup {new} BY <1>0, <1>1, <1>2 DEF WithSlot, InMemory
  <2>2. new \notin WithSlot BY <1>3 DEF WithSlot
  <2>3. Cardinality(WithSlot') = Cardinality(WithSlot) + 1 /\ Cardinality(WithSlot) \in Nat
    BY <2>1, <2>2, CountedFinite, FS_AddElement
  <2> QED BY <1>0, <1>4, <2>3, MergesetAssumption DEF SlotsAccounted
<1>11. PermitsAccounted' BY <1>0, <1>6, <1>9 DEF PermitsAccounted, Pushing
<1>12. CloseInOrder'
  <2>1. toFlush # {} BY <1>0
  <2>2. closing \notin {"items", "closed"} BY <1>0, <2>1 DEF CloseInOrder
  <2> QED BY <1>0, <1>1, <1>6, <2>2 DEF CloseInOrder
<1> QED BY <1>5, <1>6, <1>7, <1>8, <1>10, <1>11, <1>12 DEF MergesetInv

\* A merge that goes on keeps its sources, and is told from all others.
LEMMA GoesOn ==
  ASSUME MergesetInv, NEW g \in merges, NEW c \in {"picked", "merging", "swapped"}, g.pc # c, GoOn(g, c)
  PROVE  \E h \in MergeSet :
           /\ h.src = g.src /\ h.pc = c /\ h.final = g.final /\ h \notin merges
           /\ merges' = (merges \ {g}) \cup {h} /\ IsFiniteSet(merges')
           /\ InMemory(h) = InMemory(g)
<1> DEFINE h == [g EXCEPT !.pc = c]
<1>0. MergesetTypeOK /\ Finite /\ MergesKnown BY DEF MergesetInv
<1>1. g \in MergeSet BY <1>0 DEF MergesetTypeOK, MergeSet
<1>2. h \in MergeSet /\ h.src = g.src /\ h.pc = c /\ h.final = g.final BY <1>1 DEF MergeSet
<1>3. merges' = (merges \ {g}) \cup {h} BY DEF GoOn
<1> HIDE DEF h
<1>4. g # h /\ g.src # {} BY <1>0, <1>2 DEF MergesKnown
<1>5. h \notin merges BY <1>0, <1>2, <1>4 DEF MergesKnown
<1>6. IsFiniteSet(merges') BY <1>0, <1>3, FS_AddElement, FS_RemoveElement DEF Finite
<1>7. InMemory(h) = InMemory(g) BY <1>2 DEF InMemory
<1> QED BY <1>2, <1>3, <1>5, <1>6, <1>7

\* No merge but a final one is left once must_close has flushed the items.
LEMMA OpenWhileMerging ==
  ASSUME MergesetInv, NEW g \in merges
  PROVE  closing \in {"open", "stopped"} \/ (closing = "parts" /\ g.final)
BY DEF MergesetInv, MergesetTypeOK, CloseInOrder

\* A merge starts to write its destination.
LEMMA StartStep == ASSUME MergesetInv, NEW g \in merges, StartMerge(g) PROVE MergesetInv'
<1>0. /\ MergesetTypeOK /\ Finite /\ MergesKnown /\ SlotsAccounted /\ PermitsAccounted /\ CloseInOrder
      /\ g.pc = "picked" /\ GoOn(g, "merging") /\ (InMemory(g) => slots > 0)
      /\ slots' = IF InMemory(g) THEN slots - 1 ELSE slots
      /\ UNCHANGED <<added, rawItems, parts, inMerge, permits, flushes, toFlush, closing, crashed>>
  BY DEF MergesetInv, StartMerge
<1>1. PICK h \in MergeSet :
        /\ h.src = g.src /\ h.pc = "merging" /\ h.final = g.final /\ h \notin merges
        /\ merges' = (merges \ {g}) \cup {h} /\ IsFiniteSet(merges')
        /\ InMemory(h) = InMemory(g)
  BY <1>0, GoesOn
<1>2. ~g.final /\ closing \in {"open", "stopped"}
  <2>1. ~g.final BY <1>0 DEF MergesKnown
  <2> QED BY <2>1, OpenWhileMerging
<1>3. slots \in Nat /\ slots' \in 0..CpuSlots BY <1>0, MergesetAssumption DEF MergesetTypeOK
<1>4. MergesetTypeOK' BY <1>0, <1>1, <1>3 DEF MergesetTypeOK, MergeSet
<1>5. Apart' /\ Somewhere' /\ ItemsKnown' /\ MemParts' = MemParts /\ Pushing' = Pushing /\ IsFiniteSet(parts')
  BY <1>0, SameFlushes
<1>6. Finite' BY <1>1, <1>5 DEF Finite
<1>7. MergesKnown'
  <2>1. \A p : p \in inMerge' <=> p \in toFlush' \/ \E k \in merges' : p \in k.src BY <1>0, <1>1 DEF MergesKnown
  <2>2. toFlush' \subseteq MemParts' BY <1>0, <1>5 DEF MergesKnown
  <2>3. \A k \in merges' :
          /\ k.src # {} /\ k.src \cap toFlush' = {}
          /\ k.pc # "swapped" => k.src \subseteq parts'
          /\ InMemory(k) \/ \A p \in k.src : ~p.mem
          /\ k.final => InMemory(k) /\ k.pc = "merging"
          /\ k.pc = "swapped" => InMemory(k) /\ ~k.final
    BY <1>0, <1>1 DEF MergesKnown
  <2>4. \A j, k \in merges' : j # k => j.src \cap k.src = {} BY <1>0, <1>1 DEF MergesKnown
  <2> QED BY <2>1, <2>2, <2>3, <2>4 DEF MergesKnown, InMemory
<1>8. Swapped' = Swapped BY <1>0, <1>1 DEF Swapped
<1>9. SlotsAccounted'
  <2>0. IsFiniteSet(WithSlot) /\ Cardinality(WithSlot) \in Nat BY CountedFinite
  <2>1. CASE InMemory(g)
    <3>1. WithSlot' = WithSlot \cup {h} /\ h \notin WithSlot BY <1>0, <1>1, <2>1 DEF WithSlot, InMemory
    <3>2. Cardinality(WithSlot') = Cardinality(WithSlot) + 1 BY <2>0, <3>1, FS_AddElement
    <3> QED BY <1>0, <1>3, <2>0, <2>1, <3>2, MergesetAssumption DEF SlotsAccounted
  <2>2. CASE ~InMemory(g)
    <3>1. WithSlot' = WithSlot BY <1>0, <1>1, <2>2 DEF WithSlot, InMemory
    <3> QED BY <1>0, <2>2, <3>1 DEF SlotsAccounted
  <2> QED BY <2>1, <2>2
<1>10. PermitsAccounted' BY <1>0, <1>5, <1>8 DEF PermitsAccounted, Pushing
<1>11. CloseInOrder' BY <1>0, <1>2 DEF CloseInOrder
<1> QED BY <1>4, <1>5, <1>6, <1>7, <1>9, <1>10, <1>11 DEF MergesetInv

\* A merge that ends leaves the others what they were; a slot it had is free again.
LEMMA Ends ==
  ASSUME MergesetInv, NEW g \in merges, g.pc # "picked", EndMerge(g), UNCHANGED toFlush,
         \A p \in parts : p \in g.src \/ p \in parts', toFlush \subseteq parts'
  PROVE  /\ MergesKnown' /\ SlotsAccounted' /\ IsFiniteSet(merges') /\ slots' \in 0..CpuSlots
         /\ inMerge' \subseteq PartSet /\ merges' \subseteq MergeSet
         /\ Swapped' = Swapped \ {g}
<1>0. /\ MergesetTypeOK /\ Finite /\ MergesKnown /\ SlotsAccounted
      /\ merges' = merges \ {g} /\ inMerge' = inMerge \ g.src
      /\ slots' = IF InMemory(g) THEN slots + 1 ELSE slots
  BY DEF MergesetInv, EndMerge
<1>1. IsFiniteSet(merges') BY <1>0, FS_RemoveElement DEF Finite
<1>2. MergesKnown'
  <2>1. \A p : p \in inMerge' <=> p \in toFlush' \/ \E k \in merges' : p \in k.src
    BY <1>0 DEF MergesKnown
  <2>2. \A k \in merges' : k.src \cap g.src = {} BY <1>0 DEF MergesKnown
  <2>3. toFlush' \subseteq MemParts' BY <1>0 DEF MergesKnown, MemParts
  <2>4. \A k \in merges' : k.pc # "swapped" => k.src \subseteq parts' BY <1>0, <2>2 DEF MergesKnown
  <2>5. \A k \in merges' :
          /\ k.src # {} /\ k.src \cap toFlush' = {}
          /\ InMemory(k) \/ \A p \in k.src : ~p.mem
          /\ k.final => InMemory(k) /\ k.pc = "merging"
          /\ k.pc = "swapped" => InMemory(k) /\ ~k.final
    BY <1>0 DEF MergesKnown
  <2>6. \A j, k \in merges' : j # k => j.src \cap k.src = {} BY <1>0 DEF MergesKnown
  <2> QED BY <2>1, <2>3, <2>4, <2>5, <2>6 DEF MergesKnown, InMemory
<1>3. SlotsAccounted' /\ slots' \in 0..CpuSlots
  <2>0. IsFiniteSet(WithSlot) /\ Cardinality(WithSlot) \in Nat /\ slots \in Nat
    BY <1>0, CountedFinite, MergesetAssumption DEF MergesetTypeOK
  <2>1. CASE InMemory(g)
    <3>1. WithSlot' = WithSlot \ {g} /\ g \in WithSlot BY <1>0, <2>1 DEF WithSlot, InMemory
    <3>2. Cardinality(WithSlot') = Cardinality(WithSlot) - 1 /\ Cardinality(WithSlot') \in Nat
      BY <2>0, <3>1, FS_RemoveElement, FS_CardinalityType
    <3>3. slots' + Cardinality(WithSlot') = CpuSlots
      BY <1>0, <2>0, <2>1, <3>2, MergesetAssumption DEF SlotsAccounted
    <3>4. slots' \in 0..CpuSlots BY <1>0, <2>0, <2>1, <3>2, <3>3, MergesetAssumption
    <3> QED BY <3>3, <3>4 DEF SlotsAccounted
  <2>2. CASE ~InMemory(g)
    <3>1. WithSlot' = WithSlot BY <1>0, <2>2 DEF WithSlot, InMemory
    <3> QED BY <1>0, <2>2, <3>1 DEF SlotsAccounted, MergesetTypeOK
  <2> QED BY <2>1, <2>2
<1>4. Swapped' = Swapped \ {g} BY <1>0 DEF Swapped
<1>5. inMerge' \subseteq PartSet /\ merges' \subseteq MergeSet BY <1>0 DEF MergesetTypeOK, MergeSet
<1> QED BY <1>1, <1>2, <1>3, <1>4, <1>5

\* The result has its permit, or the shutdown interrupts the merge.
LEMMA EndStep ==
  ASSUME MergesetInv, NEW g \in merges, AcquireForResult(g) \/ ForciblyStopped(g)
  PROVE  MergesetInv'
<1>0. /\ MergesetTypeOK /\ Finite /\ MergesKnown /\ PermitsAccounted /\ CloseInOrder
      /\ EndMerge(g) /\ g.pc # "picked" /\ ~g.final
      /\ \/ g.pc = "swapped" /\ acquire_or_stop
         \/ g.pc = "merging" /\ closing # "open" /\ UNCHANGED permits
      /\ UNCHANGED <<added, rawItems, parts, flushes, toFlush, closing, crashed>>
  BY DEF MergesetInv, AcquireForResult, ForciblyStopped, MergesKnown
<1>1. toFlush \subseteq parts' BY <1>0 DEF MergesKnown, MemParts
<1>2. /\ MergesKnown' /\ SlotsAccounted' /\ IsFiniteSet(merges') /\ slots' \in 0..CpuSlots
      /\ inMerge' \subseteq PartSet /\ merges' \subseteq MergeSet
      /\ Swapped' = Swapped \ {g}
  BY <1>0, <1>1, Ends
<1>3. permits \in Nat /\ permits' \in Nat BY <1>0 DEF MergesetTypeOK, acquire_or_stop
<1>4. MergesetTypeOK' BY <1>0, <1>2, <1>3 DEF MergesetTypeOK, MergeSet
<1>5. Apart' /\ Somewhere' /\ ItemsKnown' /\ MemParts' = MemParts /\ Pushing' = Pushing /\ IsFiniteSet(parts')
  BY <1>0, SameFlushes
<1>6. Finite' BY <1>2, <1>5 DEF Finite
<1>7. PermitsAccounted'
  <2> SUFFICES ASSUME closing' = "open" PROVE PermitsAccounted' BY DEF PermitsAccounted
  <2>1. closing = "open" /\ g.pc = "swapped" /\ permits > 0 /\ permits' = permits - 1
    BY <1>0 DEF acquire_or_stop
  <2>2. /\ IsFiniteSet(Swapped) /\ Cardinality(Swapped) \in Nat
        /\ Cardinality(MemParts) \in Nat /\ Cardinality(Pushing) \in Nat
    BY CountedFinite
  <2>3. g \in Swapped BY <2>1 DEF Swapped
  <2>4. Cardinality(Swapped') = Cardinality(Swapped) - 1 BY <1>2, <2>2, <2>3, FS_RemoveElement
  <2>5. permits + Cardinality(MemParts) + Cardinality(Pushing) = MaxMemParts + Cardinality(Swapped)
    BY <1>0, <2>1 DEF PermitsAccounted, Pushing
  <2>6. permits' + Cardinality(MemParts') + Cardinality(Pushing') = MaxMemParts + Cardinality(Swapped')
    BY <1>3, <1>5, <2>1, <2>2, <2>4, <2>5, MergesetAssumption
  <2> QED BY <2>6 DEF PermitsAccounted, Pushing
<1>8. CloseInOrder'
  <2>1. closing \in {"open", "stopped"} BY <1>0, OpenWhileMerging
  <2> QED BY <1>0, <2>1 DEF CloseInOrder
<1> QED BY <1>2, <1>4, <1>5, <1>6, <1>7, <1>8 DEF MergesetInv

\* The result of a merge that has its sources holds their items and no others, and is not in the
\* table yet.
LEMMA ResultFresh ==
  ASSUME MergesetInv, NEW g \in merges, g.pc = "merging", NEW m \in BOOLEAN
  PROVE  LET r == Result(g, m)
         IN  /\ r \in PartSet /\ r.mem = m /\ r \notin parts \ g.src
             /\ \A i : i \in r.items <=> \E p \in g.src : i \in p.items
<1> DEFINE r == Result(g, m)
<1>0. MergesetTypeOK /\ MergesKnown /\ Apart BY DEF MergesetInv
<1>1. r.mem = m /\ \A i : i \in r.items <=> \E p \in g.src : i \in p.items BY DEF Result
<1>2. g.src \subseteq parts /\ g.src # {} /\ g.src \subseteq PartSet BY <1>0 DEF MergesKnown, MergesetTypeOK
<1>3. PICK p \in g.src : TRUE BY <1>2
<1>4. PICK i \in p.items : TRUE BY <1>2 DEF PartSet
<1>5. r.items # {} /\ r.items \subseteq Items BY <1>1, <1>2, <1>4 DEF PartSet
<1>6. r \in PartSet BY <1>5 DEF PartSet, Result
<1>7. ASSUME r \in parts \ g.src PROVE FALSE
  <2>1. r # p /\ i \in r.items BY <1>1, <1>3, <1>4, <1>7
  <2> QED BY <1>0, <1>2, <1>4, <1>7, <2>1 DEF Apart
<1> QED BY <1>1, <1>6, <1>7

\* The result takes the place of the sources: items stay in one place, permits are given back.
LEMMA SwapStep ==
  ASSUME MergesetInv, NEW g \in merges, NEW m \in BOOLEAN, swap_src_with_dst_parts(g, m)
  PROVE  MergesetInv'
<1> DEFINE r == Result(g, m)
<1>0. /\ MergesetTypeOK /\ Finite /\ Apart /\ Somewhere /\ ItemsKnown
      /\ MergesKnown /\ SlotsAccounted /\ PermitsAccounted /\ CloseInOrder
      /\ g.pc = "merging" /\ m \in get_dst_part_type(g)
      /\ permits' = permits + Released(g)
      /\ IF m THEN GoOn(g, "swapped") /\ UNCHANGED <<inMerge, slots>> ELSE EndMerge(g)
      /\ UNCHANGED <<added, rawItems, flushes, toFlush, closing, crashed>>
  BY DEF MergesetInv, swap_src_with_dst_parts
<1>1. parts' = (parts \ g.src) \cup {r} BY DEF swap_src_with_dst_parts
<1>2. /\ r \in PartSet /\ r.mem = m /\ r \notin parts \ g.src
      /\ \A i : i \in r.items <=> \E p \in g.src : i \in p.items
  BY <1>0, ResultFresh
<1> HIDE DEF r
<1>3. g.src \subseteq parts /\ g.src # {} /\ g.src \cap toFlush = {} BY <1>0 DEF MergesKnown
<1>4. IsFiniteSet(parts) /\ IsFiniteSet(g.src) /\ Cardinality(g.src) \in Nat
  BY <1>0, <1>3, FS_Subset, FS_CardinalityType DEF Finite
<1>5. IsFiniteSet(parts') BY <1>1, <1>4, FS_Difference, FS_AddElement
<1>6. permits \in Nat /\ permits' \in Nat BY <1>0, <1>4 DEF MergesetTypeOK, Released
<1>7. Apart'
  <2>1. \A p \in parts \ g.src : p.items \cap r.items = {} BY <1>0, <1>2, <1>3 DEF Apart
  <2>2. r.items \cap rawItems = {} BY <1>0, <1>2, <1>3 DEF Apart
  <2>3. \A t \in FlushThreads : flushes[t].items \cap r.items = {} BY <1>0, <1>2, <1>3 DEF Apart
  <2>4. \A p, q \in parts' : p # q => p.items \cap q.items = {} BY <1>0, <1>1, <2>1 DEF Apart
  <2>5. \A p \in parts' : p.items \cap rawItems = {} BY <1>0, <1>1, <2>2 DEF Apart
  <2>6. \A t \in FlushThreads : \A p \in parts' : flushes[t].items \cap p.items = {} BY <1>0, <1>1, <2>3 DEF Apart
  <2> QED BY <1>0, <2>4, <2>5, <2>6 DEF Apart
<1>8. Somewhere'
  <2>1. \A i : (\E p \in parts : i \in p.items) => \E p \in parts' : i \in p.items BY <1>1, <1>2
  <2> QED BY <1>0, <2>1 DEF Somewhere
<1>9. ItemsKnown'
  <2>1. r.items \subseteq added BY <1>0, <1>2, <1>3 DEF ItemsKnown
  <2> QED BY <1>0, <1>1, <2>1 DEF ItemsKnown
<1>10. toFlush \subseteq parts' BY <1>0, <1>1, <1>3 DEF MergesKnown, MemParts
<1>11. parts' \subseteq PartSet BY <1>0, <1>1, <1>2 DEF MergesetTypeOK
<1>12. /\ IsFiniteSet(MemParts) /\ IsFiniteSet(Swapped) /\ Cardinality(MemParts) \in Nat
       /\ Cardinality(Pushing) \in Nat /\ Cardinality(Swapped) \in Nat
  BY CountedFinite
<1>13. Pushing' = Pushing BY <1>0 DEF Pushing
<1>14. closing = "open" =>
         permits + Cardinality(MemParts) + Cardinality(Pushing) = MaxMemParts + Cardinality(Swapped)
  BY <1>0 DEF PermitsAccounted, Pushing
<1>15. CASE m = TRUE
  <2>1. ~g.final /\ InMemory(g) /\ GoOn(g, "swapped") /\ UNCHANGED <<inMerge, slots>>
    BY <1>0, <1>15 DEF get_dst_part_type
  <2>2. PICK h \in MergeSet :
          /\ h.src = g.src /\ h.pc = "swapped" /\ h.final = g.final /\ h \notin merges
          /\ merges' = (merges \ {g}) \cup {h} /\ IsFiniteSet(merges')
          /\ InMemory(h) = InMemory(g)
    BY <1>0, <2>1, GoesOn
  <2>3. MergesetTypeOK' BY <1>0, <1>6, <1>11, <2>1, <2>2 DEF MergesetTypeOK, MergeSet
  <2>4. MergesKnown'
    <3>1. \A p : p \in inMerge' <=> p \in toFlush' \/ \E k \in merges' : p \in k.src
      BY <1>0, <2>1, <2>2 DEF MergesKnown
    <3>2. toFlush' \subseteq MemParts' BY <1>0, <1>10 DEF MergesKnown, MemParts
    <3>3. \A k \in merges \ {g} : k.src \cap g.src = {} BY <1>0 DEF MergesKnown
    <3>4. \A k \in merges' :
            /\ k.src # {} /\ k.src \cap toFlush' = {}
            /\ k.pc # "swapped" => k.src \subseteq parts'
            /\ InMemory(k) \/ \A p \in k.src : ~p.mem
            /\ k.final => InMemory(k) /\ k.pc = "merging"
            /\ k.pc = "swapped" => InMemory(k) /\ ~k.final
      BY <1>0, <1>1, <2>1, <2>2, <3>3 DEF MergesKnown
    <3>5. \A j, k \in merges' : j # k => j.src \cap k.src = {} BY <1>0, <2>2, <3>3 DEF MergesKnown
    <3> QED BY <3>1, <3>2, <3>4, <3>5 DEF MergesKnown, InMemory
  <2>5. SlotsAccounted'
    <3>0. IsFiniteSet(WithSlot) /\ Cardinality(WithSlot) \in Nat BY CountedFinite
    <3>1. WithSlot' = (WithSlot \ {g}) \cup {h} /\ g \in WithSlot /\ h \notin WithSlot
      BY <1>0, <2>1, <2>2 DEF WithSlot, InMemory
    <3>2. Cardinality(WithSlot \ {g}) = Cardinality(WithSlot) - 1 /\ IsFiniteSet(WithSlot \ {g})
      BY <3>0, <3>1, FS_RemoveElement
    <3>3. h \notin WithSlot \ {g} BY <3>1
    <3>4. Cardinality((WithSlot \ {g}) \cup {h}) = Cardinality(WithSlot \ {g}) + 1 BY <3>2, <3>3, FS_AddElement
    <3>5. Cardinality(WithSlot') = Cardinality(WithSlot) BY <3>0, <3>1, <3>2, <3>4
    <3> QED BY <1>0, <2>1, <3>5 DEF SlotsAccounted
  <2>6. PermitsAccounted'
    <3>1. Swapped' = Swapped \cup {h} /\ h \notin Swapped BY <1>0, <2>2 DEF Swapped
    <3>2. Cardinality(Swapped') = Cardinality(Swapped) + 1 BY <1>12, <3>1, FS_AddElement
    <3>3. g.src \subseteq MemParts BY <1>3, <2>1 DEF MemParts, InMemory
    <3>4. MemParts' = (MemParts \ g.src) \cup {r} /\ r \notin MemParts \ g.src
      BY <1>1, <1>2, <1>15 DEF MemParts
    <3>5. Cardinality(MemParts \ g.src) = Cardinality(MemParts) - Cardinality(g.src)
      <4>1. MemParts \cap g.src = g.src BY <3>3
      <4> QED BY <1>12, <4>1, FS_Difference
    <3>6. Cardinality(MemParts') = Cardinality(MemParts) - Cardinality(g.src) + 1
      BY ZenonT(40), <1>12, <3>4, <3>5, FS_Difference, FS_AddElement
    <3>7. permits' = permits + Cardinality(g.src) BY <1>0, <2>1 DEF Released
    <3>8. closing' = "open" =>
            permits' + Cardinality(MemParts') + Cardinality(Pushing') = MaxMemParts + Cardinality(Swapped')
      BY <1>0, <1>4, <1>6, <1>12, <1>13, <1>14, <3>2, <3>6, <3>7, MergesetAssumption
    <3> QED BY <3>8 DEF PermitsAccounted, Pushing
  <2>7. CloseInOrder'
    <3>1. closing \in {"open", "stopped"} BY <2>1, OpenWhileMerging
    <3> QED BY <1>0, <3>1 DEF CloseInOrder
  <2> QED BY <1>5, <1>7, <1>8, <1>9, <2>2, <2>3, <2>4, <2>5, <2>6, <2>7 DEF MergesetInv, Finite
<1>16. CASE m = FALSE
  <2>1. EndMerge(g) BY <1>0, <1>16
  <2>2. /\ MergesKnown' /\ SlotsAccounted' /\ IsFiniteSet(merges') /\ slots' \in 0..CpuSlots
        /\ inMerge' \subseteq PartSet /\ merges' \subseteq MergeSet
        /\ Swapped' = Swapped \ {g}
    BY <1>0, <1>1, <1>10, <2>1, Ends
  <2>3. Swapped' = Swapped BY <1>0, <2>2 DEF Swapped
  <2>4. MergesetTypeOK' BY <1>0, <1>6, <1>11, <2>2 DEF MergesetTypeOK, MergeSet
  <2>5. MemParts' = MemParts \ g.src BY <1>1, <1>2, <1>16 DEF MemParts
  <2>6. PermitsAccounted'
    <3>1. Released(g) = Cardinality(MemParts \cap g.src)
      <4>1. CASE InMemory(g)
        <5>1. MemParts \cap g.src = g.src BY <1>3, <4>1 DEF MemParts, InMemory
        <5> QED BY <4>1, <5>1 DEF Released
      <4>2. CASE ~InMemory(g)
        <5>1. MemParts \cap g.src = {} BY <1>0, <4>2 DEF MergesKnown, MemParts
        <5> QED BY <4>2, <5>1, FS_EmptySet DEF Released
      <4> QED BY <4>1, <4>2
    <3>2. Cardinality(MemParts') = Cardinality(MemParts) - Released(g) BY <1>12, <2>5, <3>1, FS_Difference
    <3>3. Released(g) \in Nat BY <1>4 DEF Released
    <3>4. closing' = "open" =>
            permits' + Cardinality(MemParts') + Cardinality(Pushing') = MaxMemParts + Cardinality(Swapped')
      BY <1>0, <1>6, <1>12, <1>13, <1>14, <2>3, <3>2, <3>3, MergesetAssumption
    <3> QED BY <3>4 DEF PermitsAccounted, Pushing
  <2>7. CloseInOrder'
    <3>1. closing \in {"open", "stopped"} \/ closing = "parts" BY OpenWhileMerging
    <3>2. inMerge' = inMerge \ g.src /\ merges' = merges \ {g} BY <2>1 DEF EndMerge
    <3> QED BY <1>0, <2>5, <3>1, <3>2 DEF CloseInOrder
  <2> QED BY <1>5, <1>7, <1>8, <1>9, <2>2, <2>4, <2>6, <2>7 DEF MergesetInv, Finite
<1> QED BY <1>15, <1>16

----------------------------------------------------------------------------
(* Closing, and the theorems.                                              *)

\* must_close goes on, or is called.
LEMMA CloseStep ==
  ASSUME MergesetInv, UNCHANGED <<added, rawItems, parts, inMerge, permits, slots, flushes, toFlush, merges, crashed>>,
         \/ closing = "open" /\ closing' = "stopped"
         \/ closing = "stopped" /\ closing' = "items" /\ NoWork /\ rawItems = {}
         \/ closing = "parts" /\ closing' = "closed" /\ NoWork
         \/ closing' = closing
  PROVE  MergesetInv'
<1>0. MergesetTypeOK /\ PermitsAccounted /\ CloseInOrder BY DEF MergesetInv
<1>1. MergesetTypeOK' BY <1>0 DEF MergesetTypeOK
<1>2. Finite' /\ MergesKnown' /\ SlotsAccounted' /\ MemParts' = MemParts /\ Swapped' = Swapped BY SameMerges
<1>3. Apart' /\ Somewhere' /\ ItemsKnown' BY SameItems
<1>4. PermitsAccounted' BY <1>0, <1>2 DEF PermitsAccounted
<1>5. CloseInOrder' BY <1>0, <1>2 DEF CloseInOrder, NoWork
<1> QED BY <1>1, <1>2, <1>3, <1>4, <1>5 DEF MergesetInv

\* Every step keeps the invariant.
LEMMA MergesetStep == MergesetInv /\ [MergesetNext]_mergesetVars => MergesetInv'
<1> SUFFICES ASSUME MergesetInv, [MergesetNext]_mergesetVars PROVE MergesetInv' OBVIOUS
<1>0. PendingFlusher \in FlushThreads /\ IndexAdders \subseteq FlushThreads BY DEF FlushThreads
<1>1. ASSUME NEW a \in IndexAdders, NEW S \in SUBSET rawItems, add_ibs_to_flush(a, S) PROVE MergesetInv'
  BY <1>0, <1>1, TakeStep DEF add_ibs_to_flush
<1>2. ASSUME NEW S \in SUBSET rawItems, flush_pending_items(S) PROVE MergesetInv'
  BY <1>0, <1>2, TakeStep DEF flush_pending_items
<1>3. ASSUME NEW S \in SUBSET parts, inmemory_parts_flusher(S) PROVE MergesetInv'
  BY <1>3, SetAsideStep DEF inmemory_parts_flusher
<1>4. ASSUME Stop PROVE MergesetInv' BY <1>4, CloseStep DEF Stop
<1>5. ASSUME CloseFlushItems PROVE MergesetInv'
  <2>1. CASE rawItems = {} BY <1>5, <2>1, CloseStep DEF CloseFlushItems
  <2>2. CASE rawItems # {} BY <1>0, <1>5, <2>2, TakeStep DEF CloseFlushItems
  <2> QED BY <2>1, <2>2
<1>6. ASSUME CloseFlushParts PROVE MergesetInv'
  <2>1. MemParts \ inMerge \in SUBSET parts BY DEF MemParts
  <2> QED BY <1>6, <2>1, SetAsideStep DEF CloseFlushParts
<1>7. ASSUME must_close PROVE MergesetInv' BY <1>7, CloseStep DEF must_close
<1>8. ASSUME UNCHANGED mergesetVars PROVE MergesetInv' BY <1>8, CloseStep DEF mergesetVars
<1>9. ASSUME WriteSteps PROVE MergesetInv'
  BY <1>1, <1>2, <1>9, AddStep, PcStep, PushItemsStep DEF WriteSteps
<1>10. ASSUME MergeSteps PROVE MergesetInv'
  BY <1>3, <1>10, PickStep, HandOutStep, StartStep, EndStep, SwapStep DEF MergeSteps
<1> QED BY <1>4, <1>5, <1>6, <1>7, <1>8, <1>9, <1>10, CrashStep DEF MergesetNext

\* The inductive invariant holds.
LEMMA MergesetInvHolds == MergesetSpec => []MergesetInv
BY MergesetInitInv, MergesetStep, PTL DEF MergesetSpec

\* For any number of items, threads, permits, slots and crashes: no item is lost or doubled, no permit
\* leaks while the table is open, and a close leaves nothing in memory.
THEOREM MergesetIsSound == MergesetSpec => []MergesetSound
<1>1. MergesetInv => MergesetSound
  <2> SUFFICES ASSUME MergesetInv PROVE MergesetSound OBVIOUS
  <2>0. MergesetTypeOK /\ PermitsAccounted /\ Apart /\ Somewhere /\ ItemsKnown /\ MergesKnown /\ CloseInOrder
    BY DEF MergesetInv
  <2>1. ItemsInOnePlace
    <3>1. /\ \A p, q \in parts : p # q => p.items \cap q.items = {}
          /\ \A p \in parts : p.items \cap rawItems = {}
      BY <2>0 DEF Apart
    <3>2. ASSUME NEW t \in FlushThreads
          PROVE  /\ flushes[t].items \cap (rawItems \cup UNION {p.items : p \in parts}) = {}
                 /\ \A u \in FlushThreads \ {t} : flushes[t].items \cap flushes[u].items = {}
      BY <2>0 DEF Apart
    <3>3. crashed = 0 =>
            added = rawItems \cup (UNION {p.items : p \in parts}) \cup (UNION {flushes[t].items : t \in FlushThreads})
      <4>1. /\ rawItems \subseteq added /\ \A p \in parts : p.items \subseteq added
            /\ \A t \in FlushThreads : flushes[t].items \subseteq added
        BY <2>0 DEF MergesetTypeOK, ItemsKnown
      <4> DEFINE PI == UNION {p.items : p \in parts}
                 FI == UNION {flushes[t].items : t \in FlushThreads}
      <4>2. \A i : i \in PI <=> \E p \in parts : i \in p.items OBVIOUS
      <4>3. \A i : i \in FI <=> \E t \in FlushThreads : i \in flushes[t].items OBVIOUS
      <4> HIDE DEF PI, FI
      <4>4. crashed = 0 => added = rawItems \cup PI \cup FI BY <2>0, <4>1, <4>2, <4>3 DEF Somewhere
      <4> QED BY <4>4 DEF PI, FI
    <3> QED BY <3>1, <3>2, <3>3 DEF ItemsInOnePlace
  <2>2. CloseLeavesNothing BY <2>0 DEF CloseLeavesNothing, CloseInOrder, MergesKnown
  <2> QED BY <2>0, <2>1, <2>2 DEF MergesetSound
<1> QED BY <1>1, MergesetInvHolds, PTL

\* An item in a file part is in a file part ever after: a step of a merge, of must_close or a crash
\* never takes it off the disk.
THEOREM DurableStay == MergesetSpec => DurableItemsStay
<1>1. ASSUME MergesetInv, [MergesetNext]_mergesetVars PROVE OnDisk \subseteq OnDisk'
  <2> SUFFICES ASSUME NEW p \in parts, ~p.mem, NEW i \in p.items
               PROVE  \E q \in parts' : ~q.mem /\ i \in q.items
    BY DEF OnDisk, MemParts
  <2>1. CASE p \in parts' BY <2>1
  <2>2. CASE p \notin parts'
    <3>1. PICK g \in merges, m \in BOOLEAN : swap_src_with_dst_parts(g, m)
      BY <1>1, <2>2 DEF MergesetNext, WriteSteps, MergeSteps, mergesetVars, add_items, add_ibs_to_flush,
         TakeBlocks, flush_pending_items, create_inmemory_part, acquire_limit, add_to_inmemory_parts,
         get_parts_to_merge, inmemory_parts_flusher, FlushParts, merge_inmemory_parts_to_files,
         StartMerge, AcquireForResult, ForciblyStopped, Stop, CloseFlushItems, CloseFlushParts,
         must_close, CrashTable, Opened
    <3>2. p \in g.src /\ m = FALSE
      BY <2>2, <3>1 DEF swap_src_with_dst_parts, get_dst_part_type, InMemory
    <3>3. Result(g, m) \in parts' /\ ~Result(g, m).mem /\ i \in Result(g, m).items
      BY <3>1, <3>2 DEF swap_src_with_dst_parts, Result
    <3> QED BY <3>3
  <2> QED BY <2>1, <2>2
<1>2. MergesetInv /\ [MergesetNext]_mergesetVars => [OnDisk \subseteq OnDisk']_mergesetVars BY <1>1
<1> QED BY <1>2, MergesetInvHolds, PTL DEF MergesetSpec, DurableItemsStay
=============================================================================
