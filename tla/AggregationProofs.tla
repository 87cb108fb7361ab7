------------------------- MODULE AggregationProofs --------------------------
(***************************************************************************)
(* Proofs about RollupCache, where samples are no later than CacheOffset   *)
(* and a query stores its result less than a step after it read the data:  *)
(* cached points are final, and every answer is one that the storage could *)
(* have given.  And about StreamAggr, for any pushers and configurations:  *)
(* every sample is counted once, in its window, or dropped for a newer one.*)
(***************************************************************************)
EXTENDS RollupCache, StreamAggr, SequenceTheorems, FiniteSetTheorems, NaturalsInduction, WellFoundedInduction, TLAPS

----------------------------------------------------------------------------
(* RollupCache: the invariant.                                             *)

\* What the cache holds, in either generation.
Content == {<<k, curr[k]>> : k \in DOMAIN curr} \cup {<<k, prev[k]>> : k \in DOMAIN prev}

\* What series a say of s at p.
At(a, s, p) == IF s \in DOMAIN a THEN a[s][p] ELSE 0

\* The series a have a value at every point of P, the one that is stored, and no sample comes
\* there any more at time t.
Final(a, P, st, t) ==
  /\ DOMAIN a \subseteq RolledSeries
  /\ \A s \in DOMAIN a : DOMAIN a[s] = P
  /\ \A p \in P : p + CacheOffset < t
  /\ \A s \in RolledSeries, p \in P : At(a, s, p) = st[s][p]

\* Cache content C has entry e under its key, if it has anything there.
Names(e, C) == \A x \in C : x[1] = e.key => x[2].from = e.from /\ x[2].to = e.to

EntryType == [from : Grid, to : Grid, key : Nat]

\* Entries of keys that have been given out, and a metainfo of such entries.
Entries(C, n)    == {e \in EntryType : e.key \in 1..n /\ Names(e, C)}
MetaOK(mi, C, n) == mi \in Seq(Entries(C, n)) /\ Len(mi) <= MaxEntries

\* A blob is final.
BlobOK(b, st, t) == b.from \in Grid /\ b.to \in Grid /\ Final(b.tss, Points(b.from, b.to), st, t)

\* The metainfo is under its key, blobs are under theirs.
CacheOK(C, st, t, n) ==
  \A x \in C : /\ x[1] \in 0..n
               /\ x[1] = MetaKey => MetaOK(x[2], C, n)
               /\ x[1] # MetaKey => BlobOK(x[2], st, t)

\* A query that reads: its request, and what the storage had when it began.
Reading(r, st) ==
  /\ r = [pc |-> r.pc, from |-> r.from, to |-> r.to, seen |-> r.seen, mi |-> r.mi, key |-> r.key,
          a |-> r.a, tail |-> r.tail, read |-> r.read]
  /\ r.from \in Grid /\ r.to \in Grid
  /\ \A s \in RolledSeries, p \in Grid : r.seen[s][p] \in Nat /\ r.seen[s][p] <= st[s][p]

\* The points that it has from the cache.
FromCache(r) == {p \in Points(r.from, r.to) : p < r.tail}

\* It has an answer: what was stored at time r.read, which the clock is not far from.
Answer(r, st, t) ==
  /\ r.read \in Nat /\ r.read <= t /\ t <= r.read + QueryTicks
  /\ DOMAIN r.a \subseteq RolledSeries
  /\ \A s \in DOMAIN r.a : DOMAIN r.a[s] = Points(r.from, r.to)
  /\ \A s \in RolledSeries, p \in Points(r.from, r.to) :
       /\ At(r.a, s, p) \in Nat /\ r.seen[s][p] <= At(r.a, s, p) /\ At(r.a, s, p) <= st[s][p]
       /\ p + CacheOffset < r.read => At(r.a, s, p) = st[s][p]

\* Every query, by what it is doing.
QueryOK(r, C, st, t, n) ==
  \/ r = NoQuery
  \/ /\ r.pc \in {"blob", "dangling"} /\ Reading(r, st)
     /\ MetaOK(r.mi, C, n) /\ r.key \in 1..n /\ r.a = <<>> /\ r.tail = r.from
  \/ /\ r.pc \in {"eval", "hit"} /\ Reading(r, st)
     /\ r.tail \in Nat /\ r.from <= r.tail /\ Final(r.a, FromCache(r), st, t)
     /\ r.pc = "hit" => r.tail > r.to
  \/ r.pc = "put" /\ Reading(r, st) /\ Answer(r, st, t)
  \/ /\ r.pc = "store"
     /\ r = [pc |-> "store", mi |-> r.mi, read |-> r.read, from |-> r.from, last |-> r.last,
             to |-> r.to, tss |-> r.tss]
     /\ MetaOK(r.mi, C, n) /\ r.to = r.last /\ r.from \in Grid /\ r.last \in Grid
     /\ Final(r.tss, Points(r.from, r.last), st, t)
  \/ /\ r.pc = "name"
     /\ r = [pc |-> "name", mi |-> r.mi, read |-> r.read, entry |-> r.entry]
     /\ MetaOK(r.mi, C, n) /\ r.entry \in Entries(C, n)

\* The clock, the storage and the numbers of the blobs.
ClockOK ==
  /\ tick \in 0..MaxTicks /\ ingested \in 0..MaxIngested /\ suffix \in 0..MaxBlobs
  /\ stored \in [RolledSeries -> [Grid -> 0..ingested]]
  /\ query = [q \in Queriers |-> query[q]]

RollupInv ==
  /\ ClockOK
  /\ CacheOK(Content, stored, tick, suffix)
  /\ \A q \in Queriers : QueryOK(query[q], Content, stored, tick, suffix)

----------------------------------------------------------------------------
(* RollupCache: numbers and points of the grid.                            *)

\* Every set of naturals that is not empty has a least element.
LEMMA LeastNatural ==
  ASSUME NEW S \in SUBSET Nat, S # {}
  PROVE  Min(S) \in S /\ \A n \in S : Min(S) <= n
<1> DEFINE R == {p \in Nat \X Nat : p[1] < p[2]}
<1>1. IsWellFoundedOn(R, Nat) BY NatLessThanWellFounded DEF OpToRel
<1> HIDE DEF R
<1>2. PICK m \in S : \A y \in S : ~(<<y, m>> \in R) BY <1>1, WFMin
<1>3. \A y \in S : ~(y < m) BY <1>2 DEF R
<1>4. \A y \in S : y \in Nat /\ m \in Nat OBVIOUS
<1>5. \A y \in S : m <= y BY <1>3, <1>4
<1>6. \E x \in S : \A y \in S : x =< y BY <1>5
<1> QED BY <1>6 DEF Min

\* Every bounded one has a greatest.
LEMMA GreatestNatural ==
  ASSUME NEW S \in SUBSET Nat, S # {}, NEW m \in Nat, \A n \in S : n <= m
  PROVE  Max(S) \in S /\ \A n \in S : n <= Max(S)
<1> DEFINE T == {m - n : n \in S}
<1>1. T \in SUBSET Nat /\ T # {}
  <2>1. \A n \in S : n \in Nat /\ m - n \in Nat OBVIOUS
  <2> QED BY <2>1
<1>2. Min(T) \in T /\ \A n \in T : Min(T) <= n
  <2> HIDE DEF T
  <2> QED BY <1>1, LeastNatural
<1>3. PICK x \in S : Min(T) = m - x BY <1>2
<1>4. \A n \in S : m - x <= m - n BY <1>2, <1>3
<1>5. \A n \in S : n <= x BY <1>4
<1> QED BY <1>5 DEF Max

\* The smaller of two numbers.
LEMMA Smaller ==
  ASSUME NEW m \in Nat, NEW n \in Nat
  PROVE  Min({m, n}) \in {m, n} /\ Min({m, n}) <= m /\ Min({m, n}) <= n
<1>1. {m, n} \in SUBSET Nat /\ {m, n} # {} OBVIOUS
<1>2. Min({m, n}) \in {m, n} /\ \A x \in {m, n} : Min({m, n}) <= x BY <1>1, LeastNatural
<1> QED BY <1>2

\* What a number without a rest is.
LEMMA NoRest ==
  ASSUME NEW d \in Nat \ {0}, NEW x \in Nat, x % d = 0
  PROVE  \E k \in Int : x = d * k
<1> DEFINE k == x \div d
           rest == x % d
<1>1. k \in Int /\ x = d * k + rest OBVIOUS
<1>2. rest = 0 OBVIOUS
<1> HIDE DEF k, rest
<1>3. d * k \in Int BY <1>1
<1>4. x = d * k BY <1>1, <1>2, <1>3
<1> QED BY <1>1, <1>4

\* Multiples of a step are a step apart.
LEMMA Multiples ==
  ASSUME NEW d \in Nat \ {0}, NEW p \in Nat, NEW m \in Nat, p % d = 0, m % d = 0, p < m + d
  PROVE  p <= m
<1>2. PICK j \in Int : p = d * j BY NoRest
<1>3. PICK k \in Int : m = d * k BY NoRest
<1>4. d * (j - k) = p - m BY <1>2, <1>3
<1>5. ASSUME NEW i \in Int PROVE (i >= 1 => d * i >= d) /\ (i <= 0 => d * i <= 0) OBVIOUS
<1>6. CASE j - k >= 1
  <2>1. d * (j - k) >= d BY <1>5, <1>6
  <2> QED BY <1>4, <2>1
<1>7. CASE j - k <= 0
  <2>1. d * (j - k) <= 0 BY <1>5, <1>7
  <2> QED BY <1>4, <2>1
<1> QED BY <1>6, <1>7

\* The grid, and its points in a range.
LEMMA OnGrid ==
  /\ Grid \in SUBSET Nat /\ \A p \in Grid : p <= MaxTicks
  /\ \A p, m \in Grid : p < m + Step => p <= m
  /\ \A from, to : Points(from, to) \in SUBSET Grid
<1>1. Grid \in SUBSET Nat /\ \A p \in Grid : p <= MaxTicks /\ p % Step = 0 BY RollupAssumption DEF Grid
<1>2. ASSUME NEW p \in Grid, NEW m \in Grid, p < m + Step PROVE p <= m
  BY <1>1, <1>2, Multiples, RollupAssumption
<1> QED BY <1>1, <1>2 DEF Points

\* The last of some points.
LEMMA LastPoint ==
  ASSUME NEW P \in SUBSET Grid, P # {}
  PROVE  Max(P) \in P /\ Max(P) \in Grid /\ \A p \in P : p <= Max(P)
BY OnGrid, GreatestNatural, RollupAssumption

----------------------------------------------------------------------------
(* RollupCache: the cache.                                                 *)

\* What an insertion leaves.
LEMMA InsertHolds ==
  ASSUME NEW p, NEW k, NEW v, \A x \in DOMAIN p : x \in DOMAIN prev /\ p[x] = prev[x], insert(curr, p, k, v)
  PROVE  Content' \subseteq Content \cup {<<k, v>>}
<1> SUFFICES ASSUME NEW x, (x \in DOMAIN curr') \/ (x \in DOMAIN prev')
             PROVE  /\ x \in DOMAIN curr' => <<x, curr'[x]>> \in Content \cup {<<k, v>>}
                    /\ x \in DOMAIN prev' => <<x, prev'[x]>> \in Content \cup {<<k, v>>}
  BY DEF Content
<1>1. \A y \in DOMAIN curr : <<y, curr[y]>> \in Content BY DEF Content
<1>2. \A y \in DOMAIN p : <<y, p[y]>> \in Content BY DEF Content
<1>3. CASE curr' = With(curr, k, v) /\ prev' = p
  <2>1. x \in DOMAIN curr' => (x = k /\ curr'[x] = v) \/ (x \in DOMAIN curr /\ curr'[x] = curr[x]) BY <1>3 DEF With
  <2> QED BY <1>1, <1>2, <1>3, <2>1
<1>4. CASE curr' = [y \in {k} |-> v] /\ prev' = curr
  <2>1. x \in DOMAIN curr' => x = k /\ curr'[x] = v BY <1>4
  <2> QED BY <1>1, <1>4, <2>1
<1> QED BY <1>3, <1>4 DEF insert

\* What is found is in the cache, and a look-up adds nothing.
LEMMA LookUp ==
  ASSUME NEW k, Cached(k)
  PROVE  <<k, Value(k)>> \in Content /\ (Touch(k) => Content' \subseteq Content)
<1>1. <<k, Value(k)>> \in Content BY DEF Cached, Value, Content
<1>2. ASSUME Touch(k) PROVE Content' \subseteq Content
  <2>1. CASE k \in DOMAIN curr BY <1>2, <2>1 DEF Touch, cacheVars, Content
  <2>2. CASE k \notin DOMAIN curr
    <3> DEFINE p == Restrict(prev, DOMAIN prev \ {k})
    <3>1. \A x \in DOMAIN p : x \in DOMAIN prev /\ p[x] = prev[x] BY DEF Restrict
    <3>2. insert(curr, p, k, prev[k]) BY <1>2, <2>2 DEF Touch
    <3> HIDE DEF p
    <3>3. Content' \subseteq Content \cup {<<k, prev[k]>>} BY <3>1, <3>2, InsertHolds
    <3>4. <<k, prev[k]>> \in Content BY <2>2 DEF Cached, Content
    <3> QED BY <3>3, <3>4
  <2> QED BY <2>1, <2>2
<1> QED BY <1>1, <1>2

\* An entry stays good when the cache gets something under another key.
LEMMA Grows ==
  ASSUME NEW C, NEW D, NEW m \in Nat, NEW n \in Nat, m <= n, NEW k, NEW v, k \notin 1..m,
         D \subseteq C \cup {<<k, v>>}
  PROVE  /\ \A e : e \in Entries(C, m) => e \in Entries(D, n)
         /\ \A mi : MetaOK(mi, C, m) => MetaOK(mi, D, n)
         /\ \A r, st, t : QueryOK(r, C, st, t, m) => QueryOK(r, D, st, t, n)
<1>1. ASSUME NEW e, e \in Entries(C, m) PROVE e \in Entries(D, n)
  <2>1. e \in EntryType /\ e.key \in 1..m /\ \A x \in C : x[1] = e.key => x[2].from = e.from /\ x[2].to = e.to
    BY <1>1 DEF Entries, Names
  <2>2. <<k, v>>[1] # e.key BY <2>1
  <2>3. \A x \in D : x[1] = e.key => x \in C BY <2>2
  <2>4. Names(e, D) BY <2>1, <2>3 DEF Names
  <2> QED BY <2>1, <2>4 DEF Entries
<1>2. ASSUME NEW mi, MetaOK(mi, C, m) PROVE MetaOK(mi, D, n)
  <2>1. Entries(C, m) \subseteq Entries(D, n) BY <1>1
  <2> QED BY <1>2, <2>1 DEF MetaOK
<1>3. ASSUME NEW r, NEW st, NEW t, QueryOK(r, C, st, t, m) PROVE QueryOK(r, D, st, t, n)
  <2>1. m \in Nat /\ 1..m \subseteq 1..n OBVIOUS
  <2> QED BY <1>1, <1>2, <1>3, <2>1 DEF QueryOK
<1> QED BY <1>1, <1>2, <1>3

\* A step of a query that keeps the invariant: the query is in order, and what it adds to the
\* cache, if anything, is too.
LEMMA StepKept ==
  ASSUME RollupInv, NEW q \in Queriers, NEW r, query' = [query EXCEPT ![q] = r],
         UNCHANGED <<tick, stored, ingested>>, suffix' \in suffix..MaxBlobs,
         NEW k, NEW v, k \in 0..suffix', k \notin 1..suffix, Content' \subseteq Content \cup {<<k, v>>},
         k = MetaKey => MetaOK(v, Content, suffix), k # MetaKey => BlobOK(v, stored, tick),
         QueryOK(r, Content', stored, tick, suffix')
  PROVE  RollupInv'
<1>1. /\ ClockOK /\ CacheOK(Content, stored, tick, suffix)
      /\ \A p \in Queriers : QueryOK(query[p], Content, stored, tick, suffix)
  BY DEF RollupInv
<1>2. suffix \in Nat /\ suffix' \in Nat /\ suffix <= suffix' BY <1>1 DEF ClockOK
<1>3. /\ \A mi : MetaOK(mi, Content, suffix) => MetaOK(mi, Content', suffix')
      /\ \A x : QueryOK(x, Content, stored, tick, suffix) => QueryOK(x, Content', stored, tick, suffix')
  BY <1>2, Grows
<1>4. query = [p \in Queriers |-> query[p]] BY <1>1 DEF ClockOK
<1>5. DOMAIN query = Queriers BY <1>4
<1>6. query' = [p \in Queriers |-> query'[p]] /\ query'[q] = r /\ \A p \in Queriers : p # q => query'[p] = query[p]
  BY <1>5
<1>7. ClockOK' BY <1>1, <1>2, <1>6 DEF ClockOK
<1>8. CacheOK(Content', stored, tick, suffix')
  <2> SUFFICES ASSUME NEW x \in Content'
               PROVE  /\ x[1] \in 0..suffix'
                      /\ x[1] = MetaKey => MetaOK(x[2], Content', suffix')
                      /\ x[1] # MetaKey => BlobOK(x[2], stored, tick)
    BY DEF CacheOK
  <2>1. CASE x \in Content BY <1>1, <1>2, <1>3, <2>1 DEF CacheOK
  <2>2. CASE x = <<k, v>>
    <3>1. x[1] = k /\ x[2] = v BY <2>2
    <3> QED BY <1>3, <3>1
  <2> QED BY <2>1, <2>2
<1>9. \A p \in Queriers : QueryOK(query'[p], Content', stored, tick, suffix') BY <1>1, <1>3, <1>6
<1>10. CacheOK(Content, stored, tick, suffix)' BY <1>8
<1>11. ASSUME NEW p \in Queriers PROVE QueryOK(query[p], Content, stored, tick, suffix)'
  BY <1>9
<1> QED BY <1>7, <1>10, <1>11 DEF RollupInv

\* Likewise when it adds nothing.
LEMMA ReadKept ==
  ASSUME RollupInv, NEW q \in Queriers, NEW r, query' = [query EXCEPT ![q] = r],
         UNCHANGED <<tick, stored, ingested, suffix>>, Content' \subseteq Content,
         QueryOK(r, Content, stored, tick, suffix)
  PROVE  RollupInv'
<1>1. suffix \in 0..MaxBlobs BY DEF RollupInv, ClockOK
<1>2. suffix' \in suffix..MaxBlobs /\ 0 \in 0..suffix' /\ 0 \notin 1..suffix BY <1>1, RollupAssumption
<1> DEFINE none == <<>>
<1>3. MetaOK(none, Content, suffix) BY RollupAssumption DEF MetaOK
<1> HIDE DEF none
<1>4. Content' \subseteq Content \cup {<<0, none>>} OBVIOUS
<1>5. suffix \in Nat /\ suffix <= suffix BY <1>1
<1>6. QueryOK(r, Content', stored, tick, suffix) BY <1>2, <1>4, <1>5, Grows
<1> QED BY <1>2, <1>3, <1>4, <1>6, StepKept DEF MetaKey

\* Points that no sample comes to stay final as time passes.
LEMMA FinalStays ==
  ASSUME NEW a, NEW P \in SUBSET Grid, NEW st, NEW su, NEW t \in Nat, NEW u \in Nat, t <= u,
         \A s \in RolledSeries, p \in Grid : p + CacheOffset < t => su[s][p] = st[s][p],
         Final(a, P, st, t)
  PROVE  Final(a, P, su, u)
<1>1. \A p \in P : p \in Nat /\ p \in Grid BY OnGrid
<1>2. CacheOffset \in Nat BY RollupAssumption
<1>3. \A p \in P : p + CacheOffset < t BY DEF Final
<1>4. \A p \in P : p + CacheOffset < u BY <1>1, <1>2, <1>3
<1>5. \A s \in RolledSeries, p \in P : At(a, s, p) = su[s][p] BY <1>1, <1>3 DEF Final
<1> QED BY <1>4, <1>5 DEF Final

\* A query stays in order as time passes and samples come.
LEMMA TimePasses ==
  ASSUME NEW C, NEW n, NEW st, NEW su, NEW t \in Nat, NEW u \in Nat, t <= u,
         \A s \in RolledSeries, p \in Grid : p + CacheOffset < t => su[s][p] = st[s][p],
         \A s \in RolledSeries, p \in Grid : st[s][p] \in Nat /\ su[s][p] \in Nat /\ st[s][p] <= su[s][p]
  PROVE  /\ \A b : BlobOK(b, st, t) => BlobOK(b, su, u)
         /\ \A r : QueryOK(r, C, st, t, n) /\ (r.pc = "put" => u <= r.read + QueryTicks) => QueryOK(r, C, su, u, n)
<1>1. ASSUME NEW a, NEW P \in SUBSET Grid, Final(a, P, st, t) PROVE Final(a, P, su, u)
  BY <1>1, FinalStays
<1>2. \A from, to : Points(from, to) \in SUBSET Grid BY OnGrid
<1>3. ASSUME NEW b, BlobOK(b, st, t) PROVE BlobOK(b, su, u) BY <1>1, <1>2, <1>3 DEF BlobOK
<1>4. ASSUME NEW r, Reading(r, st) PROVE Reading(r, su)
  <2> SUFFICES ASSUME NEW s \in RolledSeries, NEW p \in Grid
               PROVE  r.seen[s][p] \in Nat /\ r.seen[s][p] <= su[s][p]
    BY <1>4 DEF Reading
  <2>1. r.seen[s][p] \in Nat /\ r.seen[s][p] <= st[s][p] BY <1>4 DEF Reading
  <2>2. st[s][p] \in Nat /\ su[s][p] \in Nat /\ st[s][p] <= su[s][p] OBVIOUS
  <2> QED BY <2>1, <2>2
<1>5. ASSUME NEW r, Answer(r, st, t), u <= r.read + QueryTicks PROVE Answer(r, su, u)
  <2>1. r.read \in Nat /\ r.read <= t BY <1>5 DEF Answer
  <2>2. r.read <= u BY <2>1
  <2>3. ASSUME NEW s \in RolledSeries, NEW p \in Points(r.from, r.to)
        PROVE  At(r.a, s, p) <= su[s][p] /\ (p + CacheOffset < r.read => At(r.a, s, p) = su[s][p])
    <3>1. p \in Grid /\ p \in Nat BY <1>2, OnGrid
    <3>2. At(r.a, s, p) \in Nat /\ At(r.a, s, p) <= st[s][p] /\ (p + CacheOffset < r.read => At(r.a, s, p) = st[s][p])
      BY <1>5 DEF Answer
    <3>3. st[s][p] \in Nat /\ su[s][p] \in Nat /\ st[s][p] <= su[s][p] BY <3>1
    <3>4. p + CacheOffset < r.read => p + CacheOffset < t BY <2>1, <3>1, RollupAssumption
    <3>5. p + CacheOffset < r.read => su[s][p] = st[s][p] BY <3>1, <3>4
    <3> QED BY <3>2, <3>3, <3>5
  <2> QED BY <1>5, <2>2, <2>3 DEF Answer
<1>6. ASSUME NEW r, QueryOK(r, C, st, t, n), r.pc = "put" => u <= r.read + QueryTicks PROVE QueryOK(r, C, su, u, n)
  <2>1. FromCache(r) \in SUBSET Grid BY <1>2 DEF FromCache
  <2>2. NoQuery.pc = "idle" BY DEF NoQuery
  <2> QED BY <1>1, <1>2, <1>4, <1>5, <1>6, <2>1, <2>2 DEF QueryOK
<1> QED BY <1>3, <1>6

----------------------------------------------------------------------------
(* RollupCache: the metainfo.                                              *)

\* The metainfo that a query reads.
LEMMA MetaRead ==
  ASSUME RollupInv
  PROVE  MetaOK(IF Cached(MetaKey) THEN Value(MetaKey) ELSE <<>>, Content, suffix)
<1>1. CASE Cached(MetaKey)
  <2>1. <<MetaKey, Value(MetaKey)>> \in Content BY <1>1, LookUp
  <2>2. MetaOK(<<MetaKey, Value(MetaKey)>>[2], Content, suffix) BY <2>1 DEF RollupInv, CacheOK
  <2> QED BY <1>1, <2>2
<1>2. CASE ~Cached(MetaKey)
  <2>1. MetaOK(<<>>, Content, suffix) BY RollupAssumption DEF MetaOK
  <2> QED BY <1>2, <2>1
<1> QED BY <1>1, <1>2

\* The key that get_best_key finds is one of the entries' keys.
LEMMA BestKey ==
  ASSUME NEW mi, NEW C, NEW n \in Nat, MetaOK(mi, C, n), NEW from \in Grid, NEW to \in Grid
  PROVE  get_best_key(mi, from, to) \in 0..n
<1> DEFINE fit == {i \in DOMAIN mi : mi[i].from <= from /\ Span(mi[i], from, to) >= 0}
           best == {i \in fit : \A j \in fit : Span(mi[j], from, to) <= Span(mi[i], from, to)}
           spans == {Span(mi[i], from, to) : i \in fit}
<1>1. /\ mi \in Seq(Entries(C, n)) /\ DOMAIN mi = 1..Len(mi) /\ Len(mi) \in Nat
      /\ \A i \in DOMAIN mi : mi[i] \in Entries(C, n)
  BY DEF MetaOK
<1>2. CASE fit = {} BY <1>2 DEF get_best_key
<1>3. CASE fit # {}
  <2>1. ASSUME NEW i \in fit PROVE Span(mi[i], from, to) \in Nat /\ Span(mi[i], from, to) <= MaxTicks
    <3>1. mi[i].to \in Nat /\ to \in Nat /\ from \in Nat /\ to <= MaxTicks /\ MaxTicks \in Nat
      <4>1. mi[i] \in Entries(C, n) BY <1>1
      <4>2. mi[i].to \in Grid BY <4>1 DEF Entries, EntryType
      <4> QED BY <4>2, OnGrid, RollupAssumption
    <3>2. Min({to, mi[i].to}) \in {to, mi[i].to} /\ Min({to, mi[i].to}) <= to BY <3>1, Smaller
    <3>3. Span(mi[i], from, to) >= 0 OBVIOUS
    <3> DEFINE m == Min({to, mi[i].to})
    <3>4. m \in Nat /\ m <= to /\ Span(mi[i], from, to) = m - from BY <3>1, <3>2 DEF Span
    <3> HIDE DEF m
    <3>5. m - from >= 0 BY <3>3, <3>4
    <3> QED BY <3>1, <3>4, <3>5
  <2>2. spans \in SUBSET Nat /\ spans # {} /\ \A x \in spans : x <= MaxTicks BY <1>3, <2>1
  <2>3. Max(spans) \in spans /\ \A x \in spans : x <= Max(spans)
    <3> HIDE DEF spans
    <3> QED BY <2>2, GreatestNatural, RollupAssumption
  <2>4. PICK i \in fit : Span(mi[i], from, to) = Max(spans) BY <2>3
  <2>5. i \in best BY <2>3, <2>4
  <2>6. best \in SUBSET Nat /\ best # {} /\ \A x \in best : x <= Len(mi) BY <1>1, <2>5
  <2>7. Max(best) \in best
    <3> HIDE DEF best
    <3> QED BY <1>1, <2>6, GreatestNatural
  <2>8. Max(best) \in DOMAIN mi BY <2>7
  <2>9. mi[Max(best)].key \in 1..n BY <1>1, <2>8 DEF Entries
  <2>10. get_best_key(mi, from, to) = mi[Max(best)].key BY <1>3 DEF get_best_key
  <2> QED BY <2>9, <2>10
<1> QED BY <1>2, <1>3

\* A metainfo without an entry is one.
LEMMA KeyRemoved ==
  ASSUME NEW mi, NEW C, NEW n, MetaOK(mi, C, n), NEW key
  PROVE  MetaOK(remove_key(mi, key), C, n)
<1> DEFINE at == {i \in DOMAIN mi : mi[i].key = key}
           E == Entries(C, n)
           f == Min(at)
           m == Len(mi)
           left == SubSeq(mi, 1, f - 1)
           right == SubSeq(mi, f + 1, m)
<1>1. mi \in Seq(E) /\ m \in Nat /\ m <= MaxEntries /\ DOMAIN mi = 1..m /\ \A i \in 1..m : mi[i] \in E BY DEF MetaOK
<1>2. CASE at = {} BY <1>2 DEF remove_key
<1>3. CASE at # {}
  <2>1. remove_key(mi, key) = left \o right BY <1>3 DEF remove_key, RemoveAt
  <2>2. at \in SUBSET Nat BY <1>1
  <2>3. f \in at
    <3> HIDE DEF at
    <3> QED BY <1>3, <2>2, LeastNatural
  <2>4. f \in 1..m BY <1>1, <2>3
  <2> HIDE DEF f, E, m
  <2>5. left \in Seq(E) /\ Len(left) = f - 1
    <3>1. \A i \in 1..f - 1 : mi[i] \in E BY <1>1, <2>4
    <3>2. left \in Seq(E) /\ Len(left) = IF 1 <= f - 1 THEN f - 1 - 1 + 1 ELSE 0 BY <2>4, <3>1, SubSeqProperties
    <3> HIDE DEF left
    <3> QED BY <2>4, <3>2
  <2>6. right \in Seq(E) /\ Len(right) = m - f
    <3>1. \A i \in f + 1..m : mi[i] \in E BY <1>1, <2>4
    <3>2. right \in Seq(E) /\ Len(right) = IF f + 1 <= m THEN m - (f + 1) + 1 ELSE 0 BY <1>1, <2>4, <3>1, SubSeqProperties
    <3> HIDE DEF right
    <3> QED BY <1>1, <2>4, <3>2
  <2> HIDE DEF left, right
  <2>7. left \o right \in Seq(E) /\ Len(left \o right) = Len(left) + Len(right) BY <2>5, <2>6, ConcatProperties
  <2>8. Len(left \o right) <= MaxEntries BY <1>1, <2>4, <2>5, <2>6, <2>7, RollupAssumption
  <2> QED BY <2>1, <2>7, <2>8 DEF MetaOK, E
<1> QED BY <1>2, <1>3

\* A metainfo with an entry more is one: the older half goes when there are too many.
LEMMA KeyAdded ==
  ASSUME NEW mi, NEW C, NEW n, MetaOK(mi, C, n), NEW e \in Entries(C, n)
  PROVE  MetaOK(add_key(mi, e), C, n)
<1> DEFINE all == Append(mi, e)
           E == Entries(C, n)
           m == Len(mi)
           h == MaxEntries \div 2
<1>1. mi \in Seq(E) /\ m \in Nat /\ m <= MaxEntries BY DEF MetaOK
<1>2. h \in Nat /\ h >= 1 /\ h <= MaxEntries /\ MaxEntries \in Nat BY RollupAssumption
<1> HIDE DEF h, E
<1>3. all \in Seq(E) /\ Len(all) = m + 1 BY <1>1, AppendProperties DEF E
<1>4. add_key(mi, e) = IF Len(all) > MaxEntries THEN SubSeq(all, h + 1, Len(all)) ELSE all BY DEF add_key, h
<1> HIDE DEF all, m
<1>5. CASE Len(all) > MaxEntries
  <2> DEFINE some == SubSeq(all, h + 1, m + 1)
  <2>1. m = MaxEntries BY <1>1, <1>2, <1>3, <1>5
  <2>2. \A i \in h + 1..m + 1 : all[i] \in E BY <1>1, <1>2, <1>3
  <2>3. some \in Seq(E) /\ Len(some) = IF h + 1 <= m + 1 THEN m + 1 - (h + 1) + 1 ELSE 0
    BY <1>1, <1>2, <2>2, SubSeqProperties
  <2>4. add_key(mi, e) = some BY <1>3, <1>4, <1>5
  <2> HIDE DEF some
  <2>5. Len(some) <= MaxEntries BY <1>2, <2>1, <2>3
  <2> QED BY <2>3, <2>4, <2>5 DEF MetaOK, E
<1>6. CASE ~(Len(all) > MaxEntries)
  <2>1. Len(all) <= MaxEntries BY <1>1, <1>2, <1>3, <1>6
  <2> QED BY <1>3, <1>4, <1>6, <2>1 DEF MetaOK, E
<1> QED BY <1>5, <1>6

----------------------------------------------------------------------------
(* RollupCache: every step keeps the invariant.                            *)

\* What is known of the storage and of a query.
LEMMA QueryFacts ==
  ASSUME RollupInv, NEW q \in Queriers
  PROVE  /\ query = [x \in Queriers |-> query[x]] /\ QueryOK(query[q], Content, stored, tick, suffix)
         /\ \A s \in RolledSeries, p \in Grid : stored[s][p] \in Nat /\ stored[s][p] \in 0..ingested
         /\ tick \in Nat /\ suffix \in Nat /\ ingested \in Nat
<1>1. /\ tick \in 0..MaxTicks /\ ingested \in 0..MaxIngested /\ suffix \in 0..MaxBlobs
      /\ stored \in [RolledSeries -> [Grid -> 0..ingested]] /\ query = [x \in Queriers |-> query[x]]
  BY DEF RollupInv, ClockOK
<1>2. \A s \in RolledSeries, p \in Grid : stored[s][p] \in 0..ingested BY <1>1
<1>3. QueryOK(query[q], Content, stored, tick, suffix) BY DEF RollupInv
<1> QED BY <1>1, <1>2, <1>3

\* A query that reads is one of these.
LEMMA WhenReading ==
  ASSUME NEW r, NEW C, NEW st, NEW t, NEW n, QueryOK(r, C, st, t, n)
  PROVE  /\ r.pc \in {"blob", "dangling"} =>
              /\ Reading(r, st) /\ MetaOK(r.mi, C, n) /\ r.key \in 1..n /\ r.a = <<>> /\ r.tail = r.from
         /\ r.pc \in {"eval", "hit"} =>
              /\ Reading(r, st) /\ r.tail \in Nat /\ r.from <= r.tail /\ Final(r.a, FromCache(r), st, t)
              /\ r.pc = "hit" => r.tail > r.to
         /\ r.pc = "put" => Reading(r, st) /\ Answer(r, st, t)
         /\ r.pc = "store" =>
              /\ MetaOK(r.mi, C, n) /\ r.to = r.last /\ r.from \in Grid /\ r.last \in Grid
              /\ Final(r.tss, Points(r.from, r.last), st, t)
         /\ r.pc = "name" => MetaOK(r.mi, C, n) /\ r.entry \in Entries(C, n)
         /\ r.pc \in {"idle", "blob", "dangling", "hit", "eval", "put", "store", "name"}
<1>1. NoQuery.pc = "idle" BY DEF NoQuery
<1> QED BY <1>1 DEF QueryOK

\* No points are final.
LEMMA NothingYet ==
  ASSUME NEW st, NEW t, NEW a, NEW P, a = <<>>, P = {}
  PROVE  Final(a, P, st, t)
BY DEF Final

\* Nor is any before the request.
LEMMA NoneBefore ==
  ASSUME NEW r, r.from \in Grid, r.tail = r.from
  PROVE  FromCache(r) = {}
<1> SUFFICES ASSUME NEW p \in Points(r.from, r.to) PROVE ~(p < r.from) BY DEF FromCache
<1>1. p \in Nat /\ r.from \in Nat /\ r.from <= p BY OnGrid DEF Points
<1> QED BY <1>1

\* The record of a query that reads, when parts of it change.
ToPc(o, pc)                         == [o EXCEPT !.pc = pc]
ToEval(o, pc, mi, key)              == [o EXCEPT !.pc = pc, !.mi = mi, !.key = key]
ToHit(o, a, tail, pc, mi, key)      == [o EXCEPT !.a = a, !.tail = tail, !.pc = pc, !.mi = mi, !.key = key]
ToPut(o, a, read, pc)               == [o EXCEPT !.a = a, !.read = read, !.pc = pc]

\* The record of a query that reads, when its place changes.
LEMMA RewrittenPc ==
  ASSUME NEW o, NEW st, Reading(o, st), NEW pc
  PROVE  ToPc(o, pc) =
           [pc |-> pc, from |-> o.from, to |-> o.to, seen |-> o.seen, mi |-> o.mi, key |-> o.key,
            a |-> o.a, tail |-> o.tail, read |-> o.read]
<1> DEFINE x == ToPc(o, pc)
           F == {"pc", "from", "to", "seen", "mi", "key", "a", "tail", "read"}
<1>a. o = [pc |-> o.pc, from |-> o.from, to |-> o.to, seen |-> o.seen, mi |-> o.mi, key |-> o.key,
           a |-> o.a, tail |-> o.tail, read |-> o.read]
  BY DEF Reading
<1>b. DOMAIN o = F /\ o = [f \in F |-> o[f]] BY <1>a
<1>1. DOMAIN x = F /\ x = [f \in F |-> x[f]] BY <1>b DEF ToPc
<1>2. x.pc = pc BY <1>b DEF ToPc
<1>3. x.from = o.from /\ x.to = o.to /\ x.seen = o.seen /\ x.mi = o.mi /\ x.key = o.key /\ x.a = o.a /\ x.tail = o.tail /\ x.read = o.read BY <1>b DEF ToPc
<1> HIDE DEF x
<1>4. x = [pc |-> pc, from |-> o.from, to |-> o.to, seen |-> o.seen, mi |-> o.mi, key |-> o.key,
           a |-> o.a, tail |-> o.tail, read |-> o.read]
  BY <1>1, <1>2, <1>3
<1> QED BY <1>4 DEF x

\* Or the metainfo is done with.
LEMMA RewrittenEval ==
  ASSUME NEW o, NEW st, Reading(o, st), NEW pc, NEW mi, NEW key
  PROVE  ToEval(o, pc, mi, key) =
           [pc |-> pc, from |-> o.from, to |-> o.to, seen |-> o.seen, mi |-> mi, key |-> key,
            a |-> o.a, tail |-> o.tail, read |-> o.read]
<1> DEFINE x == ToEval(o, pc, mi, key)
           F == {"pc", "from", "to", "seen", "mi", "key", "a", "tail", "read"}
<1>a. o = [pc |-> o.pc, from |-> o.from, to |-> o.to, seen |-> o.seen, mi |-> o.mi, key |-> o.key,
           a |-> o.a, tail |-> o.tail, read |-> o.read]
  BY DEF Reading
<1>b. DOMAIN o = F /\ o = [f \in F |-> o[f]] BY <1>a
<1>1. DOMAIN x = F /\ x = [f \in F |-> x[f]] BY <1>b DEF ToEval
<1>2. x.pc = pc /\ x.mi = mi /\ x.key = key BY <1>b DEF ToEval
<1>3. x.from = o.from /\ x.to = o.to /\ x.seen = o.seen /\ x.a = o.a /\ x.tail = o.tail /\ x.read = o.read BY <1>b DEF ToEval
<1> HIDE DEF x
<1>4. x = [pc |-> pc, from |-> o.from, to |-> o.to, seen |-> o.seen, mi |-> mi, key |-> key,
           a |-> o.a, tail |-> o.tail, read |-> o.read]
  BY <1>1, <1>2, <1>3
<1> QED BY <1>4 DEF x

\* Or the cached part is there.
LEMMA RewrittenHit ==
  ASSUME NEW o, NEW st, Reading(o, st), NEW a, NEW tail, NEW pc, NEW mi, NEW key
  PROVE  ToHit(o, a, tail, pc, mi, key) =
           [pc |-> pc, from |-> o.from, to |-> o.to, seen |-> o.seen, mi |-> mi, key |-> key,
            a |-> a, tail |-> tail, read |-> o.read]
<1> DEFINE x == ToHit(o, a, tail, pc, mi, key)
           F == {"pc", "from", "to", "seen", "mi", "key", "a", "tail", "read"}
<1>a. o = [pc |-> o.pc, from |-> o.from, to |-> o.to, seen |-> o.seen, mi |-> o.mi, key |-> o.key,
           a |-> o.a, tail |-> o.tail, read |-> o.read]
  BY DEF Reading
<1>b. DOMAIN o = F /\ o = [f \in F |-> o[f]] BY <1>a
<1>1. DOMAIN x = F /\ x = [f \in F |-> x[f]] BY <1>b DEF ToHit
<1>2. x.a = a /\ x.tail = tail /\ x.pc = pc /\ x.mi = mi /\ x.key = key BY <1>b DEF ToHit
<1>3. x.from = o.from /\ x.to = o.to /\ x.seen = o.seen /\ x.read = o.read BY <1>b DEF ToHit
<1> HIDE DEF x
<1>4. x = [pc |-> pc, from |-> o.from, to |-> o.to, seen |-> o.seen, mi |-> mi, key |-> key,
           a |-> a, tail |-> tail, read |-> o.read]
  BY <1>1, <1>2, <1>3
<1> QED BY <1>4 DEF x

\* Or the answer is.
LEMMA RewrittenPut ==
  ASSUME NEW o, NEW st, Reading(o, st), NEW a, NEW read, NEW pc
  PROVE  ToPut(o, a, read, pc) =
           [pc |-> pc, from |-> o.from, to |-> o.to, seen |-> o.seen, mi |-> o.mi, key |-> o.key,
            a |-> a, tail |-> o.tail, read |-> read]
<1> DEFINE x == ToPut(o, a, read, pc)
           F == {"pc", "from", "to", "seen", "mi", "key", "a", "tail", "read"}
<1>a. o = [pc |-> o.pc, from |-> o.from, to |-> o.to, seen |-> o.seen, mi |-> o.mi, key |-> o.key,
           a |-> o.a, tail |-> o.tail, read |-> o.read]
  BY DEF Reading
<1>b. DOMAIN o = F /\ o = [f \in F |-> o[f]] BY <1>a
<1>1. DOMAIN x = F /\ x = [f \in F |-> x[f]] BY <1>b DEF ToPut
<1>2. x.a = a /\ x.read = read /\ x.pc = pc BY <1>b DEF ToPut
<1>3. x.from = o.from /\ x.to = o.to /\ x.seen = o.seen /\ x.mi = o.mi /\ x.key = o.key /\ x.tail = o.tail BY <1>b DEF ToPut
<1> HIDE DEF x
<1>4. x = [pc |-> pc, from |-> o.from, to |-> o.to, seen |-> o.seen, mi |-> o.mi, key |-> o.key,
           a |-> a, tail |-> o.tail, read |-> read]
  BY <1>1, <1>2, <1>3
<1> QED BY <1>4 DEF x

\* A query begins.
LEMMA GetSeriesKept ==
  ASSUME RollupInv, NEW q \in Queriers, NEW from \in Grid, NEW to \in Grid, get_series(q, from, to)
  PROVE  RollupInv'
<1> DEFINE mi == IF Cached(MetaKey) THEN Value(MetaKey) ELSE <<>>
           key == get_best_key(mi, from, to)
           r == [pc |-> IF key = 0 THEN "eval" ELSE "blob", from |-> from, to |-> to,
                 seen |-> stored, mi |-> IF key = 0 THEN <<>> ELSE mi, key |-> key,
                 a |-> <<>>, tail |-> from, read |-> 0]
<1>1. query' = [query EXCEPT ![q] = r] /\ UNCHANGED <<tick, stored, ingested, suffix>> BY DEF get_series
<1>2. Content' \subseteq Content
  <2>1. CASE Cached(MetaKey) BY <2>1, LookUp DEF get_series
  <2>2. CASE ~Cached(MetaKey) BY <2>2 DEF get_series, cacheVars, Content
  <2> QED BY <2>1, <2>2
<1>3. MetaOK(mi, Content, suffix) BY MetaRead
<1>4. suffix \in Nat /\ tick \in Nat /\ \A s \in RolledSeries, p \in Grid : stored[s][p] \in Nat BY QueryFacts
<1>5. key \in 0..suffix
  <2> HIDE DEF mi
  <2> QED BY <1>3, <1>4, BestKey
<1> HIDE DEF mi, key
<1>6. Reading(r, stored) BY <1>4 DEF Reading
<1>7. r.pc = (IF key = 0 THEN "eval" ELSE "blob") /\ r.key = key /\ r.a = <<>> /\ r.tail = from /\ r.from = from
      /\ r.mi = (IF key = 0 THEN <<>> ELSE mi)
  OBVIOUS
<1>8. from \in Nat BY OnGrid
<1> HIDE DEF r
<1>9. FromCache(r) = {} BY <1>7, NoneBefore
<1>10. QueryOK(r, Content, stored, tick, suffix)
  <2>1. CASE key = 0
    <3>1. Final(r.a, FromCache(r), stored, tick) BY <1>7, <1>9, NothingYet
    <3> QED BY <1>6, <1>7, <1>8, <2>1, <3>1 DEF QueryOK
  <2>2. CASE key # 0 BY <1>3, <1>4, <1>5, <1>6, <1>7, <2>2 DEF QueryOK
  <2> QED BY <2>1, <2>2
<1> QED BY <1>1, <1>2, <1>10, ReadKept

\* A step to no query.
LEMMA EndKept ==
  ASSUME RollupInv, NEW q \in Queriers, query' = [query EXCEPT ![q] = NoQuery],
         UNCHANGED <<tick, stored, ingested, suffix>>, Content' \subseteq Content
  PROVE  RollupInv'
<1>1. QueryOK(NoQuery, Content, stored, tick, suffix) BY DEF QueryOK
<1> QED BY <1>1, ReadKept

\* The blob is gone.
LEMMA BlobEvictedKept ==
  ASSUME RollupInv, NEW q \in Queriers, BlobEvicted(q)
  PROVE  RollupInv'
<1> DEFINE o == query[q]
           pc == "dangling"
           r == [o EXCEPT !.pc = pc]
<1>1. query' = [query EXCEPT ![q] = r] /\ UNCHANGED <<tick, stored, ingested, suffix>> BY DEF BlobEvicted
<1>2. Content' \subseteq Content BY DEF BlobEvicted, cacheVars, Content
<1>3. o.pc = "blob" BY DEF BlobEvicted
<1>4. QueryOK(o, Content, stored, tick, suffix) BY QueryFacts
<1> HIDE DEF o, pc
<1>5. Reading(o, stored) /\ MetaOK(o.mi, Content, suffix) /\ o.key \in 1..suffix /\ o.a = <<>> /\ o.tail = o.from
  BY <1>3, <1>4, WhenReading
<1>6. r = [pc |-> pc, from |-> o.from, to |-> o.to, seen |-> o.seen, mi |-> o.mi, key |-> o.key,
           a |-> o.a, tail |-> o.tail, read |-> o.read]
  <2>1. Reading(o, stored) BY <1>5
  <2>2. r = ToPc(o, pc) BY DEF ToPc
  <2> HIDE DEF r
  <2> QED BY ONLY <2>1, <2>2, RewrittenPc
<1>7. r.pc = pc /\ r.from = o.from /\ r.to = o.to /\ r.seen = o.seen /\ r.mi = o.mi /\ r.key = o.key
      /\ r.a = o.a /\ r.tail = o.tail /\ r.read = o.read
  BY <1>6
<1> HIDE DEF r
<1>8. Reading(r, stored) BY <1>5, <1>6, <1>7 DEF Reading
<1>9. QueryOK(r, Content, stored, tick, suffix) BY <1>5, <1>7, <1>8 DEF QueryOK, pc
<1> QED BY <1>1, <1>2, <1>9, ReadKept

\* The metainfo is stored again without the dangling key.
LEMMA DropDanglingKept ==
  ASSUME RollupInv, NEW q \in Queriers, DropDangling(q)
  PROVE  RollupInv'
<1> DEFINE o == query[q]
           none == <<>>
           eval == "eval"
           zero == 0
           r == [o EXCEPT !.pc = eval, !.mi = none, !.key = zero]
           mi == remove_key(o.mi, o.key)
<1>1. query' = [query EXCEPT ![q] = r] /\ UNCHANGED <<tick, stored, ingested, suffix>> BY DEF DropDangling
<1>2. o.pc = "dangling" /\ insert(curr, prev, MetaKey, mi) BY DEF DropDangling
<1>3. QueryOK(o, Content, stored, tick, suffix) /\ suffix \in Nat BY QueryFacts
<1> HIDE DEF o, none, eval, zero
<1>4. Reading(o, stored) /\ MetaOK(o.mi, Content, suffix) /\ o.key \in 1..suffix /\ o.a = <<>> /\ o.tail = o.from
  BY <1>2, <1>3, WhenReading
<1>5. r = [pc |-> eval, from |-> o.from, to |-> o.to, seen |-> o.seen, mi |-> none, key |-> zero,
           a |-> o.a, tail |-> o.tail, read |-> o.read]
  <2>1. Reading(o, stored) BY <1>4
  <2>2. r = ToEval(o, eval, none, zero) BY DEF ToEval
  <2> HIDE DEF r
  <2> QED BY ONLY <2>1, <2>2, RewrittenEval
<1>6. r.pc = "eval" /\ r.from = o.from /\ r.to = o.to /\ r.seen = o.seen /\ r.mi = none /\ r.key = zero
      /\ r.a = <<>> /\ r.tail = o.from /\ r.read = o.read
  BY <1>4, <1>5 DEF eval
<1>7. MetaOK(mi, Content, suffix) BY <1>4, KeyRemoved
<1>8. Content' \subseteq Content \cup {<<MetaKey, mi>>}
  <2> HIDE DEF mi
  <2> QED BY <1>2, InsertHolds
<1> HIDE DEF r, mi
<1>9. Reading(r, stored) BY <1>4, <1>5, <1>6 DEF Reading
<1>10. r.from \in Nat BY <1>9, OnGrid DEF Reading
<1>11. FromCache(r) = {} BY <1>6, <1>9, NoneBefore DEF Reading
<1>12. Final(r.a, FromCache(r), stored, tick) BY <1>6, <1>11, NothingYet
<1>13. QueryOK(r, Content', stored, tick, suffix') BY <1>6, <1>9, <1>10, <1>12 DEF QueryOK
<1>14. suffix' \in suffix..MaxBlobs /\ MetaKey \in 0..suffix' /\ MetaKey \notin 1..suffix
  BY <1>1, <1>3, RollupAssumption DEF MetaKey, RollupInv, ClockOK
<1> QED BY <1>1, <1>7, <1>8, <1>13, <1>14, StepKept

\* The points of a blob inside a request are those before the next point of the grid.
LEMMA CutOfBlob ==
  ASSUME NEW b, b.from \in Grid, b.to \in Grid, NEW from \in Grid, NEW to \in Grid, b.from <= from,
         Points(from, Min({to, b.to})) # {}
  PROVE  LET cut == Points(from, Min({to, b.to}))
         IN  /\ cut \subseteq Points(b.from, b.to) /\ NewStart(Max(cut)) \in Nat /\ from <= NewStart(Max(cut))
             /\ {p \in Points(from, to) : p < NewStart(Max(cut))} = cut
<1> DEFINE low == Min({to, b.to})
           cut == Points(from, low)
           m == Max(cut)
<1>1. from \in Nat /\ to \in Nat /\ b.from \in Nat /\ b.to \in Nat /\ Step \in Nat \ {0} BY OnGrid, RollupAssumption
<1>2. low \in {to, b.to} /\ low <= to /\ low <= b.to BY <1>1, Smaller
<1> HIDE DEF low
<1>3. cut \in SUBSET Grid /\ cut # {} BY OnGrid DEF low
<1>4. m \in cut /\ m \in Grid /\ m \in Nat /\ \A p \in cut : p <= m
  <2> HIDE DEF cut
  <2> QED BY <1>3, LastPoint, OnGrid
<1> HIDE DEF m
<1>5. low \in Nat /\ m <= low /\ from <= m BY <1>1, <1>2, <1>4 DEF Points
<1>6. cut \subseteq Points(b.from, b.to)
  <2> SUFFICES ASSUME NEW p \in cut PROVE b.from <= p /\ p <= b.to BY DEF Points
  <2>1. p \in Nat /\ from <= p /\ p <= low BY OnGrid DEF Points
  <2> QED BY <1>1, <1>2, <1>5, <2>1
<1>7. ASSUME NEW p \in Grid PROVE (p \in Points(from, to) /\ p < m + Step) <=> p \in cut
  <2>1. p \in Nat BY OnGrid
  <2>2. p < m + Step <=> p <= m
    <3>1. p < m + Step => p <= m BY <1>4, OnGrid
    <3>2. p <= m => p < m + Step BY <1>1, <1>4, <2>1
    <3> QED BY <3>1, <3>2
  <2>3. p \in cut => p <= m BY <1>4
  <2>4. p \in cut <=> from <= p /\ p <= low BY DEF Points
  <2>5. p \in Points(from, to) <=> from <= p /\ p <= to BY DEF Points
  <2>6. (from <= p /\ p <= to /\ p <= m) <=> (from <= p /\ p <= low)
    <3>1. p <= m => p <= low BY <1>4, <1>5, <2>1
    <3>2. p <= low => p <= to BY <1>1, <1>2, <1>5, <2>1
    <3> QED BY <3>1, <3>2, <2>3, <2>4
  <2> QED BY <2>2, <2>4, <2>5, <2>6
<1>8. {p \in Points(from, to) : p < m + Step} = cut
  <2>1. \A p \in cut : p \in Grid BY <1>3
  <2>2. \A p \in Points(from, to) : p \in Grid BY OnGrid
  <2> HIDE DEF cut
  <2> QED BY <1>7, <2>1, <2>2
<1>9. m + Step \in Nat /\ from <= m + Step BY <1>1, <1>4, <1>5
<1> QED BY <1>6, <1>8, <1>9 DEF NewStart, low, m

\* A part of final points is final.
LEMMA FinalPart ==
  ASSUME NEW tss, NEW P, NEW Q \in SUBSET P, NEW st, NEW t, Final(tss, P, st, t)
  PROVE  Final([s \in DOMAIN tss |-> Restrict(tss[s], Q)], Q, st, t)
<1> DEFINE a == [s \in DOMAIN tss |-> Restrict(tss[s], Q)]
<1>1. DOMAIN a = DOMAIN tss /\ \A s \in DOMAIN a : DOMAIN a[s] = Q /\ \A p \in Q : a[s][p] = tss[s][p] BY DEF Restrict
<1> HIDE DEF a
<1>2. \A s \in RolledSeries, p \in Q : At(a, s, p) = At(tss, s, p) BY <1>1 DEF At
<1>3. Final(a, Q, st, t) BY <1>1, <1>2 DEF Final
<1> QED BY <1>3 DEF a

\* The cached part of an answer is read.
LEMMA ReadBlobKept ==
  ASSUME RollupInv, NEW q \in Queriers, ReadBlob(q)
  PROVE  RollupInv'
<1> DEFINE o == query[q]
           b == Value(o.key)
           cut == Points(o.from, Min({o.to, b.to}))
           hit == b.from <= o.from /\ cut # {}
           none == <<>>
           zero == 0
           a == IF hit THEN [s \in DOMAIN b.tss |-> Restrict(b.tss[s], cut)] ELSE none
           tail == IF hit THEN NewStart(Max(cut)) ELSE o.from
           pc == IF hit /\ NewStart(Max(cut)) > o.to THEN "hit" ELSE "eval"
           r == [o EXCEPT !.a = a, !.tail = tail, !.pc = pc, !.mi = none, !.key = zero]
<1>1. query' = [query EXCEPT ![q] = r] /\ UNCHANGED <<tick, stored, ingested, suffix>> BY DEF ReadBlob
<1>2. o.pc = "blob" /\ Cached(o.key) /\ Touch(o.key) BY DEF ReadBlob
<1>3. <<o.key, b>> \in Content /\ Content' \subseteq Content BY <1>2, LookUp
<1>4. QueryOK(o, Content, stored, tick, suffix) /\ suffix \in Nat BY QueryFacts
<1> HIDE DEF o, b
<1>5. Reading(o, stored) /\ o.key \in 1..suffix BY <1>2, <1>4, WhenReading
<1>6. BlobOK(b, stored, tick)
  <2>1. CacheOK(Content, stored, tick, suffix) BY DEF RollupInv
  <2>2. o.key # 0 BY <1>4, <1>5
  <2>3. <<o.key, b>>[1] = o.key /\ <<o.key, b>>[2] = b OBVIOUS
  <2> QED BY <1>3, <2>1, <2>2, <2>3 DEF CacheOK, MetaKey
<1>7. o.from \in Grid /\ o.to \in Grid /\ o.from \in Nat /\ o.to \in Nat /\ b.from \in Grid /\ b.to \in Grid
  BY <1>5, <1>6, OnGrid DEF Reading, BlobOK
<1>8. pc \in {"eval", "hit"} /\ (pc = "hit" => tail > o.to) OBVIOUS
<1>9. tail \in Nat /\ o.from <= tail /\ Final(a, {p \in Points(o.from, o.to) : p < tail}, stored, tick)
  <2>1. CASE hit
    <3>1. /\ cut \subseteq Points(b.from, b.to) /\ tail \in Nat /\ o.from <= tail
          /\ {p \in Points(o.from, o.to) : p < tail} = cut
      BY <1>7, <2>1, CutOfBlob
    <3>2. Final(b.tss, Points(b.from, b.to), stored, tick) BY <1>6 DEF BlobOK
    <3>3. a = [s \in DOMAIN b.tss |-> Restrict(b.tss[s], cut)] BY <2>1
    <3> HIDE DEF cut, a
    <3>4. Final(a, cut, stored, tick) BY <3>1, <3>2, <3>3, FinalPart
    <3> QED BY <3>1, <3>4
  <2>2. CASE ~hit
    <3>1. a = <<>> /\ tail = o.from BY <2>2
    <3> HIDE DEF a, tail
    <3>2. {p \in Points(o.from, o.to) : p < tail} = {}
      <4> SUFFICES ASSUME NEW p \in Points(o.from, o.to) PROVE ~(p < o.from) BY <3>1
      <4>1. p \in Nat /\ o.from <= p BY OnGrid DEF Points
      <4> QED BY <1>7, <4>1
    <3> QED BY <1>7, <3>1, <3>2, NothingYet
  <2> QED BY <2>1, <2>2
<1> HIDE DEF a, tail, pc, none, zero
<1>10. r = [pc |-> pc, from |-> o.from, to |-> o.to, seen |-> o.seen, mi |-> none, key |-> zero,
            a |-> a, tail |-> tail, read |-> o.read]
  <2>1. Reading(o, stored) BY <1>5
  <2>2. r = ToHit(o, a, tail, pc, none, zero) BY DEF ToHit
  <2> HIDE DEF r
  <2> QED BY ONLY <2>1, <2>2, RewrittenHit
<1>11. r.pc = pc /\ r.from = o.from /\ r.to = o.to /\ r.seen = o.seen /\ r.mi = none /\ r.key = zero
       /\ r.a = a /\ r.tail = tail /\ r.read = o.read
  BY <1>10
<1> HIDE DEF r
<1>12. Reading(r, stored) BY <1>5, <1>10, <1>11 DEF Reading
<1>13. Final(r.a, FromCache(r), stored, tick) BY <1>9, <1>11 DEF FromCache
<1>14. QueryOK(r, Content, stored, tick, suffix) BY <1>8, <1>9, <1>11, <1>12, <1>13 DEF QueryOK
<1> QED BY <1>1, <1>3, <1>14, ReadKept

\* The series that a search finds say what is stored.
LEMMA EvaluatedIs ==
  ASSUME NEW from, NEW to
  PROVE  LET b == Evaluated(from, to)
         IN  /\ DOMAIN b \subseteq RolledSeries
             /\ \A s \in RolledSeries, p \in Points(from, to) : At(b, s, p) = stored[s][p]
<1> DEFINE b == Evaluated(from, to)
           found == {s \in RolledSeries : \E p \in Points(from, to) : stored[s][p] # 0}
<1>1. DOMAIN b = found /\ \A s \in found : \A p \in Points(from, to) : b[s][p] = stored[s][p]
  BY DEF Evaluated, Restrict
<1>2. ASSUME NEW s \in RolledSeries, NEW p \in Points(from, to) PROVE At(b, s, p) = stored[s][p]
  <2>1. CASE s \in found
    <3> HIDE DEF b, found
    <3> QED BY <1>1, <2>1 DEF At
  <2>2. CASE s \notin found
    <3>1. stored[s][p] = 0 BY <2>2
    <3> HIDE DEF b, found
    <3> QED BY <1>1, <2>2, <3>1 DEF At
  <2> QED BY <2>1, <2>2
<1> QED BY <1>1, <1>2

\* The two sides of an answer, merged.
LEMMA Merged ==
  ASSUME NEW a, NEW b, NEW tail \in Nat, NEW from, NEW to,
         DOMAIN a \subseteq RolledSeries, DOMAIN b \subseteq RolledSeries
  PROVE  LET m == merge_series(a, b, tail, from, to)
         IN  /\ DOMAIN m \subseteq RolledSeries
             /\ \A s \in DOMAIN m : DOMAIN m[s] = Points(from, to)
             /\ \A s \in RolledSeries, p \in Points(from, to) :
                  At(m, s, p) = IF p < tail THEN At(a, s, p) ELSE At(b, s, p)
<1> DEFINE m == merge_series(a, b, tail, from, to)
           SideOf(p) == IF p < tail THEN a ELSE b
<1>1. m = [s \in DOMAIN a \cup DOMAIN b |->
             [p \in Points(from, to) |-> IF s \in DOMAIN SideOf(p) THEN SideOf(p)[s][p] ELSE 0]]
  BY DEF merge_series
<1>2. DOMAIN m = DOMAIN a \cup DOMAIN b /\ \A s \in DOMAIN m : DOMAIN m[s] = Points(from, to) BY <1>1
<1>3. ASSUME NEW s \in RolledSeries, NEW p \in Points(from, to)
      PROVE  At(m, s, p) = IF p < tail THEN At(a, s, p) ELSE At(b, s, p)
  <2>1. CASE s \in DOMAIN m
    <3>1. m[s][p] = IF s \in DOMAIN SideOf(p) THEN SideOf(p)[s][p] ELSE 0 BY <1>1, <1>2, <2>1
    <3> HIDE DEF m
    <3>2. CASE p < tail BY <2>1, <3>1, <3>2 DEF At
    <3>3. CASE ~(p < tail) BY <2>1, <3>1, <3>3 DEF At
    <3> QED BY <3>2, <3>3
  <2>2. CASE s \notin DOMAIN m
    <3>1. s \notin DOMAIN a /\ s \notin DOMAIN b BY <1>2, <2>2
    <3> HIDE DEF m
    <3> QED BY <2>2, <3>1 DEF At
  <2> QED BY <2>1, <2>2
<1> QED BY <1>2, <1>3

\* The rest of the answer is read, and merged with what was cached.
LEMMA EvalTailKept ==
  ASSUME RollupInv, NEW q \in Queriers, EvalTail(q)
  PROVE  RollupInv'
<1> DEFINE o == query[q]
           b == Evaluated(o.tail, o.to)
           a == merge_series(o.a, b, o.tail, o.from, o.to)
           put == "put"
           r == [o EXCEPT !.a = a, !.read = tick, !.pc = put]
           P == Points(o.from, o.to)
<1>1. query' = [query EXCEPT ![q] = r] /\ UNCHANGED <<tick, stored, ingested, suffix>> BY DEF EvalTail
<1>2. o.pc = "eval" BY DEF EvalTail
<1>3. Content' \subseteq Content BY DEF EvalTail, cacheVars, Content
<1>4. /\ QueryOK(o, Content, stored, tick, suffix) /\ tick \in Nat
      /\ \A s \in RolledSeries, p \in Grid : stored[s][p] \in Nat
  BY QueryFacts
<1> HIDE DEF o, put
<1>5. Reading(o, stored) /\ o.tail \in Nat /\ o.from <= o.tail /\ Final(o.a, FromCache(o), stored, tick)
  BY <1>2, <1>4, WhenReading
<1>6. /\ DOMAIN b \subseteq RolledSeries
      /\ \A s \in RolledSeries, p \in Points(o.tail, o.to) : At(b, s, p) = stored[s][p]
  BY EvaluatedIs
<1>7. DOMAIN o.a \subseteq RolledSeries /\ \A s \in RolledSeries, p \in FromCache(o) : At(o.a, s, p) = stored[s][p]
  BY <1>5 DEF Final
<1> HIDE DEF b
<1>8. /\ DOMAIN a \subseteq RolledSeries
      /\ \A s \in DOMAIN a : DOMAIN a[s] = P
      /\ \A s \in RolledSeries, p \in P :
           At(a, s, p) = IF p < o.tail THEN At(o.a, s, p) ELSE At(b, s, p)
  BY <1>5, <1>6, <1>7, Merged
<1> HIDE DEF a
<1>9. ASSUME NEW s \in RolledSeries, NEW p \in P PROVE At(a, s, p) = stored[s][p]
  <2>1. CASE p < o.tail
    <3>1. p \in FromCache(o) BY <2>1 DEF FromCache
    <3> QED BY <1>7, <1>8, <2>1, <3>1
  <2>2. CASE ~(p < o.tail)
    <3>1. p \in Grid /\ p \in Nat /\ p <= o.to BY OnGrid DEF Points
    <3>2. p \in Points(o.tail, o.to) BY <1>5, <2>2, <3>1 DEF Points
    <3>3. At(b, s, p) = stored[s][p] BY <1>6, <3>2
    <3> QED BY <1>8, <2>2, <3>3
  <2> QED BY <2>1, <2>2
<1>10. r = [pc |-> put, from |-> o.from, to |-> o.to, seen |-> o.seen, mi |-> o.mi, key |-> o.key,
            a |-> a, tail |-> o.tail, read |-> tick]
  <2>1. Reading(o, stored) BY <1>5
  <2>2. r = ToPut(o, a, tick, put) BY DEF ToPut
  <2> HIDE DEF r
  <2> QED BY ONLY <2>1, <2>2, RewrittenPut
<1>11. r.pc = "put" /\ r.from = o.from /\ r.to = o.to /\ r.seen = o.seen /\ r.mi = o.mi /\ r.key = o.key
       /\ r.a = a /\ r.tail = o.tail /\ r.read = tick
  BY <1>10 DEF put
<1> HIDE DEF r
<1>12. Reading(r, stored) BY <1>5, <1>10, <1>11 DEF Reading, put
<1>13. Answer(r, stored, tick)
  <2>1. ASSUME NEW s \in RolledSeries, NEW p \in P
        PROVE  /\ At(a, s, p) \in Nat /\ r.seen[s][p] <= At(a, s, p) /\ At(a, s, p) <= stored[s][p]
    <3>1. p \in Grid BY OnGrid
    <3>2. At(a, s, p) = stored[s][p] /\ stored[s][p] \in Nat BY <1>4, <1>9, <3>1
    <3>3. r.seen[s][p] \in Nat /\ r.seen[s][p] <= stored[s][p] BY <1>12, <3>1 DEF Reading
    <3> QED BY <3>2, <3>3
  <2>2. tick <= tick /\ tick <= tick + QueryTicks BY <1>4, RollupAssumption
  <2> QED BY <1>4, <1>8, <1>9, <1>11, <2>1, <2>2 DEF Answer
<1>14. QueryOK(r, Content, stored, tick, suffix) BY <1>11, <1>12, <1>13 DEF QueryOK
<1> QED BY <1>1, <1>3, <1>14, ReadKept

\* Points at a deadline are so old that no sample came to them since the data was read.
LEMMA StorableFinal ==
  ASSUME RollupInv, NEW o, Reading(o, stored), Answer(o, stored, tick), QueryTicks < Step,
         Storable(o) # {}
  PROVE  /\ Max(Storable(o)) \in Grid /\ Storable(o) = Points(o.from, Max(Storable(o)))
         /\ Final([s \in DOMAIN o.a |-> Restrict(o.a[s], Storable(o))], Storable(o), stored, tick)
<1> DEFINE fin == Storable(o)
           last == Max(fin)
           d == Deadline
           P == Points(o.from, o.to)
           tss == [s \in DOMAIN o.a |-> Restrict(o.a[s], fin)]
<1>1. tick \in Nat /\ Step \in Nat /\ CacheOffset \in Nat /\ QueryTicks \in Nat
  BY RollupAssumption DEF RollupInv, ClockOK
<1>2. d = tick - Step - CacheOffset /\ d \in Int BY <1>1 DEF Deadline
<1>3. fin = {p \in P : p <= d} /\ P \in SUBSET Grid BY OnGrid DEF Storable
<1>4. o.from \in Nat /\ o.to \in Nat BY OnGrid DEF Reading
<1> HIDE DEF fin, d
<1>5. last \in fin /\ last \in Grid /\ \A p \in fin : p <= last BY <1>3, LastPoint DEF fin
<1>6. last \in Nat /\ last <= o.to /\ last <= d BY <1>3, <1>5, OnGrid DEF Points
<1> HIDE DEF last
<1>7. ASSUME NEW p \in Grid PROVE p \in fin <=> p \in Points(o.from, last)
  <2>1. p \in Nat BY OnGrid
  <2>2. p \in P <=> o.from <= p /\ p <= o.to BY DEF Points
  <2>3. p \in Points(o.from, last) <=> o.from <= p /\ p <= last BY DEF Points
  <2>4. p \in fin => p <= last BY <1>5
  <2>5. p <= last => p <= o.to /\ p <= d BY <1>2, <1>4, <1>6, <2>1
  <2>6. p \in fin <=> p \in P /\ p <= d BY <1>3
  <2> QED BY <2>2, <2>3, <2>4, <2>5, <2>6
<1>8. fin = Points(o.from, last)
  <2>1. fin \subseteq Grid BY <1>3
  <2>2. Points(o.from, last) \subseteq Grid BY OnGrid
  <2> QED BY <1>7, <2>1, <2>2
<1>9. ASSUME NEW p \in fin PROVE p \in P /\ p + CacheOffset < o.read /\ p + CacheOffset < tick
  <2>1. p \in Nat /\ p \in P /\ p <= d BY <1>3, OnGrid
  <2>2. o.read \in Nat /\ o.read <= tick /\ tick <= o.read + QueryTicks BY DEF Answer
  <2> QED BY <1>1, <1>2, <2>1, <2>2
<1>10. DOMAIN o.a \subseteq RolledSeries BY DEF Answer
<1>11. \A s \in RolledSeries, p \in fin : At(o.a, s, p) = stored[s][p] BY <1>9 DEF Answer
<1>12. DOMAIN tss = DOMAIN o.a /\ \A s \in DOMAIN o.a : DOMAIN tss[s] = fin /\ \A p \in fin : tss[s][p] = o.a[s][p]
  BY DEF Restrict
<1> HIDE DEF tss
<1>13. \A s \in RolledSeries, p \in fin : At(tss, s, p) = At(o.a, s, p) BY <1>12 DEF At
<1>14. Final(tss, fin, stored, tick) BY <1>9, <1>10, <1>11, <1>12, <1>13 DEF Final
<1> QED BY <1>5, <1>8, <1>14 DEF tss, fin, last

\* The final points of an answer are to be stored, or nothing is.
LEMMA PutSeriesKept ==
  ASSUME RollupInv, QueryTicks < Step, NEW q \in Queriers, put_series(q)
  PROVE  RollupInv'
<1> DEFINE o == query[q]
           mi == IF Cached(MetaKey) THEN Value(MetaKey) ELSE <<>>
           fin == Storable(o)
           new == /\ o.a # <<>> /\ fin # {}
                  /\ \A i \in DOMAIN mi : ~Covers(mi[i], o.from, Max(fin))
           r == [pc |-> "store", mi |-> mi, read |-> o.read, from |-> o.from, last |-> Max(fin),
                 to |-> EntryEnd(o), tss |-> [s \in DOMAIN o.a |-> Restrict(o.a[s], fin)]]
<1>1. query' = [query EXCEPT ![q] = IF ~new THEN NoQuery ELSE r] /\ UNCHANGED <<tick, stored, ingested, suffix>>
  BY DEF put_series
<1>2. o.pc = "put" BY DEF put_series
<1>3. Content' \subseteq Content
  <2>1. CASE Cached(MetaKey) /\ Touch(MetaKey) BY <2>1, LookUp
  <2>2. CASE UNCHANGED cacheVars BY <2>2 DEF cacheVars, Content
  <2> QED BY <2>1, <2>2 DEF put_series
<1>4. CASE ~new
  <2>1. query' = [query EXCEPT ![q] = NoQuery] BY <1>1, <1>4
  <2> QED BY <1>1, <1>3, <2>1, EndKept
<1>5. CASE new
  <2>1. query' = [query EXCEPT ![q] = r] BY <1>1, <1>5
  <2>2. QueryOK(o, Content, stored, tick, suffix) BY QueryFacts
  <2>3. MetaOK(mi, Content, suffix) BY MetaRead
  <2>4. fin # {} BY <1>5
  <2> HIDE DEF o, mi, new
  <2>5. Reading(o, stored) /\ Answer(o, stored, tick) BY <1>2, <2>2, WhenReading
  <2> DEFINE tss == [s \in DOMAIN o.a |-> Restrict(o.a[s], fin)]
             last == Max(fin)
  <2>6. last \in Grid /\ fin = Points(o.from, last) /\ Final(tss, fin, stored, tick)
    BY <2>4, <2>5, StorableFinal
  <2>7. EntryEnd(o) = last BY DEF EntryEnd
  <2>8. o.from \in Grid BY <2>5 DEF Reading
  <2> HIDE DEF tss, last, fin
  <2>9. r = [pc |-> "store", mi |-> mi, read |-> o.read, from |-> o.from, last |-> last, to |-> last, tss |-> tss]
    BY <2>7 DEF tss, last
  <2>10. r.pc = "store" /\ r.mi = mi /\ r.read = o.read /\ r.from = o.from /\ r.last = last /\ r.to = last /\ r.tss = tss
    BY <2>9
  <2> HIDE DEF r
  <2>11. Final(r.tss, Points(r.from, r.last), stored, tick) BY <2>6, <2>10
  <2>12. r = [pc |-> "store", mi |-> r.mi, read |-> r.read, from |-> r.from, last |-> r.last, to |-> r.to, tss |-> r.tss]
    BY <2>9, <2>10
  <2>13. QueryOK(r, Content, stored, tick, suffix) BY <2>3, <2>6, <2>8, <2>10, <2>11, <2>12 DEF QueryOK
  <2> QED BY <1>1, <1>3, <2>1, <2>13, ReadKept
<1> QED BY <1>4, <1>5

\* A blob goes in under a new key.
LEMMA StoreBlobKept ==
  ASSUME RollupInv, NEW q \in Queriers, StoreBlob(q)
  PROVE  RollupInv'
<1> DEFINE o == query[q]
           k == suffix + 1
           b == [from |-> o.from, to |-> o.last, tss |-> o.tss]
           e == [from |-> o.from, to |-> o.to, key |-> k]
           r == [pc |-> "name", mi |-> o.mi, read |-> o.read, entry |-> e]
<1>1. query' = [query EXCEPT ![q] = r] /\ UNCHANGED <<tick, stored, ingested>> /\ suffix' = k
      /\ suffix < MaxBlobs /\ o.pc = "store"
  BY DEF StoreBlob
<1>2. insert(curr, prev, k, b) BY DEF StoreBlob
<1>3. QueryOK(o, Content, stored, tick, suffix) /\ suffix \in Nat BY QueryFacts
<1>4. CacheOK(Content, stored, tick, suffix) BY DEF RollupInv
<1>5. k \in 0..k /\ k \notin 1..suffix /\ k # MetaKey /\ suffix' \in suffix..MaxBlobs /\ k \in 1..k /\ k \in Nat
      /\ suffix <= k
  BY <1>1, <1>3, RollupAssumption DEF MetaKey
<1> HIDE DEF o, k
<1>6. /\ MetaOK(o.mi, Content, suffix) /\ o.to = o.last /\ o.from \in Grid /\ o.last \in Grid
      /\ Final(o.tss, Points(o.from, o.last), stored, tick)
  BY <1>1, <1>3, WhenReading
<1>7. b.from = o.from /\ b.to = o.last /\ b.tss = o.tss OBVIOUS
<1>8. e \in EntryType /\ e.key = k /\ e.from = o.from /\ e.to = o.to BY <1>5, <1>6 DEF EntryType
<1> HIDE DEF b, e
<1>9. BlobOK(b, stored, tick) BY <1>6, <1>7 DEF BlobOK
<1>10. Content' \subseteq Content \cup {<<k, b>>} BY <1>2, InsertHolds
<1>11. e \in Entries(Content', k)
  <2> SUFFICES ASSUME NEW x \in Content', x[1] = k PROVE x[2].from = o.from /\ x[2].to = o.to
    BY <1>5, <1>8 DEF Entries, Names
  <2>1. x \notin Content
    <3>1. x \in Content => x[1] \in 0..suffix BY <1>4 DEF CacheOK
    <3> QED BY <1>3, <3>1 DEF k
  <2>2. x = <<k, b>> BY <1>10, <2>1
  <2>3. x[2] = b BY <2>2
  <2> QED BY <1>6, <1>7, <2>3
<1>12. MetaOK(o.mi, Content', k) BY <1>3, <1>5, <1>6, <1>10, Grows
<1>13. r.pc = "name" /\ r.mi = o.mi /\ r.read = o.read /\ r.entry = e
       /\ r = [pc |-> "name", mi |-> r.mi, read |-> r.read, entry |-> r.entry]
  OBVIOUS
<1> HIDE DEF r
<1>14. QueryOK(r, Content', stored, tick, k) BY <1>11, <1>12, <1>13 DEF QueryOK
<1> QED BY <1>1, <1>5, <1>9, <1>10, <1>14, StepKept

\* The metainfo is stored with the new entry.
LEMMA NameBlobKept ==
  ASSUME RollupInv, NEW q \in Queriers, NameBlob(q)
  PROVE  RollupInv'
<1> DEFINE o == query[q]
           mi == add_key(o.mi, o.entry)
           r == NoQuery
<1>1. query' = [query EXCEPT ![q] = r] /\ UNCHANGED <<tick, stored, ingested, suffix>> /\ o.pc = "name"
      /\ insert(curr, prev, MetaKey, mi)
  BY DEF NameBlob
<1>2. QueryOK(o, Content, stored, tick, suffix) /\ suffix \in Nat /\ suffix \in 0..MaxBlobs
  BY QueryFacts DEF RollupInv, ClockOK
<1> HIDE DEF o
<1>3. MetaOK(o.mi, Content, suffix) /\ o.entry \in Entries(Content, suffix) BY <1>1, <1>2, WhenReading
<1>4. MetaOK(mi, Content, suffix) BY <1>3, KeyAdded
<1> HIDE DEF mi
<1>5. Content' \subseteq Content \cup {<<MetaKey, mi>>} BY <1>1, InsertHolds
<1>6. suffix' \in suffix..MaxBlobs /\ MetaKey \in 0..suffix' /\ MetaKey \notin 1..suffix
  BY <1>1, <1>2, RollupAssumption DEF MetaKey
<1>7. QueryOK(r, Content', stored, tick, suffix') BY DEF QueryOK
<1> HIDE DEF r
<1> QED BY <1>1, <1>4, <1>5, <1>6, <1>7, StepKept

----------------------------------------------------------------------------
(* RollupCache: the clock and the samples.                                 *)

\* Time passes and samples come, not to points that are too old.
LEMMA LaterKept ==
  ASSUME RollupInv, UNCHANGED <<cacheVars, suffix, query>>, ClockOK', tick <= tick',
         \A s \in RolledSeries, p \in Grid : p + CacheOffset < tick => stored'[s][p] = stored[s][p],
         \A s \in RolledSeries, p \in Grid : stored[s][p] <= stored'[s][p],
         \A q \in Queriers : query[q].pc = "put" => tick' <= query[q].read + QueryTicks
  PROVE  RollupInv'
<1>1. /\ ClockOK /\ CacheOK(Content, stored, tick, suffix)
      /\ \A q \in Queriers : QueryOK(query[q], Content, stored, tick, suffix)
  BY DEF RollupInv
<1>2. Content' = Content /\ suffix' = suffix /\ query' = query BY DEF cacheVars, Content
<1>3. tick \in Nat /\ tick' \in Nat BY <1>1 DEF ClockOK
<1>4. \A s \in RolledSeries, p \in Grid : stored[s][p] \in Nat /\ stored'[s][p] \in Nat
  <2>1. /\ stored \in [RolledSeries -> [Grid -> 0..ingested]] /\ ingested \in Nat
        /\ stored' \in [RolledSeries -> [Grid -> 0..ingested']] /\ ingested' \in Nat
    BY <1>1 DEF ClockOK
  <2>2. ASSUME NEW s \in RolledSeries, NEW p \in Grid
        PROVE  stored[s][p] \in 0..ingested /\ stored'[s][p] \in 0..ingested'
    BY <2>1
  <2> QED BY <2>1, <2>2
<1>5. /\ \A b : BlobOK(b, stored, tick) => BlobOK(b, stored', tick')
      /\ \A r : QueryOK(r, Content, stored, tick, suffix) /\ (r.pc = "put" => tick' <= r.read + QueryTicks)
                  => QueryOK(r, Content, stored', tick', suffix)
  BY <1>3, <1>4, TimePasses
<1>6. CacheOK(Content, stored', tick', suffix) BY <1>1, <1>5 DEF CacheOK
<1>7. CacheOK(Content, stored, tick, suffix)' BY <1>2, <1>6
<1>8. ASSUME NEW q \in Queriers PROVE QueryOK(query[q], Content, stored, tick, suffix)'
  <2>1. QueryOK(query[q], Content, stored', tick', suffix) BY <1>1, <1>5
  <2> QED BY <1>2, <2>1
<1> QED BY <1>7, <1>8 DEF RollupInv

\* A sample comes, no later than CacheOffset.
LEMMA IngestKept ==
  ASSUME RollupInv, ~Backfill, NEW s \in RolledSeries, NEW p \in Grid, Ingest(s, p)
  PROVE  RollupInv'
<1> DEFINE n == ingested + 1
<1>1. /\ ingested \in Nat /\ ingested \in 0..MaxIngested /\ tick \in 0..MaxTicks /\ suffix \in 0..MaxBlobs
      /\ stored \in [RolledSeries -> [Grid -> 0..ingested]] /\ query = [x \in Queriers |-> query[x]]
  BY DEF RollupInv, ClockOK
<1>2. /\ ingested < MaxIngested /\ tick <= p + CacheOffset /\ ingested' = n
      /\ stored' = [stored EXCEPT ![s][p] = n] /\ UNCHANGED <<tick, cacheVars, suffix, query>>
  BY DEF Ingest
<1>3. n \in Nat /\ n \in 0..MaxIngested /\ ingested <= n /\ 0..ingested \subseteq 0..n /\ n \in 0..n
  BY <1>1, <1>2, RollupAssumption
<1> HIDE DEF n
<1>4. ASSUME NEW x \in RolledSeries, NEW y \in Grid
      PROVE  /\ stored[x][y] \in 0..ingested
             /\ (x = s /\ y = p) \/ stored'[x][y] = stored[x][y]
             /\ x = s /\ y = p => stored'[x][y] = n
  <2>1. stored[x] \in [Grid -> 0..ingested] BY <1>1
  <2>2. CASE x = s
    <3>1. stored'[x] = [stored[s] EXCEPT ![p] = n] BY <1>1, <1>2, <2>2
    <3> QED BY <2>1, <2>2, <3>1
  <2>3. CASE x # s
    <3>1. stored'[x] = stored[x] BY <1>1, <1>2, <2>3
    <3> QED BY <2>1, <2>3, <3>1
  <2> QED BY <2>2, <2>3
<1>5. stored' \in [RolledSeries -> [Grid -> 0..n]]
  <2>1. ASSUME NEW x \in RolledSeries PROVE stored'[x] \in [Grid -> 0..n]
    <3>1. stored[x] \in [Grid -> 0..n] /\ stored[s] \in [Grid -> 0..n] BY <1>1, <1>3
    <3>2. CASE x = s
      <4>1. stored'[x] = [stored[s] EXCEPT ![p] = n] BY <1>1, <1>2, <3>2
      <4> QED BY <1>3, <3>1, <4>1
    <3>3. CASE x # s
      <4>1. stored'[x] = stored[x] BY <1>1, <1>2, <3>3
      <4> QED BY <3>1, <4>1
    <3> QED BY <3>2, <3>3
  <2>2. DOMAIN stored' = RolledSeries /\ stored' = [x \in RolledSeries |-> stored'[x]] BY <1>1, <1>2
  <2> QED BY <2>1, <2>2
<1>6. ClockOK' BY <1>1, <1>2, <1>3, <1>5 DEF ClockOK
<1>7. \A x \in RolledSeries, y \in Grid : y + CacheOffset < tick => stored'[x][y] = stored[x][y]
  <2>1. ~(p + CacheOffset < tick)
    <3>1. p \in Nat /\ CacheOffset \in Nat /\ tick \in Nat BY <1>1, OnGrid, RollupAssumption
    <3> QED BY <1>2, <3>1
  <2> QED BY <1>4, <2>1
<1>8. \A x \in RolledSeries, y \in Grid : stored[x][y] <= stored'[x][y]
  <2> SUFFICES ASSUME NEW x \in RolledSeries, NEW y \in Grid PROVE stored[x][y] <= stored'[x][y] OBVIOUS
  <2>1. stored[x][y] \in Nat /\ stored[x][y] <= n BY <1>3, <1>4
  <2>2. stored'[x][y] = n \/ stored'[x][y] = stored[x][y] BY <1>4
  <2> QED BY <2>1, <2>2
<1>9. tick <= tick' BY <1>1, <1>2
<1>10. \A q \in Queriers : query[q].pc = "put" => tick' <= query[q].read + QueryTicks
  <2> SUFFICES ASSUME NEW q \in Queriers, query[q].pc = "put" PROVE tick <= query[q].read + QueryTicks BY <1>2
  <2>1. QueryOK(query[q], Content, stored, tick, suffix) BY QueryFacts
  <2>2. Answer(query[q], stored, tick) BY <2>1, WhenReading
  <2> QED BY <2>2 DEF Answer
<1> QED BY <1>2, <1>6, <1>7, <1>8, <1>9, <1>10, LaterKept

\* The clock waits for the queries that have their data.
LEMMA ClockTicksKept ==
  ASSUME RollupInv, ClockTicks
  PROVE  RollupInv'
<1>1. /\ tick \in 0..MaxTicks /\ ingested \in 0..MaxIngested /\ ingested \in Nat
      /\ stored \in [RolledSeries -> [Grid -> 0..ingested]] /\ ClockOK
  BY DEF RollupInv, ClockOK
<1>2. tick < MaxTicks /\ tick' = tick + 1 /\ UNCHANGED <<stored, ingested, cacheVars, suffix, query>> BY DEF ClockTicks
<1>3. tick' \in 0..MaxTicks /\ tick <= tick' BY <1>1, <1>2, RollupAssumption
<1>4. ClockOK' BY <1>1, <1>2, <1>3 DEF ClockOK
<1>5. ASSUME NEW s \in RolledSeries, NEW p \in Grid PROVE stored[s][p] <= stored'[s][p] /\ stored'[s][p] = stored[s][p]
  <2>1. stored[s][p] \in 0..ingested BY <1>1
  <2> QED BY <1>1, <1>2, <2>1
<1>6. ASSUME NEW q \in Queriers, query[q].pc = "put" PROVE tick' <= query[q].read + QueryTicks
  <2>1. tick + 1 - query[q].read <= QueryTicks BY <1>6 DEF ClockTicks
  <2>2. QueryOK(query[q], Content, stored, tick, suffix) BY QueryFacts
  <2>3. Answer(query[q], stored, tick) BY <1>6, <2>2, WhenReading
  <2>4. query[q].read \in Nat BY <2>3 DEF Answer
  <2> QED BY <1>1, <1>2, <2>1, <2>4, RollupAssumption
<1> QED BY <1>2, <1>3, <1>4, <1>5, <1>6, LaterKept

----------------------------------------------------------------------------
(* RollupCache: the theorem.                                               *)

\* Nothing is cached at first.
LEMMA RollupStarts ==
  ASSUME RollupInit
  PROVE  RollupInv
<1>1. Content = {} BY DEF RollupInit, Content
<1>2. stored \in [RolledSeries -> [Grid -> 0..ingested]]
  <2>1. NoValues \in [Grid -> 0..0] BY DEF NoValues
  <2> HIDE DEF NoValues
  <2> QED BY <2>1 DEF RollupInit
<1>3. query = [q \in Queriers |-> NoQuery] BY DEF RollupInit
<1>4. ClockOK BY <1>2, <1>3, RollupAssumption DEF RollupInit, ClockOK
<1>5. CacheOK(Content, stored, tick, suffix) BY <1>1 DEF CacheOK
<1>6. \A q \in Queriers : query[q] = NoQuery BY <1>3
<1>7. \A q \in Queriers : QueryOK(query[q], Content, stored, tick, suffix) BY <1>6 DEF QueryOK
<1> QED BY <1>4, <1>5, <1>7 DEF RollupInv

\* Every step keeps the invariant.
LEMMA RollupStep ==
  ASSUME RollupInv, ~Backfill, QueryTicks < Step, [RollupNext]_rollupVars
  PROVE  RollupInv'
<1>1. ASSUME NEW q \in Queriers, FullHit(q) \/ EvalFails(q) PROVE RollupInv'
  <2>1. query' = [query EXCEPT ![q] = NoQuery] /\ UNCHANGED <<tick, stored, ingested, cacheVars, suffix>>
    BY <1>1 DEF FullHit, EvalFails
  <2>2. Content' \subseteq Content BY <2>1 DEF cacheVars, Content
  <2> QED BY <2>1, <2>2, EndKept
<1>2. ASSUME NEW q \in Queriers, NEW x \in Ranges, get_series(q, x[1], x[2]) PROVE RollupInv'
  <2>1. x[1] \in Grid /\ x[2] \in Grid BY DEF Ranges
  <2> QED BY <1>2, <2>1, GetSeriesKept
<1>3. CASE UNCHANGED rollupVars
  <2>1. UNCHANGED <<tick, stored, ingested, curr, prev, suffix, query>> BY <1>3 DEF rollupVars, cacheVars
  <2>2. ClockOK' = ClockOK BY <2>1 DEF ClockOK
  <2>3. Content' = Content BY <2>1 DEF Content
  <2> QED BY <2>1, <2>2, <2>3 DEF RollupInv
<1>4. CASE RollupNext
  BY <1>1, <1>2, <1>4, ReadBlobKept, BlobEvictedKept, DropDanglingKept, EvalTailKept, PutSeriesKept, StoreBlobKept,
     NameBlobKept, IngestKept, ClockTicksKept DEF RollupNext
<1> QED BY <1>3, <1>4

\* What the run checks follows.
LEMMA RollupInvSound ==
  ASSUME RollupInv
  PROVE  RollupSound
<1>1. /\ ClockOK /\ CacheOK(Content, stored, tick, suffix)
      /\ \A q \in Queriers : QueryOK(query[q], Content, stored, tick, suffix)
  BY DEF RollupInv
<1>2. RollupTypeOK
  <2>1. stored \in [RolledSeries -> [Grid -> 0..MaxIngested]]
    <3>1. stored \in [RolledSeries -> [Grid -> 0..ingested]] /\ ingested \in 0..MaxIngested BY <1>1 DEF ClockOK
    <3>2. 0..ingested \subseteq 0..MaxIngested BY <3>1, RollupAssumption
    <3> QED BY <3>1, <3>2
  <2>2. \A q \in Queriers :
          query[q].pc \in {"idle", "blob", "dangling", "hit", "eval", "put", "store", "name"}
    BY <1>1, WhenReading
  <2>3. ASSUME Cached(MetaKey)
        PROVE  LET mi == Value(MetaKey)
               IN  /\ Len(mi) <= MaxEntries
                   /\ \A i \in DOMAIN mi :
                        /\ mi[i].key \in 1..suffix
                        /\ Cached(mi[i].key) =>
                             Value(mi[i].key).from = mi[i].from /\ Value(mi[i].key).to = mi[i].to
    <3> DEFINE mi == Value(MetaKey)
    <3>1. MetaOK(mi, Content, suffix) BY <2>3, MetaRead
    <3> HIDE DEF mi
    <3>2. mi \in Seq(Entries(Content, suffix)) /\ Len(mi) <= MaxEntries BY <3>1 DEF MetaOK
    <3>3. \A i \in DOMAIN mi : mi[i] \in Entries(Content, suffix) BY <3>2
    <3>4. ASSUME NEW i \in DOMAIN mi
          PROVE  /\ mi[i].key \in 1..suffix
                 /\ Cached(mi[i].key) => Value(mi[i].key).from = mi[i].from /\ Value(mi[i].key).to = mi[i].to
      <4> DEFINE e == mi[i]
      <4>1. e.key \in 1..suffix /\ \A x \in Content : x[1] = e.key => x[2].from = e.from /\ x[2].to = e.to
        BY <3>3 DEF Entries, Names
      <4>2. ASSUME Cached(e.key) PROVE Value(e.key).from = e.from /\ Value(e.key).to = e.to
        <5>1. <<e.key, Value(e.key)>> \in Content BY <4>2, LookUp
        <5>2. <<e.key, Value(e.key)>>[1] = e.key /\ <<e.key, Value(e.key)>>[2] = Value(e.key) OBVIOUS
        <5> QED BY <4>1, <5>1, <5>2
      <4> QED BY <4>1, <4>2
    <3> QED BY <3>2, <3>4 DEF mi
  <2> QED BY <1>1, <2>1, <2>2, <2>3 DEF RollupTypeOK, ClockOK
<1>3. CachedPointsFinal
  <2> SUFFICES ASSUME NEW k \in Blobs, NEW p \in Points(Value(k).from, Value(k).to), NEW s \in RolledSeries
               PROVE  stored[s][p] = IF s \in DOMAIN Value(k).tss THEN Value(k).tss[s][p] ELSE 0
    BY DEF CachedPointsFinal
  <2> DEFINE b == Value(k)
  <2>1. Cached(k) /\ k # MetaKey BY DEF Blobs, Cached
  <2>2. <<k, b>> \in Content BY <2>1, LookUp
  <2>3. BlobOK(b, stored, tick)
    <3>1. <<k, b>>[1] = k /\ <<k, b>>[2] = b OBVIOUS
    <3> HIDE DEF b
    <3> QED BY <1>1, <2>1, <2>2, <3>1 DEF CacheOK
  <2>4. At(b.tss, s, p) = stored[s][p]
    <3> HIDE DEF b
    <3>1. p \in Points(b.from, b.to) BY DEF b
    <3> QED BY <2>3, <3>1 DEF BlobOK, Final
  <2> QED BY <2>4 DEF At
<1>4. AnswerIsCurrent
  <2> SUFFICES ASSUME NEW q \in Queriers, query[q].pc \in {"put", "hit"}
               PROVE  LET r == query[q]
                      IN  /\ \A s \in DOMAIN r.a : DOMAIN r.a[s] = Points(r.from, r.to)
                          /\ \A s \in RolledSeries, p \in Points(r.from, r.to) :
                               r.seen[s][p] <= At(r.a, s, p) /\ At(r.a, s, p) <= stored[s][p]
    BY DEF AnswerIsCurrent, At
  <2> DEFINE r == query[q]
  <2>1. QueryOK(r, Content, stored, tick, suffix) BY <1>1
  <2>2. \A s \in RolledSeries, p \in Grid : stored[s][p] \in Nat BY QueryFacts
  <2>3. r.pc \in {"put", "hit"} OBVIOUS
  <2> HIDE DEF r
  <2>4. CASE r.pc = "put"
    <3>1. Answer(r, stored, tick) BY <2>1, <2>4, WhenReading
    <3>2. \A s \in DOMAIN r.a : DOMAIN r.a[s] = Points(r.from, r.to) BY <3>1 DEF Answer
    <3>3. \A s \in RolledSeries, p \in Points(r.from, r.to) :
            r.seen[s][p] <= At(r.a, s, p) /\ At(r.a, s, p) <= stored[s][p]
      BY <3>1 DEF Answer
    <3> QED BY <3>2, <3>3 DEF r
  <2>5. CASE r.pc = "hit"
    <3>1. Reading(r, stored) /\ r.tail \in Nat /\ Final(r.a, FromCache(r), stored, tick) /\ r.tail > r.to
      BY <2>1, <2>5, WhenReading
    <3>2. FromCache(r) = Points(r.from, r.to)
      <4> SUFFICES ASSUME NEW p \in Points(r.from, r.to) PROVE p < r.tail BY DEF FromCache
      <4>1. p \in Nat /\ p <= r.to /\ r.to \in Nat BY <3>1, OnGrid DEF Points, Reading
      <4> QED BY <3>1, <4>1
    <3>3. Final(r.a, Points(r.from, r.to), stored, tick) BY <3>1, <3>2
    <3>4. \A s \in DOMAIN r.a : DOMAIN r.a[s] = Points(r.from, r.to) BY <3>3 DEF Final
    <3>5. ASSUME NEW s \in RolledSeries, NEW p \in Points(r.from, r.to)
          PROVE  r.seen[s][p] <= At(r.a, s, p) /\ At(r.a, s, p) <= stored[s][p]
      <4>1. p \in Grid BY OnGrid
      <4>2. At(r.a, s, p) = stored[s][p] BY <3>3 DEF Final
      <4>3. stored[s][p] \in Nat /\ r.seen[s][p] <= stored[s][p] BY <2>2, <3>1, <4>1 DEF Reading
      <4> QED BY <4>2, <4>3
    <3> QED BY <3>4, <3>5 DEF r
  <2> QED BY <2>3, <2>4, <2>5
<1> QED BY <1>2, <1>3, <1>4 DEF RollupSound

\* Where no sample is later than CacheOffset and a query stores its result less than a step after it
\* read the data, cached points are final and every answer, cached or merged, is one that the storage
\* could have given during the query, for all queriers, series and bounds (RollupResultCache::get_series,
\* put_series, merge_series).
THEOREM CachedAnswersAreSound ==
  ASSUME Backfill = FALSE, QueryTicks < Step
  PROVE  RollupSpec => []RollupSound
<1>1. RollupInit => RollupInv BY RollupStarts
<1>2. RollupInv /\ [RollupNext]_rollupVars => RollupInv' BY RollupStep
<1>3. RollupInv => RollupSound BY RollupInvSound
<1> QED BY <1>1, <1>2, <1>3, PTL DEF RollupSpec

----------------------------------------------------------------------------
(* StreamAggr: the invariant.                                              *)

Sample == [id : Nat, ts : Nat, slow : BOOLEAN]
Window == [colour : Colours, deadline : Nat]
Values == [blue : SUBSET Sample, green : SUBSET Sample, deadline : Nat \cup {-1}, furthest : Nat \cup {-1}]
Push   == [pc : {"idle", "begun", "routed"}, ts : Nat, minDeadline : Nat, deleteDeadline : Nat, flips : Nat,
           colour : Colours, s : SUBSET Sample]
Flush  == [pc : {"wait", "sleep", "dedup", "push", "flush", "publish", "stopped"}, wakeAt : Nat, flushTime : Nat,
           cs : Window, hand : SUBSET Sample, last : BOOLEAN, stalled : BOOLEAN]

\* The type of every variable.
Typed ==
  /\ mode \in Modes /\ time \in 0..MaxTime /\ nSamples \in 0..MaxSamples /\ flips \in Nat
  /\ cs \in Window /\ minDeadline \in Nat /\ flushAfter \in 0..MaxTime
  /\ outputs \in Values /\ dedupBufs \in [Colours -> SUBSET Sample]
  /\ pushers \in [Pushers -> Push] /\ flusher \in Flush
  /\ flushed \in SUBSET [s : Sample, ts : Nat] /\ replaced \in SUBSET Sample /\ lost \in SUBSET Sample

AtMostOne(S) == \A x, y \in S : x = y

\* What is where, by the configuration.
Shaped ==
  /\ ~mode.windows => /\ cs.colour = "blue" /\ flusher.cs.colour = "blue"
                      /\ outputs.green = {} /\ dedupBufs["green"] = {}
                      /\ \A p \in Pushers : pushers[p].colour = "blue"
  /\ mode.dedup > 0 => outputs.green = {}
  /\ mode.dedup = 0 => dedupBufs["blue"] = {} /\ dedupBufs["green"] = {} /\ replaced = {} /\ flusher.pc # "push"
  /\ \A c \in Colours : AtMostOne(dedupBufs[c])
  /\ outputs.deadline = -1 => outputs = NoEntry
  /\ flusher.pc # "push" => flusher.hand = {}

\* A push has a sample of its timestamp once it is routed; n is the number of flushes begun and ended.
PushOK(r, t, n) ==
  /\ r.pc # "routed" => r.s = {}
  /\ r.pc = "routed" => \E x \in Sample : r.s = {x} /\ x.ts = r.ts
  /\ r.pc # "idle" => r.ts <= t /\ r.ts + Interval <= r.deleteDeadline
  /\ r.flips <= n

PushesOK == \A p \in Pushers : PushOK(pushers[p], time, flips)

\* The flusher has the state of the windows that it read.
Phases ==
  /\ minDeadline <= cs.deadline
  /\ flusher.pc \in {"sleep", "dedup", "push"} => flusher.cs = cs
  /\ flusher.pc \in {"flush", "publish"} => flusher.cs.colour = cs.colour /\ cs.deadline <= flusher.cs.deadline
  /\ flusher.pc # "publish" => flips % 2 = 0
  /\ mode.dedup = 0 /\ flusher.pc = "publish" =>
       flips % 2 = 1 /\ minDeadline = cs.deadline /\ (~flusher.last => flusher.cs.deadline = flusher.flushTime)
  /\ mode.dedup = 0 /\ flusher.pc \notin {"publish", "stopped"} => cs.deadline = flusher.flushTime
  /\ mode.dedup = 0 /\ flusher.pc = "flush" => flusher.cs = cs
  /\ flusher.pc \in {"wait", "sleep"} => ~flusher.last
  /\ flusher.pc \in {"dedup", "stopped"} => flusher.last

\* After must_stop no push is under way, and the last flush leaves no entry.
Ended ==
  /\ flusher.last => \A p \in Pushers : pushers[p].pc = "idle"
  /\ flusher.last /\ flusher.pc \in {"publish", "stopped"} => outputs = NoEntry

\* No flush has come between since the push began.
InTime(r) == r.flips = flips /\ flips % 2 = 0

Fresh(S) == {s \in S : ~s.slow}

\* With windows, the samples in time are in their window ...
WindowsKept ==
  \A c \in Colours : \A s \in Fresh(outputs[c]) :
    /\ s.ts <= time
    /\ c = cs.colour => flusher.pc # "publish" /\ minDeadline <= s.ts /\ s.ts <= cs.deadline
    /\ c # cs.colour => cs.deadline < s.ts /\ (flusher.pc = "publish" => s.ts <= flusher.cs.deadline)

\* ... and so are those of pushes.
PushWindow(r) ==
  InTime(r) =>
    /\ r.pc = "begun" => r.minDeadline = minDeadline
    /\ r.pc = "routed" => /\ r.colour = cs.colour => minDeadline <= r.ts /\ r.ts <= cs.deadline
                          /\ r.colour # cs.colour => cs.deadline < r.ts

FlushesOrdered == FlushedInWindow /\ \A f \in flushed : f.ts <= minDeadline

Windowed ==
  mode.windows /\ mode.dedup = 0 => FlushesOrdered /\ WindowsKept /\ \A p \in Pushers : PushWindow(pushers[p])

\* A flusher that keeps up flushes an entry before its furthest deadline.
OnTime ==
  /\ \A s \in lost : s.slow \/ (mode.windows /\ flusher.last)
  /\ \A s \in Fresh(outputs.blue \cup outputs.green) : flusher.flushTime <= outputs.furthest

OnTimePlain ==
  /\ \A s \in Fresh(outputs.blue \cup outputs.green) : s.ts + Interval <= outputs.furthest
  /\ ~(flusher.last /\ flusher.pc \in {"publish", "stopped"}) => flusher.flushTime <= time + Interval
  /\ flusher.pc = "wait" => flusher.flushTime <= flusher.wakeAt
  /\ flusher.pc = "sleep" => flusher.flushTime <= time
  /\ flusher.pc = "flush" /\ ~flusher.last => flusher.flushTime <= time
  /\ \A p \in Pushers : pushers[p].pc # "idle" /\ InTime(pushers[p]) => flusher.flushTime <= pushers[p].deleteDeadline

OnTimeDedup ==
  /\ flusher.pc \in {"wait", "sleep", "dedup", "push"} => flusher.flushTime <= cs.deadline + Interval
  /\ flusher.pc = "flush" /\ ~flusher.last => flusher.flushTime <= flusher.cs.deadline
  /\ flusher.pc = "publish" /\ ~flusher.last => flusher.flushTime <= flusher.cs.deadline + Interval

KeepsUp == ~flusher.stalled => OnTime /\ (mode.dedup = 0 => OnTimePlain) /\ (mode.dedup > 0 => OnTimeDedup)

\* The places of samples: the pushes and Places.
Ids(S) == {s.id : s \in S}
Spots  == ({1} \X Pushers) \cup ({2} \X (1..8))
Hold(pu, pl) == [l \in Spots |-> IF l[1] = 1 THEN Ids(pu[l[2]].s) ELSE Ids(pl[l[2]])]

\* Every sample up to n is in one place.
Placed(H, n) ==
  /\ \A l \in Spots : H[l] \subseteq 1..n
  /\ \A l, m \in Spots : l # m => H[l] \cap H[m] = {}
  /\ \A i \in 1..n : \E l \in Spots : i \in H[l]

StreamInv ==
  /\ Typed /\ Shaped /\ PushesOK /\ Phases /\ Ended /\ Windowed /\ KeepsUp /\ DroppedForNewer
  /\ Placed(Hold(pushers, Places), nSamples)

----------------------------------------------------------------------------
(* StreamAggr: the configuration and the clock.                            *)

\* The configuration has an interval, and de-duplication is not longer.
LEMMA ModeFacts ==
  ASSUME mode \in Modes
  PROVE  /\ mode.windows \in BOOLEAN /\ Interval \in Nat \ {0} /\ mode.dedup \in Nat /\ mode.dedup <= Interval
         /\ Loop \in Nat \ {0} /\ (mode.dedup = 0 => Loop = Interval)
<1>1. mode.windows \in BOOLEAN /\ mode.interval \in Nat \ {0} /\ mode.dedup \in 0..mode.interval
  BY StreamAssumption
<1>2. mode.dedup \in Nat /\ mode.dedup <= mode.interval BY <1>1
<1> QED BY <1>1, <1>2 DEF Interval, Loop

\* Rounding up does not go below.
LEMMA RoundUp ==
  ASSUME NEW a \in Nat, NEW d \in Nat \ {0}
  PROVE  (a + d - 1) \div d \in Nat /\ d * ((a + d - 1) \div d) \in Nat /\ a <= d * ((a + d - 1) \div d)
<1> DEFINE n == a + d - 1
           q == n \div d
<1>1. n \in Nat OBVIOUS
<1> HIDE DEF n
<1>2. q \in Int /\ n = d * q + (n % d) /\ n % d \in 0..(d - 1) BY <1>1
<1>3. q \in Nat BY <1>1
<1>4. d * q \in Nat BY <1>3
<1> DEFINE m == d * q
           r == n % d
<1>5. n = m + r /\ r <= d - 1 /\ m \in Nat /\ r \in Nat BY <1>2, <1>4
<1> HIDE DEF m, r
<1>6. a <= m BY <1>5 DEF n
<1> QED BY <1>3, <1>4, <1>6 DEF m, n

\* Ahead is at or after both times.
LEMMA AheadFacts ==
  ASSUME time \in Nat, NEW t \in Nat, NEW step \in Nat \ {0}
  PROVE  Ahead(t, step) \in Nat /\ t <= Ahead(t, step) /\ time <= Ahead(t, step)
<1>1. CASE time > t
  <2>1. time - t \in Nat BY <1>1
  <2> DEFINE a == time - t
             m == step * ((a + step - 1) \div step)
  <2>2. m \in Nat /\ a <= m BY <2>1, RoundUp
  <2>3. Ahead(t, step) = t + m BY <1>1 DEF Ahead
  <2> HIDE DEF m
  <2> QED BY <2>2, <2>3
<1>2. CASE ~(time > t) BY <1>2 DEF Ahead
<1> QED BY <1>1, <1>2

----------------------------------------------------------------------------
(* StreamAggr: what the actions do, field by field.                        *)

\* The record of a push that begins.
LEMMA BeginsDoes ==
  ASSUME Typed, NEW p \in Pushers, NEW ts \in 0..MaxTime, PushBegins(p, ts)
  PROVE  /\ pushers' \in [Pushers -> Push]
         /\ \A q \in Pushers : q # p => pushers'[q] = pushers[q]
         /\ pushers'[p].pc = "begun" /\ pushers'[p].ts = ts /\ pushers'[p].minDeadline = minDeadline
         /\ pushers'[p].deleteDeadline = time + Interval /\ pushers'[p].flips = flips
         /\ pushers'[p].colour = "blue" /\ pushers'[p].s = {}
<1> USE DEF Typed, NotPushing, Push, Colours
<1>1. time + Interval \in Nat /\ ts \in Nat BY ModeFacts
<1> DEFINE r == [NotPushing EXCEPT !.pc = "begun", !.ts = ts, !.minDeadline = minDeadline,
                                   !.deleteDeadline = time + Interval, !.flips = flips]
<1>2. pushers' = [pushers EXCEPT ![p] = r] BY DEF PushBegins
<1>3. r \in Push BY <1>1
<1>4. r.pc = "begun" /\ r.ts = ts /\ r.minDeadline = minDeadline /\ r.deleteDeadline = time + Interval
      /\ r.flips = flips /\ r.colour = "blue" /\ r.s = {}
  OBVIOUS
<1> HIDE DEF r
<1> QED BY <1>2, <1>3, <1>4

\* A push that goes on.
Routed(r, c, n) == [r EXCEPT !.pc = "routed", !.colour = c, !.s = {[id |-> n, ts |-> r.ts, slow |-> FALSE]}]

\* What Routed says.
LEMMA RoutedFields ==
  ASSUME NEW r \in Push, NEW c \in Colours, NEW n \in Nat
  PROVE  /\ Routed(r, c, n) \in Push
         /\ Routed(r, c, n).pc = "routed" /\ Routed(r, c, n).ts = r.ts /\ Routed(r, c, n).minDeadline = r.minDeadline
         /\ Routed(r, c, n).deleteDeadline = r.deleteDeadline /\ Routed(r, c, n).flips = r.flips
         /\ Routed(r, c, n).colour = c /\ Routed(r, c, n).s = {[id |-> n, ts |-> r.ts, slow |-> FALSE]}
<1> DEFINE S == {[id |-> n, ts |-> r.ts, slow |-> FALSE]}
<1>1. r.ts \in Nat BY DEF Push
<1>2. S \in SUBSET Sample BY <1>1 DEF Sample
<1> HIDE DEF S
<1>3. Routed(r, c, n) = [r EXCEPT !.pc = "routed", !.colour = c, !.s = S] BY DEF Routed, S
<1>4. /\ Routed(r, c, n) \in Push
      /\ Routed(r, c, n).pc = "routed" /\ Routed(r, c, n).ts = r.ts /\ Routed(r, c, n).minDeadline = r.minDeadline
      /\ Routed(r, c, n).deleteDeadline = r.deleteDeadline /\ Routed(r, c, n).flips = r.flips
      /\ Routed(r, c, n).colour = c /\ Routed(r, c, n).s = S
  BY ONLY <1>2, <1>3, r \in Push, c \in Colours DEF Push
<1> QED BY <1>4 DEF S

\* The window of a sample is a window.
LEMMA ColourIsOne ==
  ASSUME NEW ts
  PROVE  ColourOf(ts) \in Colours
BY DEF ColourOf, Colours

\* A push that is routed takes its sample and its colour, and keeps what it read.
LEMMA RoutesDoes ==
  ASSUME Typed, NEW p \in Pushers, PushRoutes(p)
  PROVE  /\ nSamples' = nSamples + 1 /\ nSamples' \in 0..MaxSamples /\ flushAfter' \in 0..MaxTime
         /\ pushers' \in [Pushers -> Push] /\ pushers[p].pc = "begun"
         /\ \A q \in Pushers : q # p => pushers'[q] = pushers[q]
         /\ pushers'[p].pc = "routed" /\ pushers'[p].ts = pushers[p].ts
         /\ pushers'[p].deleteDeadline = pushers[p].deleteDeadline /\ pushers'[p].flips = pushers[p].flips
         /\ pushers'[p].colour = ColourOf(pushers[p].ts)
         /\ pushers'[p].s = {[id |-> nSamples + 1, ts |-> pushers[p].ts, slow |-> FALSE]}
<1> DEFINE r == Routed(pushers[p], ColourOf(pushers[p].ts), nSamples + 1)
<1>1. pushers[p] \in Push /\ nSamples + 1 \in Nat BY DEF Typed
<1>2. ColourOf(pushers[p].ts) \in Colours BY ColourIsOne
<1>3. /\ r \in Push /\ r.pc = "routed" /\ r.ts = pushers[p].ts /\ r.deleteDeadline = pushers[p].deleteDeadline
      /\ r.flips = pushers[p].flips /\ r.colour = ColourOf(pushers[p].ts)
      /\ r.s = {[id |-> nSamples + 1, ts |-> pushers[p].ts, slow |-> FALSE]}
  BY <1>1, <1>2, RoutedFields
<1>4. nSamples' = nSamples + 1 /\ nSamples < MaxSamples /\ pushers[p].pc = "begun" BY DEF PushRoutes
<1>5. pushers' = [pushers EXCEPT ![p] = r] BY <1>4 DEF PushRoutes, Routed
<1>6. nSamples' \in 0..MaxSamples BY <1>4, StreamAssumption DEF Typed
<1>7. flushAfter' \in 0..MaxTime
  <2>1. pushers[p].ts \in Nat BY <1>1 DEF Push
  <2>2. time - pushers[p].ts > flushAfter => time - pushers[p].ts \in 0..MaxTime BY <2>1, StreamAssumption DEF Typed
  <2>3. (flushAfter' = time - pushers[p].ts /\ time - pushers[p].ts > flushAfter) \/ flushAfter' = flushAfter BY DEF PushRoutes
  <2> QED BY <2>2, <2>3 DEF Typed
<1>8. pushers \in [Pushers -> Push] BY DEF Typed
<1> HIDE DEF r
<1>9. /\ pushers' \in [Pushers -> Push] /\ pushers'[p] = r
      /\ \A q \in Pushers : q # p => pushers'[q] = pushers[q] BY ONLY <1>3, <1>5, <1>8, p \in Pushers
<1> QED BY <1>3, <1>4, <1>6, <1>7, <1>9

\* Which steps end a push.
PushEnds(p) == pushers' = [pushers EXCEPT ![p] = NotPushing]

\* A push that ends leaves an idle pusher, and the others as they were.
LEMMA EndsDoes ==
  ASSUME Typed, NEW p \in Pushers, PushEnds(p)
  PROVE  /\ pushers' \in [Pushers -> Push] /\ pushers'[p] = NotPushing
         /\ NotPushing.pc = "idle" /\ NotPushing.s = {} /\ NotPushing.colour = "blue" /\ NotPushing.flips = 0
         /\ \A q \in Pushers : q # p => pushers'[q] = pushers[q]
<1>1. NotPushing \in Push /\ NotPushing.pc = "idle" /\ NotPushing.s = {} /\ NotPushing.colour = "blue" /\ NotPushing.flips = 0
  BY DEF NotPushing, Push, Colours
<1>2. pushers \in [Pushers -> Push] BY DEF Typed
<1> QED BY <1>1, <1>2 DEF PushEnds

\* Marking a sample changes no more than that.
LEMMA MarkedFacts ==
  ASSUME Typed, NEW p \in Pushers
  PROVE  /\ Marked(p) \in SUBSET Sample
         /\ \A m \in Marked(p) : \E s \in pushers[p].s : m.id = s.id /\ m.ts = s.ts /\ m.slow = Overtaken(p)
         /\ \A s \in pushers[p].s : \E m \in Marked(p) : m.id = s.id /\ m.ts = s.ts
<1>1. pushers[p].s \in SUBSET Sample BY DEF Typed, Push
<1>2. Overtaken(p) \in BOOLEAN BY DEF Overtaken
<1>3. ASSUME NEW s \in pushers[p].s, NEW b \in BOOLEAN
      PROVE  LET m == [s EXCEPT !.slow = b] IN m \in Sample /\ m.id = s.id /\ m.ts = s.ts /\ m.slow = b
  BY <1>1 DEF Sample
<1> DEFINE b    == Overtaken(p)
           S    == pushers[p].s
           D    == Marked(p)
           M(s) == [s EXCEPT !.slow = b]
<1>4. D = {M(s) : s \in S} BY DEF Marked
<1>5. \A s \in S : M(s) \in Sample /\ M(s).id = s.id /\ M(s).ts = s.ts /\ M(s).slow = b BY <1>2, <1>3
<1> HIDE DEF b, S, D, M
<1>6. \A d \in D : \E s \in S : d = M(s) BY ONLY <1>4
<1>7. \A s \in S : M(s) \in D BY ONLY <1>4
<1>8. D \in SUBSET Sample BY ONLY <1>5, <1>6
<1>9. \A d \in D : \E s \in S : d.id = s.id /\ d.ts = s.ts /\ d.slow = b BY ONLY <1>5, <1>6
<1>10. \A s \in S : \E d \in D : d.id = s.id /\ d.ts = s.ts BY ONLY <1>5, <1>7
<1> QED BY <1>8, <1>9, <1>10 DEF b, S, D

\* Of a routed push, Marked has the one sample.
LEMMA MarkedOne ==
  ASSUME Typed, NEW p \in Pushers, pushers[p].pc = "routed", PushOK(pushers[p], time, flips)
  PROVE  \E m \in Sample : Marked(p) = {m} /\ m.ts = pushers[p].ts /\ m.slow = Overtaken(p) /\ Ids(pushers[p].s) = {m.id}
<1>1. PICK x \in Sample : pushers[p].s = {x} /\ x.ts = pushers[p].ts BY DEF PushOK
<1>2. Overtaken(p) \in BOOLEAN BY DEF Overtaken
<1> DEFINE m == [x EXCEPT !.slow = Overtaken(p)]
<1>3. m \in Sample /\ m.id = x.id /\ m.ts = x.ts /\ m.slow = Overtaken(p) BY <1>2 DEF Sample
<1>4. Marked(p) = {m} BY <1>1 DEF Marked
<1>5. Ids(pushers[p].s) = {x.id} BY <1>1 DEF Ids
<1> HIDE DEF m
<1> QED BY <1>1, <1>3, <1>4, <1>5

\* What push_samples does to the entry.
LEMMA SamplesDoes ==
  ASSUME outputs \in Values, NEW S \in SUBSET Sample, NEW c \in Colours, NEW d \in Nat, push_samples(S, c, d)
  PROVE  /\ outputs' \in Values /\ outputs'[c] = outputs[c] \cup S
         /\ \A e \in Colours : e # c => outputs'[e] = outputs[e]
         /\ outputs'.deadline = d /\ d <= outputs'.furthest /\ outputs.furthest <= outputs'.furthest
<1> DEFINE f == IF d > outputs.furthest THEN d ELSE outputs.furthest
<1>1. outputs.furthest \in Nat \cup {-1} BY DEF Values
<1>2. f \in Nat \cup {-1} /\ d <= f /\ outputs.furthest <= f BY <1>1
<1>3. outputs' = [outputs EXCEPT ![c] = @ \cup S, !.deadline = d, !.furthest = f] BY DEF push_samples
<1> HIDE DEF f
<1>4. CASE c = "blue"
  <2>1. outputs' = [outputs EXCEPT !.blue = outputs.blue \cup S, !.deadline = d, !.furthest = f] BY <1>3, <1>4
  <2>2. outputs' \in Values /\ outputs'.blue = outputs.blue \cup S /\ outputs'.green = outputs.green
        /\ outputs'.deadline = d /\ outputs'.furthest = f
    BY <2>1, <1>2 DEF Values
  <2> QED BY <2>2, <1>2, <1>4 DEF Colours
<1>5. CASE c = "green"
  <2>1. outputs' = [outputs EXCEPT !.green = outputs.green \cup S, !.deadline = d, !.furthest = f] BY <1>3, <1>5
  <2>2. outputs' \in Values /\ outputs'.green = outputs.green \cup S /\ outputs'.blue = outputs.blue
        /\ outputs'.deadline = d /\ outputs'.furthest = f
    BY <2>1, <1>2 DEF Values
  <2> QED BY <2>2, <1>2, <1>5 DEF Colours
<1> QED BY <1>4, <1>5 DEF Colours

\* PushOutputs.
LEMMA OutputsDoes ==
  ASSUME Typed, NEW p \in Pushers, PushOutputs(p)
  PROVE  /\ pushers[p].pc = "routed" /\ mode.dedup = 0 /\ PushEnds(p)
         /\ pushers[p].colour \in Colours /\ pushers[p].deleteDeadline \in Nat
         /\ outputs' \in Values /\ outputs'[pushers[p].colour] = outputs[pushers[p].colour] \cup Marked(p)
         /\ \A e \in Colours : e # pushers[p].colour => outputs'[e] = outputs[e]
         /\ outputs'.deadline = pushers[p].deleteDeadline /\ pushers[p].deleteDeadline <= outputs'.furthest
         /\ outputs.furthest <= outputs'.furthest
<1>1. pushers[p].colour \in Colours /\ pushers[p].deleteDeadline \in Nat BY DEF Typed, Push
<1>2. Marked(p) \in SUBSET Sample BY MarkedFacts
<1>3. outputs \in Values BY DEF Typed
<1>4. push_samples(Marked(p), pushers[p].colour, pushers[p].deleteDeadline) BY DEF PushOutputs
<1>5. /\ outputs' \in Values /\ outputs'[pushers[p].colour] = outputs[pushers[p].colour] \cup Marked(p)
      /\ \A e \in Colours : e # pushers[p].colour => outputs'[e] = outputs[e]
      /\ outputs'.deadline = pushers[p].deleteDeadline /\ pushers[p].deleteDeadline <= outputs'.furthest
      /\ outputs.furthest <= outputs'.furthest
  BY <1>1, <1>2, <1>3, <1>4, SamplesDoes
<1> QED BY <1>1, <1>5 DEF PushOutputs, PushEnds

\* The newer one of what was held and what comes.
LEMMA NewestOf ==
  ASSUME NEW S \in SUBSET Sample, AtMostOne(S), NEW m \in Sample
  PROVE  LET all == S \cup {m}
             stay == deduplicate_samples(all)
         IN  stay \in all /\ \A r \in all : stay.ts >= r.ts
<1> DEFINE all == S \cup {m}
<1>1. \E s \in all : \A r \in all : s.ts >= r.ts
  <2>1. \A x \in all : x.ts \in Nat BY DEF Sample
  <2>2. CASE S = {} BY <2>1, <2>2
  <2>3. CASE S # {}
    <3>1. PICK x \in S : TRUE BY <2>3
    <3>2. \A y \in S : y = x BY <3>1 DEF AtMostOne
    <3>3. x \in all /\ m \in all /\ \A r \in all : r = x \/ r = m BY <3>1, <3>2
    <3>4. x.ts \in Nat /\ m.ts \in Nat BY <2>1, <3>3
    <3>5. CASE x.ts >= m.ts BY <3>3, <3>4, <3>5
    <3>6. CASE m.ts >= x.ts BY <3>3, <3>4, <3>6
    <3> QED BY <3>4, <3>5, <3>6
  <2> QED BY <2>2, <2>3
<1> HIDE DEF all
<1>2. deduplicate_samples(all) \in all /\ \A r \in all : deduplicate_samples(all).ts >= r.ts
  BY <1>1 DEF deduplicate_samples
<1> QED BY <1>2 DEF all

\* PushDedup.
LEMMA DedupDoes ==
  ASSUME Typed, Shaped, PushesOK, NEW p \in Pushers, PushDedup(p)
  PROVE  /\ pushers[p].pc = "routed" /\ mode.dedup > 0 /\ PushEnds(p) /\ pushers[p].colour \in Colours
         /\ \E stay \in Sample :
              LET all == dedupBufs[pushers[p].colour] \cup Marked(p) IN
              /\ all \in SUBSET Sample /\ stay \in all /\ \A r \in all : stay.ts >= r.ts
              /\ dedupBufs' = [dedupBufs EXCEPT ![pushers[p].colour] = {stay}]
              /\ replaced' = replaced \cup (all \ {stay})
<1>1. pushers[p].colour \in Colours BY DEF Typed, Push
<1>2. pushers[p].pc = "routed" /\ mode.dedup > 0 /\ PushEnds(p) BY DEF PushDedup, PushEnds
<1>3. PICK m \in Sample : Marked(p) = {m} BY <1>2, MarkedOne DEF PushesOK
<1> DEFINE S == dedupBufs[pushers[p].colour]
           all == S \cup Marked(p)
           stay == deduplicate_samples(all)
<1>4. S \in SUBSET Sample /\ AtMostOne(S) BY <1>1 DEF Typed, Shaped
<1>5. stay \in all /\ \A r \in all : stay.ts >= r.ts
  <2> DEFINE al2 == S \cup {m}
  <2> HIDE DEF S
  <2>1. deduplicate_samples(al2) \in al2 /\ \A r \in al2 : deduplicate_samples(al2).ts >= r.ts BY <1>4, NewestOf
  <2>2. al2 = all BY <1>3
  <2> QED BY <2>1, <2>2
<1>6. all \in SUBSET Sample BY <1>3, <1>4
<1>7. dedupBufs' = [dedupBufs EXCEPT ![pushers[p].colour] = {stay}] /\ replaced' = replaced \cup (all \ {stay})
  BY DEF PushDedup
<1> HIDE DEF stay
<1> QED BY <1>1, <1>2, <1>5, <1>6, <1>7

\* WakeUp.
LEMMA WakeUpDoes ==
  ASSUME Typed, WakeUp
  PROVE  /\ flusher.pc = "wait" /\ time >= flusher.wakeAt /\ flushAfter' \in 0..MaxTime
         /\ flusher' \in Flush /\ flusher'.pc = "sleep" /\ flusher'.cs = cs /\ flusher'.flushTime = flusher.flushTime
         /\ flusher'.hand = flusher.hand /\ flusher'.last = flusher.last /\ flusher'.stalled = flusher.stalled
<1> DEFINE w == time + (IF mode.windows THEN flushAfter ELSE 0)
<1>1. w \in Nat BY DEF Typed
<1>2. flusher' = [flusher EXCEPT !.pc = "sleep", !.cs = cs, !.wakeAt = w] BY DEF WakeUp
<1>3. flusher \in Flush /\ cs \in Window BY DEF Typed
<1> HIDE DEF w
<1>4. /\ flusher' \in Flush /\ flusher'.pc = "sleep" /\ flusher'.cs = cs /\ flusher'.flushTime = flusher.flushTime
      /\ flusher'.hand = flusher.hand /\ flusher'.last = flusher.last /\ flusher'.stalled = flusher.stalled
  BY ONLY <1>1, <1>2, <1>3 DEF Flush
<1>5. flushAfter' \in 0..MaxTime BY StreamAssumption DEF WakeUp, Typed
<1> QED BY <1>4, <1>5 DEF WakeUp

\* DedupTake.
LEMMA TakeDoes ==
  ASSUME Typed, DedupTake
  PROVE  /\ flusher.pc \in {"sleep", "dedup"}
         /\ flusher' \in Flush /\ flusher'.flushTime = flusher.flushTime /\ flusher'.cs = flusher.cs
         /\ flusher'.last = flusher.last /\ flusher'.stalled = flusher.stalled
         /\ mode.dedup = 0 => /\ flusher'.pc = "flush" /\ flusher'.hand = flusher.hand
                              /\ UNCHANGED <<minDeadline, dedupBufs>>
         /\ mode.dedup > 0 => /\ flusher'.pc = "push" /\ flusher'.hand = dedupBufs[flusher.cs.colour]
                              /\ minDeadline' = flusher.cs.deadline
                              /\ dedupBufs' = [dedupBufs EXCEPT ![flusher.cs.colour] = {}]
<1>1. flusher \in Flush /\ flusher.cs \in Window BY DEF Typed, Flush
<1>2. flusher.cs.colour \in Colours BY <1>1 DEF Window
<1>3. dedupBufs[flusher.cs.colour] \in SUBSET Sample BY <1>2 DEF Typed
<1>4. mode.dedup \in Nat BY ModeFacts DEF Typed
<1>5. CASE mode.dedup = 0
  <2>1. flusher' = [flusher EXCEPT !.pc = "flush"] /\ UNCHANGED <<minDeadline, dedupBufs>> BY <1>5 DEF DedupTake
  <2>2. /\ flusher' \in Flush /\ flusher'.flushTime = flusher.flushTime /\ flusher'.cs = flusher.cs
        /\ flusher'.last = flusher.last /\ flusher'.stalled = flusher.stalled
        /\ flusher'.pc = "flush" /\ flusher'.hand = flusher.hand
    BY ONLY <1>1, <2>1 DEF Flush
  <2> QED BY <1>5, <2>1, <2>2 DEF DedupTake
<1>6. CASE mode.dedup > 0
  <2> DEFINE h == dedupBufs[flusher.cs.colour]
  <2>0. mode.dedup # 0 BY <1>4, <1>6
  <2>1. /\ minDeadline' = flusher.cs.deadline /\ dedupBufs' = [dedupBufs EXCEPT ![flusher.cs.colour] = {}]
        /\ flusher' = [flusher EXCEPT !.pc = "push", !.hand = h]
    BY <2>0 DEF DedupTake
  <2> HIDE DEF h
  <2>2. h \in SUBSET Sample BY <1>3 DEF h
  <2>3. /\ flusher' \in Flush /\ flusher'.flushTime = flusher.flushTime /\ flusher'.cs = flusher.cs
        /\ flusher'.last = flusher.last /\ flusher'.stalled = flusher.stalled
        /\ flusher'.pc = "push" /\ flusher'.hand = h
    BY ONLY <1>1, <2>1, <2>2 DEF Flush
  <2>4. flusher.pc \in {"sleep", "dedup"} BY DEF DedupTake
  <2> QED BY <2>0, <2>1, <2>3, <2>4 DEF h
<1> QED BY <1>4, <1>5, <1>6

\* DedupPush.
LEMMA DedupPushDoes ==
  ASSUME Typed, Shaped, DedupPush
  PROVE  /\ flusher.pc = "push" /\ mode.dedup > 0
         /\ flusher' \in Flush /\ flusher'.flushTime = flusher.flushTime /\ flusher'.hand = {}
         /\ flusher'.last = flusher.last /\ flusher'.stalled = flusher.stalled
         /\ flusher'.cs \in Window /\ flusher'.cs.colour = flusher.cs.colour /\ flusher.cs.deadline <= flusher'.cs.deadline
         /\ flusher'.pc = IF flusher.last \/ flusher.flushTime <= flusher.cs.deadline THEN "flush" ELSE "publish"
         /\ outputs' \in Values /\ outputs'.blue = outputs.blue \cup flusher.hand /\ outputs'.green = outputs.green
         /\ flusher.hand = {} => outputs' = outputs
         /\ flusher.hand # {} => outputs'.deadline = flusher.cs.deadline + Interval
         /\ flusher.hand # {} => flusher.cs.deadline + Interval <= outputs'.furthest
         /\ outputs.furthest <= outputs'.furthest
<1>1. /\ flusher \in Flush /\ flusher.cs \in Window /\ flusher.cs.deadline \in Nat /\ flusher.hand \in SUBSET Sample
      /\ flusher.flushTime \in Nat
  BY DEF Typed, Flush, Window
<1>2. flusher.pc = "push" /\ mode.dedup \in Nat /\ Interval \in Nat BY ModeFacts DEF DedupPush, Typed
<1>3. mode.dedup > 0 BY <1>2 DEF Shaped
<1> DEFINE a == Ahead(flusher.cs.deadline, mode.dedup)
           b == IF flusher.last \/ flusher.flushTime <= flusher.cs.deadline THEN "flush" ELSE "publish"
<1>4. a \in Nat /\ flusher.cs.deadline <= a BY <1>1, <1>2, <1>3, AheadFacts DEF Typed
<1>5. flusher' = [flusher EXCEPT !.hand = {}, !.cs.deadline = a, !.pc = b] BY DEF DedupPush
<1>6. b \in {"flush", "publish"} OBVIOUS
<1> HIDE DEF a, b
<1>7. /\ flusher' \in Flush /\ flusher'.flushTime = flusher.flushTime /\ flusher'.hand = {}
      /\ flusher'.last = flusher.last /\ flusher'.stalled = flusher.stalled /\ flusher'.pc = b
      /\ flusher'.cs \in Window /\ flusher'.cs.colour = flusher.cs.colour /\ flusher'.cs.deadline = a
  BY ONLY <1>1, <1>4, <1>5, <1>6 DEF Flush, Window
<1>8. outputs \in Values /\ outputs.furthest \in Nat \cup {-1} BY DEF Typed, Values
<1>9. CASE flusher.hand = {}
  <2>1. outputs' = outputs BY <1>9 DEF DedupPush
  <2>2. outputs' \in Values /\ outputs'.blue = outputs.blue \cup flusher.hand /\ outputs'.green = outputs.green
        /\ outputs.furthest <= outputs'.furthest
    BY <2>1, <1>8, <1>9
  <2> QED BY <1>2, <1>3, <1>4, <1>7, <1>9, <2>1, <2>2 DEF b
<1>10. CASE flusher.hand # {}
  <2> DEFINE d == flusher.cs.deadline + Interval
  <2>1. d \in Nat BY <1>1, <1>2
  <2>2. push_samples(flusher.hand, "blue", d) BY <1>10 DEF DedupPush
  <2>3. "blue" \in Colours /\ "green" \in Colours BY DEF Colours
  <2> HIDE DEF d
  <2>4. /\ outputs' \in Values /\ outputs'["blue"] = outputs["blue"] \cup flusher.hand
        /\ \A e \in Colours : e # "blue" => outputs'[e] = outputs[e]
        /\ outputs'.deadline = d /\ d <= outputs'.furthest /\ outputs.furthest <= outputs'.furthest
    <3> DEFINE bl == "blue"
    <3>1. bl \in Colours BY <2>3
    <3>2. push_samples(flusher.hand, bl, d) BY <2>2
    <3> HIDE DEF bl
    <3>3. /\ outputs' \in Values /\ outputs'[bl] = outputs[bl] \cup flusher.hand
          /\ \A e \in Colours : e # bl => outputs'[e] = outputs[e]
          /\ outputs'.deadline = d /\ d <= outputs'.furthest /\ outputs.furthest <= outputs'.furthest
      BY <1>1, <1>8, <2>1, <3>1, <3>2, SamplesDoes
    <3> QED BY <3>3 DEF bl
  <2>5. outputs'.blue = outputs.blue \cup flusher.hand /\ outputs'.green = outputs.green BY <2>3, <2>4
  <2> QED BY <1>2, <1>3, <1>4, <1>7, <1>10, <2>4, <2>5 DEF b, d
<1> QED BY <1>9, <1>10

\* The terms of flush.
FlushColour == IF mode.dedup = 0 THEN flusher.cs.colour ELSE "blue"
Stale == flusher.flushTime > outputs.deadline
Gone  == Stale \/ flusher.last
Now   == IF Stale THEN {} ELSE outputs[FlushColour]
Rest  == (outputs.blue \cup outputs.green) \ Now

\* What Dropped says of samples.
LEMMA DroppedFacts ==
  ASSUME NEW S \in SUBSET Sample
  PROVE  /\ Dropped(S) \in SUBSET Sample
         /\ \A d \in Dropped(S) : \E s \in S : d.id = s.id /\ d.ts = s.ts /\ d.slow = (s.slow \/ outputs.deadline < outputs.furthest)
         /\ \A s \in S : \E d \in Dropped(S) : d.id = s.id /\ d.ts = s.ts
<1> DEFINE late == outputs.deadline < outputs.furthest
<1>1. ASSUME NEW s \in S
      PROVE  LET m == [s EXCEPT !.slow = @ \/ late] IN m \in Sample /\ m.id = s.id /\ m.ts = s.ts /\ m.slow = (s.slow \/ late)
  <2>1. s.slow \in BOOLEAN /\ s \in Sample BY DEF Sample
  <2> DEFINE b == s.slow \/ late
             m == [s EXCEPT !.slow = b]
  <2>2. b \in BOOLEAN OBVIOUS
  <2> HIDE DEF b
  <2>3. m \in Sample /\ m.id = s.id /\ m.ts = s.ts /\ m.slow = b BY <2>1, <2>2 DEF Sample
  <2> QED BY <2>3 DEF b
<1>2. Dropped(S) = {[s EXCEPT !.slow = @ \/ late] : s \in S} BY DEF Dropped
<1> DEFINE D    == Dropped(S)
           M(s) == [s EXCEPT !.slow = @ \/ late]
<1>3. D = {M(s) : s \in S} BY <1>2
<1>4. \A s \in S : M(s) \in Sample /\ M(s).id = s.id /\ M(s).ts = s.ts /\ M(s).slow = (s.slow \/ late) BY <1>1
<1> HIDE DEF late, D, M
<1>5. \A d \in D : \E s \in S : d = M(s) BY ONLY <1>3
<1>6. \A s \in S : M(s) \in D BY ONLY <1>3
<1>7. D \in SUBSET Sample BY ONLY <1>4, <1>5
<1>8. \A d \in D : \E s \in S : d.id = s.id /\ d.ts = s.ts /\ d.slow = (s.slow \/ late) BY ONLY <1>4, <1>5
<1>9. \A s \in S : \E d \in D : d.id = s.id /\ d.ts = s.ts BY ONLY <1>4, <1>6
<1> QED BY <1>7, <1>8, <1>9 DEF late, D

\* The entry without a window.
LEMMA EmptiedFacts ==
  ASSUME outputs \in Values, NEW c \in Colours
  PROVE  /\ Emptied(c) \in Values /\ Emptied(c)[c] = {} /\ \A e \in Colours : e # c => Emptied(c)[e] = outputs[e]
         /\ Emptied(c).deadline = outputs.deadline /\ Emptied(c).furthest = outputs.furthest
<1>1. CASE c = "blue"
  <2>1. Emptied(c) = [outputs EXCEPT !.blue = {}] BY <1>1 DEF Emptied
  <2>2. Emptied(c) \in Values /\ Emptied(c).blue = {} /\ Emptied(c).green = outputs.green
        /\ Emptied(c).deadline = outputs.deadline /\ Emptied(c).furthest = outputs.furthest
    BY <2>1 DEF Values
  <2> QED BY <1>1, <2>2 DEF Colours
<1>2. CASE c = "green"
  <2>1. Emptied(c) = [outputs EXCEPT !.green = {}] BY <1>2 DEF Emptied
  <2>2. Emptied(c) \in Values /\ Emptied(c).green = {} /\ Emptied(c).blue = outputs.blue
        /\ Emptied(c).deadline = outputs.deadline /\ Emptied(c).furthest = outputs.furthest
    BY <2>1 DEF Values
  <2> QED BY <1>2, <2>2 DEF Colours
<1> QED BY <1>1, <1>2 DEF Colours

\* No entry.
LEMMA NoEntryFacts ==
  NoEntry \in Values /\ NoEntry.blue = {} /\ NoEntry.green = {} /\ \A c \in Colours : NoEntry[c] = {}
BY DEF NoEntry, Values, Colours

\* flush: the flusher.
LEMMA FlushTurns ==
  ASSUME Typed, flush
  PROVE  /\ flusher.pc = "flush" /\ flusher' \in Flush /\ flusher'.pc = "publish" /\ flusher'.hand = flusher.hand
         /\ flusher'.last = flusher.last /\ flusher'.cs.colour = flusher.cs.colour
         /\ flusher.flushTime + Interval <= flusher'.flushTime /\ time <= flusher'.flushTime
         /\ ~flusher'.stalled => ~flusher.stalled /\ flusher'.flushTime = flusher.flushTime + Interval
         /\ flusher'.cs.deadline = IF mode.dedup = 0 /\ ~flusher.last THEN flusher'.flushTime ELSE flusher.cs.deadline
         /\ flips' = flips + 1
         /\ minDeadline' = IF mode.dedup = 0 THEN flusher.cs.deadline ELSE minDeadline
<1>1. /\ flusher \in Flush /\ flusher.cs \in Window /\ flusher.cs.deadline \in Nat /\ flusher.flushTime \in Nat
      /\ flusher.stalled \in BOOLEAN /\ time \in Nat
  BY StreamAssumption DEF Typed, Flush, Window
<1>2. Interval \in Nat \ {0} BY ModeFacts DEF Typed
<1> DEFINE t == flusher.flushTime + Interval
           next == Ahead(t, Interval)
           st == flusher.stalled \/ next > t
           dl == IF mode.dedup = 0 /\ ~flusher.last THEN next ELSE flusher.cs.deadline
<1>3. t \in Nat BY <1>1, <1>2
<1>4. flusher' = [flusher EXCEPT !.pc = "publish", !.flushTime = next, !.stalled = st, !.cs.deadline = dl] BY DEF flush
<1> HIDE DEF t
<1>5. next \in Nat /\ t <= next /\ time <= next BY <1>1, <1>2, <1>3, AheadFacts
<1> HIDE DEF next
<1>6. st \in BOOLEAN BY <1>1
<1>7. dl \in Nat BY <1>1, <1>5
<1> HIDE DEF st, dl
<1>8. /\ flusher' \in Flush /\ flusher'.pc = "publish" /\ flusher'.hand = flusher.hand
      /\ flusher'.last = flusher.last /\ flusher'.cs.colour = flusher.cs.colour
      /\ flusher'.flushTime = next /\ flusher'.stalled = st /\ flusher'.cs.deadline = dl
  BY ONLY <1>1, <1>4, <1>5, <1>6, <1>7 DEF Flush, Window
<1>9. ~st => ~flusher.stalled /\ next = t BY <1>3, <1>5 DEF st
<1>10. flusher.pc = "flush" /\ flips' = flips + 1 /\ minDeadline' = IF mode.dedup = 0 THEN flusher.cs.deadline ELSE minDeadline
  BY DEF flush
<1> QED BY <1>5, <1>8, <1>9, <1>10 DEF t, dl

\* flush: the samples.
LEMMA FlushMoves ==
  ASSUME Typed, flush
  PROVE  /\ FlushColour \in Colours /\ Now \in SUBSET Sample /\ Rest \in SUBSET Sample
         /\ flushed' = flushed \cup {[s |-> s, ts |-> flusher.flushTime] : s \in Now}
         /\ Gone => outputs' = NoEntry /\ lost' = lost \cup Dropped(Rest)
         /\ ~Gone => outputs' = Emptied(FlushColour) /\ lost' = lost /\ Now = outputs[FlushColour]
         /\ outputs' \in Values
<1>1. FlushColour \in Colours BY DEF FlushColour, Typed, Flush, Window, Colours
<1>2. outputs \in Values /\ outputs.blue \in SUBSET Sample /\ outputs.green \in SUBSET Sample BY DEF Typed, Values
<1>3. outputs[FlushColour] \in SUBSET Sample BY <1>1, <1>2 DEF Colours
<1>4. Now \in SUBSET Sample /\ Rest \in SUBSET Sample BY <1>2, <1>3 DEF Now, Rest
<1>5. flushed' = flushed \cup {[s |-> s, ts |-> flusher.flushTime] : s \in Now}
  BY DEF flush, Now, Stale, FlushColour
<1>6. outputs' = (IF Gone THEN NoEntry ELSE Emptied(FlushColour))
  BY DEF flush, Gone, Stale, FlushColour
<1>7. lost' = IF Gone THEN lost \cup Dropped(Rest) ELSE lost
  BY DEF flush, Gone, Stale, FlushColour, Rest, Now
<1>8. ~Gone => Now = outputs[FlushColour] BY DEF Gone, Now
<1>9. Emptied(FlushColour) \in Values BY <1>1, <1>2, EmptiedFacts
<1> QED BY <1>1, <1>4, <1>5, <1>6, <1>7, <1>8, <1>9, NoEntryFacts

\* Publish.
LEMMA PublishDoes ==
  ASSUME Typed, Publish
  PROVE  /\ flusher.pc = "publish" /\ cs' \in Window /\ cs'.deadline = flusher.cs.deadline
         /\ cs'.colour = IF mode.windows /\ ~flusher.last THEN Other(flusher.cs.colour) ELSE flusher.cs.colour
         /\ flusher' \in Flush /\ flusher'.pc = (IF flusher.last THEN "stopped" ELSE "wait") /\ flusher'.wakeAt = time + Loop
         /\ flusher'.flushTime = flusher.flushTime /\ flusher'.cs = flusher.cs /\ flusher'.hand = flusher.hand
         /\ flusher'.last = flusher.last /\ flusher'.stalled = flusher.stalled
         /\ flips' \in Nat /\ flips' = IF flips % 2 = 1 THEN flips + 1 ELSE flips
<1>1. flusher \in Flush /\ flusher.cs.deadline \in Nat /\ flusher.cs.colour \in Colours BY DEF Typed, Flush, Window
<1>2. time + Loop \in Nat BY ModeFacts DEF Typed
<1> DEFINE c == IF mode.windows /\ ~flusher.last THEN Other(flusher.cs.colour) ELSE flusher.cs.colour
           w == time + Loop
           pc == IF flusher.last THEN "stopped" ELSE "wait"
<1>3. c \in Colours BY <1>1 DEF Other, Colours
<1>4. pc \in {"stopped", "wait"} OBVIOUS
<1>5. cs' = [deadline |-> flusher.cs.deadline, colour |-> c] /\ flusher' = [flusher EXCEPT !.pc = pc, !.wakeAt = w]
      /\ flips' = IF flips % 2 = 1 THEN flips + 1 ELSE flips
  BY DEF Publish
<1>6. flips' \in Nat BY <1>5 DEF Typed
<1> HIDE DEF c, w, pc
<1>7. cs' \in Window /\ cs'.deadline = flusher.cs.deadline /\ cs'.colour = c BY <1>1, <1>3, <1>5 DEF Window
<1>8. w \in Nat BY <1>2 DEF w
<1>9. /\ flusher' \in Flush /\ flusher'.pc = pc /\ flusher'.wakeAt = w
      /\ flusher'.flushTime = flusher.flushTime /\ flusher'.cs = flusher.cs /\ flusher'.hand = flusher.hand
      /\ flusher'.last = flusher.last /\ flusher'.stalled = flusher.stalled
  BY ONLY <1>1, <1>4, <1>5, <1>8 DEF Flush
<1> QED BY <1>5, <1>6, <1>7, <1>9 DEF c, w, pc, Publish

\* must_stop.
LEMMA StopDoes ==
  ASSUME Typed, must_stop
  PROVE  /\ flusher.pc = "wait" /\ \A p \in Pushers : pushers[p].pc = "idle"
         /\ flusher' \in Flush /\ flusher'.pc = "dedup" /\ flusher'.cs = cs /\ flusher'.last = TRUE
         /\ flusher'.flushTime = flusher.flushTime /\ flusher'.hand = flusher.hand /\ flusher'.stalled = flusher.stalled
<1>1. flusher \in Flush /\ cs \in Window BY DEF Typed
<1>2. flusher' = [flusher EXCEPT !.pc = "dedup", !.cs = cs, !.last = TRUE] BY DEF must_stop
<1>3. /\ flusher' \in Flush /\ flusher'.pc = "dedup" /\ flusher'.cs = cs /\ flusher'.last = TRUE
      /\ flusher'.flushTime = flusher.flushTime /\ flusher'.hand = flusher.hand /\ flusher'.stalled = flusher.stalled
  BY ONLY <1>1, <1>2 DEF Flush
<1> QED BY <1>3 DEF must_stop

\* StreamTick.
LEMMA TickDoes ==
  ASSUME Typed, StreamTick
  PROVE  /\ time' = time + 1 /\ time' \in 0..MaxTime /\ flusher' \in Flush
         /\ flusher'.pc = flusher.pc /\ flusher'.wakeAt = flusher.wakeAt /\ flusher'.flushTime = flusher.flushTime
         /\ flusher'.cs = flusher.cs /\ flusher'.hand = flusher.hand /\ flusher'.last = flusher.last
         /\ ~flusher'.stalled => ~flusher.stalled
<1>1. flusher \in Flush /\ flusher.stalled \in BOOLEAN BY DEF Typed, Flush
<1> DEFINE st == flusher.stalled \/ flusher.pc \in {"push", "flush", "publish"}
<1>2. flusher' = [flusher EXCEPT !.stalled = st] BY DEF StreamTick
<1>3. st \in BOOLEAN /\ (~st => ~flusher.stalled) BY <1>1
<1> HIDE DEF st
<1>4. /\ flusher' \in Flush
      /\ flusher'.pc = flusher.pc /\ flusher'.wakeAt = flusher.wakeAt /\ flusher'.flushTime = flusher.flushTime
      /\ flusher'.cs = flusher.cs /\ flusher'.hand = flusher.hand /\ flusher'.last = flusher.last
      /\ flusher'.stalled = st
  BY ONLY <1>1, <1>2, <1>3 DEF Flush
<1>5. time' = time + 1 /\ time' \in 0..MaxTime BY StreamAssumption DEF StreamTick, Typed
<1> QED BY <1>3, <1>4, <1>5

----------------------------------------------------------------------------
(* StreamAggr: every step keeps the invariant.                             *)

\* Every step keeps the types.
LEMMA TypedKept ==
  ASSUME Typed, Shaped, PushesOK, StreamNext
  PROVE  Typed'
<1> USE DEF Typed
<1>1. ASSUME NEW p \in Pushers, NEW ts \in 0..MaxTime, PushBegins(p, ts) PROVE Typed'
  <2>1. pushers' \in [Pushers -> Push] BY <1>1, BeginsDoes
  <2> QED BY <2>1, <1>1 DEF PushBegins
<1>2. ASSUME NEW p \in Pushers, PushRoutes(p) PROVE Typed'
  <2>1. pushers' \in [Pushers -> Push] /\ nSamples' \in 0..MaxSamples /\ flushAfter' \in 0..MaxTime BY <1>2, RoutesDoes
  <2> QED BY <2>1, <1>2 DEF PushRoutes
<1>3. ASSUME NEW p \in Pushers, PushIgnores(p) PROVE Typed'
  <2>1. pushers' \in [Pushers -> Push] BY <1>3, EndsDoes DEF PushIgnores, PushEnds
  <2> QED BY <2>1, <1>3 DEF PushIgnores
<1>4. ASSUME NEW p \in Pushers, PushOutputs(p) PROVE Typed'
  <2>1. PushEnds(p) /\ outputs' \in Values BY <1>4, OutputsDoes
  <2>2. pushers' \in [Pushers -> Push] BY <2>1, EndsDoes
  <2> QED BY <2>1, <2>2, <1>4 DEF PushOutputs
<1>5. ASSUME NEW p \in Pushers, PushDedup(p) PROVE Typed'
  <2> DEFINE all == dedupBufs[pushers[p].colour] \cup Marked(p)
  <2>1. PushEnds(p) /\ pushers[p].colour \in Colours BY <1>5, DedupDoes
  <2>2. PICK stay \in Sample : /\ all \in SUBSET Sample
                               /\ dedupBufs' = [dedupBufs EXCEPT ![pushers[p].colour] = {stay}]
                               /\ replaced' = replaced \cup (all \ {stay})
    BY <1>5, DedupDoes
  <2>3. pushers' \in [Pushers -> Push] BY <2>1, EndsDoes
  <2> HIDE DEF all
  <2>4. dedupBufs' \in [Colours -> SUBSET Sample] /\ replaced' \in SUBSET Sample BY <2>1, <2>2
  <2> QED BY <2>3, <2>4, <1>5 DEF PushDedup
<1>6. CASE WakeUp BY <1>6, WakeUpDoes DEF WakeUp
<1>7. CASE DedupTake
  <2>1. flusher' \in Flush BY <1>7, TakeDoes
  <2>2. flusher.cs.colour \in Colours /\ flusher.cs.deadline \in Nat BY DEF Flush, Window
  <2>3. mode.dedup \in Nat BY ModeFacts
  <2>4. mode.dedup = 0 => UNCHANGED <<minDeadline, dedupBufs>> BY <1>7, TakeDoes
  <2>5. mode.dedup > 0 => minDeadline' = flusher.cs.deadline /\ dedupBufs' = [dedupBufs EXCEPT ![flusher.cs.colour] = {}]
    BY <1>7, TakeDoes
  <2>6. minDeadline' \in Nat /\ dedupBufs' \in [Colours -> SUBSET Sample] BY <2>2, <2>3, <2>4, <2>5
  <2> QED BY <2>1, <2>6, <1>7 DEF DedupTake
<1>8. CASE DedupPush
  <2>1. flusher' \in Flush /\ outputs' \in Values BY <1>8, DedupPushDoes
  <2> QED BY <2>1, <1>8 DEF DedupPush
<1>9. CASE flush
  <2>1. flusher' \in Flush /\ flips' = flips + 1 BY <1>9, FlushTurns
  <2>2. flusher.cs.deadline \in Nat /\ flusher.flushTime \in Nat BY DEF Flush, Window
  <2>3. minDeadline' \in Nat /\ flips' \in Nat BY <2>1, <2>2, <1>9, FlushTurns
  <2>4. /\ Now \in SUBSET Sample /\ Rest \in SUBSET Sample /\ outputs' \in Values
        /\ flushed' = flushed \cup {[s |-> s, ts |-> flusher.flushTime] : s \in Now}
        /\ Gone => lost' = lost \cup Dropped(Rest)
        /\ ~Gone => lost' = lost
    BY <1>9, FlushMoves
  <2>5. lost' \in SUBSET Sample
    <3>1. Dropped(Rest) \in SUBSET Sample BY <2>4, DroppedFacts
    <3> QED BY <2>4, <3>1
  <2>6. flushed' \in SUBSET [s : Sample, ts : Nat] BY <2>2, <2>4
  <2> QED BY <2>1, <2>3, <2>4, <2>5, <2>6, <1>9 DEF flush
<1>10. CASE Publish
  <2>1. flusher' \in Flush /\ cs' \in Window /\ flips' \in Nat BY <1>10, PublishDoes
  <2> QED BY <2>1, <1>10 DEF Publish
<1>11. CASE must_stop
  <2>1. flusher' \in Flush BY <1>11, StopDoes
  <2> QED BY <2>1, <1>11 DEF must_stop
<1>12. CASE StreamTick
  <2>1. flusher' \in Flush /\ time' \in 0..MaxTime BY <1>12, TickDoes
  <2> QED BY <2>1, <1>12 DEF StreamTick
<1> QED BY <1>1, <1>2, <1>3, <1>4, <1>5, <1>6, <1>7, <1>8, <1>9, <1>10, <1>11, <1>12 DEF StreamNext

\* Every step keeps what is where.
LEMMA ShapedKept ==
  ASSUME Typed, Shaped, PushesOK, Phases, StreamNext
  PROVE  Shaped'
<1> USE DEF Shaped
<1>0. mode.dedup \in Nat /\ mode.windows \in BOOLEAN BY ModeFacts DEF Typed
<1>1. ASSUME NEW p \in Pushers, NEW ts \in 0..MaxTime, PushBegins(p, ts) PROVE Shaped'
  <2>1. pushers'[p].colour = "blue" /\ \A q \in Pushers : q # p => pushers'[q] = pushers[q] BY <1>1, BeginsDoes
  <2> QED BY <2>1, <1>1 DEF PushBegins
<1>2. ASSUME NEW p \in Pushers, PushRoutes(p) PROVE Shaped'
  <2>1. pushers'[p].colour = ColourOf(pushers[p].ts) /\ \A q \in Pushers : q # p => pushers'[q] = pushers[q]
    BY <1>2, RoutesDoes
  <2>2. ~mode.windows => pushers'[p].colour = "blue" BY <2>1 DEF ColourOf
  <2> QED BY <2>1, <2>2, <1>2 DEF PushRoutes
<1>3. ASSUME NEW p \in Pushers, PushIgnores(p) PROVE Shaped'
  <2>1. pushers'[p] = NotPushing /\ NotPushing.colour = "blue" /\ \A q \in Pushers : q # p => pushers'[q] = pushers[q]
    BY <1>3, EndsDoes DEF PushIgnores, PushEnds
  <2> QED BY <2>1, <1>3 DEF PushIgnores
<1>4. ASSUME NEW p \in Pushers, PushOutputs(p) PROVE Shaped'
  <2>1. PushEnds(p) BY <1>4, OutputsDoes
  <2>2. pushers'[p] = NotPushing /\ NotPushing.colour = "blue" /\ \A q \in Pushers : q # p => pushers'[q] = pushers[q]
    BY <2>1, EndsDoes
  <2>3. /\ \A e \in Colours : e # pushers[p].colour => outputs'[e] = outputs[e]
        /\ outputs'.deadline = pushers[p].deleteDeadline /\ pushers[p].deleteDeadline \in Nat /\ mode.dedup = 0
    BY <1>4, OutputsDoes
  <2>4. ~mode.windows => outputs'.green = {} BY <2>3 DEF Colours
  <2>5. outputs'.deadline # -1 BY <2>3
  <2> QED BY <2>2, <2>3, <2>4, <2>5, <1>4 DEF PushOutputs
<1>5. ASSUME NEW p \in Pushers, PushDedup(p) PROVE Shaped'
  <2>1. PushEnds(p) /\ pushers[p].colour \in Colours /\ mode.dedup > 0 BY <1>5, DedupDoes
  <2>2. PICK stay \in Sample : dedupBufs' = [dedupBufs EXCEPT ![pushers[p].colour] = {stay}]
    BY <1>5, DedupDoes
  <2>3. pushers'[p] = NotPushing /\ NotPushing.colour = "blue" /\ \A q \in Pushers : q # p => pushers'[q] = pushers[q]
    BY <2>1, EndsDoes
  <2>4. \A c \in Colours : AtMostOne(dedupBufs'[c])
    <3>1. AtMostOne({stay}) BY DEF AtMostOne
    <3> QED BY <2>1, <2>2, <3>1 DEF Typed
  <2>5. ~mode.windows => dedupBufs'["green"] = {} BY <2>1, <2>2 DEF Typed, Colours
  <2>6. mode.dedup # 0 BY <2>1, <1>0
  <2> QED BY <2>3, <2>4, <2>5, <2>6, <1>5 DEF PushDedup
<1>6. CASE WakeUp
  <2>1. flusher.pc = "wait" /\ flusher'.pc = "sleep" /\ flusher'.cs = cs /\ flusher'.hand = flusher.hand BY <1>6, WakeUpDoes
  <2> QED BY <2>1, <1>6 DEF WakeUp
<1>7. CASE DedupTake
  <2>1. flusher'.cs = flusher.cs /\ flusher.pc \in {"sleep", "dedup"} BY <1>7, TakeDoes
  <2>2. mode.dedup = 0 => flusher'.pc = "flush" /\ flusher'.hand = flusher.hand /\ UNCHANGED dedupBufs BY <1>7, TakeDoes
  <2>3. mode.dedup > 0 => flusher'.pc = "push" /\ dedupBufs' = [dedupBufs EXCEPT ![flusher.cs.colour] = {}] BY <1>7, TakeDoes
  <2>4. \A c \in Colours : dedupBufs'[c] \subseteq dedupBufs[c] BY <2>2, <2>3, <1>0 DEF Typed
  <2>5. \A c \in Colours : AtMostOne(dedupBufs'[c]) BY <2>4 DEF AtMostOne
  <2>6. dedupBufs["green"] = {} => dedupBufs'["green"] = {} BY <2>4 DEF Colours
  <2> QED BY <2>1, <2>2, <2>3, <2>5, <2>6, <1>0, <1>7 DEF DedupTake
<1>8. CASE DedupPush
  <2>1. /\ mode.dedup > 0 /\ flusher'.cs.colour = flusher.cs.colour /\ outputs'.green = outputs.green /\ flusher'.hand = {}
        /\ flusher.hand = {} => outputs' = outputs
        /\ flusher.hand # {} => outputs'.deadline = flusher.cs.deadline + Interval
    BY <1>8, DedupPushDoes
  <2>2. flusher.cs.deadline + Interval \in Nat BY ModeFacts DEF Typed, Flush, Window
  <2>3. outputs'.deadline = -1 => outputs' = NoEntry BY <2>1, <2>2
  <2>4. mode.dedup # 0 BY <2>1, <1>0
  <2> QED BY <2>1, <2>3, <2>4, <1>8 DEF DedupPush
<1>9. CASE flush
  <2>1. flusher'.cs.colour = flusher.cs.colour /\ flusher'.hand = flusher.hand /\ flusher.pc = "flush" /\ flusher'.pc = "publish"
    BY <1>9, FlushTurns
  <2>2. /\ FlushColour \in Colours
        /\ Gone => outputs' = NoEntry
        /\ ~Gone => outputs' = Emptied(FlushColour)
    BY <1>9, FlushMoves
  <2>3. outputs \in Values /\ outputs.deadline \in Nat \cup {-1} /\ flusher.flushTime \in Nat BY DEF Typed, Values, Flush
  <2>4. ~Gone => outputs.deadline # -1 BY <2>3 DEF Gone, Stale
  <2>5. outputs'.deadline = -1 => outputs' = NoEntry
    <3>1. Emptied(FlushColour).deadline = outputs.deadline BY <2>2, <2>3, EmptiedFacts
    <3> QED BY <2>2, <2>4, <3>1
  <2>6. outputs.green = {} => outputs'.green = {}
    <3>1. Emptied(FlushColour)["green"] = {} \/ Emptied(FlushColour)["green"] = outputs["green"] BY <2>2, <2>3, EmptiedFacts DEF Colours
    <3> QED BY <2>2, <3>1, NoEntryFacts
  <2> QED BY <2>1, <2>5, <2>6, <1>9 DEF flush
<1>10. CASE Publish
  <2>1. /\ cs'.colour = IF mode.windows /\ ~flusher.last THEN Other(flusher.cs.colour) ELSE flusher.cs.colour
        /\ flusher.pc = "publish" /\ flusher'.cs = flusher.cs /\ flusher'.hand = flusher.hand /\ flusher'.pc \in {"wait", "stopped"}
    BY <1>10, PublishDoes
  <2> QED BY <2>1, <1>10 DEF Publish
<1>11. CASE must_stop
  <2>1. flusher.pc = "wait" /\ flusher'.pc = "dedup" /\ flusher'.cs = cs /\ flusher'.hand = flusher.hand BY <1>11, StopDoes
  <2> QED BY <2>1, <1>11 DEF must_stop
<1>12. CASE StreamTick
  <2>1. flusher'.pc = flusher.pc /\ flusher'.cs = flusher.cs /\ flusher'.hand = flusher.hand BY <1>12, TickDoes
  <2> QED BY <2>1, <1>12 DEF StreamTick
<1> QED BY <1>1, <1>2, <1>3, <1>4, <1>5, <1>6, <1>7, <1>8, <1>9, <1>10, <1>11, <1>12 DEF StreamNext

\* A push that is over or has not begun is in order.
LEMMA IdleOK ==
  ASSUME NEW t, NEW n \in Nat
  PROVE  PushOK(NotPushing, t, n)
BY DEF PushOK, NotPushing

\* Every step keeps the pushes in order.
LEMMA PushesKept ==
  ASSUME Typed, PushesOK, StreamNext
  PROVE  PushesOK'
<1> USE DEF PushesOK
<1>0. time \in Nat /\ flips \in Nat /\ Interval \in Nat /\ \A q \in Pushers : pushers[q] \in Push BY ModeFacts, StreamAssumption DEF Typed
<1>a. ASSUME NEW t \in Nat, t >= time, NEW n \in Nat, n >= flips, NEW q \in Pushers
      PROVE  PushOK(pushers[q], t, n)
  <2>1. PushOK(pushers[q], time, flips) OBVIOUS
  <2>2. pushers[q].ts \in Nat /\ pushers[q].flips \in Nat BY <1>0 DEF Push
  <2>3. pushers[q].pc # "idle" => pushers[q].ts <= t BY <2>1, <2>2, <1>0, <1>a DEF PushOK
  <2>4. pushers[q].flips <= n BY <2>1, <2>2, <1>0, <1>a DEF PushOK
  <2> QED BY <2>1, <2>3, <2>4 DEF PushOK
<1>1. ASSUME NEW p \in Pushers, NEW ts \in 0..MaxTime, PushBegins(p, ts) PROVE PushesOK'
  <2>1. /\ pushers'[p].pc = "begun" /\ pushers'[p].ts = ts /\ pushers'[p].deleteDeadline = time + Interval
        /\ pushers'[p].flips = flips /\ pushers'[p].s = {}
        /\ \A q \in Pushers : q # p => pushers'[q] = pushers[q]
    BY <1>1, BeginsDoes
  <2>2. UNCHANGED <<mode, time, flips>> /\ ts <= time BY <1>1 DEF PushBegins
  <2>3. PushOK(pushers'[p], time, flips) BY <2>1, <2>2, <1>0 DEF PushOK
  <2>4. \A q \in Pushers : PushOK(pushers'[q], time, flips) BY <2>1, <2>3
  <2> QED BY <2>2, <2>4 DEF PushOK, Interval
<1>2. ASSUME NEW p \in Pushers, PushRoutes(p) PROVE PushesOK'
  <2> DEFINE x == [id |-> nSamples + 1, ts |-> pushers[p].ts, slow |-> FALSE]
  <2>1. /\ pushers[p].pc = "begun" /\ pushers'[p].pc = "routed" /\ pushers'[p].ts = pushers[p].ts
        /\ pushers'[p].deleteDeadline = pushers[p].deleteDeadline
        /\ pushers'[p].flips = pushers[p].flips /\ pushers'[p].s = {x}
        /\ \A q \in Pushers : q # p => pushers'[q] = pushers[q]
    BY <1>2, RoutesDoes
  <2>2. UNCHANGED <<mode, time, flips>> BY <1>2 DEF PushRoutes
  <2>3. x \in Sample /\ x.ts = pushers[p].ts BY <1>0 DEF Sample, Push, Typed
  <2> HIDE DEF x
  <2>4. PushOK(pushers'[p], time, flips) BY <2>1, <2>3 DEF PushOK
  <2>5. \A q \in Pushers : PushOK(pushers'[q], time, flips) BY <2>1, <2>4
  <2> QED BY <2>2, <2>5 DEF PushOK, Interval
<1>b. ASSUME NEW p \in Pushers, PushEnds(p), UNCHANGED <<mode, time, flips>> PROVE PushesOK'
  <2>1. pushers'[p] = NotPushing /\ \A q \in Pushers : q # p => pushers'[q] = pushers[q] BY <1>b, EndsDoes
  <2>2. \A q \in Pushers : PushOK(pushers'[q], time, flips) BY <2>1, <1>0, IdleOK
  <2> QED BY <2>2, <1>b DEF PushOK, Interval
<1>3. ASSUME NEW p \in Pushers, PushIgnores(p) PROVE PushesOK' BY <1>b, <1>3 DEF PushIgnores, PushEnds
<1>4. ASSUME NEW p \in Pushers, PushOutputs(p) PROVE PushesOK' BY <1>b, <1>4 DEF PushOutputs, PushEnds
<1>5. ASSUME NEW p \in Pushers, PushDedup(p) PROVE PushesOK' BY <1>b, <1>5 DEF PushDedup, PushEnds
<1>c. ASSUME UNCHANGED <<mode, pushers>>, time' \in Nat, time' >= time, flips' \in Nat, flips' >= flips PROVE PushesOK'
  <2>1. \A q \in Pushers : PushOK(pushers[q], time', flips') BY <1>a, <1>c
  <2> QED BY <2>1, <1>c DEF PushOK, Interval
<1>6. CASE WakeUp BY <1>c, <1>0, <1>6 DEF WakeUp
<1>7. CASE DedupTake BY <1>c, <1>0, <1>7 DEF DedupTake
<1>8. CASE DedupPush BY <1>c, <1>0, <1>8 DEF DedupPush
<1>9. CASE flush BY <1>c, <1>0, <1>9 DEF flush
<1>10. CASE Publish BY <1>c, <1>0, <1>10 DEF Publish
<1>11. CASE must_stop BY <1>c, <1>0, <1>11 DEF must_stop
<1>12. CASE StreamTick BY <1>c, <1>0, <1>12 DEF StreamTick
<1> QED BY <1>1, <1>2, <1>3, <1>4, <1>5, <1>6, <1>7, <1>8, <1>9, <1>10, <1>11, <1>12 DEF StreamNext

\* The steps of a push leave the flusher alone.
LEMMA PushLeaves ==
  ASSUME NEW p \in Pushers,
         (\E ts \in 0..MaxTime : PushBegins(p, ts)) \/ PushRoutes(p) \/ PushIgnores(p) \/ PushOutputs(p) \/ PushDedup(p)
  PROVE  UNCHANGED <<mode, time, cs, minDeadline, flusher, flushed, lost, flips>>
BY DEF PushBegins, PushRoutes, PushIgnores, PushOutputs, PushDedup

\* Every step keeps the phases of the flusher.
LEMMA PhasesKept ==
  ASSUME Typed, Shaped, Phases, StreamNext
  PROVE  Phases'
<1> USE DEF Phases
<1>0. /\ mode.dedup \in Nat /\ flips \in Nat /\ cs.deadline \in Nat /\ minDeadline \in Nat /\ flusher.cs.deadline \in Nat
      /\ Interval \in Nat /\ flusher.flushTime \in Nat
  BY ModeFacts DEF Typed, Flush, Window
<1>1. ASSUME NEW p \in Pushers,
             (\E ts \in 0..MaxTime : PushBegins(p, ts)) \/ PushRoutes(p) \/ PushIgnores(p) \/ PushOutputs(p) \/ PushDedup(p)
      PROVE  Phases'
  <2>1. UNCHANGED <<mode, cs, minDeadline, flusher, flips>> BY <1>1, PushLeaves
  <2> QED BY <2>1
<1>6. CASE WakeUp
  <2>1. /\ flusher.pc = "wait" /\ flusher'.pc = "sleep" /\ flusher'.cs = cs /\ flusher'.last = flusher.last
        /\ flusher'.flushTime = flusher.flushTime
    BY <1>6, WakeUpDoes
  <2>2. UNCHANGED <<mode, cs, minDeadline, flips>> BY <1>6 DEF WakeUp
  <2> QED BY <2>1, <2>2
<1>7. CASE DedupTake
  <2>1. /\ flusher.pc \in {"sleep", "dedup"} /\ flusher'.cs = flusher.cs /\ flusher'.last = flusher.last
        /\ flusher'.flushTime = flusher.flushTime
    BY <1>7, TakeDoes
  <2>2. UNCHANGED <<mode, cs, flips>> BY <1>7 DEF DedupTake
  <2>3. CASE mode.dedup = 0
    <3>1. flusher'.pc = "flush" /\ minDeadline' = minDeadline BY <2>3, <1>7, TakeDoes
    <3> QED BY <2>1, <2>2, <2>3, <3>1, <1>0
  <2>4. CASE mode.dedup > 0
    <3>1. flusher'.pc = "push" /\ minDeadline' = flusher.cs.deadline BY <2>4, <1>7, TakeDoes
    <3>2. flusher.cs = cs /\ minDeadline' = cs.deadline BY <2>1, <3>1
    <3> QED BY <2>1, <2>2, <2>4, <3>1, <3>2, <1>0
  <2> QED BY <2>3, <2>4, <1>0
<1>8. CASE DedupPush
  <2>1. /\ mode.dedup > 0 /\ flusher.pc = "push" /\ flusher'.cs.colour = flusher.cs.colour
        /\ flusher.cs.deadline <= flusher'.cs.deadline
        /\ flusher'.pc \in {"flush", "publish"}
    BY <1>8, DedupPushDoes
  <2>2. UNCHANGED <<mode, cs, minDeadline, flips>> BY <1>8 DEF DedupPush
  <2>3. mode.dedup # 0 BY <2>1, <1>0
  <2> QED BY <2>1, <2>2, <2>3, <1>0
<1>9. CASE flush
  <2>1. /\ flusher.pc = "flush" /\ flusher'.pc = "publish" /\ flusher'.last = flusher.last
        /\ flusher'.cs.colour = flusher.cs.colour /\ flips' = flips + 1
        /\ flusher.flushTime + Interval <= flusher'.flushTime
        /\ flusher'.cs.deadline = IF mode.dedup = 0 /\ ~flusher.last THEN flusher'.flushTime ELSE flusher.cs.deadline
        /\ minDeadline' = IF mode.dedup = 0 THEN flusher.cs.deadline ELSE minDeadline
        /\ flusher' \in Flush
    BY <1>9, FlushTurns
  <2>2. UNCHANGED <<mode, cs>> BY <1>9 DEF flush
  <2>3. flips % 2 = 0 /\ flips' % 2 = 1 BY <2>1, <1>0
  <2>4. flusher'.flushTime \in Nat BY <2>1 DEF Flush
  <2>5. CASE mode.dedup = 0
    <3>1. flusher.cs = cs /\ cs.deadline = flusher.flushTime /\ minDeadline' = cs.deadline BY <2>1, <2>5
    <3>2. cs.deadline <= flusher'.cs.deadline
      <4>1. CASE flusher.last BY <2>1, <2>5, <3>1, <4>1, <1>0
      <4>2. CASE ~flusher.last
        <5>1. flusher'.cs.deadline = flusher'.flushTime BY <2>1, <2>5, <4>2
        <5> QED BY <2>1, <2>4, <3>1, <5>1, <1>0
      <4> QED BY <4>1, <4>2
    <3> QED BY <2>1, <2>2, <2>3, <2>5, <3>1, <3>2, <1>0
  <2>6. CASE mode.dedup # 0
    <3>1. flusher'.cs.deadline = flusher.cs.deadline /\ minDeadline' = minDeadline BY <2>1, <2>6
    <3> QED BY <2>1, <2>2, <2>3, <2>6, <3>1, <1>0
  <2> QED BY <2>5, <2>6
<1>10. CASE Publish
  <2>1. /\ flusher.pc = "publish" /\ cs'.deadline = flusher.cs.deadline
        /\ flusher'.pc = (IF flusher.last THEN "stopped" ELSE "wait")
        /\ flusher'.flushTime = flusher.flushTime /\ flusher'.last = flusher.last
        /\ flips' = IF flips % 2 = 1 THEN flips + 1 ELSE flips
    BY <1>10, PublishDoes
  <2>2. UNCHANGED <<mode, minDeadline>> BY <1>10 DEF Publish
  <2>3. flips' % 2 = 0 BY <2>1, <1>0
  <2>4. minDeadline' <= cs'.deadline BY <2>1, <2>2, <1>0
  <2> QED BY <2>1, <2>2, <2>3, <2>4
<1>11. CASE must_stop
  <2>1. /\ flusher.pc = "wait" /\ flusher'.pc = "dedup" /\ flusher'.cs = cs /\ flusher'.last
        /\ flusher'.flushTime = flusher.flushTime
    BY <1>11, StopDoes
  <2>2. UNCHANGED <<mode, cs, minDeadline, flips>> BY <1>11 DEF must_stop
  <2> QED BY <2>1, <2>2
<1>12. CASE StreamTick
  <2>1. /\ flusher'.pc = flusher.pc /\ flusher'.flushTime = flusher.flushTime /\ flusher'.cs = flusher.cs
        /\ flusher'.last = flusher.last
    BY <1>12, TickDoes
  <2>2. UNCHANGED <<mode, cs, minDeadline, flips>> BY <1>12 DEF StreamTick
  <2> QED BY <2>1, <2>2
<1> QED BY <1>1, <1>6, <1>7, <1>8, <1>9, <1>10, <1>11, <1>12 DEF StreamNext

\* Every step keeps what is so after must_stop.
LEMMA EndedKept ==
  ASSUME Typed, Shaped, Phases, Ended, StreamNext
  PROVE  Ended'
<1> USE DEF Ended
<1>1. ASSUME NEW p \in Pushers, NEW ts \in 0..MaxTime, PushBegins(p, ts) PROVE Ended'
  BY <1>1 DEF PushBegins
<1>2. ASSUME NEW p \in Pushers, pushers[p].pc # "idle",
             PushRoutes(p) \/ PushIgnores(p) \/ PushOutputs(p) \/ PushDedup(p) PROVE Ended'
  <2>1. ~flusher.last BY <1>2
  <2>2. flusher' = flusher BY <1>2, PushLeaves
  <2> QED BY <2>1, <2>2
<1>3. ASSUME NEW p \in Pushers, PushRoutes(p) \/ PushIgnores(p) \/ PushOutputs(p) \/ PushDedup(p) PROVE Ended'
  <2>1. pushers[p].pc \in {"begun", "routed"} BY <1>3 DEF PushRoutes, PushIgnores, PushOutputs, PushDedup
  <2> QED BY <2>1, <1>2, <1>3
<1>6. CASE WakeUp
  <2>1. flusher'.pc = "sleep" /\ flusher'.last = flusher.last BY <1>6, WakeUpDoes
  <2> QED BY <2>1, <1>6 DEF WakeUp
<1>7. CASE DedupTake
  <2>1. flusher'.pc \in {"flush", "push"} /\ flusher'.last = flusher.last
    <3>1. mode.dedup \in Nat BY ModeFacts DEF Typed
    <3> QED BY <3>1, <1>7, TakeDoes
  <2> QED BY <2>1, <1>7 DEF DedupTake
<1>8. CASE DedupPush
  <2>1. /\ flusher'.last = flusher.last
        /\ flusher'.pc = IF flusher.last \/ flusher.flushTime <= flusher.cs.deadline THEN "flush" ELSE "publish"
    BY <1>8, DedupPushDoes
  <2> QED BY <2>1, <1>8 DEF DedupPush
<1>9. CASE flush
  <2>1. flusher'.last = flusher.last BY <1>9, FlushTurns
  <2>2. flusher.last => outputs' = NoEntry BY <1>9, FlushMoves DEF Gone
  <2> QED BY <2>1, <2>2, <1>9 DEF flush
<1>10. CASE Publish
  <2>1. flusher.pc = "publish" /\ flusher'.last = flusher.last BY <1>10, PublishDoes
  <2> QED BY <2>1, <1>10 DEF Publish
<1>11. CASE must_stop
  <2>1. flusher'.pc = "dedup" /\ \A p \in Pushers : pushers[p].pc = "idle" BY <1>11, StopDoes
  <2> QED BY <2>1, <1>11 DEF must_stop
<1>12. CASE StreamTick
  <2>1. flusher'.pc = flusher.pc /\ flusher'.last = flusher.last BY <1>12, TickDoes
  <2> QED BY <2>1, <1>12 DEF StreamTick
<1> QED BY <1>1, <1>3, <1>6, <1>7, <1>8, <1>9, <1>10, <1>11, <1>12 DEF StreamNext

\* No step changes the configuration.
LEMMA ModeStays ==
  ASSUME StreamNext
  PROVE  mode' = mode
BY DEF StreamNext, PushBegins, PushRoutes, PushIgnores, PushOutputs, PushDedup, WakeUp, DedupTake, DedupPush, flush,
       Publish, must_stop, StreamTick

\* What the windows give in a configuration that has them.
InWindows == FlushesOrdered /\ WindowsKept /\ \A p \in Pushers : PushWindow(pushers[p])

\* The steps of a push keep samples in their windows.
LEMMA WindowedByPush ==
  ASSUME Typed, PushesOK, Phases, InWindows, mode.windows, mode.dedup = 0, NEW p \in Pushers,
         (\E ts \in 0..MaxTime : PushBegins(p, ts)) \/ PushRoutes(p) \/ PushIgnores(p) \/ PushOutputs(p) \/ PushDedup(p)
  PROVE  InWindows'
<1>0. UNCHANGED <<mode, time, cs, minDeadline, flusher, flushed, lost, flips>> BY PushLeaves
<1>1. FlushesOrdered' BY <1>0 DEF InWindows, FlushesOrdered, FlushedInWindow
<1>2. ASSUME outputs' = outputs PROVE WindowsKept' BY <1>0, <1>2 DEF InWindows, WindowsKept, Fresh
<1>3. ASSUME NEW q \in Pushers, pushers'[q] = pushers[q] PROVE PushWindow(pushers[q])'
  BY <1>0, <1>3 DEF InWindows, PushWindow, InTime
<1>4. ASSUME NEW q \in Pushers, pushers'[q].pc = "idle" PROVE PushWindow(pushers[q])'
  BY <1>4 DEF PushWindow
<1>5. ASSUME NEW ts \in 0..MaxTime, PushBegins(p, ts) PROVE InWindows'
  <2>1. /\ pushers'[p].pc = "begun" /\ pushers'[p].minDeadline = minDeadline
        /\ \A q \in Pushers : q # p => pushers'[q] = pushers[q]
    BY <1>5, BeginsDoes
  <2>2. PushWindow(pushers[p])' BY <2>1, <1>0 DEF PushWindow
  <2>3. outputs' = outputs BY <1>5 DEF PushBegins
  <2> QED BY <1>1, <1>2, <1>3, <2>1, <2>2, <2>3 DEF InWindows
<1>6. CASE PushRoutes(p)
  <2>1. /\ pushers[p].pc = "begun" /\ pushers'[p].pc = "routed" /\ pushers'[p].ts = pushers[p].ts
        /\ pushers'[p].flips = pushers[p].flips /\ pushers'[p].colour = ColourOf(pushers[p].ts)
        /\ \A q \in Pushers : q # p => pushers'[q] = pushers[q]
    BY <1>6, RoutesDoes
  <2>2. pushers[p].ts >= pushers[p].minDeadline /\ pushers[p].ts \in Nat /\ cs.deadline \in Nat
    BY <1>6 DEF PushRoutes, Ignored, Typed, Push, Window
  <2>3. InTime(pushers[p]) => minDeadline <= pushers[p].ts BY <2>1, <2>2 DEF InWindows, PushWindow
  <2>4. ColourOf(pushers[p].ts) = cs.colour => pushers[p].ts <= cs.deadline
    BY DEF ColourOf, Typed, Window, Colours
  <2>5. ColourOf(pushers[p].ts) # cs.colour => cs.deadline < pushers[p].ts
    BY <2>2 DEF ColourOf, Typed, Window, Colours
  <2>6. InTime(pushers[p])' => InTime(pushers[p]) BY <2>1, <1>0 DEF InTime
  <2>7. PushWindow(pushers[p])' BY <2>1, <2>3, <2>4, <2>5, <2>6, <1>0 DEF PushWindow
  <2>8. outputs' = outputs BY <1>6 DEF PushRoutes
  <2> QED BY <1>1, <1>2, <1>3, <2>1, <2>7, <2>8 DEF InWindows
<1>7. CASE PushIgnores(p)
  <2>1. pushers'[p].pc = "idle" /\ \A q \in Pushers : q # p => pushers'[q] = pushers[q]
    BY <1>7, EndsDoes DEF PushIgnores, PushEnds
  <2>2. outputs' = outputs BY <1>7 DEF PushIgnores
  <2> QED BY <1>1, <1>2, <1>3, <1>4, <2>1, <2>2 DEF InWindows
<1>8. CASE PushOutputs(p)
  <2>1. /\ PushEnds(p) /\ pushers[p].pc = "routed" /\ pushers[p].colour \in Colours
        /\ outputs'[pushers[p].colour] = outputs[pushers[p].colour] \cup Marked(p)
        /\ \A e \in Colours : e # pushers[p].colour => outputs'[e] = outputs[e]
    BY <1>8, OutputsDoes
  <2>2. pushers'[p].pc = "idle" /\ \A q \in Pushers : q # p => pushers'[q] = pushers[q] BY <2>1, EndsDoes
  <2>3. PICK m \in Sample : Marked(p) = {m} /\ m.ts = pushers[p].ts /\ m.slow = Overtaken(p)
    BY <2>1, MarkedOne DEF PushesOK
  <2>4. ~m.slow => InTime(pushers[p]) /\ flusher.pc # "publish"
    <3>1. ~Overtaken(p) => pushers[p].flips = flips /\ flips % 2 # 1 BY DEF Overtaken
    <3>2. flips % 2 # 1 => flips % 2 = 0 BY DEF Typed
    <3> QED BY <2>3, <3>1, <3>2 DEF InTime, Phases
  <2>5. m.ts <= time BY <2>1, <2>3 DEF PushesOK, PushOK
  <2>6. ASSUME NEW c \in Colours, NEW s \in Fresh(outputs[c])'
        PROVE  /\ s.ts <= time
               /\ c = cs.colour => flusher.pc # "publish" /\ minDeadline <= s.ts /\ s.ts <= cs.deadline
               /\ c # cs.colour => cs.deadline < s.ts /\ (flusher.pc = "publish" => s.ts <= flusher.cs.deadline)
    <3>1. CASE s \in outputs[c] BY <3>1, <2>6 DEF InWindows, WindowsKept, Fresh
    <3>2. CASE s \notin outputs[c]
      <4>1. c = pushers[p].colour /\ s = m /\ ~m.slow BY <2>1, <2>3, <2>6, <3>2 DEF Fresh
      <4> QED BY <4>1, <2>1, <2>3, <2>4, <2>5 DEF InWindows, PushWindow
    <3> QED BY <3>1, <3>2
  <2>7. WindowsKept' BY <2>6, <1>0 DEF WindowsKept
  <2> QED BY <1>1, <1>3, <1>4, <2>2, <2>7 DEF InWindows
<1>9. CASE PushDedup(p)
  <2>1. FALSE BY <1>9 DEF PushDedup
  <2> QED BY <2>1
<1> QED BY <1>5, <1>6, <1>7, <1>8, <1>9

\* A push that was under way before a flush is not in time after it.
LEMMA Overtakes ==
  ASSUME Typed, PushesOK, pushers' = pushers, flips' = flips + 1
  PROVE  \A p \in Pushers : PushWindow(pushers[p])'
<1> SUFFICES ASSUME NEW p \in Pushers PROVE PushWindow(pushers[p])' OBVIOUS
<1>1. pushers[p].flips \in Nat /\ pushers[p].flips <= flips /\ flips \in Nat BY DEF Typed, Push, PushesOK, PushOK
<1>2. pushers'[p].flips # flips' BY <1>1
<1> QED BY <1>2 DEF PushWindow, InTime

\* The steps of the flusher keep samples in their windows.
LEMMA WindowedByFlusher ==
  ASSUME Typed, Shaped, PushesOK, Phases, Ended, InWindows, mode.windows, mode.dedup = 0,
         WakeUp \/ DedupTake \/ DedupPush \/ flush \/ Publish \/ must_stop \/ StreamTick
  PROVE  InWindows'
<1>0. /\ flips \in Nat /\ cs.deadline \in Nat /\ minDeadline \in Nat /\ flusher.cs.deadline \in Nat
      /\ Interval \in Nat /\ flusher.flushTime \in Nat /\ time \in Nat /\ cs.colour \in Colours
  BY ModeFacts, StreamAssumption DEF Typed, Flush, Window
<1>a. \A c \in Colours : outputs[c] \in SUBSET Sample BY DEF Typed, Values, Colours
<1>1. ASSUME UNCHANGED <<mode, cs, minDeadline, flips, flushed, outputs, pushers>>, time' \in Nat, time <= time',
             flusher'.pc = "publish" => flusher.pc = "publish" /\ flusher'.cs = flusher.cs
      PROVE  InWindows'
  <2>1. FlushesOrdered' BY <1>1 DEF InWindows, FlushesOrdered, FlushedInWindow
  <2>2. \A q \in Pushers : PushWindow(pushers[q])' BY <1>1 DEF InWindows, PushWindow, InTime
  <2>3. ASSUME NEW c \in Colours, NEW s \in Fresh(outputs[c])
        PROVE  /\ s.ts <= time'
               /\ c = cs.colour => flusher'.pc # "publish" /\ minDeadline <= s.ts /\ s.ts <= cs.deadline
               /\ c # cs.colour => cs.deadline < s.ts /\ (flusher'.pc = "publish" => s.ts <= flusher'.cs.deadline)
    <3>1. s.ts \in Nat BY <1>a DEF Fresh, Sample
    <3>2. /\ s.ts <= time
          /\ c = cs.colour => flusher.pc # "publish" /\ minDeadline <= s.ts /\ s.ts <= cs.deadline
          /\ c # cs.colour => cs.deadline < s.ts /\ (flusher.pc = "publish" => s.ts <= flusher.cs.deadline)
      BY DEF InWindows, WindowsKept
    <3>3. s.ts <= time' BY ONLY <3>1, <3>2, <1>0, <1>1
    <3> QED BY <3>2, <3>3, <1>1
  <2>4. WindowsKept' BY <2>3, <1>1 DEF WindowsKept, Fresh
  <2> QED BY <2>1, <2>2, <2>4 DEF InWindows
<1>6. CASE WakeUp
  <2>1. flusher'.pc = "sleep" BY <1>6, WakeUpDoes
  <2> QED BY <2>1, <1>0, <1>1, <1>6 DEF WakeUp
<1>7. CASE DedupTake
  <2>1. flusher'.pc = "flush" /\ UNCHANGED minDeadline BY <1>7, TakeDoes
  <2> QED BY <2>1, <1>0, <1>1, <1>7 DEF DedupTake
<1>8. CASE DedupPush
  <2>1. FALSE BY <1>8 DEF DedupPush, Shaped
  <2> QED BY <2>1
<1>9. CASE flush
  <2>1. /\ flusher.pc = "flush" /\ flusher'.pc = "publish" /\ flusher'.last = flusher.last /\ flips' = flips + 1
        /\ time <= flusher'.flushTime
        /\ flusher'.cs.deadline = IF ~flusher.last THEN flusher'.flushTime ELSE flusher.cs.deadline
        /\ minDeadline' = flusher.cs.deadline /\ flusher' \in Flush
    BY <1>9, FlushTurns
  <2>2. flusher.cs = cs /\ cs.deadline = flusher.flushTime /\ minDeadline <= cs.deadline BY <2>1 DEF Phases
  <2>3. FlushColour = cs.colour BY <2>2 DEF FlushColour
  <2>4. /\ flushed' = flushed \cup {[s |-> s, ts |-> flusher.flushTime] : s \in Now}
        /\ Gone => outputs' = NoEntry
        /\ ~Gone => outputs' = Emptied(cs.colour)
        /\ Now \in SUBSET Sample
    BY <1>9, <2>3, FlushMoves
  <2>5. UNCHANGED <<mode, time, cs, pushers>> BY <1>9 DEF flush
  <2>6. \A s \in Now : s \in outputs[cs.colour] BY <2>3 DEF Now
  <2>7. \A s \in Now : ~s.slow => minDeadline <= s.ts /\ s.ts <= flusher.flushTime
    BY <2>2, <2>6, <1>0 DEF InWindows, WindowsKept, Fresh
  <2>8. \A f \in flushed : f.ts \in Nat /\ f.s.ts \in Nat /\ f.ts <= minDeadline
    BY DEF Typed, InWindows, FlushesOrdered, Sample
  <2>9. \A f \in flushed' : f \in flushed \/ (f.s \in Now /\ f.ts = flusher.flushTime)
    BY <2>4
  <2>10. \A f \in flushed' : f.ts <= minDeadline' BY <2>1, <2>2, <2>8, <2>9, <1>0
  <2>11. ASSUME NEW f \in flushed', ~f.s.slow
         PROVE  f.s.ts <= f.ts /\ \A g \in flushed' : g.ts < f.ts => g.ts <= f.s.ts
    <3>1. CASE f \in flushed
      <4>1. f.s.ts <= f.ts /\ \A g \in flushed : g.ts < f.ts => g.ts <= f.s.ts
        BY <3>1, <2>11 DEF InWindows, FlushesOrdered, FlushedInWindow
      <4>2. f.ts <= flusher.flushTime /\ f.ts \in Nat BY <3>1, <2>2, <2>8, <1>0
      <4>3. ASSUME NEW g \in flushed', g.ts < f.ts PROVE g \in flushed BY <4>2, <4>3, <2>9, <1>0
      <4> QED BY <4>1, <4>3
    <3>2. CASE f.s \in Now /\ f.ts = flusher.flushTime
      <4>1. minDeadline <= f.s.ts /\ f.s.ts <= f.ts /\ f.s.ts \in Nat BY <3>2, <2>4, <2>7, <2>11 DEF Sample
      <4>2. ASSUME NEW g \in flushed', g.ts < f.ts PROVE g.ts <= f.s.ts
        <5>1. g \in flushed BY <4>2, <3>2, <2>9, <1>0
        <5> QED BY <5>1, <4>1, <2>8, <1>0
      <4> QED BY <4>1, <4>2
    <3> QED BY <3>1, <3>2, <2>9
  <2>12. FlushesOrdered' BY <2>10, <2>11 DEF FlushesOrdered, FlushedInWindow
  <2>13. ASSUME NEW c \in Colours, NEW s \in Fresh(outputs[c])'
         PROVE  s.ts <= time /\ c # cs.colour /\ cs.deadline < s.ts /\ s.ts <= flusher'.cs.deadline
    <3>1. ~Gone BY <2>4, <2>13, NoEntryFacts DEF Fresh
    <3>2. outputs'[cs.colour] = {} /\ \A e \in Colours : e # cs.colour => outputs'[e] = outputs[e]
      BY <3>1, <2>4, <1>0, EmptiedFacts DEF Typed
    <3>3. c # cs.colour /\ s \in Fresh(outputs[c]) BY <3>2, <2>13 DEF Fresh
    <3>4. s.ts <= time /\ cs.deadline < s.ts BY <3>3 DEF InWindows, WindowsKept
    <3>5. flusher'.cs.deadline = flusher'.flushTime BY <3>1, <2>1 DEF Gone
    <3>6. s.ts \in Nat /\ flusher'.flushTime \in Nat BY <3>3, <1>a, <2>1 DEF Fresh, Sample, Flush
    <3>7. s.ts <= flusher'.cs.deadline BY <3>4, <3>5, <3>6, <2>1, <1>0
    <3> QED BY <3>3, <3>4, <3>7
  <2>14. WindowsKept' BY <2>13, <2>5, <2>1 DEF WindowsKept
  <2>15. \A q \in Pushers : PushWindow(pushers[q])' BY <2>1, <2>5, Overtakes
  <2> QED BY <2>12, <2>14, <2>15 DEF InWindows
<1>10. CASE Publish
  <2>1. /\ flusher.pc = "publish" /\ cs'.deadline = flusher.cs.deadline
        /\ cs'.colour = IF mode.windows /\ ~flusher.last THEN Other(flusher.cs.colour) ELSE flusher.cs.colour
        /\ flusher'.pc = (IF flusher.last THEN "stopped" ELSE "wait")
        /\ flips' = IF flips % 2 = 1 THEN flips + 1 ELSE flips
    BY <1>10, PublishDoes
  <2>2. flips % 2 = 1 /\ minDeadline = cs.deadline /\ flusher.cs.colour = cs.colour BY <2>1 DEF Phases
  <2>3. UNCHANGED <<mode, time, minDeadline, outputs, flushed, pushers>> BY <1>10 DEF Publish
  <2>4. FlushesOrdered' BY <2>3 DEF InWindows, FlushesOrdered, FlushedInWindow
  <2>5. \A q \in Pushers : PushWindow(pushers[q])' BY <2>1, <2>2, <2>3, Overtakes
  <2>6. ASSUME NEW c \in Colours, NEW s \in Fresh(outputs[c])
        PROVE  s.ts <= time /\ c = cs'.colour /\ minDeadline <= s.ts /\ s.ts <= cs'.deadline
    <3>1. ~flusher.last
      <4>1. flusher.last => outputs = NoEntry BY <2>1 DEF Ended
      <4> QED BY <4>1, <2>6, NoEntryFacts DEF Fresh
    <3>2. c # cs.colour BY <2>1, <2>6 DEF InWindows, WindowsKept
    <3>3. s.ts <= time /\ cs.deadline < s.ts /\ s.ts <= flusher.cs.deadline BY <2>1, <2>6, <3>2 DEF InWindows, WindowsKept
    <3>4. cs'.colour = Other(cs.colour) BY <2>1, <2>2, <3>1
    <3>5. c = cs'.colour BY <3>2, <3>4, <1>0 DEF Other, Colours
    <3>6. s.ts \in Nat BY <1>a, <2>6 DEF Fresh, Sample
    <3>7. minDeadline <= s.ts BY <3>3, <3>6, <2>2, <1>0
    <3> QED BY <3>3, <3>5, <3>7, <2>1
  <2>7. flusher'.pc # "publish" BY <2>1
  <2>8. WindowsKept' BY <2>3, <2>6, <2>7 DEF WindowsKept, Fresh
  <2> QED BY <2>4, <2>5, <2>8 DEF InWindows
<1>11. CASE must_stop
  <2>1. flusher'.pc = "dedup" BY <1>11, StopDoes
  <2> QED BY <2>1, <1>0, <1>1, <1>11 DEF must_stop
<1>12. CASE StreamTick
  <2>1. flusher'.pc = flusher.pc /\ flusher'.cs = flusher.cs /\ time' = time + 1 BY <1>12, TickDoes
  <2> QED BY <2>1, <1>0, <1>1, <1>12 DEF StreamTick
<1> QED BY <1>6, <1>7, <1>8, <1>9, <1>10, <1>11, <1>12

\* Every step keeps samples in their windows.
LEMMA WindowedKept ==
  ASSUME Typed, Shaped, PushesOK, Phases, Ended, Windowed, StreamNext
  PROVE  Windowed'
<1>1. mode' = mode BY ModeStays
<1> SUFFICES ASSUME mode.windows, mode.dedup = 0 PROVE InWindows' BY <1>1 DEF Windowed, InWindows
<1>2. InWindows BY DEF Windowed, InWindows
<1>3. ASSUME NEW p \in Pushers,
             (\E ts \in 0..MaxTime : PushBegins(p, ts)) \/ PushRoutes(p) \/ PushIgnores(p) \/ PushOutputs(p) \/ PushDedup(p)
      PROVE  InWindows'
  BY <1>2, <1>3, WindowedByPush
<1>4. CASE WakeUp \/ DedupTake \/ DedupPush \/ flush \/ Publish \/ must_stop \/ StreamTick
  BY <1>2, <1>4, WindowedByFlusher
<1> QED BY <1>3, <1>4 DEF StreamNext

\* What keeping up gives while the flusher has not been held up.
Prompt == OnTime /\ (mode.dedup = 0 => OnTimePlain) /\ (mode.dedup > 0 => OnTimeDedup)

\* The samples of the entry.
Entered == outputs.blue \cup outputs.green

\* The steps of a push do not put an entry late.
LEMMA PromptByPush ==
  ASSUME Typed, Shaped, PushesOK, Phases, Ended, Prompt, NEW p \in Pushers,
         (\E ts \in 0..MaxTime : PushBegins(p, ts)) \/ PushRoutes(p) \/ PushIgnores(p) \/ PushOutputs(p) \/ PushDedup(p)
  PROVE  Prompt'
<1>0. UNCHANGED <<mode, time, cs, minDeadline, flusher, flushed, lost, flips>> BY PushLeaves
<1>a. /\ flusher.flushTime \in Nat /\ Interval \in Nat \ {0} /\ time \in Nat /\ mode.dedup \in Nat /\ Interval' = Interval
      /\ \A q \in Pushers : pushers[q].deleteDeadline \in Nat /\ pushers[q].ts \in Nat
  BY <1>0, ModeFacts, StreamAssumption DEF Typed, Flush, Push, Interval
<1>1. mode.dedup > 0 => OnTimeDedup' BY <1>0, <1>a DEF Prompt, OnTimeDedup
<1>2. ASSUME outputs' = outputs PROVE OnTime' BY <1>0, <1>2 DEF Prompt, OnTime, Fresh
<1>3. ASSUME mode.dedup = 0, outputs' = outputs,
             \A q \in Pushers : pushers'[q].pc # "idle" /\ InTime(pushers[q])' => flusher.flushTime <= pushers'[q].deleteDeadline
      PROVE  OnTimePlain'
  BY <1>0, <1>a, <1>3 DEF Prompt, OnTimePlain, Fresh
<1>4. ASSUME mode.dedup = 0, NEW q \in Pushers, pushers'[q] = pushers[q]
      PROVE  pushers'[q].pc # "idle" /\ InTime(pushers[q])' => flusher.flushTime <= pushers'[q].deleteDeadline
  BY <1>0, <1>4 DEF Prompt, OnTimePlain, InTime
<1>5. ASSUME NEW ts \in 0..MaxTime, PushBegins(p, ts) PROVE Prompt'
  <2>1. pushers'[p].deleteDeadline = time + Interval /\ \A q \in Pushers : q # p => pushers'[q] = pushers[q]
    BY <1>5, BeginsDoes
  <2>2. ~flusher.last BY <1>5 DEF PushBegins
  <2>3. mode.dedup = 0 => flusher.flushTime <= pushers'[p].deleteDeadline BY <2>1, <2>2 DEF Prompt, OnTimePlain
  <2>4. outputs' = outputs BY <1>5 DEF PushBegins
  <2>5. mode.dedup = 0 => OnTimePlain' BY <2>1, <2>3, <2>4, <1>3, <1>4
  <2> QED BY <1>0, <1>1, <1>2, <2>4, <2>5 DEF Prompt
<1>6. CASE PushRoutes(p)
  <2>1. /\ pushers[p].pc = "begun" /\ pushers'[p].deleteDeadline = pushers[p].deleteDeadline
        /\ pushers'[p].flips = pushers[p].flips
        /\ \A q \in Pushers : q # p => pushers'[q] = pushers[q]
    BY <1>6, RoutesDoes
  <2>2. mode.dedup = 0 => (InTime(pushers[p])' => flusher.flushTime <= pushers'[p].deleteDeadline)
    BY <2>1, <1>0 DEF Prompt, OnTimePlain, InTime
  <2>3. outputs' = outputs BY <1>6 DEF PushRoutes
  <2>4. mode.dedup = 0 => OnTimePlain' BY <2>1, <2>2, <2>3, <1>3, <1>4
  <2> QED BY <1>0, <1>1, <1>2, <2>3, <2>4 DEF Prompt
<1>7. CASE PushIgnores(p)
  <2>1. pushers'[p].pc = "idle" /\ \A q \in Pushers : q # p => pushers'[q] = pushers[q]
    BY <1>7, EndsDoes DEF PushIgnores, PushEnds
  <2>2. outputs' = outputs BY <1>7 DEF PushIgnores
  <2>3. mode.dedup = 0 => OnTimePlain' BY <2>1, <2>2, <1>3, <1>4
  <2> QED BY <1>0, <1>1, <1>2, <2>2, <2>3 DEF Prompt
<1>8. CASE PushOutputs(p)
  <2>1. /\ mode.dedup = 0 /\ PushEnds(p) /\ pushers[p].pc = "routed" /\ pushers[p].colour \in Colours
        /\ outputs'[pushers[p].colour] = outputs[pushers[p].colour] \cup Marked(p)
        /\ \A e \in Colours : e # pushers[p].colour => outputs'[e] = outputs[e]
        /\ pushers[p].deleteDeadline <= outputs'.furthest
        /\ outputs.furthest <= outputs'.furthest /\ outputs' \in Values
    BY <1>8, OutputsDoes
  <2>2. pushers'[p].pc = "idle" /\ \A q \in Pushers : q # p => pushers'[q] = pushers[q] BY <2>1, EndsDoes
  <2>3. PICK m \in Sample : Marked(p) = {m} /\ m.ts = pushers[p].ts /\ m.slow = Overtaken(p)
    BY <2>1, MarkedOne DEF PushesOK
  <2>4. ~m.slow => InTime(pushers[p])
    <3>1. ~Overtaken(p) => pushers[p].flips = flips /\ flips % 2 # 1 BY DEF Overtaken
    <3>2. flips % 2 # 1 => flips % 2 = 0 BY DEF Typed
    <3> QED BY <2>3, <3>1, <3>2 DEF InTime
  <2>5. \A s \in Entered' : s \in Entered \/ s = m BY <2>1, <2>3 DEF Entered, Colours
  <2>6. outputs'.furthest \in Int /\ outputs.furthest \in Int BY <2>1 DEF Values, Typed
  <2>7. ASSUME NEW s \in Fresh(Entered)' PROVE flusher.flushTime <= outputs'.furthest /\ s.ts + Interval <= outputs'.furthest
    <3>1. CASE s \in Entered
      <4>1. flusher.flushTime <= outputs.furthest /\ s.ts + Interval <= outputs.furthest
        BY <3>1, <2>1, <2>7 DEF Prompt, OnTime, OnTimePlain, Entered, Fresh
      <4>2. s.ts \in Nat BY <3>1 DEF Entered, Typed, Values, Sample
      <4> QED BY <4>1, <4>2, <2>1, <2>6, <1>a
    <3>2. CASE s = m
      <4>1. ~m.slow BY <3>2, <2>7 DEF Fresh
      <4>2. flusher.flushTime <= pushers[p].deleteDeadline BY <4>1, <2>1, <2>4 DEF Prompt, OnTimePlain
      <4>3. m.ts + Interval <= pushers[p].deleteDeadline BY <2>1, <2>3 DEF PushesOK, PushOK
      <4>4. m.ts \in Nat BY DEF Sample
      <4> QED BY <3>2, <4>2, <4>3, <4>4, <2>1, <2>6, <1>a
    <3> QED BY <3>1, <3>2, <2>5, <2>7 DEF Fresh
  <2>8. OnTime' BY <2>7, <1>0 DEF OnTime, Entered, Prompt
  <2>9. \A q \in Pushers : pushers'[q].pc # "idle" /\ InTime(pushers[q])' => flusher.flushTime <= pushers'[q].deleteDeadline
    BY <2>1, <2>2, <1>4
  <2>10. OnTimePlain' BY <2>7, <2>9, <2>1, <1>0, <1>a DEF OnTimePlain, Entered, Prompt
  <2> QED BY <2>1, <2>8, <2>10, <1>0, <1>1, <1>a DEF Prompt
<1>9. CASE PushDedup(p)
  <2>1. mode.dedup # 0 /\ outputs' = outputs BY <1>9, <1>a DEF PushDedup
  <2> QED BY <1>0, <1>1, <1>2, <2>1 DEF Prompt
<1> QED BY <1>5, <1>6, <1>7, <1>8, <1>9

\* A flusher that is not held up keeps up.
LEMMA PromptByFlusher ==
  ASSUME Typed, Shaped, PushesOK, Phases, Ended, Windowed, Prompt, ~flusher'.stalled,
         WakeUp \/ DedupTake \/ DedupPush \/ flush \/ Publish \/ must_stop \/ StreamTick
  PROVE  Prompt'
<1>0. /\ flips \in Nat /\ cs.deadline \in Nat /\ flusher.cs.deadline \in Nat /\ flusher.wakeAt \in Nat
      /\ Interval \in Nat /\ flusher.flushTime \in Nat /\ time \in Nat /\ mode.dedup \in Nat
      /\ outputs.furthest \in Int /\ outputs.deadline \in Int
  BY ModeFacts, StreamAssumption DEF Typed, Flush, Window, Values
<1>a. \A s \in Entered : s \in Sample /\ s.ts \in Nat /\ s.slow \in BOOLEAN BY DEF Entered, Typed, Values, Sample
<1>1. ASSUME UNCHANGED <<lost, outputs>>, mode' = mode, flusher'.flushTime = flusher.flushTime, flusher.last => flusher'.last
      PROVE  OnTime'
  BY <1>1 DEF Prompt, OnTime, Fresh
<1>2. ASSUME mode' = mode, mode.dedup = 0, UNCHANGED <<outputs, pushers, flips>>, flusher'.flushTime = flusher.flushTime
      PROVE  /\ \A s \in Fresh(outputs.blue \cup outputs.green)' : s.ts + Interval' <= outputs'.furthest
             /\ \A q \in Pushers : pushers'[q].pc # "idle" /\ InTime(pushers[q])' => flusher'.flushTime <= pushers'[q].deleteDeadline
  BY <1>2 DEF Prompt, OnTimePlain, Fresh, InTime, Interval
<1>6. CASE WakeUp
  <2>1. /\ flusher.pc = "wait" /\ time >= flusher.wakeAt /\ flusher'.pc = "sleep" /\ flusher'.flushTime = flusher.flushTime
        /\ flusher'.last = flusher.last
    BY <1>6, WakeUpDoes
  <2>2. UNCHANGED <<mode, time, cs, lost, outputs, pushers, flips>> /\ Interval' = Interval BY <1>6 DEF WakeUp, Interval
  <2>3. OnTime' BY <2>1, <2>2, <1>1
  <2>4. mode.dedup = 0 => flusher.flushTime <= time /\ flusher.flushTime <= time + Interval
    BY <2>1, <1>0 DEF Prompt, OnTimePlain
  <2>5. mode.dedup = 0 => OnTimePlain' BY <2>1, <2>2, <2>4, <1>2 DEF OnTimePlain
  <2>6. mode.dedup > 0 => OnTimeDedup' BY <2>1, <2>2 DEF Prompt, OnTimeDedup
  <2> QED BY <2>2, <2>3, <2>5, <2>6 DEF Prompt
<1>7. CASE DedupTake
  <2>1. /\ flusher.pc \in {"sleep", "dedup"} /\ flusher'.flushTime = flusher.flushTime /\ flusher'.cs = flusher.cs
        /\ flusher'.last = flusher.last
        /\ mode.dedup = 0 => flusher'.pc = "flush"
        /\ mode.dedup > 0 => flusher'.pc = "push"
    BY <1>7, TakeDoes
  <2>2. UNCHANGED <<mode, time, cs, lost, outputs, pushers, flips>> /\ Interval' = Interval BY <1>7 DEF DedupTake, Interval
  <2>3. OnTime' BY <2>1, <2>2, <1>1
  <2>4. mode.dedup = 0 => /\ ~flusher.last => flusher.flushTime <= time
                          /\ flusher.flushTime <= time + Interval
    BY <2>1, <1>0 DEF Prompt, OnTimePlain, Phases
  <2>5. mode.dedup = 0 => OnTimePlain' BY <2>1, <2>2, <2>4, <1>2 DEF OnTimePlain
  <2>6. mode.dedup > 0 => OnTimeDedup' BY <2>1, <2>2 DEF Prompt, OnTimeDedup
  <2> QED BY <2>2, <2>3, <2>5, <2>6 DEF Prompt
<1>8. CASE DedupPush
  <2>1. /\ flusher.pc = "push" /\ mode.dedup > 0 /\ flusher' \in Flush /\ flusher'.flushTime = flusher.flushTime
        /\ flusher'.last = flusher.last /\ flusher'.cs \in Window /\ flusher.cs.deadline <= flusher'.cs.deadline
        /\ flusher'.pc = (IF flusher.last \/ flusher.flushTime <= flusher.cs.deadline THEN "flush" ELSE "publish")
        /\ outputs' \in Values /\ outputs'.blue = outputs.blue \cup flusher.hand /\ outputs'.green = outputs.green
        /\ flusher.hand # {} => flusher.cs.deadline + Interval <= outputs'.furthest
        /\ outputs.furthest <= outputs'.furthest
    BY <1>8, DedupPushDoes
  <2>2. UNCHANGED <<mode, time, cs, lost>> /\ Interval' = Interval BY <1>8 DEF DedupPush, Interval
  <2>3. outputs'.furthest \in Int /\ flusher'.cs.deadline \in Nat BY <2>1 DEF Values, Window
  <2>4. flusher.cs = cs BY <2>1 DEF Phases
  <2>5. flusher.flushTime <= flusher.cs.deadline + Interval BY <2>1, <2>4 DEF Prompt, OnTimeDedup
  <2>6. ASSUME NEW s \in Fresh(Entered)' PROVE flusher.flushTime <= outputs'.furthest
    <3>1. CASE flusher.hand # {} BY <3>1, <2>1, <2>3, <2>5, <1>0
    <3>2. CASE flusher.hand = {}
      <4>1. s \in Fresh(Entered) BY <3>2, <2>1, <2>6 DEF Fresh, Entered
      <4>2. flusher.flushTime <= outputs.furthest BY <4>1 DEF Prompt, OnTime, Entered
      <4> QED BY <4>2, <2>1, <2>3, <1>0
    <3> QED BY <3>1, <3>2
  <2>7. OnTime' BY <2>1, <2>2, <2>6 DEF Prompt, OnTime, Entered
  <2>8. OnTimeDedup'
    <3>1. flusher'.flushTime <= flusher'.cs.deadline + Interval BY <2>1, <2>3, <2>5, <1>0
    <3>2. flusher'.pc = "flush" /\ ~flusher'.last => flusher'.flushTime <= flusher'.cs.deadline BY <2>1, <2>3, <1>0
    <3>3. flusher'.pc \in {"flush", "publish"} BY <2>1
    <3> QED BY <3>1, <3>2, <3>3, <2>2 DEF OnTimeDedup
  <2>9. mode.dedup # 0 BY <2>1, <1>0
  <2> QED BY <2>2, <2>7, <2>8, <2>9 DEF Prompt
<1>9. CASE flush
  <2>1. /\ flusher.pc = "flush" /\ flusher'.pc = "publish" /\ flusher'.last = flusher.last /\ flips' = flips + 1
        /\ flusher'.flushTime = flusher.flushTime + Interval
        /\ flusher'.cs.deadline = (IF mode.dedup = 0 /\ ~flusher.last THEN flusher'.flushTime ELSE flusher.cs.deadline)
    BY <1>9, FlushTurns
  <2>2. /\ FlushColour \in Colours /\ Rest \in SUBSET Sample
        /\ Gone => outputs' = NoEntry /\ lost' = lost \cup Dropped(Rest)
        /\ ~Gone => outputs' = Emptied(FlushColour) /\ lost' = lost
    BY <1>9, FlushMoves
  <2>3. UNCHANGED <<mode, time, cs, pushers>> /\ Interval' = Interval BY <1>9 DEF flush, Interval
  <2>4. ASSUME NEW s \in lost' PROVE s.slow \/ (mode.windows /\ flusher.last)
    <3>1. CASE s \in lost BY <3>1 DEF Prompt, OnTime
    <3>2. CASE s \notin lost
      <4>1. Gone /\ s \in Dropped(Rest) BY <3>2, <2>2, <2>4
      <4>2. PICK r \in Rest : s.slow = (r.slow \/ outputs.deadline < outputs.furthest) BY <4>1, <2>2, DroppedFacts
      <4>3. r \in Entered BY DEF Rest, Entered
      <4>4. CASE Stale
        <5>1. CASE r.slow \/ outputs.deadline < outputs.furthest BY <4>2, <5>1
        <5>2. CASE ~r.slow /\ ~(outputs.deadline < outputs.furthest)
          <6>1. flusher.flushTime <= outputs.furthest BY <5>2, <4>3 DEF Prompt, OnTime, Fresh, Entered
          <6>2. FALSE BY <4>4, <5>2, <6>1, <1>0 DEF Stale
          <6> QED BY <6>2
        <5> QED BY <5>1, <5>2
      <4>5. CASE ~Stale
        <5>1. flusher.last BY <4>1, <4>5 DEF Gone
        <5>2. r \notin outputs[FlushColour] BY <4>5 DEF Rest, Now
        <5>3. CASE mode.windows BY <5>1, <5>3
        <5>4. CASE ~mode.windows
          <6>1. outputs.green = {} /\ FlushColour = "blue" BY <5>4 DEF Shaped, FlushColour
          <6> QED BY <6>1, <5>2, <4>3 DEF Entered
        <5> QED BY <5>3, <5>4
      <4> QED BY <4>4, <4>5
    <3> QED BY <3>1, <3>2
  <2>5. ASSUME NEW s \in Fresh(Entered)'
        PROVE  /\ flusher'.flushTime <= outputs'.furthest
               /\ mode.dedup = 0 => s.ts + Interval <= outputs'.furthest
    <3>1. ~Gone BY <2>2, <2>5, NoEntryFacts DEF Fresh, Entered
    <3>2. /\ outputs'[FlushColour] = {} /\ \A e \in Colours : e # FlushColour => outputs'[e] = outputs[e]
          /\ outputs'.furthest = outputs.furthest
      BY <3>1, <2>2, EmptiedFacts DEF Typed
    <3>3. PICK c \in Colours : s \in Fresh(outputs[c]) /\ c # FlushColour BY <3>2, <2>5 DEF Fresh, Entered, Colours
    <3>4. s \in Fresh(Entered) BY <3>3 DEF Fresh, Entered, Colours
    <3>5. mode.dedup = 0
      <4>1. mode.dedup > 0 => outputs.green = {} /\ FlushColour = "blue" BY DEF Shaped, FlushColour
      <4>2. mode.dedup > 0 => FALSE BY <4>1, <3>3 DEF Colours, Fresh
      <4> QED BY <4>2, <1>0
    <3>6. mode.windows
      <4>1. ~mode.windows => outputs.green = {} /\ FlushColour = "blue" BY DEF Shaped, FlushColour
      <4> QED BY <4>1, <3>3 DEF Colours, Fresh
    <3>7. flusher.cs = cs /\ cs.deadline = flusher.flushTime BY <3>5, <2>1 DEF Phases
    <3>8. c # cs.colour BY <3>3, <3>5, <3>7 DEF FlushColour
    <3>9. flusher.flushTime < s.ts BY <3>3, <3>5, <3>6, <3>7, <3>8 DEF Windowed, WindowsKept
    <3>10. s.ts + Interval <= outputs.furthest /\ s.ts \in Nat
      <4>1. s \in Entered BY <3>4 DEF Fresh
      <4>2. s.ts + Interval <= outputs.furthest BY <3>4, <3>5 DEF Prompt, OnTimePlain, Entered
      <4> QED BY <4>1, <4>2, <1>a
    <3>11. flusher'.flushTime <= outputs.furthest BY <3>9, <3>10, <2>1, <1>0
    <3> QED BY <3>2, <3>10, <3>11
  <2>6. OnTime' BY <2>1, <2>3, <2>4, <2>5 DEF OnTime, Entered
  <2>7. mode.dedup = 0 => OnTimePlain'
    <3> SUFFICES ASSUME mode.dedup = 0 PROVE OnTimePlain' OBVIOUS
    <3>1. ~flusher.last => flusher.flushTime <= time BY <2>1 DEF Prompt, OnTimePlain
    <3>2. ~flusher.last => flusher'.flushTime <= time + Interval BY <3>1, <2>1, <1>0
    <3>3. \A q \in Pushers : ~InTime(pushers[q])'
      <4> SUFFICES ASSUME NEW q \in Pushers PROVE ~InTime(pushers[q])' OBVIOUS
      <4>1. pushers[q].flips \in Nat /\ pushers[q].flips <= flips BY DEF Typed, Push, PushesOK, PushOK
      <4>2. pushers'[q].flips # flips' BY <4>1, <2>1, <2>3, <1>0
      <4> QED BY <4>2 DEF InTime
    <3> QED BY <3>2, <3>3, <2>1, <2>3, <2>5 DEF OnTimePlain, Entered
  <2>8. mode.dedup > 0 => OnTimeDedup'
    <3> SUFFICES ASSUME mode.dedup > 0 PROVE OnTimeDedup' OBVIOUS
    <3>1. mode.dedup # 0 BY <1>0
    <3>2. ~flusher.last => flusher.flushTime <= flusher.cs.deadline BY <2>1 DEF Prompt, OnTimeDedup
    <3>3. flusher'.cs.deadline = flusher.cs.deadline BY <2>1, <3>1
    <3>4. ~flusher.last => flusher'.flushTime <= flusher'.cs.deadline + Interval BY <3>2, <3>3, <2>1, <1>0
    <3> QED BY <3>4, <2>1, <2>3 DEF OnTimeDedup
  <2> QED BY <2>3, <2>6, <2>7, <2>8 DEF Prompt
<1>10. CASE Publish
  <2>1. /\ flusher.pc = "publish" /\ cs'.deadline = flusher.cs.deadline
        /\ flusher'.pc = (IF flusher.last THEN "stopped" ELSE "wait") /\ flusher'.wakeAt = time + Loop
        /\ flusher'.flushTime = flusher.flushTime /\ flusher'.last = flusher.last
        /\ flips' = IF flips % 2 = 1 THEN flips + 1 ELSE flips
    BY <1>10, PublishDoes
  <2>2. UNCHANGED <<mode, time, lost, outputs, pushers>> /\ Interval' = Interval BY <1>10 DEF Publish, Interval
  <2>3. OnTime' BY <2>1, <2>2, <1>1
  <2>4. mode.dedup = 0 => OnTimePlain'
    <3> SUFFICES ASSUME mode.dedup = 0 PROVE OnTimePlain' OBVIOUS
    <3>1. ~flusher.last => flusher.flushTime <= time + Interval BY <2>1 DEF Prompt, OnTimePlain
    <3>2. Loop = Interval BY ModeFacts DEF Typed
    <3>3. flips' = flips + 1 BY <2>1 DEF Phases
    <3>4. \A q \in Pushers : ~InTime(pushers[q])'
      <4> SUFFICES ASSUME NEW q \in Pushers PROVE ~InTime(pushers[q])' OBVIOUS
      <4>1. pushers[q].flips \in Nat /\ pushers[q].flips <= flips BY DEF Typed, Push, PushesOK, PushOK
      <4>2. pushers'[q].flips # flips' BY <4>1, <3>3, <2>2, <1>0
      <4> QED BY <4>2 DEF InTime
    <3>5. \A s \in Fresh(outputs.blue \cup outputs.green)' : s.ts + Interval' <= outputs'.furthest
      BY <2>2 DEF Prompt, OnTimePlain, Fresh
    <3> QED BY <3>1, <3>2, <3>4, <3>5, <2>1, <2>2 DEF OnTimePlain
  <2>5. mode.dedup > 0 => OnTimeDedup'
    <3> SUFFICES ASSUME mode.dedup > 0 PROVE OnTimeDedup' OBVIOUS
    <3>1. ~flusher.last => flusher.flushTime <= flusher.cs.deadline + Interval BY <2>1 DEF Prompt, OnTimeDedup
    <3> QED BY <3>1, <2>1, <2>2 DEF OnTimeDedup
  <2> QED BY <2>2, <2>3, <2>4, <2>5 DEF Prompt
<1>11. CASE must_stop
  <2>1. flusher.pc = "wait" /\ flusher'.pc = "dedup" /\ flusher'.last /\ flusher'.flushTime = flusher.flushTime BY <1>11, StopDoes
  <2>2. UNCHANGED <<mode, time, cs, lost, outputs, pushers, flips>> /\ Interval' = Interval BY <1>11 DEF must_stop, Interval
  <2>3. OnTime' BY <2>1, <2>2, <1>1
  <2>4. mode.dedup = 0 => flusher.flushTime <= time + Interval BY <2>1 DEF Prompt, OnTimePlain
  <2>5. mode.dedup = 0 => OnTimePlain' BY <2>1, <2>2, <2>4, <1>2 DEF OnTimePlain
  <2>6. mode.dedup > 0 => OnTimeDedup' BY <2>1, <2>2 DEF Prompt, OnTimeDedup
  <2> QED BY <2>2, <2>3, <2>5, <2>6 DEF Prompt
<1>12. CASE StreamTick
  <2>1. /\ flusher'.pc = flusher.pc /\ flusher'.flushTime = flusher.flushTime /\ flusher'.cs = flusher.cs
        /\ flusher'.last = flusher.last /\ flusher'.wakeAt = flusher.wakeAt /\ time' = time + 1
    BY <1>12, TickDoes
  <2>2. UNCHANGED <<mode, cs, lost, outputs, pushers, flips>> /\ Interval' = Interval BY <1>12 DEF StreamTick, Interval
  <2>3. OnTime' BY <2>1, <2>2, <1>1
  <2>4. mode.dedup = 0 => OnTimePlain'
    <3> SUFFICES ASSUME mode.dedup = 0 PROVE OnTimePlain' OBVIOUS
    <3>1. flusher.flushTime <= time + Interval => flusher.flushTime <= time' + Interval BY <2>1, <1>0
    <3>2. flusher.flushTime <= time => flusher.flushTime <= time' BY <2>1, <1>0
    <3>3. OnTimePlain BY DEF Prompt
    <3> HIDE DEF Prompt
    <3> QED BY <3>1, <3>2, <3>3, <2>1, <2>2, <1>2 DEF OnTimePlain
  <2>5. mode.dedup > 0 => OnTimeDedup' BY <2>1, <2>2 DEF Prompt, OnTimeDedup
  <2> QED BY <2>2, <2>3, <2>4, <2>5 DEF Prompt
<1> QED BY <1>6, <1>7, <1>8, <1>9, <1>10, <1>11, <1>12

\* Every step keeps the flusher up, unless it is held up.
LEMMA KeepsUpKept ==
  ASSUME Typed, Shaped, PushesOK, Phases, Ended, Windowed, KeepsUp, StreamNext
  PROVE  KeepsUp'
<1> SUFFICES ASSUME ~flusher'.stalled PROVE Prompt' BY DEF KeepsUp, Prompt
<1>1. ASSUME NEW p \in Pushers,
             (\E ts \in 0..MaxTime : PushBegins(p, ts)) \/ PushRoutes(p) \/ PushIgnores(p) \/ PushOutputs(p) \/ PushDedup(p)
      PROVE  Prompt'
  <2>1. flusher' = flusher BY <1>1, PushLeaves
  <2>2. Prompt BY <2>1 DEF KeepsUp, Prompt
  <2> QED BY <2>2, <1>1, PromptByPush
<1>2. ASSUME WakeUp \/ DedupTake \/ DedupPush \/ flush \/ Publish \/ must_stop \/ StreamTick
      PROVE  Prompt'
  <2>1. ~flusher.stalled
    <3>1. CASE WakeUp BY <3>1, WakeUpDoes
    <3>2. CASE DedupTake BY <3>2, TakeDoes
    <3>3. CASE DedupPush BY <3>3, DedupPushDoes
    <3>4. CASE flush BY <3>4, FlushTurns
    <3>5. CASE Publish BY <3>5, PublishDoes
    <3>6. CASE must_stop BY <3>6, StopDoes
    <3>7. CASE StreamTick BY <3>7, TickDoes
    <3> QED BY <3>1, <3>2, <3>3, <3>4, <3>5, <3>6, <3>7, <1>2
  <2>2. Prompt BY <2>1 DEF KeepsUp, Prompt
  <2> QED BY <2>2, <1>2, PromptByFlusher
<1> QED BY <1>1, <1>2 DEF StreamNext

\* What a dropped sample may have been dropped for.
Stay == Out \cup outputs.blue \cup flusher.hand \cup dedupBufs.blue \cup dedupBufs.green \cup lost

\* Every step keeps, for a dropped sample, one that is as new.
LEMMA NewerKept ==
  ASSUME Typed, Shaped, PushesOK, Phases, DroppedForNewer, StreamNext
  PROVE  DroppedForNewer'
<1>0. mode.dedup \in Nat /\ mode' = mode BY ModeFacts, ModeStays DEF Typed
<1>1. CASE mode.dedup = 0
  <2>1. Shaped' BY ShapedKept
  <2>2. replaced' = {} BY <1>0, <1>1, <2>1 DEF Shaped
  <2> QED BY <2>2 DEF DroppedForNewer
<1>2. CASE mode.dedup > 0
  <2>0. outputs.green = {} /\ mode.dedup # 0 BY <1>0, <1>2 DEF Shaped
  <2>a. /\ \A s \in Stay : s.ts \in Nat
        /\ \A s \in replaced : s.ts \in Nat
    <3>1. Out \in SUBSET Sample BY DEF Out, Typed
    <3>2. outputs.blue \in SUBSET Sample /\ flusher.hand \in SUBSET Sample /\ lost \in SUBSET Sample /\ replaced \in SUBSET Sample
          /\ dedupBufs.blue \in SUBSET Sample /\ dedupBufs.green \in SUBSET Sample
      BY DEF Typed, Values, Flush, Colours
    <3> QED BY <3>1, <3>2 DEF Stay, Sample
  <2>b. \A d \in replaced : \E s \in Stay : s.ts >= d.ts BY DEF DroppedForNewer, Stay
  <2>c. ASSUME replaced' = replaced, \A s \in Stay : \E r \in Stay' : r.ts = s.ts PROVE DroppedForNewer'
    <3>1. ASSUME NEW d \in replaced PROVE \E r \in Stay' : r.ts >= d.ts
      <4>1. PICK s \in Stay : s.ts >= d.ts BY <2>b
      <4>2. PICK r \in Stay' : r.ts = s.ts BY <2>c
      <4> QED BY <4>1, <4>2
    <3> QED BY <3>1, <2>c DEF DroppedForNewer, Stay
  <2>1. ASSUME UNCHANGED <<flushed, outputs, dedupBufs, lost, replaced>>, flusher'.hand = flusher.hand PROVE DroppedForNewer'
    <3>1. Stay' = Stay BY <2>1 DEF Stay, Out
    <3> QED BY <3>1, <2>1, <2>c
  <2>2. ASSUME NEW p \in Pushers, NEW ts \in 0..MaxTime, PushBegins(p, ts) PROVE DroppedForNewer' BY <2>1, <2>2 DEF PushBegins
  <2>3. ASSUME NEW p \in Pushers, PushRoutes(p) PROVE DroppedForNewer' BY <2>1, <2>3 DEF PushRoutes
  <2>4. ASSUME NEW p \in Pushers, PushIgnores(p) PROVE DroppedForNewer' BY <2>1, <2>4 DEF PushIgnores
  <2>5. ASSUME NEW p \in Pushers, PushOutputs(p) PROVE DroppedForNewer' BY <2>0, <2>5 DEF PushOutputs
  <2>6. ASSUME NEW p \in Pushers, PushDedup(p) PROVE DroppedForNewer'
    <3> DEFINE c == pushers[p].colour
               all == dedupBufs[c] \cup Marked(p)
    <3>1. c \in Colours BY <2>6, DedupDoes
    <3>2. PICK stay \in Sample : /\ stay \in all /\ \A r \in all : stay.ts >= r.ts
                                 /\ dedupBufs' = [dedupBufs EXCEPT ![c] = {stay}]
                                 /\ replaced' = replaced \cup (all \ {stay})
      BY <2>6, DedupDoes
    <3>3. UNCHANGED <<flushed, outputs, flusher, lost>> BY <2>6 DEF PushDedup
    <3>4. dedupBufs \in [Colours -> SUBSET Sample] BY DEF Typed
    <3> HIDE DEF c
    <3>5. stay \in Stay' /\ stay.ts \in Nat
      <4>1. stay \in dedupBufs'[c] BY <3>1, <3>2, <3>4
      <4> QED BY <4>1, <3>1 DEF Stay, Colours, Sample
    <3>6. ASSUME NEW d \in replaced' PROVE \E r \in Stay' : r.ts >= d.ts
      <4>1. CASE d \in all BY <4>1, <3>2, <3>5
      <4>2. CASE d \in replaced
        <5>1. PICK s \in Stay : s.ts >= d.ts BY <2>b, <4>2
        <5>2. CASE s \in dedupBufs[c]
          <6>1. stay.ts >= s.ts BY <5>2, <3>2
          <6>2. stay.ts >= d.ts BY <5>1, <6>1, <2>a, <3>5, <4>2
          <6> QED BY <6>2, <3>5
        <5>3. CASE s \notin dedupBufs[c]
          <6>1. \A e \in Colours : e # c => dedupBufs'[e] = dedupBufs[e] BY <3>1, <3>2, <3>4
          <6>2. s \in Stay' BY <5>1, <5>3, <6>1, <3>1, <3>3 DEF Stay, Out, Colours
          <6> QED BY <5>1, <6>2
        <5> QED BY <5>2, <5>3
      <4> QED BY <4>1, <4>2, <3>2
    <3> QED BY <3>6 DEF DroppedForNewer, Stay
  <2>7. CASE WakeUp BY <2>1, <2>7, WakeUpDoes DEF WakeUp
  <2>8. CASE DedupTake
    <3>1. /\ flusher.pc \in {"sleep", "dedup"} /\ flusher'.hand = dedupBufs[flusher.cs.colour]
          /\ dedupBufs' = [dedupBufs EXCEPT ![flusher.cs.colour] = {}]
      BY <1>2, <2>8, TakeDoes
    <3>2. flusher.hand = {} BY <3>1 DEF Shaped
    <3>3. UNCHANGED <<flushed, outputs, lost, replaced>> BY <2>8 DEF DedupTake
    <3>4. flusher.cs.colour \in Colours /\ dedupBufs \in [Colours -> SUBSET Sample] BY DEF Typed, Flush, Window
    <3>5. \A c \in Colours : dedupBufs[c] \subseteq dedupBufs'[c] \cup flusher'.hand BY <3>1, <3>4
    <3>6. Stay \subseteq Stay' BY <3>2, <3>3, <3>5 DEF Stay, Out, Colours
    <3> QED BY <3>3, <3>6, <2>c
  <2>9. CASE DedupPush
    <3>1. outputs'.blue = outputs.blue \cup flusher.hand BY <2>9, DedupPushDoes
    <3>2. UNCHANGED <<flushed, dedupBufs, lost, replaced>> BY <2>9 DEF DedupPush
    <3>3. Stay \subseteq Stay' BY <3>1, <3>2 DEF Stay, Out
    <3> QED BY <3>2, <3>3, <2>c
  <2>10. CASE flush
    <3>1. flusher'.hand = flusher.hand BY <2>10, FlushTurns
    <3>2. /\ Rest \in SUBSET Sample
          /\ flushed' = flushed \cup {[s |-> s, ts |-> flusher.flushTime] : s \in Now}
          /\ Gone => lost' = lost \cup Dropped(Rest)
          /\ ~Gone => outputs' = Emptied(FlushColour) /\ lost' = lost /\ Now = outputs[FlushColour]
      BY <2>10, FlushMoves
    <3>3. UNCHANGED <<dedupBufs, replaced>> BY <2>10 DEF flush
    <3>4. FlushColour = "blue" BY <2>0 DEF FlushColour
    <3>5. Out' = Out \cup Now
      <4> DEFINE F == {[s |-> s, ts |-> flusher.flushTime] : s \in Now}
      <4>1. \A f \in F : f.s \in Now OBVIOUS
      <4>3. ASSUME NEW s \in Now PROVE \E f \in F : f.s = s
        <5>1. [s |-> s, ts |-> flusher.flushTime] \in F OBVIOUS
        <5>2. [s |-> s, ts |-> flusher.flushTime].s = s OBVIOUS
        <5> QED BY <5>1, <5>2
      <4>2. Out' = {f.s : f \in flushed'} BY DEF Out
      <4>4. flushed' = flushed \cup F BY <3>2
      <4> HIDE DEF F
      <4> QED BY <4>1, <4>2, <4>3, <4>4 DEF Out
    <3>6. ASSUME NEW s \in Stay PROVE \E r \in Stay' : r.ts = s.ts
      <4>1. CASE s \notin outputs.blue
        <5>1. lost \subseteq lost' BY <3>2
        <5> QED BY <4>1, <5>1, <3>1, <3>3, <3>5 DEF Stay
      <4>2. CASE s \in Now BY <4>2, <3>5 DEF Stay
      <4>3. CASE s \in outputs.blue /\ s \notin Now
        <5>1. Gone BY <4>3, <3>2, <3>4
        <5>2. s \in Rest BY <4>3 DEF Rest
        <5>3. PICK d \in Dropped(Rest) : d.ts = s.ts BY <5>2, <3>2, DroppedFacts
        <5>4. d \in Stay' BY <5>1, <5>3, <3>2 DEF Stay
        <5> QED BY <5>3, <5>4
      <4> QED BY <4>1, <4>2, <4>3
    <3> QED BY <3>3, <3>6, <2>c
  <2>11. CASE Publish BY <2>1, <2>11, PublishDoes DEF Publish
  <2>12. CASE must_stop BY <2>1, <2>12, StopDoes DEF must_stop
  <2>13. CASE StreamTick BY <2>1, <2>13, TickDoes DEF StreamTick
  <2> QED BY <2>2, <2>3, <2>4, <2>5, <2>6, <2>7, <2>8, <2>9, <2>10, <2>11, <2>12, <2>13 DEF StreamNext
<1> QED BY <1>0, <1>1, <1>2

----------------------------------------------------------------------------
(* StreamAggr: every sample is in one place.                               *)

\* The same places.
LEMMA SamePlaces ==
  ASSUME NEW H, NEW K, NEW n, Placed(H, n), \A l \in Spots : K[l] = H[l]
  PROVE  Placed(K, n)
BY DEF Placed

\* Samples change places among L, and no two of the places get the same.
LEMMA Exchange ==
  ASSUME NEW H, NEW K, NEW n, NEW L \in SUBSET Spots, Placed(H, n),
         \A l \in Spots \ L : K[l] = H[l],
         \A l \in L : \A i \in K[l] : \E m \in L : i \in H[m],
         \A l \in L : \A i \in H[l] : \E m \in L : i \in K[m],
         \A l, m \in L : l # m => K[l] \cap K[m] = {}
  PROVE  Placed(K, n)
<1>1. ASSUME NEW l \in Spots PROVE K[l] \subseteq 1..n
  <2>1. CASE l \in L
    <3>1. \A i \in K[l] : \E m \in L : i \in H[m] BY <2>1
    <3> QED BY <3>1 DEF Placed
  <2>2. CASE l \notin L BY <2>2 DEF Placed
  <2> QED BY <2>1, <2>2
<1>2. ASSUME NEW l \in Spots, NEW m \in Spots, l # m, NEW i \in K[l], i \in K[m] PROVE FALSE
  <2>1. CASE l \in L /\ m \in L BY <1>2, <2>1
  <2>2. CASE l \in L /\ m \notin L
    <3>1. PICK k \in L : i \in H[k] BY <2>2
    <3>2. i \in H[m] /\ k # m BY <1>2, <2>2
    <3> QED BY <3>1, <3>2 DEF Placed
  <2>3. CASE l \notin L /\ m \in L
    <3>1. PICK k \in L : i \in H[k] BY <1>2, <2>3
    <3>2. i \in H[l] /\ k # l BY <1>2, <2>3
    <3> QED BY <3>1, <3>2 DEF Placed
  <2>4. CASE l \notin L /\ m \notin L BY <1>2, <2>4 DEF Placed
  <2> QED BY <2>1, <2>2, <2>3, <2>4
<1>3. ASSUME NEW i \in 1..n PROVE \E l \in Spots : i \in K[l]
  <2>1. PICK l \in Spots : i \in H[l] BY DEF Placed
  <2>2. CASE l \in L BY <2>1, <2>2
  <2>3. CASE l \notin L BY <2>1, <2>3
  <2> QED BY <2>2, <2>3
<1>4. \A l, m \in Spots : l # m => K[l] \cap K[m] = {} BY <1>2
<1> QED BY <1>1, <1>3, <1>4 DEF Placed

\* Samples move from one place to another.
LEMMA Move ==
  ASSUME NEW H, NEW K, NEW n, Placed(H, n), NEW a \in Spots, NEW b \in Spots, a # b,
         \A l \in Spots : l # a /\ l # b => K[l] = H[l],
         K[a] = {}, K[b] = H[b] \cup H[a]
  PROVE  Placed(K, n)
<1> DEFINE L == {a, b}
<1>1. L \in SUBSET Spots /\ \A l \in Spots \ L : K[l] = H[l] OBVIOUS
<1>2. \A l \in L : \A i \in K[l] : \E m \in L : i \in H[m] OBVIOUS
<1>3. \A l \in L : \A i \in H[l] : \E m \in L : i \in K[m] OBVIOUS
<1>4. \A l, m \in L : l # m => K[l] \cap K[m] = {} OBVIOUS
<1> HIDE DEF L
<1> QED BY <1>1, <1>2, <1>3, <1>4, Exchange

\* A new sample comes to a place.
LEMMA Comes ==
  ASSUME NEW H, NEW K, NEW n \in Nat, Placed(H, n), NEW a \in Spots,
         \A l \in Spots : l # a => K[l] = H[l],
         H[a] = {}, K[a] = {n + 1}
  PROVE  Placed(K, n + 1)
<1>1. \A l \in Spots : H[l] \subseteq 1..n BY DEF Placed
<1>2. n + 1 \notin 1..n /\ n + 1 \in 1..(n + 1) /\ 1..n \subseteq 1..(n + 1) /\ \A i \in 1..(n + 1) : i \in 1..n \/ i = n + 1 OBVIOUS
<1>3. ASSUME NEW l \in Spots PROVE K[l] \subseteq 1..(n + 1) BY <1>1, <1>2
<1>4. ASSUME NEW l \in Spots, NEW m \in Spots, l # m, NEW i \in K[l], i \in K[m] PROVE FALSE
  <2>1. CASE l = a BY <1>1, <1>2, <1>4, <2>1
  <2>2. CASE m = a BY <1>1, <1>2, <1>4, <2>2
  <2>3. CASE l # a /\ m # a BY <1>4, <2>3 DEF Placed
  <2> QED BY <2>1, <2>2, <2>3
<1>5. ASSUME NEW i \in 1..(n + 1) PROVE \E l \in Spots : i \in K[l]
  <2>1. CASE i = n + 1 BY <2>1
  <2>2. CASE i \in 1..n
    <3>1. PICK l \in Spots : i \in H[l] BY <2>2 DEF Placed
    <3>2. l # a BY <3>1
    <3> QED BY <3>1, <3>2
  <2> QED BY <2>1, <2>2, <1>2
<1>6. \A l, m \in Spots : l # m => K[l] \cap K[m] = {} BY <1>4
<1> QED BY <1>3, <1>5, <1>6 DEF Placed

PushSpot(p) == <<1, p>>
Spot(k)     == <<2, k>>

\* Two kinds of places.
LEMMA SpotsAre ==
  /\ \A p \in Pushers : PushSpot(p) \in Spots
  /\ \A k \in 1..8 : Spot(k) \in Spots
  /\ \A l \in Spots : (\E p \in Pushers : l = PushSpot(p)) \/ (\E k \in 1..8 : l = Spot(k))
  /\ \A p \in Pushers, k \in 1..8 : PushSpot(p) # Spot(k)
  /\ \A p, q \in Pushers : PushSpot(p) = PushSpot(q) => p = q
  /\ \A j, k \in 1..8 : Spot(j) = Spot(k) => j = k
BY DEF Spots, PushSpot, Spot

\* What is where.
LEMMA HoldAt ==
  ASSUME NEW pu, NEW pl
  PROVE  /\ \A p \in Pushers : Hold(pu, pl)[PushSpot(p)] = Ids(pu[p].s)
         /\ \A k \in 1..8 : Hold(pu, pl)[Spot(k)] = Ids(pl[k])
<1>1. \A p \in Pushers : PushSpot(p)[1] = 1 /\ PushSpot(p)[2] = p BY DEF PushSpot
<1>2. \A k \in 1..8 : Spot(k)[1] = 2 /\ Spot(k)[2] = k BY DEF Spot
<1>3. \A p \in Pushers : Hold(pu, pl)[PushSpot(p)] = Ids(pu[p].s) BY <1>1, SpotsAre DEF Hold
<1>4. \A k \in 1..8 : Hold(pu, pl)[Spot(k)] = Ids(pl[k]) BY <1>2, SpotsAre DEF Hold
<1> QED BY <1>3, <1>4

\* Where nothing is, nothing is held.
LEMMA EmptyAt ==
  ASSUME NEW pu, NEW pl
  PROVE  /\ \A p \in Pushers : pu[p].s = {} => Hold(pu, pl)[PushSpot(p)] = {}
         /\ \A k \in 1..8 : pl[k] = {} => Hold(pu, pl)[Spot(k)] = {}
<1>1. \A S : S = {} => Ids(S) = {} BY DEF Ids
<1> QED BY <1>1, HoldAt

\* Nothing changes but in places A.
SameBut(A, pu, pl, pu2, pl2) ==
  /\ A \in SUBSET Spots
  /\ \A p \in Pushers : PushSpot(p) \notin A => Ids(pu2[p].s) = Ids(pu[p].s)
  /\ \A k \in 1..8 : Spot(k) \notin A => Ids(pl2[k]) = Ids(pl[k])

\* Where nothing changes, the same is held.
LEMMA HoldSame ==
  ASSUME NEW pu, NEW pl, NEW pu2, NEW pl2, NEW A, SameBut(A, pu, pl, pu2, pl2)
  PROVE  \A l \in Spots : l \notin A => Hold(pu2, pl2)[l] = Hold(pu, pl)[l]
<1> USE DEF SameBut
<1> SUFFICES ASSUME NEW l \in Spots, l \notin A PROVE Hold(pu2, pl2)[l] = Hold(pu, pl)[l] OBVIOUS
<1>1. ASSUME NEW p \in Pushers, l = PushSpot(p) PROVE Hold(pu2, pl2)[l] = Hold(pu, pl)[l] BY <1>1, HoldAt
<1>2. ASSUME NEW k \in 1..8, l = Spot(k) PROVE Hold(pu2, pl2)[l] = Hold(pu, pl)[l] BY <1>2, HoldAt
<1> QED BY <1>1, <1>2, SpotsAre

\* Ids of sets.
LEMMA IdsFacts ==
  /\ Ids({}) = {}
  /\ \A S, T : Ids(S \cup T) = Ids(S) \cup Ids(T)
  /\ \A s : Ids({s}) = {s.id}
BY DEF Ids

\* The steps of a push that move no sample, and those of the flusher that do not.
LEMMA PlacedSame ==
  ASSUME Placed(Hold(pushers, Places), nSamples), nSamples' = nSamples,
         \A p \in Pushers : pushers'[p].s = pushers[p].s,
         UNCHANGED <<outputs, dedupBufs, flushed, replaced, lost>>, flusher'.hand = flusher.hand
  PROVE  Placed(Hold(pushers, Places), nSamples)'
<1>1. Places' = Places BY DEF Places, Out
<1> DEFINE H == Hold(pushers, Places)
           K == Hold(pushers', Places')
           A == {}
<1>2. \A l \in Spots : l \notin A => K[l] = H[l]
  <2>1. A \in SUBSET Spots OBVIOUS
  <2>2. \A k \in 1..8 : Ids(Places'[k]) = Ids(Places[k]) BY <1>1
  <2> HIDE DEF A
  <2>9. SameBut(A, pushers, Places, pushers', Places') BY <2>1, <2>2 DEF SameBut
  <2> QED BY ONLY <2>9, HoldSame
<1>3. \A l \in Spots : K[l] = H[l] BY <1>2
<1> HIDE DEF K, H
<1>4. Placed(K, nSamples) BY <1>3, SamePlaces DEF H
<1> QED BY <1>4 DEF K

\* PushRoutes.
LEMMA PlacedByRoutes ==
  ASSUME Typed, PushesOK, Placed(Hold(pushers, Places), nSamples), NEW p \in Pushers, PushRoutes(p)
  PROVE  Placed(Hold(pushers, Places), nSamples)'
<1>1. /\ nSamples' = nSamples + 1 /\ pushers[p].pc = "begun" /\ \A q \in Pushers : q # p => pushers'[q] = pushers[q]
      /\ pushers'[p].s = {[id |-> nSamples + 1, ts |-> pushers[p].ts, slow |-> FALSE]}
  BY RoutesDoes
<1>2. Places' = Places BY DEF Places, Out, PushRoutes
<1> DEFINE H == Hold(pushers, Places)
           K == Hold(pushers', Places')
           A == {PushSpot(p)}
<1>3. A \in SUBSET Spots BY SpotsAre
<1>4. \A l \in Spots : l \notin A => K[l] = H[l]
  <2>1. \A q \in Pushers : PushSpot(q) \notin A => Ids(pushers'[q].s) = Ids(pushers[q].s) BY <1>1
  <2>2. \A k \in 1..8 : Ids(Places'[k]) = Ids(Places[k]) BY <1>2
  <2> HIDE DEF A
  <2>9. SameBut(A, pushers, Places, pushers', Places') BY <1>3, <2>1, <2>2 DEF SameBut
  <2> QED BY ONLY <2>9, HoldSame
<1>5. H[PushSpot(p)] = {}
  <2>1. pushers[p].s = {} BY <1>1 DEF PushesOK, PushOK
  <2> QED BY <2>1, EmptyAt
<1>6. K[PushSpot(p)] = {nSamples + 1}
  <2> DEFINE x == [id |-> nSamples + 1, ts |-> pushers[p].ts, slow |-> FALSE]
  <2>1. x.id = nSamples + 1 OBVIOUS
  <2> HIDE DEF x
  <2>2. pushers'[p].s = {x} BY <1>1 DEF x
  <2>3. Ids(pushers'[p].s) = {nSamples + 1} BY <2>1, <2>2, IdsFacts
  <2> QED BY <2>3, HoldAt
<1>7. nSamples \in Nat /\ PushSpot(p) \in Spots BY SpotsAre, StreamAssumption DEF Typed
<1>8. \A l \in Spots : l # PushSpot(p) => K[l] = H[l] BY <1>4
<1> HIDE DEF K, H
<1>9. Placed(K, nSamples + 1) BY <1>5, <1>6, <1>7, <1>8, Comes DEF H
<1> QED BY <1>1, <1>9 DEF K

\* The place of a window, of the outputs and of de-duplication.
OutSpot(c)   == IF c = "blue" THEN 1 ELSE 2
DedupSpot(c) == IF c = "blue" THEN 3 ELSE 4

\* What the eight places are.
LEMMA PlacesAre ==
  /\ DOMAIN Places = 1..8
  /\ Places[1] = outputs.blue /\ Places[2] = outputs.green /\ Places[3] = dedupBufs.blue /\ Places[4] = dedupBufs.green
  /\ Places[5] = flusher.hand /\ Places[6] = Out /\ Places[7] = replaced /\ Places[8] = lost
BY DEF Places

\* And after a step.
LEMMA PlacesWillBe ==
  /\ Places'[1] = outputs'.blue /\ Places'[2] = outputs'.green /\ Places'[3] = dedupBufs'.blue /\ Places'[4] = dedupBufs'.green
  /\ Places'[5] = flusher'.hand /\ Places'[6] = Out' /\ Places'[7] = replaced' /\ Places'[8] = lost'
BY DEF Places

\* PushOutputs.
LEMMA PlacedByOutputs ==
  ASSUME Typed, PushesOK, Placed(Hold(pushers, Places), nSamples), NEW p \in Pushers, PushOutputs(p)
  PROVE  Placed(Hold(pushers, Places), nSamples)'
<1> DEFINE c == pushers[p].colour
           j == OutSpot(c)
           H == Hold(pushers, Places)
           K == Hold(pushers', Places')
           A == {PushSpot(p), Spot(j)}
<1>1. /\ PushEnds(p) /\ pushers[p].pc = "routed" /\ c \in Colours
      /\ outputs'[c] = outputs[c] \cup Marked(p)
      /\ \A e \in Colours : e # c => outputs'[e] = outputs[e]
  BY OutputsDoes
<1>2. pushers'[p].s = {} /\ \A q \in Pushers : q # p => pushers'[q] = pushers[q] BY <1>1, EndsDoes
<1>3. UNCHANGED <<dedupBufs, flusher, flushed, replaced, lost, nSamples>> BY DEF PushOutputs
<1>4. j \in 1..2 /\ Places[j] = outputs[c] /\ Places'[j] = outputs'[c] BY <1>1, PlacesAre, PlacesWillBe DEF OutSpot, Colours
<1>5. \A k \in 1..8 : k # j => Places'[k] = Places[k]
  <2>1. \A k \in {3, 4, 5, 6, 7, 8} : Places'[k] = Places[k] BY <1>3, PlacesAre, PlacesWillBe DEF Out
  <2>2. \A k \in 1..2 : k # j => Places'[k] = Places[k] BY <1>1, PlacesAre, PlacesWillBe DEF OutSpot, Colours
  <2> QED BY <2>1, <2>2
<1>6. Ids(Marked(p)) = Ids(pushers[p].s)
  <2>1. PICK m \in Sample : Marked(p) = {m} /\ Ids(pushers[p].s) = {m.id} BY <1>1, MarkedOne DEF PushesOK
  <2> QED BY <2>1, IdsFacts
<1>7. A \in SUBSET Spots /\ PushSpot(p) \in Spots /\ Spot(j) \in Spots /\ PushSpot(p) # Spot(j) BY <1>4, SpotsAre
<1>8. \A l \in Spots : l \notin A => K[l] = H[l]
  <2>1. \A q \in Pushers : PushSpot(q) \notin A => Ids(pushers'[q].s) = Ids(pushers[q].s) BY <1>2
  <2>2. \A k \in 1..8 : Spot(k) \notin A => Ids(Places'[k]) = Ids(Places[k]) BY <1>5
  <2> HIDE DEF A, j
  <2>9. SameBut(A, pushers, Places, pushers', Places') BY <1>7, <2>1, <2>2 DEF SameBut
  <2> QED BY ONLY <2>9, HoldSame
<1>9. K[PushSpot(p)] = {} BY <1>2, EmptyAt
<1>10. K[Spot(j)] = H[Spot(j)] \cup H[PushSpot(p)]
  <2> HIDE DEF j, c
  <2>1. Ids(Places'[j]) = Ids(Places[j]) \cup Ids(pushers[p].s) BY <1>1, <1>4, <1>6, IdsFacts
  <2> QED BY <2>1, <1>4, HoldAt
<1>11. \A l \in Spots : l # PushSpot(p) /\ l # Spot(j) => K[l] = H[l] BY <1>8
<1> HIDE DEF K, H, j
<1>12. Placed(K, nSamples) BY <1>7, <1>9, <1>10, <1>11, Move DEF H
<1> QED BY <1>3, <1>12 DEF K

\* PushDedup.
LEMMA PlacedByDedup ==
  ASSUME Typed, Shaped, PushesOK, Placed(Hold(pushers, Places), nSamples), NEW p \in Pushers, PushDedup(p)
  PROVE  Placed(Hold(pushers, Places), nSamples)'
<1> DEFINE c == pushers[p].colour
           j == DedupSpot(c)
           H == Hold(pushers, Places)
           K == Hold(pushers', Places')
           A == {PushSpot(p), Spot(j), Spot(7)}
           all == dedupBufs[c] \cup Marked(p)
<1>1. PushEnds(p) /\ pushers[p].pc = "routed" /\ c \in Colours BY DedupDoes
<1>2. pushers'[p].s = {} /\ \A q \in Pushers : q # p => pushers'[q] = pushers[q] BY <1>1, EndsDoes
<1>3. UNCHANGED <<outputs, flusher, flushed, lost, nSamples>> BY DEF PushDedup
<1>4. PICK stay \in Sample : /\ stay \in all
                             /\ dedupBufs' = [dedupBufs EXCEPT ![c] = {stay}]
                             /\ replaced' = replaced \cup (all \ {stay})
  BY DedupDoes
<1>5. PICK m \in Sample : Marked(p) = {m} /\ Ids(pushers[p].s) = {m.id} BY <1>1, MarkedOne DEF PushesOK
<1>6. j \in 3..4 /\ Places[j] = dedupBufs[c] /\ Places'[j] = {stay}
  <2>1. dedupBufs'[c] = {stay} BY <1>1, <1>4 DEF Typed
  <2> QED BY <2>1, <1>1, PlacesAre, PlacesWillBe DEF DedupSpot, Colours
<1>7. \A k \in 1..8 : k # j /\ k # 7 => Places'[k] = Places[k]
  <2>1. \A k \in {1, 2, 5, 6, 8} : Places'[k] = Places[k] BY <1>3, PlacesAre, PlacesWillBe DEF Out
  <2>2. \A e \in Colours : e # c => dedupBufs'[e] = dedupBufs[e] BY <1>1, <1>4 DEF Typed
  <2>3. \A k \in 3..4 : k # j => Places'[k] = Places[k] BY <2>2, <1>1, PlacesAre, PlacesWillBe DEF DedupSpot, Colours
  <2> QED BY <2>1, <2>3
<1>8. Places'[7] = Places[7] \cup (all \ {stay}) BY <1>4, PlacesAre, PlacesWillBe
<1>9. A \in SUBSET Spots /\ PushSpot(p) \in Spots /\ Spot(j) \in Spots /\ Spot(7) \in Spots
      /\ PushSpot(p) # Spot(j) /\ PushSpot(p) # Spot(7) /\ Spot(j) # Spot(7)
  BY <1>6, SpotsAre
<1>10. \A l \in Spots : l \notin A => K[l] = H[l]
  <2>1. \A q \in Pushers : PushSpot(q) \notin A => Ids(pushers'[q].s) = Ids(pushers[q].s) BY <1>2
  <2>2. \A k \in 1..8 : Spot(k) \notin A => Ids(Places'[k]) = Ids(Places[k]) BY <1>7
  <2> HIDE DEF A, j
  <2>9. SameBut(A, pushers, Places, pushers', Places') BY <1>9, <2>1, <2>2 DEF SameBut
  <2> QED BY ONLY <2>9, HoldSame
<1> DEFINE a == PushSpot(p)
           b == Spot(j)
           d == Spot(7)
           Y == Ids(all \ {stay})
<1>11. H[a] = {m.id} /\ H[b] = Ids(dedupBufs[c]) /\ H[d] = Ids(Places[7]) BY <1>5, <1>6, HoldAt
<1>12. K[a] = {} /\ K[b] = {stay.id} /\ K[d] = H[d] \cup Y
  <2>1. K[a] = {} BY <1>2, EmptyAt
  <2>2. K[b] = {stay.id}
    <3>1. Ids(Places'[j]) = {stay.id} BY <1>6, IdsFacts
    <3>2. j \in 1..8 BY <1>6
    <3> HIDE DEF j
    <3>3. K[b] = Ids(Places'[j]) BY <3>2, HoldAt
    <3> QED BY <3>1, <3>3
  <2> HIDE DEF all
  <2>3. Ids(Places'[7]) = Ids(Places[7]) \cup Y BY <1>8, IdsFacts
  <2>4. K[d] = Ids(Places'[7]) /\ H[d] = Ids(Places[7]) BY HoldAt
  <2>5. K[d] = H[d] \cup Y BY <2>3, <2>4
  <2> QED BY <2>1, <2>2, <2>5
<1>13. H[a] \cap H[b] = {} /\ H[a] \cap H[d] = {} /\ H[b] \cap H[d] = {}
  <2> HIDE DEF H, a, b, d
  <2> QED BY <1>9 DEF Placed, H, a, b, d
<1>14. AtMostOne(dedupBufs[c]) BY <1>1 DEF Shaped
<1>15. \A x \in all : x.id \in H[a] \cup H[b] BY <1>5, <1>11 DEF Ids
<1>16. \A i \in H[a] \cup H[b] : i = stay.id \/ i \in Y
  <2>1. ASSUME NEW i \in H[a] \cup H[b] PROVE \E x \in all : x.id = i BY <1>5, <1>11 DEF Ids
  <2>2. \A x \in all : x = stay \/ x.id \in Y BY DEF Ids
  <2> QED BY <2>1, <2>2
<1>17. stay.id \notin Y
  <2>1. ASSUME NEW x \in all, x # stay PROVE x.id # stay.id
    <3>1. m.id \notin H[b] BY <1>11, <1>13
    <3>2. \A y \in dedupBufs[c] : y.id # m.id BY <3>1, <1>11 DEF Ids
    <3> QED BY <2>1, <3>2, <1>4, <1>5, <1>14 DEF AtMostOne
  <2> QED BY <2>1 DEF Ids
<1>18. Y \subseteq H[a] \cup H[b] /\ stay.id \in H[a] \cup H[b]
  <2>1. \A i \in Y : \E x \in all : i = x.id BY DEF Ids
  <2> QED BY <2>1, <1>4, <1>15
<1> HIDE DEF K, H, a, b, d, Y, A, j, all
<1>19. A = {a, b, d} /\ a # b /\ a # d /\ b # d BY <1>9 DEF A, a, b, d
<1>20. \A l \in A : \A i \in K[l] : \E k \in A : i \in H[k] BY <1>12, <1>18, <1>19
<1>21. \A l \in A : \A i \in H[l] : \E k \in A : i \in K[k] BY <1>12, <1>16, <1>19
<1>22. \A l, k \in A : l # k => K[l] \cap K[k] = {}
  <2>1. K[a] \cap K[b] = {} /\ K[a] \cap K[d] = {} BY <1>12
  <2>2. K[b] \cap K[d] = {} BY <1>12, <1>13, <1>17, <1>18
  <2> QED BY <2>1, <2>2, <1>19
<1>23. \A l \in Spots \ A : K[l] = H[l] BY <1>10
<1>24. Placed(H, nSamples) BY DEF H
<1>25. Placed(K, nSamples) BY ONLY <1>9, <1>20, <1>21, <1>22, <1>23, <1>24, Exchange
<1> QED BY <1>3, <1>25 DEF K

\* DedupTake.
LEMMA PlacedByTake ==
  ASSUME Typed, Shaped, Placed(Hold(pushers, Places), nSamples), DedupTake
  PROVE  Placed(Hold(pushers, Places), nSamples)'
<1>0. mode.dedup \in Nat BY ModeFacts DEF Typed
<1>1. CASE mode.dedup = 0
  <2>1. flusher'.hand = flusher.hand /\ UNCHANGED dedupBufs BY <1>1, TakeDoes
  <2>2. UNCHANGED <<pushers, outputs, flushed, replaced, lost, nSamples>> BY DEF DedupTake
  <2> QED BY <2>1, <2>2, PlacedSame
<1>2. CASE mode.dedup > 0
  <2> DEFINE c == flusher.cs.colour
             j == DedupSpot(c)
             H == Hold(pushers, Places)
             K == Hold(pushers', Places')
             A == {Spot(j), Spot(5)}
  <2>1. /\ flusher.pc \in {"sleep", "dedup"} /\ flusher'.hand = dedupBufs[c]
        /\ dedupBufs' = [dedupBufs EXCEPT ![c] = {}]
    BY <1>2, TakeDoes
  <2>2. c \in Colours BY DEF Typed, Flush, Window
  <2>3. flusher.hand = {} BY <2>1 DEF Shaped
  <2>4. UNCHANGED <<pushers, outputs, flushed, replaced, lost, nSamples>> BY DEF DedupTake
  <2>5. dedupBufs'[c] = {} /\ \A e \in Colours : e # c => dedupBufs'[e] = dedupBufs[e] BY <2>1, <2>2 DEF Typed
  <2>6. j \in 3..4 /\ Places[j] = dedupBufs[c] /\ Places'[j] = {} BY <2>2, <2>5, PlacesAre, PlacesWillBe DEF DedupSpot, Colours
  <2>7. Places[5] = {} /\ Places'[5] = dedupBufs[c] BY <2>1, <2>3, PlacesAre, PlacesWillBe
  <2>8. \A k \in 1..8 : k # j /\ k # 5 => Places'[k] = Places[k]
    <3>1. \A k \in {1, 2, 6, 7, 8} : Places'[k] = Places[k] BY <2>4, PlacesAre, PlacesWillBe DEF Out
    <3>2. \A k \in 3..4 : k # j => Places'[k] = Places[k] BY <2>2, <2>5, PlacesAre, PlacesWillBe DEF DedupSpot, Colours
    <3> QED BY <3>1, <3>2
  <2>9. A \in SUBSET Spots /\ Spot(j) \in Spots /\ Spot(5) \in Spots /\ Spot(j) # Spot(5) BY <2>6, SpotsAre
  <2>10. \A l \in Spots : l \notin A => K[l] = H[l]
    <3>1. \A q \in Pushers : PushSpot(q) \notin A => Ids(pushers'[q].s) = Ids(pushers[q].s) BY <2>4
    <3>2. \A k \in 1..8 : Spot(k) \notin A => Ids(Places'[k]) = Ids(Places[k]) BY <2>8
    <3> HIDE DEF A, j
    <3>9. SameBut(A, pushers, Places, pushers', Places') BY <2>9, <3>1, <3>2 DEF SameBut
    <3> QED BY ONLY <3>9, HoldSame
  <2>11. K[Spot(j)] = {} BY <2>6, EmptyAt
  <2>12. K[Spot(5)] = H[Spot(5)] \cup H[Spot(j)]
    <3>1. H[Spot(5)] = {} BY <2>7, EmptyAt
    <3>2. H[Spot(j)] = Ids(dedupBufs[c]) /\ K[Spot(5)] = Ids(dedupBufs[c]) BY <2>6, <2>7, HoldAt
    <3> QED BY <3>1, <3>2
  <2>13. \A l \in Spots : l # Spot(j) /\ l # Spot(5) => K[l] = H[l] BY <2>10
  <2> HIDE DEF K, H, j
  <2>14. Placed(K, nSamples) BY <2>9, <2>11, <2>12, <2>13, Move DEF H
  <2> QED BY <2>4, <2>14 DEF K
<1> QED BY <1>0, <1>1, <1>2

\* DedupPush.
LEMMA PlacedByDedupPush ==
  ASSUME Typed, Shaped, Placed(Hold(pushers, Places), nSamples), DedupPush
  PROVE  Placed(Hold(pushers, Places), nSamples)'
<1> DEFINE H == Hold(pushers, Places)
           K == Hold(pushers', Places')
           A == {Spot(5), Spot(1)}
<1>1. flusher'.hand = {} /\ outputs'.blue = outputs.blue \cup flusher.hand /\ outputs'.green = outputs.green BY DedupPushDoes
<1>2. UNCHANGED <<pushers, dedupBufs, flushed, replaced, lost, nSamples>> BY DEF DedupPush
<1>3. \A k \in 1..8 : k # 1 /\ k # 5 => Places'[k] = Places[k]
  <2>1. \A k \in {2, 3, 4, 6, 7, 8} : Places'[k] = Places[k] BY <1>1, <1>2, PlacesAre, PlacesWillBe DEF Out
  <2> QED BY <2>1
<1>4. A \in SUBSET Spots /\ Spot(1) \in Spots /\ Spot(5) \in Spots /\ Spot(5) # Spot(1) BY SpotsAre
<1>5. \A l \in Spots : l \notin A => K[l] = H[l]
  <2>1. \A q \in Pushers : PushSpot(q) \notin A => Ids(pushers'[q].s) = Ids(pushers[q].s) BY <1>2
  <2>2. \A k \in 1..8 : Spot(k) \notin A => Ids(Places'[k]) = Ids(Places[k]) BY <1>3
  <2> HIDE DEF A
  <2>9. SameBut(A, pushers, Places, pushers', Places') BY <1>4, <2>1, <2>2 DEF SameBut
  <2> QED BY ONLY <2>9, HoldSame
<1>6. Places'[5] = {} /\ Places'[1] = Places[1] \cup Places[5] BY <1>1, PlacesAre, PlacesWillBe
<1>7. K[Spot(5)] = {} BY <1>6, EmptyAt
<1>8. K[Spot(1)] = H[Spot(1)] \cup H[Spot(5)]
  <2>1. Ids(Places'[1]) = Ids(Places[1]) \cup Ids(Places[5]) BY <1>6, IdsFacts
  <2> QED BY <2>1, HoldAt
<1>9. \A l \in Spots : l # Spot(5) /\ l # Spot(1) => K[l] = H[l] BY <1>5
<1> HIDE DEF K, H
<1>10. Placed(K, nSamples) BY <1>4, <1>7, <1>8, <1>9, Move DEF H
<1> QED BY <1>2, <1>10 DEF K

\* flush.
LEMMA PlacedByFlush ==
  ASSUME Typed, Placed(Hold(pushers, Places), nSamples), flush
  PROVE  Placed(Hold(pushers, Places), nSamples)'
<1> DEFINE H == Hold(pushers, Places)
           K == Hold(pushers', Places')
           N == Ids(Now)
           R == Ids(Rest)
<1>1. flusher'.hand = flusher.hand BY FlushTurns
<1>2. UNCHANGED <<pushers, dedupBufs, replaced, nSamples>> BY DEF flush
<1>3. /\ FlushColour \in Colours /\ Rest \in SUBSET Sample
      /\ flushed' = flushed \cup {[s |-> s, ts |-> flusher.flushTime] : s \in Now}
      /\ Gone => outputs' = NoEntry /\ lost' = lost \cup Dropped(Rest)
      /\ ~Gone => outputs' = Emptied(FlushColour) /\ lost' = lost /\ Now = outputs[FlushColour]
  BY FlushMoves
<1>4. Out' = Out \cup Now
  <2> DEFINE F == {[s |-> s, ts |-> flusher.flushTime] : s \in Now}
  <2>1. \A f \in F : f.s \in Now OBVIOUS
  <2>3. ASSUME NEW s \in Now PROVE \E f \in F : f.s = s
    <3>1. [s |-> s, ts |-> flusher.flushTime] \in F OBVIOUS
    <3>2. [s |-> s, ts |-> flusher.flushTime].s = s OBVIOUS
    <3> QED BY <3>1, <3>2
  <2>2. Out' = {f.s : f \in flushed'} BY DEF Out
  <2>4. flushed' = flushed \cup F BY <1>3
  <2> HIDE DEF F
  <2> QED BY <2>1, <2>2, <2>3, <2>4 DEF Out
<1>5. \A k \in {3, 4, 5, 7} : Places'[k] = Places[k] BY <1>1, <1>2, PlacesAre, PlacesWillBe
<1>6. K[Spot(6)] = H[Spot(6)] \cup N
  <2>1. Places'[6] = Places[6] \cup Now BY <1>4, PlacesAre, PlacesWillBe
  <2>2. Ids(Places'[6]) = Ids(Places[6]) \cup N BY <2>1, IdsFacts
  <2> QED BY <2>2, HoldAt
<1>7. \A k \in 1..8 : Spot(k) \in Spots BY SpotsAre
<1>8. \A j, k \in 1..8 : j # k => Spot(j) # Spot(k) BY SpotsAre
<1>9. CASE Gone
  <2> DEFINE A == {Spot(1), Spot(2), Spot(6), Spot(8)}
             a == Spot(1)
             b == Spot(2)
             d == Spot(6)
             e == Spot(8)
  <2>1. A \in SUBSET Spots BY <1>7
  <2>2. \A l \in Spots : l \notin A => K[l] = H[l]
    <3>1. \A q \in Pushers : PushSpot(q) \notin A => Ids(pushers'[q].s) = Ids(pushers[q].s) BY <1>2
    <3>2. \A k \in 1..8 : Spot(k) \notin A => Ids(Places'[k]) = Ids(Places[k])
      <4>1. \A k \in 1..8 : Spot(k) \notin A => k \in {3, 4, 5, 7} OBVIOUS
      <4> QED BY <4>1, <1>5
    <3> HIDE DEF A
    <3>9. SameBut(A, pushers, Places, pushers', Places') BY <2>1, <3>1, <3>2 DEF SameBut
    <3> QED BY ONLY <3>9, HoldSame
  <2>3. K[a] = {} /\ K[b] = {}
    <3>1. Places'[1] = {} /\ Places'[2] = {} BY <1>3, <1>9, PlacesWillBe, NoEntryFacts
    <3> QED BY <3>1, EmptyAt
  <2>4. K[e] = H[e] \cup R
    <3>1. Ids(Dropped(Rest)) = R
      <4>1. \A x \in Dropped(Rest) : \E s \in Rest : x.id = s.id BY <1>3, DroppedFacts
      <4>2. \A s \in Rest : \E x \in Dropped(Rest) : x.id = s.id BY <1>3, DroppedFacts
      <4> QED BY <4>1, <4>2 DEF Ids
    <3>2. Places'[8] = Places[8] \cup Dropped(Rest) BY <1>3, <1>9, PlacesAre, PlacesWillBe
    <3>3. Ids(Places'[8]) = Ids(Places[8]) \cup R BY <3>1, <3>2, IdsFacts
    <3> QED BY <3>3, HoldAt
  <2>5. H[a] = Ids(outputs.blue) /\ H[b] = Ids(outputs.green) BY PlacesAre, HoldAt
  <2>6. N \cup R = H[a] \cup H[b]
    <3>1. Now \subseteq outputs.blue \cup outputs.green BY <1>3 DEF Now, Colours
    <3>2. Now \cup Rest = outputs.blue \cup outputs.green BY <3>1 DEF Rest
    <3>3. Ids(Now \cup Rest) = N \cup R BY IdsFacts
    <3>4. Ids(outputs.blue \cup outputs.green) = Ids(outputs.blue) \cup Ids(outputs.green) BY IdsFacts
    <3> QED BY <2>5, <3>2, <3>3, <3>4
  <2>7. a \in Spots /\ b \in Spots /\ d \in Spots /\ e \in Spots /\ a # b /\ a # d /\ a # e /\ b # d /\ b # e /\ d # e
    BY <1>7, <1>8
  <2>8. \A l, k \in Spots : l # k => H[l] \cap H[k] = {} BY DEF Placed
  <2>9. N \cap R = {}
    <3>1. Ids(outputs.blue) \cap Ids(outputs.green) = {} BY <2>5, <2>7, <2>8
    <3>2. \A x \in outputs.blue, y \in outputs.green : x.id # y.id BY <3>1 DEF Ids
    <3>3. CASE Now = {} BY <3>3 DEF Ids
    <3>4. CASE Now = outputs.blue
      <4>1. \A x \in Now, y \in Rest : x.id # y.id BY <3>2, <3>4 DEF Rest
      <4> QED BY <4>1 DEF Ids
    <3>5. CASE Now = outputs.green
      <4>1. \A x \in Now, y \in Rest : x.id # y.id BY <3>2, <3>5 DEF Rest
      <4> QED BY <4>1 DEF Ids
    <3> QED BY <3>3, <3>4, <3>5, <1>3 DEF Now, Colours
  <2>10. K[d] = H[d] \cup N BY <1>6
  <2>11. Placed(H, nSamples) OBVIOUS
  <2> HIDE DEF K, H, a, b, d, e, N, R, A
  <2>12. A = {a, b, d, e} BY DEF A, a, b, d, e
  <2>13. \A l \in A : \A i \in K[l] : \E k \in A : i \in H[k] BY <2>3, <2>4, <2>6, <2>10, <2>12
  <2>14. \A l \in A : \A i \in H[l] : \E k \in A : i \in K[k]
    <3>1. \A i \in H[d] : i \in K[d] BY <2>10
    <3>2. \A i \in H[e] : i \in K[e] BY <2>4
    <3>3. \A i \in H[a] \cup H[b] : i \in K[d] \cup K[e] BY <2>4, <2>6, <2>10
    <3> QED BY <3>1, <3>2, <3>3, <2>12
  <2>15. \A l, k \in A : l # k => K[l] \cap K[k] = {}
    <3>1. H[a] \cap H[d] = {} /\ H[b] \cap H[d] = {} /\ H[a] \cap H[e] = {} /\ H[b] \cap H[e] = {} /\ H[d] \cap H[e] = {}
      BY <2>7, <2>8
    <3>2. K[d] \cap K[e] = {} BY <3>1, <2>4, <2>6, <2>9, <2>10
    <3> QED BY <3>2, <2>3, <2>12
  <2>16. \A l \in Spots \ A : K[l] = H[l] BY <2>2
  <2>17. Placed(K, nSamples) BY ONLY <2>1, <2>11, <2>13, <2>14, <2>15, <2>16, Exchange
  <2> QED BY <1>2, <2>17 DEF K
<1>10. CASE ~Gone
  <2> DEFINE j == OutSpot(FlushColour)
             A == {Spot(j), Spot(6)}
  <2>1. /\ Emptied(FlushColour)[FlushColour] = {}
        /\ \A x \in Colours : x # FlushColour => Emptied(FlushColour)[x] = outputs[x]
    BY <1>3, EmptiedFacts DEF Typed
  <2>2. j \in 1..2 /\ Places[j] = outputs[FlushColour] /\ Places'[j] = {}
    BY <2>1, <1>3, <1>10, PlacesAre, PlacesWillBe DEF OutSpot, Colours
  <2>3. \A k \in 1..8 : k # j /\ k # 6 => Places'[k] = Places[k]
    <3>1. Places'[8] = Places[8] BY <1>3, <1>10, PlacesAre, PlacesWillBe
    <3>2. \A k \in 1..2 : k # j => Places'[k] = Places[k]
      BY <2>1, <1>3, <1>10, PlacesAre, PlacesWillBe DEF OutSpot, Colours
    <3> QED BY <3>1, <3>2, <1>5
  <2>4. A \in SUBSET Spots /\ Spot(j) \in Spots /\ Spot(6) \in Spots /\ Spot(j) # Spot(6) BY <2>2, <1>7, <1>8
  <2>5. \A l \in Spots : l \notin A => K[l] = H[l]
    <3>1. \A q \in Pushers : PushSpot(q) \notin A => Ids(pushers'[q].s) = Ids(pushers[q].s) BY <1>2
    <3>2. \A k \in 1..8 : Spot(k) \notin A => Ids(Places'[k]) = Ids(Places[k]) BY <2>3
    <3> HIDE DEF A, j
    <3>9. SameBut(A, pushers, Places, pushers', Places') BY <2>4, <3>1, <3>2 DEF SameBut
    <3> QED BY ONLY <3>9, HoldSame
  <2>6. K[Spot(j)] = {} BY <2>2, EmptyAt
  <2>7. K[Spot(6)] = H[Spot(6)] \cup H[Spot(j)]
    <3>1. H[Spot(j)] = N BY <2>2, <1>3, <1>10, HoldAt
    <3> QED BY <3>1, <1>6
  <2>8. \A l \in Spots : l # Spot(j) /\ l # Spot(6) => K[l] = H[l] BY <2>5
  <2> HIDE DEF K, H, j
  <2>9. Placed(K, nSamples) BY <2>4, <2>6, <2>7, <2>8, Move DEF H
  <2> QED BY <1>2, <2>9 DEF K
<1> QED BY <1>9, <1>10

\* Every step keeps every sample in one place.
LEMMA PlacedKept ==
  ASSUME Typed, Shaped, PushesOK, Placed(Hold(pushers, Places), nSamples), StreamNext
  PROVE  Placed(Hold(pushers, Places), nSamples)'
<1>1. ASSUME NEW p \in Pushers, NEW ts \in 0..MaxTime, PushBegins(p, ts) PROVE Placed(Hold(pushers, Places), nSamples)'
  <2>1. pushers'[p].s = {} /\ \A q \in Pushers : q # p => pushers'[q] = pushers[q] BY <1>1, BeginsDoes
  <2>2. pushers[p].s = {} BY <1>1 DEF PushBegins, PushesOK, PushOK
  <2> QED BY <2>1, <2>2, <1>1, PlacedSame DEF PushBegins
<1>2. ASSUME NEW p \in Pushers, PushIgnores(p) PROVE Placed(Hold(pushers, Places), nSamples)'
  <2>1. pushers'[p].s = {} /\ \A q \in Pushers : q # p => pushers'[q] = pushers[q] BY <1>2, EndsDoes DEF PushIgnores, PushEnds
  <2>2. pushers[p].s = {} BY <1>2 DEF PushIgnores, PushesOK, PushOK
  <2> QED BY <2>1, <2>2, <1>2, PlacedSame DEF PushIgnores
<1>3. ASSUME NEW p \in Pushers, PushRoutes(p) \/ PushOutputs(p) \/ PushDedup(p) PROVE Placed(Hold(pushers, Places), nSamples)'
  BY <1>3, PlacedByRoutes, PlacedByOutputs, PlacedByDedup
<1>4. CASE DedupTake \/ DedupPush \/ flush BY <1>4, PlacedByTake, PlacedByDedupPush, PlacedByFlush
<1>5. CASE WakeUp BY <1>5, WakeUpDoes, PlacedSame DEF WakeUp
<1>6. CASE Publish BY <1>6, PublishDoes, PlacedSame DEF Publish
<1>7. CASE must_stop BY <1>7, StopDoes, PlacedSame DEF must_stop
<1>8. CASE StreamTick BY <1>8, TickDoes, PlacedSame DEF StreamTick
<1> QED BY <1>1, <1>2, <1>3, <1>4, <1>5, <1>6, <1>7, <1>8 DEF StreamNext

----------------------------------------------------------------------------
(* StreamAggr: the theorem.                                                *)

\* The first state.
LEMMA StreamStarts == StreamInit => StreamInv
<1> SUFFICES ASSUME StreamInit PROVE StreamInv OBVIOUS
<1> USE DEF StreamInit
<1>0. mode \in Modes /\ Loop \in Nat /\ Interval \in Nat /\ 0 \in 0..MaxTime /\ 0 \in 0..MaxSamples /\ mode.dedup \in Nat
      /\ (mode.dedup = 0 => Loop = Interval)
  BY ModeFacts, StreamAssumption
<1>1. NotPushing \in Push /\ NotPushing.pc = "idle" /\ NotPushing.s = {} /\ NotPushing.colour = "blue" /\ NotPushing.flips = 0
  BY DEF NotPushing, Push, Colours
<1>2. pushers \in [Pushers -> Push] /\ \A p \in Pushers : pushers[p] = NotPushing BY <1>1
<1>3. cs \in Window /\ cs.colour = "blue" /\ cs.deadline = Loop BY <1>0 DEF Window, Colours
<1>4. flusher \in Flush /\ flusher.pc = "wait" /\ flusher.wakeAt = Loop /\ flusher.flushTime = Interval /\ flusher.cs = cs
      /\ flusher.hand = {} /\ flusher.last = FALSE /\ flusher.stalled = FALSE
  BY <1>0, <1>3 DEF Flush
<1>5. dedupBufs \in [Colours -> SUBSET Sample] /\ dedupBufs["blue"] = {} /\ dedupBufs["green"] = {} BY DEF Colours
<1>6. Typed BY <1>0, <1>2, <1>3, <1>4, <1>5, NoEntryFacts DEF Typed
<1>7. Shaped BY <1>1, <1>2, <1>3, <1>4, <1>5, NoEntryFacts DEF Shaped, AtMostOne, Colours
<1>8. PushesOK BY <1>2, IdleOK DEF PushesOK
<1>9. Phases BY <1>0, <1>3, <1>4 DEF Phases
<1>10. Ended BY <1>4 DEF Ended
<1>11. \A c \in Colours : Fresh(outputs[c]) = {} BY NoEntryFacts DEF Fresh
<1>12. Windowed
  <2>1. FlushesOrdered BY DEF FlushesOrdered, FlushedInWindow
  <2>2. WindowsKept BY <1>11 DEF WindowsKept
  <2>3. \A p \in Pushers : PushWindow(pushers[p]) BY <1>1, <1>2 DEF PushWindow
  <2> QED BY <2>1, <2>2, <2>3 DEF Windowed
<1>13. KeepsUp
  <2>1. Fresh(outputs.blue \cup outputs.green) = {} BY NoEntryFacts DEF Fresh
  <2>2. OnTime BY <2>1 DEF OnTime
  <2>3. mode.dedup = 0 => OnTimePlain BY <2>1, <1>0, <1>1, <1>2, <1>4 DEF OnTimePlain
  <2>4. OnTimeDedup BY <1>0, <1>3, <1>4 DEF OnTimeDedup
  <2> QED BY <2>2, <2>3, <2>4 DEF KeepsUp
<1>14. DroppedForNewer BY DEF DroppedForNewer
<1>15. Placed(Hold(pushers, Places), nSamples)
  <2> DEFINE H == Hold(pushers, Places)
  <2>1. \A k \in 1..8 : Places[k] = {}
    <3>1. Out = {} BY DEF Out
    <3>2. Places[1] = {} /\ Places[2] = {} BY PlacesAre, NoEntryFacts
    <3>3. Places[3] = {} /\ Places[4] = {} BY <1>5, PlacesAre
    <3>4. Places[5] = {} /\ Places[6] = {} /\ Places[7] = {} /\ Places[8] = {} BY <3>1, <1>4, PlacesAre
    <3> QED BY <3>2, <3>3, <3>4
  <2>2. \A l \in Spots : H[l] = {}
    <3> SUFFICES ASSUME NEW l \in Spots PROVE H[l] = {} OBVIOUS
    <3>1. ASSUME NEW p \in Pushers, l = PushSpot(p) PROVE H[l] = {}
      <4>1. pushers[p].s = {} BY <1>1, <1>2
      <4> QED BY <4>1, <3>1, EmptyAt
    <3>2. ASSUME NEW k \in 1..8, l = Spot(k) PROVE H[l] = {} BY <2>1, <3>2, EmptyAt
    <3> QED BY <3>1, <3>2, SpotsAre
  <2>3. 1..nSamples = {} OBVIOUS
  <2> HIDE DEF H
  <2>4. Placed(H, nSamples) BY <2>2, <2>3 DEF Placed
  <2> QED BY <2>4 DEF H
<1> QED BY <1>6, <1>7, <1>8, <1>9, <1>10, <1>12, <1>13, <1>14, <1>15 DEF StreamInv

\* Every step keeps the invariant.
LEMMA StreamInvKept == StreamInv /\ [StreamNext]_streamVars => StreamInv'
<1>1. ASSUME StreamInv, StreamNext PROVE StreamInv'
  BY <1>1, TypedKept, ShapedKept, PushesKept, PhasesKept, EndedKept, WindowedKept, KeepsUpKept, NewerKept, PlacedKept
  DEF StreamInv
<1>2. ASSUME StreamInv, UNCHANGED streamVars PROVE StreamInv'
  <2>1. UNCHANGED <<mode, time, cs, minDeadline, flushAfter, outputs, dedupBufs, pushers, flusher, flushed, replaced, lost,
                    nSamples, flips>>
    BY <1>2 DEF streamVars
  <2>2. Typed' /\ Shaped' /\ Phases' /\ Ended' BY <1>2, <2>1 DEF StreamInv, Typed, Shaped, Phases, Ended
  <2>3. PushesOK' BY <1>2, <2>1 DEF StreamInv, PushesOK, PushOK, Interval
  <2>4. Windowed'
    BY <1>2, <2>1 DEF StreamInv, Windowed, FlushesOrdered, FlushedInWindow, WindowsKept, PushWindow, InTime, Fresh
  <2>5. KeepsUp' BY <1>2, <2>1 DEF StreamInv, KeepsUp, OnTime, OnTimePlain, OnTimeDedup, Fresh, InTime, Interval
  <2>6. DroppedForNewer' BY <1>2, <2>1 DEF StreamInv, DroppedForNewer, Out
  <2>7. Placed(Hold(pushers, Places), nSamples)' BY <1>2, <2>1, PlacedSame DEF StreamInv
  <2> QED BY <2>2, <2>3, <2>4, <2>5, <2>6, <2>7 DEF StreamInv
<1> QED BY <1>1, <1>2

\* A sample in one place is counted once.
LEMMA CountedOnce ==
  ASSUME Placed(Hold(pushers, Places), nSamples), NEW i \in 1..nSamples
  PROVE  PlacesOf(i) = 1
<1> DEFINE H == Hold(pushers, Places)
           P == {p \in Pushers : i \in {s.id : s \in pushers[p].s}}
           Q == {k \in DOMAIN Places : i \in {s.id : s \in Places[k]}}
<1>1. P = {p \in Pushers : i \in H[PushSpot(p)]} BY HoldAt DEF Ids
<1>2. Q = {k \in 1..8 : i \in H[Spot(k)]} BY HoldAt, PlacesAre DEF Ids
<1>3. PlacesOf(i) = Cardinality(P) + Cardinality(Q) BY DEF PlacesOf
<1>4. Placed(H, nSamples) OBVIOUS
<1> HIDE DEF H, P, Q
<1>5. PICK l \in Spots : i \in H[l] BY <1>4 DEF Placed
<1>6. \A m \in Spots : i \in H[m] => m = l BY <1>4, <1>5 DEF Placed
<1>7. Cardinality({}) = 0 /\ \A x : Cardinality({x}) = 1 BY FS_EmptySet, FS_Singleton
<1>8. ASSUME NEW p \in Pushers, l = PushSpot(p) PROVE PlacesOf(i) = 1
  <2>1. P = {p} BY <1>1, <1>5, <1>6, <1>8, SpotsAre
  <2>2. Q = {} BY <1>2, <1>6, <1>8, SpotsAre
  <2>3. Cardinality(P) = 1 BY ONLY <2>1, <1>7
  <2>4. Cardinality(Q) = 0 BY ONLY <2>2, <1>7
  <2> QED BY ONLY <1>3, <2>3, <2>4
<1>9. ASSUME NEW k \in 1..8, l = Spot(k) PROVE PlacesOf(i) = 1
  <2>1. Q = {k} BY <1>2, <1>5, <1>6, <1>9, SpotsAre
  <2>2. P = {} BY <1>1, <1>6, <1>9, SpotsAre
  <2>3. Cardinality(Q) = 1 BY ONLY <2>1, <1>7
  <2>4. Cardinality(P) = 0 BY ONLY <2>2, <1>7
  <2> QED BY ONLY <1>3, <2>3, <2>4
<1> QED BY <1>8, <1>9, SpotsAre

\* The invariant gives the property.
LEMMA StreamInvSound == StreamInv => StreamSound
<1> SUFFICES ASSUME StreamInv PROVE StreamSound OBVIOUS
<1> USE DEF StreamInv
<1>1. SamplesInOnePlace BY CountedOnce DEF SamplesInOnePlace
<1>2. NoneDropped BY DEF NoneDropped, KeepsUp, OnTime
<1>3. FlushedInWindow
  <2>1. CASE mode.windows /\ mode.dedup = 0 BY <2>1 DEF Windowed, FlushesOrdered
  <2>2. CASE ~(mode.windows /\ mode.dedup = 0) BY <2>2 DEF FlushedInWindow
  <2> QED BY <2>1, <2>2
<1>4. StreamTypeOK
  <2>1. \A c \in Colours : Cardinality(dedupBufs[c]) <= 1
    <3> SUFFICES ASSUME NEW c \in Colours PROVE Cardinality(dedupBufs[c]) <= 1 OBVIOUS
    <3> DEFINE S == dedupBufs[c]
    <3>1. AtMostOne(S) BY DEF Shaped
    <3>2. Cardinality({}) = 0 /\ \A x : Cardinality({x}) = 1 BY FS_EmptySet, FS_Singleton
    <3> HIDE DEF S
    <3>3. CASE S = {}
      <4>1. Cardinality(S) = 0 BY ONLY <3>2, <3>3
      <4> QED BY <4>1 DEF S
    <3>4. CASE S # {}
      <4>1. PICK x \in S : TRUE BY <3>4
      <4>2. S = {x} BY <3>1, <4>1 DEF AtMostOne
      <4>3. Cardinality(S) = 1 BY ONLY <3>2, <4>2
      <4> QED BY <4>3 DEF S
    <3> QED BY <3>3, <3>4
  <2>2. cs.colour \in Colours /\ cs.deadline \in Nat /\ minDeadline \in 0..cs.deadline BY DEF Typed, Window, Phases
  <2>3. mode.dedup = 0 => dedupBufs = [c \in Colours |-> {}] /\ flusher.hand = {}
    <3>1. mode.dedup = 0 => \A c \in Colours : dedupBufs[c] = {} BY DEF Shaped, Colours
    <3>2. dedupBufs \in [Colours -> SUBSET Sample] BY DEF Typed
    <3> QED BY <3>1, <3>2 DEF Shaped
  <2>4. ~mode.windows => cs.colour = "blue" /\ outputs.green = {} /\ dedupBufs.green = {} BY DEF Shaped
  <2>5. flusher.pc \in {"wait", "sleep", "dedup", "push", "flush", "publish", "stopped"} BY DEF Typed, Flush
  <2> QED BY <2>1, <2>2, <2>3, <2>4, <2>5 DEF StreamTypeOK, Typed, Shaped
<1> QED BY <1>1, <1>2, <1>3, <1>4 DEF StreamSound

\* For any pushers, configurations and bounds: every sample is in one place, flushed at most once,
\* by the flush of its window unless a flush overtook its push, dropped by de-duplication only for
\* one as new, and never dropped with its entry while the flusher keeps up, unless another push put
\* the entry's deadline back or the last flush passes its window over (Aggregator::push,
\* dedup_flush, flush).
THEOREM SamplesAreCountedOnce == StreamSpec => []StreamSound
<1>1. StreamSpec => []StreamInv BY StreamStarts, StreamInvKept, PTL DEF StreamSpec
<1> QED BY <1>1, StreamInvSound, PTL
=============================================================================
