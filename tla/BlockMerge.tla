----------------------------- MODULE BlockMerge -----------------------------
(***************************************************************************)
(* unpack_series of esm-storage's parallel search: the decoded blocks of a *)
(* series are trimmed to the requested range, merged (merge_sort_blocks)   *)
(* or, when their headers do not overlap, appended one after the other     *)
(* (append_run), and deduplicated (deduplicate_in_place).  Deduplication   *)
(* also runs when parts are merged, on rows that no one collapsed before.  *)
(* A step is one iteration of a loop.                                      *)
(*                                                                         *)
(* The reference is Search::next_series, which sorts the concatenation of  *)
(* the blocks.  A value is a number, StaleValue being the stale marker.    *)
(***************************************************************************)
EXTENDS Integers, Sequences, SequencesExt, FiniteSets

CONSTANTS
  MaxBlocks,    \* bound on the blocks of a series
  MaxRows,      \* bound on the rows of a block
  MaxMergeRows, \* bound on the rows that a merge of parts deduplicates
  Timestamps,   \* timestamps of samples, a set of naturals
  SampleValues, \* values of the rows that a merge of parts deduplicates
  StaleValue,   \* the value of SampleValues that stands for a stale marker
  Intervals     \* dedup intervals; 0 is no deduplication

ASSUME BlockAssumption ==
  /\ MaxBlocks \in Nat /\ MaxRows \in Nat /\ MaxMergeRows \in Nat
  /\ Timestamps \subseteq Nat
  /\ SampleValues \subseteq Int /\ Intervals \subseteq Nat

VARIABLES
  blocks,    \* the samples of the blocks, trimmed, in MinTimestamp order
  interval,  \* the global dedup interval
  overlap,   \* whether the headers say that two blocks overlap
  pos,       \* SortCursor::pos of every block: how many samples are consumed
  dst,       \* the samples of the SeriesBlock
  dd         \* the progress of deduplicate_in_place

mergeVars == <<blocks, interval, overlap, pos, dst, dd>>

Sorted(run) == \A i \in 1..Len(run) - 1 : run[i].t <= run[i + 1].t

\* The samples of a block that the time range lo..hi keeps (trim_range).
trim_range(run, lo, hi) == SelectSeq(run, LAMBDA x : lo <= x.t /\ x.t <= hi)

\* Two blocks overlap when a header's last timestamp is not before the next one's first.
Overlapping(bs) == \E i \in 1..Len(bs) - 1 : bs[i][Len(bs[i])].t >= bs[i + 1][1].t

Runs(max, values) ==
  {r \in UNION {[1..n -> [t : Timestamps, v : values]] : n \in 1..max} : Sorted(r)}

\* A query: the blocks of a series, in the order of their first timestamps.  Every row
\* has a value of its own, so that one can tell which row a sample comes from.
QueryInit ==
  /\ \E n \in 1..MaxBlocks : \E bs \in [1..n -> Runs(MaxRows, {0})], lo, hi \in Timestamps :
       /\ \A i \in 1..n - 1 : bs[i][1].t <= bs[i + 1][1].t
       /\ overlap = Overlapping(bs)
       /\ lo <= hi
       /\ blocks = [i \in 1..n |-> trim_range([k \in DOMAIN bs[i] |->
                      [t |-> bs[i][k].t, v |-> i * (MaxRows + 1) + k]], lo, hi)]
  /\ dst = <<>>

\* A merge of parts: the rows of a block, with no blocks to read.
MergeTimeInit ==
  /\ blocks = <<>> /\ overlap = FALSE
  /\ dst \in Runs(MaxMergeRows, SampleValues)

MergeInit ==
  /\ QueryInit \/ MergeTimeInit
  /\ interval \in Intervals
  /\ pos = [i \in DOMAIN blocks |-> 0]
  /\ dd = [pc |-> "merge", i |-> 0, next |-> 0, out |-> <<>>]

Left(i) == pos[i] < Len(blocks[i])
NextRow(i) == blocks[i][pos[i] + 1]
LastIs(d, t) == d # <<>> /\ d[Len(d)].t = t
-----------------------------------------------------------------------------
(* append_run and merge_sort_blocks *)

\* Mutant: samples with the timestamp of the one before are kept.
append_run_All(d, run) == d \o run

\* append_run: of samples with one timestamp, the first stays.
append_run(d, run) ==
  FoldLeft(LAMBDA acc, x : IF LastIs(acc, x.t) THEN acc ELSE Append(acc, x), d, run)

\* Blocks that do not overlap are appended in their order.
AppendBlock ==
  /\ dd.pc = "merge" /\ ~overlap
  /\ \E i \in DOMAIN blocks :
       /\ Left(i) /\ \A j \in 1..i - 1 : ~Left(j)
       /\ dst' = append_run(dst, blocks[i])
       /\ pos' = [pos EXCEPT ![i] = Len(blocks[i])]
  /\ UNCHANGED <<blocks, interval, overlap, dd>>

\* The block whose head is the smallest, the first of them on a tie.
MinBlock ==
  CHOOSE i \in DOMAIN blocks :
    /\ Left(i)
    /\ \A j \in DOMAIN blocks :
         Left(j) => NextRow(i).t < NextRow(j).t \/ (NextRow(i).t = NextRow(j).t /\ i <= j)

\* Mutant: the run taken ends after the samples at the other blocks' smallest head.
Before_Through(x, b) == x.t <= b

Before(x, b) == x.t < b

\* One round: the samples of the smallest block that precede every other block's, or
\* a single one when its head ties with another block's.
merge_sort_blocks ==
  /\ dd.pc = "merge" /\ overlap
  /\ \E i \in DOMAIN blocks : Left(i)
  /\ LET m == MinBlock
         others == {NextRow(j).t : j \in {k \in DOMAIN blocks \ {m} : Left(k)}}
         rest == SubSeq(blocks[m], pos[m] + 1, Len(blocks[m]))
         run == IF others = {} THEN rest
                ELSE SelectSeq(rest, LAMBDA x : \A b \in others : Before(x, b))
     IN  IF run = <<>>
         THEN /\ dst' = IF LastIs(dst, NextRow(m).t) THEN dst ELSE Append(dst, NextRow(m))
              /\ pos' = [pos EXCEPT ![m] = @ + 1]
         ELSE /\ dst' = append_run(dst, run)
              /\ pos' = [pos EXCEPT ![m] = @ + Len(run)]
  /\ UNCHANGED <<blocks, interval, overlap, dd>>
-----------------------------------------------------------------------------
(* deduplicate_in_place *)

\* The end of the bucket of t.
AlignUp(t) == (t + interval - 1) - ((t + interval - 1) % interval)

\* pick_sample_at: of the samples with s[j]'s timestamp up to j, not a stale marker
\* if there is another, then the largest.
pick_sample_at(s, j) ==
  LET same == {s[k].v : k \in {k \in 1..j : s[k].t = s[j].t}}
      live == IF same \ {StaleValue} = {} THEN same ELSE same \ {StaleValue}
  IN  [t |-> s[j].t, v |-> CHOOSE v \in live : \A u \in live : u <= v]

\* Mutant: after a gap the buckets go on where they were.
NextBucket_Drift(next, t) == next + interval

\* The end of the bucket after the one that ended at next, for the sample at t.
NextBucket(next, t) == IF next + interval < t THEN AlignUp(t) ELSE next + interval

\* needs_dedup is the scan below without the copying: with no sample inside the bucket
\* of the one before there is nothing to do.
needs_dedup(s) ==
  Len(s) >= 2 /\ \E i \in 2..Len(s) : s[i].t <= AlignUp(s[i - 1].t)

BeginDedup ==
  /\ dd.pc = "merge" /\ \A i \in DOMAIN blocks : ~Left(i)
  /\ dd' = IF interval > 0 /\ needs_dedup(dst)
           THEN [pc |-> "dedup", i |-> 2, next |-> AlignUp(dst[1].t), out |-> <<>>]
           ELSE [pc |-> "done", i |-> 0, next |-> 0, out |-> dst]
  /\ UNCHANGED <<blocks, interval, overlap, pos, dst>>

\* One iteration: a sample past the bucket's end emits the last one before it.
deduplicate_in_place ==
  /\ dd.pc = "dedup" /\ dd.i <= Len(dst)
  /\ dd' = IF dst[dd.i].t <= dd.next THEN [dd EXCEPT !.i = @ + 1]
           ELSE [pc |-> "dedup", i |-> dd.i + 1, next |-> NextBucket(dd.next, dst[dd.i].t),
                 out |-> Append(dd.out, pick_sample_at(dst, dd.i - 1))]
  /\ UNCHANGED <<blocks, interval, overlap, pos, dst>>

DedupEnds ==
  /\ dd.pc = "dedup" /\ dd.i > Len(dst)
  /\ dd' = [pc |-> "done", i |-> 0, next |-> 0, out |-> Append(dd.out, pick_sample_at(dst, Len(dst)))]
  /\ UNCHANGED <<blocks, interval, overlap, pos, dst>>

MergeNext ==
  AppendBlock \/ merge_sort_blocks \/ BeginDedup \/ deduplicate_in_place \/ DedupEnds

MergeSpec == MergeInit /\ [][MergeNext]_mergeVars
-----------------------------------------------------------------------------
Rows == FlattenSeq(blocks)
TimesOf(s) == {s[k].t : k \in DOMAIN s}

\* Search::next_series: all the rows sorted by timestamp, of those with one timestamp
\* the first in the order of the blocks.
next_series ==
  LET First(t) == Rows[CHOOSE k \in DOMAIN Rows : Rows[k].t = t /\ \A j \in 1..k - 1 : Rows[j].t # t]
      times == SetToSortSeq(TimesOf(Rows), <)
  IN  [k \in DOMAIN times |-> First(times[k])]

\* The cursors stay inside their blocks, and a query's samples never repeat a timestamp,
\* which SeriesBlock promises to the rollup functions.
MergeTypeOK ==
  /\ \A i \in DOMAIN blocks : pos[i] \in 0..Len(blocks[i])
  /\ dd.pc \in {"merge", "dedup", "done"}
  /\ blocks # <<>> => \A k \in 1..Len(dst) - 1 : dst[k].t < dst[k + 1].t

\* The parallel search returns what the serial one does: merging runs block by block
\* gives the stable sort of all rows without the later duplicates (the doc comments of
\* unpack_series and merge_sort_blocks).
MergedAsSorted == (blocks # <<>> /\ dd.pc # "merge") => dst = next_series

\* Deduplication leaves exactly one sample per bucket of interval: at the bucket's last
\* timestamp, with the largest of the values there that are not stale markers
\* (deduplicate_in_place, with and without its fast path).
OneSamplePerBucket ==
  dd.pc = "done" =>
    LET last == {t \in TimesOf(dst) : interval = 0 \/ \A u \in TimesOf(dst) : u <= t \/ AlignUp(u) > AlignUp(t)}
        vals(t) == {dst[k].v : k \in {k \in DOMAIN dst : dst[k].t = t}}
        live(t) == vals(t) \ {StaleValue}
        kept == SetToSortSeq(last, <)
    IN  IF interval = 0 THEN dd.out = dst
        ELSE /\ Len(dd.out) = Len(kept)
             /\ \A k \in DOMAIN kept :
                  /\ dd.out[k].t = kept[k]
                  /\ IF live(kept[k]) = {} THEN dd.out[k].v = StaleValue
                     ELSE dd.out[k].v \in live(kept[k]) /\ \A v \in live(kept[k]) : v <= dd.out[k].v

\* A series is what sorting and deduplicating all its rows gives, whichever way its blocks are
\* merged (unpack_series, merge_sort_blocks, deduplicate_in_place).
MergeSound == MergeTypeOK /\ MergedAsSorted /\ OneSamplePerBucket
=============================================================================
