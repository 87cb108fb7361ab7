----------------------------- MODULE StreamAggr ------------------------------
(***************************************************************************)
(* An aggregator of stream aggregation: pushes by several threads, the     *)
(* flusher with its blue and green windows, de-duplication, and the        *)
(* shutdown (esm-streamaggr/src/aggregator.rs and dedup.rs).               *)
(*                                                                         *)
(* One input series that goes to one output key.  An output is the set of  *)
(* the samples it has got since its last flush: what count_samples counts. *)
(* Flushes are aligned to the interval, and timestamps are not ahead of    *)
(* the clock.                                                              *)
(***************************************************************************)
EXTENDS Integers, FiniteSets

CONSTANTS
  Pushers,     \* threads that push samples
  Modes,       \* the configurations to check: [windows : BOOLEAN, dedup : Nat, interval : Nat]
  MaxSamples,  \* bound on the samples
  MaxTime      \* bound on the clock

ASSUME StreamAssumption ==
  /\ IsFiniteSet(Pushers) /\ MaxSamples \in Nat /\ MaxTime \in Nat
  /\ \A m \in Modes : /\ m.windows \in BOOLEAN /\ m.interval \in Nat \ {0} /\ m.dedup \in 0..m.interval
                      /\ m.dedup > 0 => m.interval % m.dedup = 0

VARIABLES
  mode,        \* the configuration
  time,
  cs,          \* CurrentState
  minDeadline, \* min_deadline
  flushAfter,  \* flush_after_ms
  outputs,     \* the entry of the output key: its samples per window, delete_deadline, and,
               \* as history, the furthest deadline that it was given
  dedupBufs,   \* per window: the samples that DedupAggr holds
  pushers,     \* per thread: the push under way
  flusher,     \* the flusher thread
  flushed,     \* [s, ts]: samples that have been pushed on, and the timestamp of the flush
  replaced,    \* samples that de-duplication has dropped
  lost,        \* samples dropped with their entry
  nSamples,    \* samples so far
  flips        \* history: flushes begun and ended

streamVars == <<mode, time, cs, minDeadline, flushAfter, outputs, dedupBufs, pushers, flusher,
                flushed, replaced, lost, nSamples, flips>>

Colours  == {"blue", "green"}
Other(c) == IF c = "blue" THEN "green" ELSE "blue"
NoEntry  == [blue |-> {}, green |-> {}, deadline |-> -1, furthest |-> -1]
NotPushing == [pc |-> "idle", ts |-> 0, minDeadline |-> 0, deleteDeadline |-> 0, flips |-> 0, colour |-> "blue", s |-> {}]
Interval == mode.interval   \* interval_ms; also staleness_interval_ms
Loop     == IF mode.dedup > 0 THEN mode.dedup ELSE Interval

\* The type of every variable; without windows nothing is green.
StreamTypeOK ==
  /\ mode \in Modes /\ time \in 0..MaxTime /\ nSamples \in 0..MaxSamples
  /\ cs.colour \in Colours /\ cs.deadline \in Nat /\ minDeadline \in 0..cs.deadline
  /\ ~mode.windows => cs.colour = "blue" /\ outputs.green = {} /\ dedupBufs.green = {}
  /\ mode.dedup > 0 => outputs.green = {}
  /\ mode.dedup = 0 => dedupBufs = [c \in Colours |-> {}] /\ flusher.hand = {}
  /\ \A c \in Colours : Cardinality(dedupBufs[c]) <= 1
  /\ outputs.deadline = -1 => outputs = NoEntry
  /\ flusher.pc \in {"wait", "sleep", "dedup", "push", "flush", "publish", "stopped"}
  /\ flushAfter \in 0..MaxTime

StreamInit ==
  /\ mode \in Modes /\ time = 0 /\ minDeadline = 0 /\ flushAfter = 0 /\ nSamples = 0 /\ flips = 0
  /\ cs = [colour |-> "blue", deadline |-> Loop]
  /\ outputs = NoEntry /\ dedupBufs = [c \in Colours |-> {}]
  /\ pushers = [p \in Pushers |-> NotPushing]
  /\ flusher = [pc |-> "wait", wakeAt |-> Loop, flushTime |-> Interval, cs |-> cs, hand |-> {}, last |-> FALSE, stalled |-> FALSE]
  /\ flushed = {} /\ replaced = {} /\ lost = {}

----------------------------------------------------------------------------
(* Aggregator::push.                                                       *)

\* The clock and min_deadline are read ...
PushBegins(p, ts) ==
  /\ pushers[p].pc = "idle" /\ nSamples < MaxSamples /\ ts <= time /\ flusher.pc # "stopped" /\ ~flusher.last
  /\ pushers' = [pushers EXCEPT ![p] = [NotPushing EXCEPT !.pc = "begun", !.ts = ts, !.minDeadline = minDeadline,
                                          !.deleteDeadline = time + Interval, !.flips = flips]]
  /\ UNCHANGED <<mode, time, cs, minDeadline, flushAfter, outputs, dedupBufs, flusher, flushed, replaced,
                 lost, nSamples, flips>>

\* Mutant: windows whatever the configuration.
ColourOf_Always(ts) == IF (ts <= cs.deadline) = (cs.colour = "green") THEN "green" ELSE "blue"

\* The window of a sample.
ColourOf(ts) == IF mode.windows /\ (ts <= cs.deadline) = (cs.colour = "green") THEN "green" ELSE "blue"

\* Mutant: old samples count only without windows.
Ignored_Never(p) == FALSE

\* Samples that are too old: older than the last flush.
Ignored(p) == mode.windows /\ pushers[p].ts < pushers[p].minDeadline

\* ... then the window state, and the sample is given its window.
PushRoutes(p) ==
  LET ts == pushers[p].ts IN
  /\ pushers[p].pc = "begun" /\ nSamples < MaxSamples /\ ~Ignored(p)
  /\ nSamples' = nSamples + 1
  /\ pushers' = [pushers EXCEPT ![p] = [@ EXCEPT !.pc = "routed", !.colour = ColourOf(ts),
                                          !.s = {[id |-> nSamples', ts |-> ts, slow |-> FALSE]}]]
  /\ flushAfter' = IF mode.windows /\ time - ts > flushAfter THEN time - ts ELSE flushAfter
  /\ UNCHANGED <<mode, time, cs, minDeadline, outputs, dedupBufs, flusher, flushed, replaced, lost, flips>>

\* An old sample is ignored.
PushIgnores(p) ==
  /\ pushers[p].pc = "begun" /\ Ignored(p)
  /\ pushers' = [pushers EXCEPT ![p] = NotPushing]
  /\ UNCHANGED <<mode, time, cs, minDeadline, flushAfter, outputs, dedupBufs, flusher, flushed, replaced,
                 lost, nSamples, flips>>

\* Whether a flush has come between, which makes the push a slow one.
Overtaken(p) == pushers[p].flips # flips \/ flips % 2 = 1

Marked(p) == {[s EXCEPT !.slow = Overtaken(p)] : s \in pushers[p].s}

\* Mutant: the deadline is that of the first sample.
push_samples_Keep(S, colour, deadline) ==
  outputs' = [outputs EXCEPT ![colour] = @ \cup S, !.deadline = IF @ = -1 THEN deadline ELSE @,
                             !.furthest = IF @ = -1 THEN deadline ELSE @]

\* push_samples: samples S join the entry under the lock.
push_samples(S, colour, deadline) ==
  outputs' = [outputs EXCEPT ![colour] = @ \cup S, !.deadline = deadline,
                             !.furthest = IF deadline > @ THEN deadline ELSE @]

PushOutputs(p) ==
  /\ pushers[p].pc = "routed" /\ mode.dedup = 0
  /\ push_samples(Marked(p), pushers[p].colour, pushers[p].deleteDeadline)
  /\ pushers' = [pushers EXCEPT ![p] = NotPushing]
  /\ UNCHANGED <<mode, time, cs, minDeadline, flushAfter, dedupBufs, flusher, flushed, replaced, lost,
                 nSamples, flips>>

\* Mutant: the older sample stays.
deduplicate_samples_Old(S) == CHOOSE s \in S : \A r \in S : s.ts <= r.ts

\* The newer sample stays, of two with the same timestamp the larger value: here, any.
deduplicate_samples(S) == CHOOSE s \in S : \A r \in S : s.ts >= r.ts

PushDedup(p) ==
  /\ pushers[p].pc = "routed" /\ mode.dedup > 0
  /\ LET all  == dedupBufs[pushers[p].colour] \cup Marked(p)
         stay == deduplicate_samples(all)
     IN  /\ dedupBufs' = [dedupBufs EXCEPT ![pushers[p].colour] = {stay}]
         /\ replaced' = replaced \cup (all \ {stay})
  /\ pushers' = [pushers EXCEPT ![p] = NotPushing]
  /\ UNCHANGED <<mode, time, cs, minDeadline, flushAfter, outputs, flusher, flushed, lost, nSamples, flips>>

----------------------------------------------------------------------------
(* run_flusher.                                                            *)

\* The wait is over.  With windows the flush is put off by the largest lag that was seen.
WakeUp ==
  /\ flusher.pc = "wait" /\ time >= flusher.wakeAt
  /\ LET delay == IF mode.windows THEN flushAfter ELSE 0
     IN  flusher' = [flusher EXCEPT !.pc = "sleep", !.cs = cs, !.wakeAt = time + delay]
  /\ flushAfter' = IF mode.windows THEN 0 ELSE flushAfter
  /\ UNCHANGED <<mode, time, cs, minDeadline, outputs, dedupBufs, pushers, flushed, replaced, lost,
                 nSamples, flips>>

\* The least time not before now that is a number of steps after t.
Ahead(t, step) == IF time > t THEN t + step * ((time - t + step - 1) \div step) ELSE t

\* dedup_flush: the samples of the window are taken ...
DedupTake ==
  /\ \/ flusher.pc = "sleep" /\ time >= flusher.wakeAt
     \/ flusher.pc = "dedup"
  /\ IF mode.dedup = 0
     THEN flusher' = [flusher EXCEPT !.pc = "flush"] /\ UNCHANGED <<minDeadline, dedupBufs>>
     ELSE /\ minDeadline' = flusher.cs.deadline
          /\ dedupBufs' = [dedupBufs EXCEPT ![flusher.cs.colour] = {}]
          /\ flusher' = [flusher EXCEPT !.pc = "push", !.hand = dedupBufs[flusher.cs.colour]]
  /\ UNCHANGED <<mode, time, cs, flushAfter, outputs, pushers, flushed, replaced, lost, nSamples, flips>>

\* ... and pushed to the outputs; the deadline moves on.
DedupPush ==
  /\ flusher.pc = "push"
  /\ IF flusher.hand = {} THEN UNCHANGED outputs
     ELSE push_samples(flusher.hand, "blue", flusher.cs.deadline + Interval)
  /\ flusher' = [flusher EXCEPT !.hand = {}, !.cs.deadline = Ahead(@, mode.dedup),
                   !.pc = IF flusher.last \/ flusher.flushTime <= flusher.cs.deadline THEN "flush" ELSE "publish"]
  /\ UNCHANGED <<mode, time, cs, minDeadline, flushAfter, dedupBufs, pushers, flushed, replaced, lost,
                 nSamples, flips>>

\* Mutant: the output is not reset.
Emptied_Not(c) == outputs

\* What is left of the entry after the flush of a window.
Emptied(c) == [outputs EXCEPT ![c] = {}]

\* Samples S that go with their entry; not in time, if the entry's deadline has been put back.
Dropped(S) == {[s EXCEPT !.slow = @ \/ outputs.deadline < outputs.furthest] : s \in S}

\* flush: a stale entry is dropped; the samples of the window are pushed on.  The last flush drops
\* the entry as well.
flush ==
  /\ flusher.pc = "flush"
  /\ LET c     == IF mode.dedup = 0 THEN flusher.cs.colour ELSE "blue"
         stale == flusher.flushTime > outputs.deadline
         gone  == stale \/ flusher.last
         now   == IF stale THEN {} ELSE outputs[c]
         left  == Emptied(c)
     IN
     /\ flushed' = flushed \cup {[s |-> s, ts |-> flusher.flushTime] : s \in now}
     /\ outputs' = IF gone THEN NoEntry ELSE left
     /\ lost' = IF gone THEN lost \cup Dropped((outputs.blue \cup outputs.green) \ now) ELSE lost
     /\ minDeadline' = IF mode.dedup = 0 THEN flusher.cs.deadline ELSE minDeadline
     /\ LET next == Ahead(flusher.flushTime + Interval, Interval) IN
        flusher' = [flusher EXCEPT !.pc = "publish", !.flushTime = next,
                      !.stalled = @ \/ next > flusher.flushTime + Interval,
                      !.cs.deadline = IF mode.dedup = 0 /\ ~flusher.last THEN next ELSE @]
     /\ flips' = flips + 1
  /\ UNCHANGED <<mode, time, cs, flushAfter, dedupBufs, pushers, replaced, nSamples>>

\* The window state is published, with the other window.
Publish ==
  /\ flusher.pc = "publish"
  /\ cs' = [deadline |-> flusher.cs.deadline,
            colour |-> IF mode.windows /\ ~flusher.last THEN Other(flusher.cs.colour) ELSE flusher.cs.colour]
  /\ flusher' = [flusher EXCEPT !.pc = IF flusher.last THEN "stopped" ELSE "wait", !.wakeAt = time + Loop]
  /\ flips' = IF flips % 2 = 1 THEN flips + 1 ELSE flips
  /\ UNCHANGED <<mode, time, minDeadline, flushAfter, outputs, dedupBufs, pushers, flushed, replaced,
                 lost, nSamples>>

\* must_stop: no request is left, and the flusher is told while it waits.
must_stop ==
  /\ flusher.pc = "wait" /\ \A p \in Pushers : pushers[p].pc = "idle"
  /\ flusher' = [flusher EXCEPT !.pc = "dedup", !.cs = cs, !.last = TRUE]
  /\ UNCHANGED <<mode, time, cs, minDeadline, flushAfter, outputs, dedupBufs, pushers, flushed, replaced,
                 lost, nSamples, flips>>

StreamTick ==
  /\ time < MaxTime /\ time' = time + 1
  /\ flusher' = [flusher EXCEPT !.stalled = @ \/ flusher.pc \in {"push", "flush", "publish"}]
  /\ UNCHANGED <<mode, cs, minDeadline, flushAfter, outputs, dedupBufs, pushers, flushed, replaced,
                 lost, nSamples, flips>>

StreamNext ==
  \/ \E p \in Pushers :
       \/ \E ts \in 0..MaxTime : PushBegins(p, ts)
       \/ PushRoutes(p) \/ PushIgnores(p) \/ PushOutputs(p) \/ PushDedup(p)
  \/ WakeUp \/ DedupTake \/ DedupPush \/ flush \/ Publish \/ must_stop \/ StreamTick

StreamSpec == StreamInit /\ [][StreamNext]_streamVars

----------------------------------------------------------------------------
(* What makes an aggregator correct.                                       *)

Out == {f.s : f \in flushed}

Places == <<outputs.blue, outputs.green, dedupBufs.blue, dedupBufs.green, flusher.hand, Out, replaced, lost>>

\* In how many places sample i is.
PlacesOf(i) ==
  Cardinality({p \in Pushers : i \in {s.id : s \in pushers[p].s}})
  + Cardinality({k \in DOMAIN Places : i \in {s.id : s \in Places[k]}})

\* Every sample is in one place: no flush forgets one or pushes one on twice.
SamplesInOnePlace == \A i \in 1..nSamples : PlacesOf(i) = 1

\* No sample is dropped with its entry, unless a flush overtook its push or a slower push put the
\* entry's deadline back (push_samples overwrites delete_deadline): such a sample is slow.  And unless
\* the flusher was held up within a flush or skipped flush times, or the sample was in the window
\* that the last flush passes over.
NoneDropped == flusher.stalled \/ \A s \in lost : s.slow \/ (mode.windows /\ flusher.last)

\* With windows, a flush pushes on the samples of its window, but for those that it overtook.
FlushedInWindow ==
  mode.windows /\ mode.dedup = 0 =>
    \A f \in flushed : ~f.s.slow => f.s.ts <= f.ts /\ \A g \in flushed : g.ts < f.ts => g.ts <= f.s.ts

\* De-duplication drops a sample for one that is as new.
DroppedForNewer ==
  \A d \in replaced : \E s \in Out \cup outputs.blue \cup flusher.hand \cup dedupBufs.blue \cup dedupBufs.green
                                  \cup lost : s.ts >= d.ts

\* What flush_on_shutdown says: the incomplete state is flushed.
ShutdownFlushesAll == flusher.pc = "stopped" => lost = {} /\ outputs = NoEntry /\ \A c \in Colours : dedupBufs[c] = {}

\* Every sample is counted once, in its own window, or dropped for a newer one of its series,
\* however pushes and flushes overtake each other (push, dedup_flush, flush).
StreamSound == StreamTypeOK /\ SamplesInOnePlace /\ NoneDropped /\ FlushedInWindow /\ DroppedForNewer
=============================================================================
