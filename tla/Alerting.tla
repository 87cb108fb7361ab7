------------------------------ MODULE Alerting ------------------------------
(***************************************************************************)
(* A group of alerting rules of esmalert: the states of its alerts over    *)
(* evaluations, hot reloads, restarts with the restore from remote         *)
(* storage, and what the Alertmanager is told (rule/alerting.rs,           *)
(* rule/group.rs, manager.rs, remoteread/mod.rs).                          *)
(*                                                                         *)
(* A rule has one series at most, so a rule and its alert are the same     *)
(* thing here.  The unit of time is the evaluation interval.               *)
(***************************************************************************)
EXTENDS Integers, Sequences

CONSTANTS
  AlertRules,    \* identities of rules: a change of the expression makes another one
  For,           \* for
  KeepFiringFor, \* keep_firing_for
  Retention15m,  \* RESOLVED_RETENTION_MS
  ResolveAfter,  \* get_resolve_duration
  Lookback,      \* -remoteRead.lookback
  MaxNow,        \* bound on the clock
  MaxReloads,    \* bound on the reloads
  MaxRestartsOf  \* bound on the restarts

ASSUME AlertingAssumption ==
  /\ For \in Nat /\ KeepFiringFor \in Nat /\ Retention15m \in Nat
  /\ ResolveAfter \in Nat \ {0} /\ Lookback \in Nat
  /\ MaxNow \in Nat /\ MaxReloads \in Nat /\ MaxRestartsOf \in Nat

VARIABLES
  now,          \* time of the next evaluation
  ruleSet,      \* the rules of the running group
  wanted,       \* the rules the manager wants
  updates,      \* update_tx: what the group is yet to apply
  alerts,       \* per rule: its alert
  forState,     \* per rule: the last sample of ALERTS_FOR_STATE that is not a staleness mark, and as
                \* history the run of activity it belongs to, until an evaluation finds that over
  amEnds,       \* per rule: endsAt in what the Alertmanager was told last
  told,         \* rules whose last successful evaluation was told to the Alertmanager
  lastOk,       \* history, per rule: its last successful evaluation
  since,        \* history, per rule: the first evaluation of the current run of activity
  resurrected,  \* history: rules whose alert was restored from a run of activity that was over
  bounds        \* history: reloads and restarts

alertVars ==
  <<now, ruleSet, wanted, updates, alerts, forState, amEnds, told, lastOk, since, resurrected, bounds>>

NoTime  == -1
Times   == 0..MaxNow
NoAlert == [state |-> "none", activeAt |-> NoTime, keepSince |-> NoTime, resolvedAt |-> NoTime]
Active(a) == a.state \in {"pending", "firing"}

\* The type of every variable; only rules of the group have alerts.
AlertingTypeOK ==
  /\ now \in 0..MaxNow + 1 /\ ruleSet \subseteq AlertRules /\ wanted \subseteq AlertRules
  /\ updates \in Seq(SUBSET AlertRules) /\ resurrected \subseteq AlertRules
  /\ told \subseteq AlertRules
  /\ \A r \in AlertRules :
       /\ alerts[r].state \in {"none", "pending", "firing", "inactive"}
       /\ alerts[r].state # "none" => r \in ruleSet /\ alerts[r].activeAt \in 0..now
       /\ alerts[r].keepSince # NoTime => alerts[r].state \in {"firing", "inactive"}
       /\ alerts[r].state = "inactive" => alerts[r].resolvedAt \in 0..now
       /\ amEnds[r] \in {NoTime} \cup 0..MaxNow + ResolveAfter

AlertingInit ==
  /\ now = 0 /\ ruleSet \in SUBSET AlertRules /\ wanted = ruleSet /\ updates = <<>>
  /\ alerts = [r \in AlertRules |-> NoAlert]
  /\ forState = [r \in AlertRules |-> [at |-> NoTime, value |-> NoTime, since |-> NoTime]]
  /\ amEnds = [r \in AlertRules |-> NoTime] /\ told = {}
  /\ lastOk = [r \in AlertRules |-> NoTime] /\ since = [r \in AlertRules |-> NoTime]
  /\ resurrected = {} /\ bounds = [reloads |-> 0, restarts |-> 0]

----------------------------------------------------------------------------
(* exec: what an evaluation at ts makes of an alert.                       *)

\* Resolved long enough ago.
Evicted(a, ts) ==
  IF a.state = "inactive" /\ a.resolvedAt # NoTime /\ ts - a.resolvedAt > Retention15m THEN NoAlert ELSE a

\* Mutant: an alert that comes back keeps the time it was active at.
apply_updates_Old(a, ts) ==
  CASE a.state = "none"     -> [NoAlert EXCEPT !.state = "pending", !.activeAt = ts]
    [] a.state = "inactive" -> [a EXCEPT !.state = "pending", !.keepSince = NoTime]
    [] OTHER                -> [a EXCEPT !.keepSince = NoTime]

\* Mutant: the countdown of keep_firing_for goes on.
apply_updates_Keep(a, ts) ==
  CASE a.state = "none"     -> [NoAlert EXCEPT !.state = "pending", !.activeAt = ts]
    [] a.state = "inactive" -> [a EXCEPT !.state = "pending", !.activeAt = ts]
    [] OTHER                -> a

\* The series is there.
apply_updates(a, ts) ==
  CASE a.state = "none"     -> [NoAlert EXCEPT !.state = "pending", !.activeAt = ts]
    [] a.state = "inactive" -> [a EXCEPT !.state = "pending", !.activeAt = ts, !.keepSince = NoTime]
    [] OTHER                -> [a EXCEPT !.keepSince = NoTime]

\* The series is absent: a pending alert goes, a firing one is resolved, if need be after
\* keep_firing_for.
Swept(a, ts) ==
  CASE a.state = "pending" -> NoAlert
    [] a.state = "firing"  ->
         LET k == IF KeepFiringFor > 0 /\ a.keepSince = NoTime THEN ts ELSE a.keepSince
         IN  IF k = NoTime \/ ts - k >= KeepFiringFor
             THEN [a EXCEPT !.keepSince = k, !.state = "inactive", !.resolvedAt = ts]
             ELSE [a EXCEPT !.keepSince = k]
    [] OTHER -> a

Promoted(a, ts) ==
  IF a.state = "pending" /\ ts - a.activeAt >= For THEN [a EXCEPT !.state = "firing"] ELSE a

exec(a, ts, present) ==
  LET b == Evicted(a, ts)
  IN  Promoted(IF present THEN apply_updates(b, ts) ELSE Swept(b, ts), ts)

\* Mutant: every alert gets a deadline.
EndsAt_Deadline(a, ts) == ts + ResolveAfter

\* endsAt of an alert that is sent: when it was resolved, or else a deadline some evaluations ahead.
EndsAt(a, ts) == IF a.resolvedAt = NoTime THEN ts + ResolveAfter ELSE a.resolvedAt

----------------------------------------------------------------------------
(* The group's thread.                                                     *)

\* An evaluation of every rule: of those in present the series is there, those in failed cannot be
\* evaluated and stay as they are; the batch reaches the Alertmanager or is lost.
eval_once(present, failed, delivered) ==
  LET ok == ruleSet \ failed
      new(r) == exec(alerts[r], now, r \in present)
      sent == {r \in ok : new(r).state \in {"firing", "inactive"}}
      run(r) == IF ~Active(new(r)) THEN NoTime ELSE IF Active(alerts[r]) THEN since[r] ELSE now
      sample(r) == IF Active(new(r)) THEN [at |-> now, value |-> new(r).activeAt, since |-> run(r)]
                                     ELSE [forState[r] EXCEPT !.since = NoTime]
  IN
  /\ now <= MaxNow /\ now' = now + 1
  /\ alerts' = [r \in AlertRules |-> IF r \in ok THEN new(r) ELSE alerts[r]]
  /\ forState' = [r \in AlertRules |-> IF r \in ok THEN sample(r) ELSE forState[r]]
  /\ amEnds' = [r \in AlertRules |-> IF r \in sent /\ delivered THEN EndsAt(new(r), now) ELSE amEnds[r]]
  /\ told' = (told \ ok) \cup (IF delivered THEN sent ELSE {})
  /\ lastOk' = [r \in AlertRules |-> IF r \in ok THEN now ELSE lastOk[r]]
  /\ since' = [r \in AlertRules |-> IF r \in ok THEN run(r) ELSE since[r]]
  /\ resurrected' = resurrected \ {r \in ok : ~Active(new(r))}
  /\ UNCHANGED <<ruleSet, wanted, updates, bounds>>

\* The manager sends the group its new rules, if they have changed.
reload(rules) ==
  /\ bounds.reloads < MaxReloads /\ rules # wanted
  /\ wanted' = rules /\ updates' = Append(updates, rules)
  /\ bounds' = [bounds EXCEPT !.reloads = @ + 1]
  /\ UNCHANGED <<now, ruleSet, alerts, forState, amEnds, told, lastOk, since, resurrected>>

\* What is left of f for the rules S.
Only(S, f, none) == [r \in AlertRules |-> IF r \in S THEN f[r] ELSE none]

\* Mutant: every rule starts afresh.
Kept_None(rules) == {}

\* The rules whose alerts an update keeps: those of the same identity.
Kept(rules) == rules \cap ruleSet

\* Between two evaluations the group takes an update.
apply_update ==
  /\ updates # <<>> /\ updates' = Tail(updates) /\ ruleSet' = Head(updates)
  /\ LET kept == Kept(Head(updates)) IN
     /\ alerts' = Only(kept, alerts, NoAlert)
     /\ resurrected' = resurrected \cap kept
     /\ LET same == Head(updates) \cap ruleSet IN
        since' = Only(same, since, NoTime) /\ lastOk' = Only(same, lastOk, NoTime) /\ told' = told \cap same
  /\ UNCHANGED <<now, wanted, forState, amEnds, bounds>>

\* The alert that the sample of rule r gives.
Restored(r) == [NoAlert EXCEPT !.state = "pending", !.activeAt = forState[r].value]

\* The samples that last_over_time finds a second before now.  It passes over the staleness marks
\* that end a series, so the model keeps none.
Found == {r \in ruleSet : forState[r].at # NoTime /\ forState[r].at >= now - Lookback}

\* The process stops, and starts again in time for the next evaluation with the rules wanted by then.
\* Unless the query fails or for is zero, alerts are restored.
Restart(restored) ==
  /\ bounds.restarts < MaxRestartsOf /\ bounds' = [bounds EXCEPT !.restarts = @ + 1]
  /\ now <= MaxNow /\ now' = now + 1
  /\ updates = <<>> /\ restored \in {{}, IF For = 0 THEN {} ELSE Found}
  /\ alerts' = [r \in AlertRules |-> IF r \in restored THEN Restored(r) ELSE NoAlert]
  /\ resurrected' = {r \in restored : forState[r].since = NoTime}
  /\ since' = [r \in AlertRules |-> IF r \in restored THEN forState[r].since ELSE NoTime]
  /\ lastOk' = Only({}, lastOk, NoTime) /\ told' = {}
  /\ UNCHANGED <<ruleSet, wanted, updates, forState, amEnds>>

AlertingNext ==
  \/ \E present \in SUBSET ruleSet : \E failed \in SUBSET (ruleSet \ present), d \in BOOLEAN :
       ruleSet # {} /\ eval_once(present, failed, d)
  \/ \E rules \in SUBSET AlertRules : reload(rules)
  \/ apply_update
  \/ \E S \in SUBSET ruleSet : Restart(S)

AlertingSpec == AlertingInit /\ [][AlertingNext]_alertVars

----------------------------------------------------------------------------
(* What makes alerting correct.                                            *)

\* An alert fires only after its series has been active for as long as for says, at every successful
\* evaluation of that time, whatever reloads and restarts came between; but for alerts restored from
\* a sample after which an evaluation had found the series absent.
FiringOnlyAfterFor ==
  \A r \in AlertRules \ resurrected :
    alerts[r].state = "firing" => since[r] # NoTime /\ lastOk[r] - since[r] >= For

\* An alert whose series has been active for that long is firing, as soon as it is evaluated: no
\* reload and no restart that could restore it makes it start again.
FiresInTime ==
  \A r \in AlertRules :
    since[r] # NoTime /\ lastOk[r] # NoTime /\ lastOk[r] - since[r] >= For => alerts[r].state = "firing"

\* What the Alertmanager was told last: a firing alert ends later, a resolved one has ended; but for
\* alerts that fire again and still carry the time they were resolved.
AlertmanagerAgrees ==
  \A r \in told :
    /\ alerts[r].state = "firing" /\ alerts[r].resolvedAt = NoTime => amEnds[r] > lastOk[r]
    /\ alerts[r].state = "inactive" => amEnds[r] <= lastOk[r]

\* What the comments of eval_once say: every alert that fires is sent with a deadline ahead.
FiringSentAsFiring == \A r \in told : alerts[r].state = "firing" => amEnds[r] > lastOk[r]

\* What the comment of sweep_and_promote says of the staleness marks: a restore does not resurrect
\* an alert that was resolved.
ResolvedStaysResolved == \A r \in resurrected : alerts[r].state # "firing"

\* An alert fires neither before its `for` is over nor later than the evaluation after, through
\* failed queries, reloads and restarts, and Alertmanager does not resolve it meanwhile
\* (exec, apply_update, restore, eval_once).
AlertsSound == AlertingTypeOK /\ FiringOnlyAfterFor /\ FiresInTime /\ AlertmanagerAgrees
=============================================================================
