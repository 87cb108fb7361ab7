----------------------------- MODULE MCServices -----------------------------
(***************************************************************************)
(* The components around the storage, on small instances: the alerting     *)
(* groups, the auth proxy, stream aggregation, backup and restore, the     *)
(* scrape manager, the rollup result cache and the unpacking of a series.  *)
(* They share no variable: a behaviour is one of `component`, while the    *)
(* others stand still in one initial state.                                *)
(***************************************************************************)
EXTENDS Alerting, AuthProxy, StreamAggr, BackupRestore, ScrapeManager, RollupCache, BlockMerge

CONSTANT Checked   \* which of the components are checked

VARIABLE component

serviceVars ==
  <<component, alertVars, authVars, streamVars, backupVars, scrapeVars, rollupVars, mergeVars>>

\* A reload lowers the limit of the user.
MCUserCap == [g \in 0..MaxAuthReloads |-> IF g = 0 THEN 2 ELSE 1]

\* Aggregators with windows, without, and with de-duplication, which runs twice per interval.
MCModes ==
  {[windows |-> TRUE, dedup |-> 0, interval |-> 1], [windows |-> FALSE, dedup |-> 0, interval |-> 1],
   [windows |-> TRUE, dedup |-> 1, interval |-> 2]}

\* One file is larger than MAX_PART_SIZE.
MCPartCount == [f \in DataFiles |-> IF f = CHOOSE g \in DataFiles : TRUE THEN 2 ELSE 1]

\* An empty -origin, and one whose backup was interrupted.
MCOrigins ==
  {[p \in Parts |-> "none"], [p \in Parts |-> IF p[2] = 2 THEN "torn" ELSE "full"]}

\* What may be exchanged in the component that moves; the others are the same for each.
Symmetric == Permutations(AlertRules \cup Requests \cup Urls \cup Queriers \cup Pushers)

ServicesInit ==
  /\ component \in Checked
  /\ AlertingInit /\ (component # "alerting" => ruleSet = AlertRules)
  /\ AuthInit     /\ (component # "auth" => policy = CHOOSE p \in Policies : TRUE)
  /\ StreamInit   /\ (component # "stream" => mode = CHOOSE m \in Modes : TRUE)
  /\ BackupInit
  /\ ScrapeInit   /\ (component # "scrape" => \A j \in Jobs : jobs[j] = 0 /\ listed[j] = NoSource)
  /\ RollupInit
  /\ IF component = "merge" THEN MergeInit
     ELSE /\ blocks = <<>> /\ overlap = FALSE /\ dst = <<>> /\ interval = 0 /\ pos = <<>>
          /\ dd = [pc |-> "merge", i |-> 0, next |-> 0, out |-> <<>>]

ServicesNext ==
  /\ UNCHANGED component
  /\ \/ /\ component = "alerting" /\ AlertingNext
        /\ UNCHANGED <<authVars, streamVars, backupVars, scrapeVars, rollupVars, mergeVars>>
     \/ /\ component = "auth" /\ AuthNext
        /\ UNCHANGED <<alertVars, streamVars, backupVars, scrapeVars, rollupVars, mergeVars>>
     \/ /\ component = "stream" /\ StreamNext
        /\ UNCHANGED <<alertVars, authVars, backupVars, scrapeVars, rollupVars, mergeVars>>
     \/ /\ component = "backup" /\ BackupNext
        /\ UNCHANGED <<alertVars, authVars, streamVars, scrapeVars, rollupVars, mergeVars>>
     \/ /\ component = "scrape" /\ ScrapeNext
        /\ UNCHANGED <<alertVars, authVars, streamVars, backupVars, rollupVars, mergeVars>>
     \/ /\ component = "rollup" /\ RollupNext
        /\ UNCHANGED <<alertVars, authVars, streamVars, backupVars, scrapeVars, mergeVars>>
     \/ /\ component = "merge" /\ MergeNext
        /\ UNCHANGED <<alertVars, authVars, streamVars, backupVars, scrapeVars, rollupVars>>

ServicesSpec == ServicesInit /\ [][ServicesNext]_serviceVars
=============================================================================
