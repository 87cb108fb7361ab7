--------------------------- MODULE ScrapeManager ----------------------------
(***************************************************************************)
(* The scrape manager of esmagent: jobs with their discovery providers, one *)
(* worker thread per target (job and scrape URL), the reconcile pass that   *)
(* starts and stops workers, reloads of the configuration, and what the     *)
(* receiver of the series sees.  The receiver keeps a series live from a    *)
(* sample of it until a stale marker; the series of a target are identified *)
(* by the metric and by the labels that the target had when its worker      *)
(* started.                                                                *)
(*                                                                         *)
(* The jobs lock makes passes, reloads and the stop exclude each other, but *)
(* each of them joins worker threads while it holds the lock, one by one,   *)
(* and the workers go on in between.                                       *)
(***************************************************************************)
EXTENDS Naturals

CONSTANTS
  Jobs,          \* job names
  Urls,          \* scrape URLs
  Metrics,       \* metrics a target may expose
  MaxVersion,    \* bound on the versions of a target's labels and of a job's config
  MaxChanges,    \* bound on changes of what discovery sources list
  MaxConfigs     \* bound on reloads

ASSUME ScrapeAssumption ==
  MaxVersion \in Nat \ {0} /\ MaxChanges \in Nat /\ MaxConfigs \in Nat

VARIABLES
  listed,    \* job -> url -> version of the target's labels in the source, 0 if absent
  jobs,      \* job -> version of its running configuration (its checksum), 0 if none
  cache,     \* job -> url -> what the provider last read
  workers,   \* <<job, url>> -> its worker
  targets,   \* targets snapshot: <<job, url>> -> "none", "unknown", "up", "down"
  live,      \* series that are live at the receiver
  mgr,       \* the manager: what it is doing, jobs left, workers left to stop
  changes, reloads

scrapeVars == <<listed, jobs, cache, workers, targets, live, mgr, changes, reloads>>

Keys == Jobs \X Urls
NoSource == [u \in Urls |-> 0]
NoWorker == [pc |-> "none", stop |-> FALSE, labels |-> 0, last_series |-> {}, last_scrape_ok |-> FALSE,
             series |-> {}, stale |-> {}]

\* The series of worker w of target k for a set of metrics.
SeriesOf(k, w, metrics) == {<<k, w.labels, m>> : m \in metrics}
Own(k) == {s \in live : s[1] = k}

\* start: every job is built with providers that have read nothing yet, and a
\* first pass begins.
ScrapeInit ==
  /\ listed \in [Jobs -> [Urls -> 0..1]]
  /\ jobs \in [Jobs -> 0..1]
  /\ cache = [j \in Jobs |-> NoSource]
  /\ workers = [k \in Keys |-> NoWorker]
  /\ targets = [k \in Keys |-> "none"]
  /\ live = {}
  /\ mgr = [pc |-> "reconcile", todo |-> {j \in Jobs : jobs[j] # 0}, stopping |-> {}, next |-> jobs]
  /\ changes = 0 /\ reloads = 0

-----------------------------------------------------------------------------
(* A worker                                                                *)

SetWorker(k, w) == workers' = [workers EXCEPT ![k] = w]

\* Mutant: markers are sent by successful scrapes only.
Scraped_Ok(k, w, ok, metrics) ==
  LET current == IF ok THEN SeriesOf(k, w, metrics) ELSE {}
  IN  [w EXCEPT !.pc = "push", !.series = current,
                !.stale = IF ok THEN w.last_series \ current ELSE {},
                !.last_series = IF ok THEN current ELSE @, !.last_scrape_ok = ok]

\* Mutant: every tracked series gets a marker.
Scraped_All(k, w, ok, metrics) ==
  LET current == IF ok THEN SeriesOf(k, w, metrics) ELSE {}
  IN  [w EXCEPT !.pc = "push", !.series = current,
                !.stale = IF w.last_scrape_ok \/ ok THEN w.last_series ELSE {},
                !.last_series = IF ok THEN current ELSE @, !.last_scrape_ok = ok]

\* Scraper::scrape.  A scrape that fails (no answer, over sample_limit or
\* label_limit) has no series; stale markers are added for series that are gone
\* if this scrape or the one before it was successful.
Scraped(k, w, ok, metrics) ==
  LET current == IF ok THEN SeriesOf(k, w, metrics) ELSE {}
  IN  [w EXCEPT !.pc = "push",
                !.series = current,
                !.stale = IF w.last_scrape_ok \/ ok THEN w.last_series \ current ELSE {},
                !.last_series = IF ok THEN current ELSE @,
                !.last_scrape_ok = ok]

scrape(k) ==
  /\ workers[k].pc = "scrape"
  /\ \/ \E metrics \in SUBSET Metrics : SetWorker(k, Scraped(k, workers[k], TRUE, metrics))
     \/ SetWorker(k, Scraped(k, workers[k], FALSE, {}))
  /\ UNCHANGED <<listed, jobs, cache, targets, live, mgr, changes, reloads>>

\* record_result: the series go out, then the snapshot is updated.
push_series(k) ==
  /\ workers[k].pc = "push"
  /\ live' = (live \cup workers[k].series) \ workers[k].stale
  /\ SetWorker(k, [workers[k] EXCEPT !.pc = "record", !.series = {}, !.stale = {}])
  /\ UNCHANGED <<listed, jobs, cache, targets, mgr, changes, reloads>>

upsert_active(k) ==
  /\ workers[k].pc = "record"
  /\ targets' = [targets EXCEPT ![k] = IF workers[k].last_scrape_ok THEN "up" ELSE "down"]
  /\ SetWorker(k, [workers[k] EXCEPT !.pc = "wait"])
  /\ UNCHANGED <<listed, jobs, cache, live, mgr, changes, reloads>>

\* wait_or_stop looks at the flag last.
wait_or_stop(k) ==
  /\ workers[k].pc = "wait" /\ ~workers[k].stop
  /\ SetWorker(k, [workers[k] EXCEPT !.pc = "scrape"])
  /\ UNCHANGED <<listed, jobs, cache, targets, live, mgr, changes, reloads>>

mark_stale_all(k) ==
  /\ workers[k].pc = "wait" /\ workers[k].stop
  /\ live' = live \ workers[k].last_series
  /\ SetWorker(k, [workers[k] EXCEPT !.pc = "exited", !.last_series = {}])
  /\ UNCHANGED <<listed, jobs, cache, targets, mgr, changes, reloads>>

-----------------------------------------------------------------------------
(* The manager                                                             *)

Running(j) == {k \in Keys : k[1] = j /\ workers[k].pc # "none"}

\* stop_worker: the flag is set, the thread joined, its entry removed; then it
\* is the turn of the next worker.
SignalStop(k) ==
  /\ k \in mgr.stopping /\ \A l \in mgr.stopping : ~workers[l].stop
  /\ SetWorker(k, [workers[k] EXCEPT !.stop = TRUE])
  /\ UNCHANGED <<listed, jobs, cache, targets, live, mgr, changes, reloads>>

\* Mutant: the entry of the target is left in the snapshot.
stop_worker_Listed(k) ==
  /\ k \in mgr.stopping /\ workers[k].pc = "exited"
  /\ SetWorker(k, NoWorker)
  /\ mgr' = [mgr EXCEPT !.stopping = @ \ {k}]
  /\ UNCHANGED <<listed, jobs, cache, targets, live, changes, reloads>>

stop_worker(k) ==
  /\ k \in mgr.stopping /\ workers[k].pc = "exited"
  /\ SetWorker(k, NoWorker)
  /\ targets' = [targets EXCEPT ![k] = "none"]
  /\ mgr' = [mgr EXCEPT !.stopping = @ \ {k}]
  /\ UNCHANGED <<listed, jobs, cache, live, changes, reloads>>

\* The providers of job j are polled.  One reads its source when it is due and
\* the source answers, and repeats what it read last otherwise.  Targets without
\* a worker get one, then workers without a target are stopped.
ReconcileJob(j) ==
  /\ mgr.pc = "reconcile" /\ mgr.stopping = {} /\ j \in mgr.todo
  /\ \E groups \in {listed[j], cache[j]} :
       LET new == {k \in Keys : k[1] = j /\ groups[k[2]] # 0 /\ workers[k].pc = "none"}
       IN  /\ cache' = [cache EXCEPT ![j] = groups]
           /\ workers' = [k \in Keys |->
                IF k \in new THEN [NoWorker EXCEPT !.pc = "scrape", !.labels = groups[k[2]]]
                             ELSE workers[k]]
           /\ targets' = [k \in Keys |-> IF k \in new THEN "unknown" ELSE targets[k]]
           /\ mgr' = [mgr EXCEPT !.todo = @ \ {j},
                                 !.stopping = {k \in Running(j) : groups[k[2]] = 0}]
  /\ UNCHANGED <<listed, jobs, live, changes, reloads>>

ReconcileEnds ==
  /\ mgr.pc = "reconcile" /\ mgr.stopping = {} /\ mgr.todo = {}
  /\ mgr' = [mgr EXCEPT !.pc = "idle"]
  /\ UNCHANGED <<listed, jobs, cache, workers, targets, live, changes, reloads>>

\* The reconcile thread, every RECONCILE_INTERVAL.
ReconcileBegins ==
  /\ mgr.pc = "idle"
  /\ mgr' = [mgr EXCEPT !.pc = "reconcile", !.todo = {j \in Jobs : jobs[j] # 0}]
  /\ UNCHANGED <<listed, jobs, cache, workers, targets, live, changes, reloads>>

\* reload: the workers of jobs that are gone or that are built anew are stopped.  A
\* job whose checksum is the same, or that cannot be built, stays as it is.
Reload_begins ==
  /\ mgr.pc = "idle" /\ reloads < MaxConfigs
  /\ reloads' = reloads + 1
  /\ \E next \in [Jobs -> 0..MaxVersion] :
       mgr' = [mgr EXCEPT !.pc = "reload", !.next = next,
                          !.stopping = UNION {Running(j) : j \in {i \in Jobs : next[i] # jobs[i]}}]
  /\ UNCHANGED <<listed, jobs, cache, workers, targets, live, changes>>

\* Mutant: a job is replaced before its workers have ended.
reload_scrape_Early ==
  /\ mgr.pc = "reload"
  /\ jobs' = mgr.next
  /\ cache' = [j \in Jobs |-> IF mgr.next[j] # jobs[j] THEN NoSource ELSE cache[j]]
  /\ mgr' = [mgr EXCEPT !.pc = "reconcile", !.stopping = {}, !.todo = {j \in Jobs : mgr.next[j] # 0}]
  /\ UNCHANGED <<listed, workers, targets, live, changes, reloads>>

\* The new jobs have new providers; a reconcile pass follows.
reload_scrape ==
  /\ mgr.pc = "reload" /\ mgr.stopping = {}
  /\ jobs' = mgr.next
  /\ cache' = [j \in Jobs |-> IF mgr.next[j] # jobs[j] THEN NoSource ELSE cache[j]]
  /\ mgr' = [mgr EXCEPT !.pc = "reconcile", !.todo = {j \in Jobs : mgr.next[j] # 0}]
  /\ UNCHANGED <<listed, workers, targets, live, changes, reloads>>

\* stop joins the reconcile thread and then every worker.
stop_scraping ==
  \/ /\ mgr.pc = "idle"
     /\ mgr' = [mgr EXCEPT !.pc = "stop", !.stopping = UNION {Running(j) : j \in Jobs}]
     /\ UNCHANGED <<listed, jobs, cache, workers, targets, live, changes, reloads>>
  \/ /\ mgr.pc = "stop" /\ mgr.stopping = {}
     /\ mgr' = [mgr EXCEPT !.pc = "stopped"]
     /\ jobs' = [j \in Jobs |-> 0]
     /\ UNCHANGED <<listed, cache, workers, targets, live, changes, reloads>>

\* The source of a job changes.
SourceChanges(j) ==
  /\ changes < MaxChanges
  /\ changes' = changes + 1
  /\ \E u \in Urls, v \in 0..MaxVersion : listed' = [listed EXCEPT ![j][u] = v]
  /\ UNCHANGED <<jobs, cache, workers, targets, live, mgr, reloads>>

WorkerSteps(k) ==
  scrape(k) \/ push_series(k) \/ upsert_active(k) \/ wait_or_stop(k) \/ mark_stale_all(k)

ManagerSteps ==
  \/ \E k \in Keys : SignalStop(k) \/ stop_worker(k)
  \/ \E j \in Jobs : ReconcileJob(j)
  \/ ReconcileEnds \/ reload_scrape \/ stop_scraping

ScrapeNext ==
  \/ \E k \in Keys : WorkerSteps(k)
  \/ ManagerSteps \/ ReconcileBegins \/ Reload_begins
  \/ \E j \in Jobs : SourceChanges(j)

ScrapeSpec == ScrapeInit /\ [][ScrapeNext]_scrapeVars

-----------------------------------------------------------------------------
(* Properties                                                              *)

ScrapeTypeOK ==
  /\ listed \in [Jobs -> [Urls -> 0..MaxVersion]] /\ cache \in [Jobs -> [Urls -> 0..MaxVersion]]
  /\ jobs \in [Jobs -> 0..MaxVersion]
  /\ \A k \in Keys :
       /\ workers[k].pc \in {"none", "scrape", "push", "record", "wait", "exited"}
       /\ workers[k].stop => k \in mgr.stopping
       /\ workers[k].series \cap workers[k].stale = {}
  /\ targets \in [Keys -> {"none", "unknown", "up", "down"}]
  /\ live \subseteq Keys \X (1..MaxVersion) \X Metrics
  /\ mgr.pc \in {"idle", "reconcile", "reload", "stop", "stopped"}
  /\ mgr.todo \subseteq Jobs /\ mgr.stopping \subseteq {k \in Keys : workers[k].pc # "none"}

\* What is live at the receiver is what the targets last exposed: between two
\* scrapes the series of a target are those of its last scrape, none if that
\* failed; while a result is on its way, every live series is one that the
\* worker still tracks or is about to mark; and a target without a worker, for
\* whatever reason it lost it, has no live series.
ReceiverAgrees ==
  \A k \in Keys : LET w == workers[k] IN
    /\ w.pc \in {"wait", "record", "scrape"} =>
         Own(k) = IF w.last_scrape_ok THEN w.last_series ELSE {}
    /\ w.pc = "push" => Own(k) \subseteq w.last_series \cup w.stale
    /\ w.pc \in {"none", "exited"} => Own(k) = {}

\* /api/v1/targets lists exactly the targets that have a worker, from its start
\* until its stale markers are out.
TargetsAreWorkers ==
  \A k \in Keys : (targets[k] # "none") <=> (workers[k].pc # "none")

\* Every worker belongs to a job that runs and to a target its providers list,
\* unless the manager is about to stop it.
WorkersWanted ==
  \A k \in Keys : workers[k].pc # "none" =>
    k \in mgr.stopping \/ (jobs[k[1]] # 0 /\ cache[k[1]][k[2]] # 0)

\* A target whose labels change in the source is scraped with the new labels after
\* the next pass (the claim of ActiveTarget's documentation): between passes every
\* worker has the labels that its job's providers read last.
LabelsFollowSource ==
  mgr.pc = "idle" => \A k \in Keys :
    workers[k].pc # "none" => workers[k].labels = cache[k[1]][k[2]]

\* Workers, the list of targets and the series live at the receiver agree with the jobs and
\* their last scrapes, through reloads, vanished targets and failed scrapes (reconcile, reload,
\* run_worker_loop).
ScrapeSound == ScrapeTypeOK /\ ReceiverAgrees /\ TargetsAreWorkers /\ WorkersWanted
=============================================================================
