# A TLA+ model of the OSAC CI services

`osac-test-infra` runs the end-to-end CI of OSAC and watches it. Much of the
repository is configuration that other systems execute (workflows, Ansible
roles, installation scripts). Its own logic is the monitoring stack in
`monitoring/scripts` (an exporter that polls GitHub, keeps a job history in
SQLite and serves it, a registry of the telemetry each E2E run left, the
request handlers and batch passes around them) and the scripts the workflows
call: model-assisted job selection and diagnosis, the reports on pull requests
and issues, and the ephemeral EC2 runners. This directory models that logic,
checks it with TLC and proves its central properties with TLAPS.

## 1. Inventory

### Components, state and operations

| Component | State | Operations | Model |
|---|---|---|---|
| Collect cycle and job history (`workflow-exporter.py`) | `jobs` table, `active_runs`, counters, gauges | `initial_load`, `collect`, `_process_completed_run`, `_prune_jobs`, `backfill` | `ExporterCollect`, `RunHistory`, `ZombieRuns` |
| Capture registry (`workflow-exporter.py`) | `captures`, `capture_source` tables | `refresh`, `_prune`, `source_summary` | `CaptureRegistry` |
| CI Observe run list (`ci_observe_runs.py`) | none; one request | page, source, counts, verdict | `CaptureRegistry` |
| CI Observe capture view (`ci_observe_capture_view.py`) | LRU cache, in-flight map | lookup, wait, store, evict | `CaptureView` |
| CI Observe run evidence (`ci_observe_run_evidence.py`) | bounded TTL cache | rows, head SHA, native results, get, put, evict | `RunEvidence` |
| CI Observe pull requests (`ci_observe_prs.py`) | `pr_events`, `pr_queue_attempts`, `pr_backfill_runs` | timer pass, prune, request, live lookup | `PrBackfill`, `PrRecords` |
| CI Observe trends and history | `trends.db` | daily pass per day, `--force`, prune, compare, test history | `Trends` |
| CI Observe local stack (`ci-observe.py`) | state directory, backend container, replay collector | up, down, import, sync | `CaptureSync` |
| AI diagnosis (`ai-diagnose-failure.py`) | attempts, cost ledger, outputs | retry, fall back, price, publish | `GeminiDiagnosis` |
| Job selection (`select-jobs.py`) | attempts, decision | ask, retry, parse, decide, report | `JobSelection` |
| Failure reports (`upsert-pr-comment.py`, `track-recurring-failure.py` and their workflows) | a comment, issues | read, modify, write under concurrency groups | `StickyComment`, `RecurringFailure` |
| EC2 ephemeral runners (`scripts/ec2-runner`) | instance, registration, job outputs | provision, register, tear down, reap | `Ec2Runners` |
| Pull-request map and merge records, start-up migrations (`workflow-exporter.py`) | `pr_merges`, schema | look up, back-fill, migrate | not modelled |
| Release gate, bare-metal inventory | BareMetalHosts | verdict, reconcile | not modelled |
| Redaction, digest, capture action, read endpoints, host and vault set-up, infra, fleet, itenv | – | I/O, text, installation | not modelled |

### How they interact

The exporter's poller calls GitHub's REST API and writes SQLite. `backfill` is a
second process on the same file. A thread of the exporter refreshes the capture
registry from Prometheus and Loki into the same file. HTTP threads read that
file, each read in a connection of its own, and share one in-memory document
cache. Nothing but SQLite and that cache is shared, so one API call, one SQLite
transaction or read, or one critical section is one step of the models.

Two timers fill databases of their own from GitHub: the pull-request backfill,
read by its request handlers, and the trends pass, which takes its runs from the
exporter's history and its outcomes from artifacts that expire. `ci-observe.py
sync` takes capture artifacts into a local backend. The workflows meet only at
GitHub: reporting jobs of different runs edit one comment and one set of issues,
and the watchdog meets the runs' own teardown at AWS and at the runner list.

### What is hard

* GitHub moves while it is listed: a run changes list, or page, between two
  calls; a re-run keeps the id and changes only `run_attempt`.
* A failed call is mostly an empty or zero answer, not an error, and the cycle
  goes on.
* A run's row, its suites' rows and the counters are separate writes; a crash or
  a locked database may come between them, and the backfill may interleave.
* The page of completed runs is short and ordered by creation, so a long run is
  only found because it is remembered; forgetting it is final.
* A capture's absence is judged from times three actors wrote at different
  moments: the run's end, the telemetry's arrival, the last answer.
* Request threads elect a leader per document and wait for it, or look the same
  thing up side by side and overwrite each other's entry.
* Coverage of a batch pass is a claim about rows the pass may have failed to
  write, over a list that shifts while it is read.
* What was read once may not be readable again: artifacts expire, so a later
  pass over the same day knows less.
* A delivery whose end nobody saw can neither be repeated nor called complete.
* A billed call may raise, be cut short or be blocked, and is still billed.
* A job dies between creating a resource and telling anybody its name.

### What makes each component correct

* History: only finished attempts are stored, never replaced by an older one;
  each finished attempt is counted once; a run seen active is followed until it
  is stored, and is eventually stored; a flow run has its suites' rows; gauges
  never miss a run that was active during the whole cycle, and subtract only
  runs that have no jobs.
* Registry and verdict: CI is not blamed for a capture the answers could have
  shown; cards and
  table of one answer agree; a known identity is never emptied; a visible
  capture is eventually registered.
* View: one lookup per capture at a time; no waiter without a leader; bytes are
  bounded; every wait ends.
* Pull requests: what coverage claims is stored, or is listed again; missing is
  said with cause; stages, boundaries and attempts fit together.
* Trends: stored outcomes outlive their artifacts; a complete pass corrects a
  partial one; documents agree.
* Local stack: no line twice, nothing called imported that did not arrive,
  nothing lost but by purge, nothing given up but for cause.
* Run evidence: entries converge to what GitHub has; results of another attempt
  are marked.
* Model callers: every attempt billed, no unfinished text posted, a suite never
  below its floor, cost and status reported as they are.
* Reports: no edit lost, no placeholder for ever, no flag unearned.
* EC2: every instance terminated in the end, no running suite disturbed before
  the maximum age, every leftover explained.

The hazards behind these properties are listed in `PROJECT.json`, each at its
line.

## 2. The modules

### ExporterCollect

*GitHub (external)*: `status`, `attempt`, `born` (created_at order) and `old`
(beyond `JOBS_HISTORY_DAYS`), moved by `GhQueue`, `GhStart`, `GhComplete`,
`GhRerun`, `GhAge` at any moment.

*Database*: `rows[r]` is the stored `run_attempt` (0: no row), `suites` the
suite rows as (run, attempt whose job it is, stored `run_attempt`).

*Processing a listed run* (`_process_completed_run` and its siblings in
`initial_load` and `backfill`), for the poller and the backfill alike:
`PickRun` (ignored events, `_needs_upsert`), `FetchJobs`, `UpsertRun` (the
conditional upsert), `UpsertSuites` (suite row and counters), with
`FetchJobsFails` and `DbFails` as the error paths.

*The poller*: `Boot`, `LoadRepo`, `LoadDone` (`initial_load`), then for ever
`StartCycle` (prune, probe repositories, remember the active list), and per
repository `NextRepo`, `CountQueued`, `CountActive`, `ListQueued`, `ListActive`
(one page each), `SetGauges`, `RecentCompleted`; then `Publish`, `CatchUp` for
each run that left the active list, and `Finish`. `RepoFails`, `ListFails`,
`CatchUpFails` and `Crash` are the failures. `BackfillPage` is one page of the
one-off `backfill`: any completed runs of one repository, since the page
depends on the range of dates it is given.

`Fault` names the failures an instance allows, so that each promise can be
stated with the failures it survives. `seen` and `steady` are history variables.

Left out of the model: the zombie classification of queued runs (every queued
run is taken as having jobs here; see `ZombieRuns`), the bisection of the
backfill's dates, and the category and failure classification stored in a row.
A pipeline run has one suite. A run that was cancelled before any suite had a result is outside
`Pipeline`.

### RunHistory

What the job history promises its readers: an attempt finishes, is stored after
it finished and over a smaller one only, and leaves by eviction.
`ExporterCollect` implements it under the mapping `stored <- rows`,
`finished <- Finished` (`LedgerSpec`).

### ZombieRuns

The queued gauge of one repository. `CountRuns`, `ListRuns`, one of `Recall`,
`Look` and `LookFails` per listed run, and `Publish` are a cycle; `ListingFails`
and `Restart` are its failures; `JobsAppear`, `Leaves` and `Rerun` are GitHub.
`withJobs` and `recheck` are the two caches, keyed by run and attempt. `look`,
and `steady`, `start` and `clean` in `cycle`, are history for
`QueueGaugeHonest`: the published number has in it every run that waited
through the cycle, and after a cycle without failures none that never got jobs.

### CaptureRegistry

Time is a bounded clock. Runs start, finish and leave telemetry in any of
`NSource` sources (`CaptureArrives`, at most `Lag` after the end). `refresh()`
is `StartRefresh`, one `FetchSource` or `SourceFails` per source (each commits
`last_ok_at` and, once, `coverage_from`), `UpsertCaptures`, `Prune`;
`WriteFails` and `Crash` end it early. A request is `ReadPage`, `ReadSource`,
`ReadCounts`, `Respond`, with `Verdict` the rules of `_state`. The last source
is the info metric, the only one that names a capture's identity. `overlap` and
`dropped` are history variables: a refresh was in flight during the request; a
refresh that was cut off had found these captures and not stored them
(`DropRefresh`).

An answer contains every capture that was visible before the refresh read the
clock and may contain those that became visible since (`Answer`).

### CaptureView

`_cached_document` and `_store`: `Hit`, `Lead`, `Follow`, `WaitTimesOut`,
`BuildDocument` or `BuildRaises`, `Store` (with `Evict`), `Release`, `Wake`;
`Expire` is the passing of an entry's time to live. What the lookup reads from
Tempo is one step.

### RunEvidence

One GitHub run that is repeated while threads ask for it. `ReadRows` takes the
attempt and decides on the note, `HeadSha` and `CacheHit`, `ListArtifacts`,
`Download`, `LookupFails`, `DownloadRaises`, `PutNative` are the lookups and the `BoundedCache`;
`Rerun`, `Upload`, `Expire`, `StoreRow`, `StoreSuite` are GitHub and the
exporter. Content is told apart by the attempt it comes from.

### PrBackfill and PrRecords

`PrBackfill` is a pass (`StartPass`, `ListRepos`, `NextRepo`, `ListPage`,
`FetchRuns`, `BackfillOne`, `Prune`, `RecordRun`, and the failures `ListFails`,
`ProcessEnds`, `Crash`) and a request (`ReadRow`, `ReadFreshness`, `MissState`,
`LiveLookup`) over a GitHub that ends, touches and reopens pull requests.
`pr_backfill_runs` is kept as what its readers take from it.

`PrRecords` has the life of one pull request as its state and what the code
derives from it as operators: `BuildPrRecord`, `Attempts`, `WritePr`,
`LiveDetail`, `LiveEjected`, `StageState`, `Boundaries`. The properties compare
the derivations with each other over all lives within the bounds.

### Trends

A pass is `Start` (prune, candidate runs), one `Fetch` per run, one `WriteDay`
per day with the guards `DayIsSuperset` and `KeepsStored`, and `Crash`. Artifacts
are uploaded and expire, the exporter stores and prunes rows. `CompareDocument`
and `TestHistory` are what the readers compute. `world` is what the runs are
(day, source SHA, the rows each gets): any of the histories in `World`, the same
throughout a behaviour.

### CaptureSync

`Up`, `Down`, `Import` and the pass of `sync` (`StartSync`, `OpenArtifact`,
`CheckRecord`, `RecordArtifact`) around `import_capture` (`ImportRefused`,
`StartReplay`, `Scrape`, `GiveUp`, `RemoveReplay`, `RecordImport`), against a
collector that reads and sends line by line, keeps offsets, and outlives a
command that dies. What the backend holds is on its volume or only in its
container (`live`): it moves over when the backend cuts a block (`Flush`, one
signal at a time), and for the signals in `Flushed` (Loki's) when an import ends
with a flush that works. One command runs at a time.

### GeminiDiagnosis and JobSelection

The two callers of the model: which response is retried, kept and preferred
(`Receive`, `Retry`, `FallBack`, `Prefer`), what an exception leaves (`Raise`),
what each attempt costs, and what is written and posted (`WriteOutputs`,
`Publish`; `Decide`, `WriteDecision`, `FormatCostLine`). A response is a sequence
of the parts the parsers tell apart; each of its two token counts is a number or
missing (`Uncounted`).

### StickyComment and RecurringFailure

`StickyComment`: the jobs of a concurrency group run one after the other, each
`Resolve`, `FindComment`, `WriteComment` (with `Upsert` and `NewTotal`), or one of
`ResolveFails`, `FindFails`, `WriteFails`, which end it without its edit
(`GiveUp`); groups interleave. A run is resolved while its head is that of the
open pull request (`stale`, `Push`, `PrCloses`) or while it is the merge queue's.
A section is the job that wrote it. `edits` and `missed` are history variables:
what the edits written so far add up to (`Recorded`), and the runs a failed call
left shown as running. `RecurringFailure`: trackers (`FindExisting`,
`CreateIssue` or `BumpIssue`, `NoteAndFlag`), the clean-up and maintainers on the
same issues.

### Ec2Runners

The attempts of one run: `Launch`, `EmitInstance`, `Register`, `EmitRunner`,
`StartRunner`, then `Deregister` and `Terminate` of the teardown job with the
outputs it was given; `Fails` (at any step, between an effect and the output of
its id too: `Unreported`), `Crash` (outputs lost) and `Stranded` (no teardown)
end an attempt early. The watchdog is `Describe`, `View`,
`ReapTerminate`, `ReapDeregister`, `ReaperDies`. `lost` records what excuses a
leftover.

### Compositions

`MCPrs`, `MCScripts` and `MCWorkflows` put modules that share no state into one
state machine, as alternatives: a behaviour belongs to one of them throughout
(`part`, `script`), and the parts that are not at work keep their initial
states. Each part keeps its own variables, renamed where two would clash
(`PrRecords`' `now` is `moment`, `RunEvidence`'s is `clock`). `MCScripts` extends
`CaptureSync`, `MCWorkflows` extends `Ec2Runners`, `MCPrs` extends `PrBackfill`;
the other parts are instances: `Days` (`Trends`), `Zombies`, `Diagnosis` and
`Selection`; `Comment` and `Tracking`; `Records` and `Evidence`. The theorems
about these parts are about the specification the run checks (`MCSpec`).

## 3. The runs

| Run | Checks | Instance |
|---|---|---|
| `collect_rerun` | `TypeOK`, `CountedOnce` | one flow run, two attempts, poller, backfill, failed counts and pages of completed runs, crashes |
| `collect_gauges` | `GaugesCoverActiveRuns` | two runs in two repositories; failing list pages |
| `collect_faults` | `OnlyFinishedRunsStored`, `LedgerSpec` | two runs, one ignored; every failure, row cap of one |
| `collect_live` | `TrackedOrStored`, `SuitesStored`, `TrackedEventuallyStored` | two runs, pages of one run; failing counts, probes and pages of completed runs; fairness |
| `capture_poll` | `QuietCardsMatchTable`, `QuietAbsenceAsAnswered`, `IdentityKept`, `CaptureEventuallyRegistered` | one run, two sources, grace and staleness equal; failing sources, writes and crashes; fairness |
| `capture_absence` | `QuietAbsenceProven` fails | grace and staleness equal, as in the code; failing sources |
| `view_cache` | `SingleFlight`, `WaiterHasLeader`, `CacheBounded`, `WaitEnds` | three threads, three documents of 1, 2 and 4 bytes in 3 bytes of cache; fairness |
| `collect_incomplete` | `NeverLost` fails | one failed list page |
| `prs` | `NothingSlipsPast`, `MissingExplained`; `StagesConsistent`, `AttemptsConsistent`; `SettledIsRight`, `MixupsExplained` | two pull requests, one of them reopened, pages of one, timer and manual passes; one pull request with two reviews and two queue entries of two workflows; two threads and two attempts of a run |
| `scripts` | `EveryAttemptBilled`, `PostedIsFinished`, `NothingUsefulDropped`; `JudgmentOnlyEscalates`, `ReportIsHonest`; `OutcomesKept`, `CleanPassRepairs`, `DocumentsAgree`; `DeliveredOnce`, `RecordsAreTrue`, `KeptUnlessPurged`; `QueueGaugeHonest` | two tiers with a retry each; two suites; two runs on one day and on two; three attempts of a run: no capture, a refused one, a good one; two queued runs of which one is run again |
| `workflows` | `NoEditLost`, `PlaceholderReplaced`; `FlagEarned`; `InstanceGone`, `LeftAlone`, `LeftoversExplained` | three runs of two suites in one group, pushes, every failing call but the diagnosing job's lookup; four failing runs and two issues; two attempts of an EC2 run; fairness |
| `comment_queue` | `NoEditLost` fails | a branch run and a merge-queue run in two groups |

Every passing property has a mutant in `PROJECT.json`: an operator of the same
module that changes one definition the way a plausible slip would, and that
breaks the property under the same configuration. The largest runs are
`collect_gauges` (3,995,655 states), `prs` (3,138,266), `scripts` (1,567,441) and
`workflows` (368,500, with liveness), each two to three minutes with two workers.

### Bounds, and why they are enough

* Two runs: one that is followed and one that pushes it off a page, into
  another repository or out of the row cap. `Window = 1` (50 in the code) makes
  a single newer run enough, `Page = 1` (100) puts two runs on two pages.
* Two attempts: the stored one and a newer one. Three writers are not possible.
* `MaxCount = 2` stands for "two or more"; the properties ask for at most one,
  or at most two of attempt 2.
* One run for the registry: captures of different runs meet in no rule. Two
  sources give one that answers and one that fails, and the info metric apart
  from the others. The ticks of `capture_poll` let the grace period and the
  staleness pass; expiry by `Prune`, longer lags and longer clocks are covered by
  the theorems, which hold for all values.
* Three threads: a leader, a follower and a third that comes between `Release`
  and `Wake`. Three documents: two fit, one alone exceeds the cache.
* Two pull requests and pages of one: one can push the other across a page
  boundary. The clock goes from 3 to 5, which lets the overlap, the full-pass
  interval and the retention each pass once. Two queue entries: an ejected one
  and a last one. Runs are skipped or fail: the merge queue and
  `_entry_conclusion` treat a skipped run and a successful one alike.
* One retry per tier: an earlier attempt, a later one, and the other tier. Every
  kind of response (finished, cut, blocked, empty, with and without usage) may
  come at each place.
* Queue gauges: a second run pushes the first out of a cache of one entry; two
  ticks let the grace period and then the recheck interval pass.
* Trends: a second run or a second day is what a guard can confuse with the
  first; two artifacts make one of them expire first.
* Local stack: one line per signal, two signals, since the acknowledgement
  compares totals per signal; attempts without a capture and with a refused one
  give the pass something to mark, refuse and skip.
* Run evidence: one cache place for three keys makes every put an eviction.
  Changes end at time 0 and lookups may outlast them; times to live of 1 and 2
  keep the order of the code's.
* Three runs: two suites, and a new push of one of them. Four failing runs: one
  more than the promotion threshold needs, on two branches.
* Two EC2 attempts, so that the status of the run is that of another attempt
  than the instance's; an instance is young or past the maximum age.

### Fairness

`collect_live` and `capture_poll` assume weak fairness of the poller as a whole:
`main` and `poll_forever` are endless loops and every request has a timeout, so
some step of the poller, be it a failure, is always taken next. Nothing is
assumed of GitHub, of the backfill or of a particular call succeeding;
`CaptureEventuallyRegistered` has the recovery of one source in its statement
(`Recovers`): from some time on that source answers whenever it is asked and no
refresh is cut off, whatever the other sources do.
`view_cache` assumes weak fairness of each request thread, and not of
`WaitTimesOut`: `WaitEnds` shows that the timeout is never what ends a wait.

`workflows` assumes that queued jobs are picked up and take their steps, failing
ones included, and that runs complete (job time limits); no call of a job is
assumed to succeed, and a job whose call failed does not come back. It assumes
further that time passes, that the watchdog's schedule keeps starting it, that
it does not die at the same lookup for ever and that AWS does not refuse the
termination for ever (strong fairness: each attempt of the watchdog may die or be
refused). Nothing is assumed of teardown, of the run or of the status lookup,
which may answer "unknown" every time: the age check alone carries
`InstanceGone`.

### What the violations show

* `collect_incomplete`: after a partial list the catch-up is skipped "to retry
  next cycle" (line 3234), but `self.active_runs` is replaced all the same
  (3278), so nothing is left to retry.
* `comment_queue`: the concurrency group is keyed by head branch
  (`ai-diagnostic-e2e.yml:108`). A merge-queue run has a branch of its own, but is
  resolved to the same pull request, so its job and a job of the pull request's
  branch read and write one comment side by side.
* `capture_absence`: `JUST_ENDED_SECONDS` (`ci_observe_runs.py:50`) equals
  `STALE_SECONDS` (`workflow-exporter.py:218`). An answer from soon after the end
  of a run is still fresh when the grace period is over; telemetry that arrived
  after it, with no complete answer since, is reported as not collected, although
  the page "never blames CI for an unproven absence" (`ci_observe_runs.py:302`).
  What does hold is `QuietAbsenceAsAnswered`: nothing had arrived when the oldest
  of the answers was asked for.

Changing one constant of the other configurations shows further departures from
what comments say; they are of the same kinds and have no run of their own:

* `Fault` containing `"age"`, with `CountedOnce`: in a quiet repository the page of completed
  runs reaches back beyond the retention; each cycle deletes such a row (1889)
  and stores and counts the run again, against the docstring at 2951.
* `Fault = {"crash"}` with `SuitesStored`: the row of a flow run and those of its
  suites are separate transactions (3057) and `_needs_upsert` asks for the first
  only, so a suite lost to a crash is never written, against 1088.
* `Fault = {"get"}` or `{"jobs"}` with `NeverLost`: one failed GET in the
  catch-up (3246) or one failed job fetch of a caught-up run (3034, "will retry
  next pass") gives the run up.
* `Fault = {"count"}` with `GaugesCoverActiveRuns`: a failed `_run_count` is 0 (2502), and gauges and totals drop, against 2577 and
  3183.
* `Page = 1` with `GaugesCoverActiveRuns`: completions shift a run across a page
  boundary and the by-category gauges miss it for a cycle (needs more than 100
  active runs of one status in the code).
* `MaxAttempt = 2`: a re-run between listing and job fetch (3031) stores the old
  attempt without its suite, which is why `SuitesStored` is about runs whose
  latest attempt is stored. The same race counts one suite job under two
  attempts, which is why `CountedOnce` allows the suite of attempt 2 two counts.
* `AbsenceAsAnswered` and `CardsMatchTable` (the promises without `~overlap`): a
  request overlapped by a refresh may see `last_ok_at` before the captures (346
  and 359), or a capture in the cards and not in the table (`ci_observe_runs.py`
  267 and 270).
* `Fault = {"db"}` without the exception for `dropped` in `AbsenceAsAnswered`:
  when the captures cannot be written `last_ok_at` has moved already.

## 4. The proofs

Every invariant and every action property that a passing run checks is also a
theorem; only the liveness properties are left to TLC. All theorems hold for
every value of the constants that satisfies the named assumptions
(`CollectAssumption`, `CaptureAssumption`, `ViewAssumption`, `PrAssumption`,
`SyncAssumption`, `WorkflowsAssumption`, `DiagnosisAssumption`,
`TrendsAssumption`, `ZombiesAssumption`, `RecordsAssumption`,
`EvidenceAssumption`, which TLC evaluates in the runs) and the hypotheses stated
with a theorem. The assumptions give the constants their types, say that the sets
which are counted are finite, and little more: a time to live for gaps is
positive and no longer than the other (`EvidenceAssumption`), the end-to-end
workflows and the required ones are workflows (`RecordsAssumption`), ids of runs
are numbers (`TrendsAssumption`). Each theorem follows from an inductive
invariant that TLC found to hold on small instances before it was proved; there
is one lemma per action, and the theorem at the end puts them together.

**ExporterCollectProofs.** `OnlyFinishedRunsStored` is not inductive: that a
stored attempt is finished depends on what the writers carry. `Inv` adds that
runs exist from their first attempt on (`GitHubOK`), that the active lists hold
known attempts of runs that are not ignored (`ListsOK`), and that everything
listed as completed or being processed is a finished attempt (`WorkOK`), which
GitHub never undoes: an attempt that was finished when it was listed is still
finished when it is stored, even if the run was re-run meanwhile.

* `TypeCorrect`, `OnlyFinishedRuns`: with every failure and crash allowed.
* `AttemptsGrow`: from the form of the two statements that change `rows`.
* `HistoryIsLedger`: the refinement of `RunHistory`, from `Inv` and `RowsStep`.
* `NothingTrackedIsLost`: `TrackedOrStored` under `Lossless` (no failed list
  page, job fetch, catch-up GET or write; counts, probes and pages of completed
  runs may fail, and the process may crash). Its invariant `TrackInv` says where
  a run seen active is at each place of the cycle: on the old list still to be
  compared, on the new one, being processed, or stored.
* `CountsAreRight`: `CountedOnce` under `Unpruned` (no run outlives the retention
  and the row cap holds all rows; every failure and crash is allowed). `CountInv`
  ties each count to the row that keeps its attempt from being found again, and
  a suite's count to the attempt its row was stored with.
* `SuitesComeWithRuns`: `SuitesStored` under `Unpruned` and `Unbroken` (no failed
  write, no crash). `SuiteInv`: a stored latest attempt of a flow run has its
  suite's row or a writer that is between the two transactions; the writer of a
  latest attempt holds that attempt's jobs.
* `GaugesCover`: `GaugesCoverActiveRuns` under `Listable` (no failed probe or
  count, active lists of one page; list calls may fail). `GaugeInv` follows a run
  that stays active through a repository's four calls: while it is queued it is
  on the queued list, which is read first, and otherwise on the list of runs in
  progress (`Found`), and the counts were taken before it could leave (`Summed`).
  Outside each of the three hypotheses lies a departure of section 3.

**CaptureRegistryProofs.** `Inv` orders the recorded times (`TimesInv`), says
that without overlap the database is as the page saw it (`QuietInv`) and that
what the request holds was true when read (`ReadInv`).

* `RegistryTypeCorrect`, `QuietCardsAgree`, `IdentityStays`: whatever fails.
* `AbsenceRestsOnAnswers` (`QuietAbsenceAsAnswered`): with every failure, under
  `Sound` (`HistoryKeep <= Retention`, `Stale <= PruneAfter`; 30 days each, and
  15 minutes against 30 days, in the code), with `RegistryInv`: a capture older
  than a source's last answer and within its retention is in the table, on its
  way there, pruned since, or was dropped by a refresh that was cut off.

**CaptureViewProofs.** A thread leads exactly when the in-flight map names it
for its id (`FlightInv`); from this and the waiters' own clause follow
`OneLookupPerCapture` and `NoLostWakeUp` for any number of threads.
`CacheStaysBounded` (`CacheBounded`) is for documents of any size in a cache of
any size: the module adds up the entries by recursion (`Total`), so the lemmas
say that a total built up from the first element is unique (`Adds`), that
appending adds a size and that taking an entry away subtracts its own; dropping
the oldest until the rest fits then keeps the bound, or leaves one document.

**PrBackfillProofs.** `CoverageIsKept` is `NothingSlipsPast` for any number of
pull requests and repositories, any page size, overlap and retention, with
failing calls, passes that end early and crashes. Coverage only says what was
wanted, so `IInv` accounts for it while a pass runs: whatever GitHub shows inside
the window of the pass and has not touched since (`Wanted`) is in a repository
still to be listed, pending, stored or recorded as failed, or the pass will not
move coverage (`Handled`); while its list is paged it was seen or lies on a page
to come (`Paged`). The lemmas about the listing are what makes that true: an
untouched entry only moves down while others are updated (`RankGrows`), and the
page that ends a listing leaves nothing wanted behind it (`LastPageSeesAll`).
`Window` says that the floor of an incremental pass lies inside what is covered
already; `Start > Retention + Overlap` keeps the first floors positive.
`MissingHasACause` is `MissingExplained`: unless a pass wrote between the
request's reads, row, freshness and live answer are those of one moment
(`Answer`). `TypeCorrect` is the type invariant.

*Records.* `StagesAreConsistent` and `AttemptsAreConsistent` are about what the
code derives from one life, for any workflows, conclusions, numbers of reviews
and of queue entries. The invariant of the life is small (`RecordsInv`: every moment
is in the past, and an end is set exactly when the pull request is not open). The
proof is in the derivation: `Plain` is the record `BuildPrRecord` makes of
GitHub's timestamps alone, `Coherent` says that each duration is the difference
of two moments the document shows, and `StoredCoherent` and `LiveCoherent` are
what `WritePr` and the live answer make of the one to reach the other.

*Run evidence.* `SettledShowsRight` (`SettledIsRight`) and `MixupsAreExplained`
(`MixupsExplained`), for any threads, cache size, times to live and artifact
names. `RightEntry` says of a cache entry what its expiry tells about when it was
put (`PutAt`): put long enough after the last change, it is what a lookup now
yields, or the gap left by a lookup that failed shortly before. `OnTheWay` says
the same of a result a request still holds, and `InTime` bounds how long it may
hold it; without it a result from before the change could be put at any time.

**CaptureSyncProofs.** For any run attempts, signals and line counts, through
crashes of commands, restarts of the backend and collectors that outlive their
command: `SentOnce` (`DeliveredOnce`), `RecordsHold` (`RecordsAreTrue`) and
`BackendKeeps` (`KeptUnlessPurged`). `IInv` says who answers for what was sent
(`Accounted`: the import being watched, the index, or a torn import), that only
a torn import's collector is unwatched and that no line of a watched one lies
beyond what it has sent (`Collecting`), that acknowledged signals arrived
(`Delivered`) and why a good capture may be given up (`GivenUp`). Imports torn by
a crash, or by a collector that could not be removed, are the exception of
`DeliveredOnce`. What is sent is on the volume or in a container that is still
there, whichever signals are flushed (`CutKeeps`).

**Ec2RunnersProofs.** For any number of attempts and any maximum age:
`LeftoversAreExplained` and `CleanUpLeavesRunningAlone` (`LeftAlone`). `Known`
says, by how far an attempt is, what it has left in AWS and at GitHub and
whether the teardown job can know of it, or which cause excuses that it does not;
`Seen`, that what the watchdog listed is
still true when it acts: ages only grow and an attempt that is over stays over.

**WorkflowsProofs.**

* `FlagsAreEarned` is `FlagEarned` for any finite set of failing runs, any
  threshold, groups and number of issues. `TrackingInv` adds that a tracker counts
  its run in its own write only (`NotYetCounted`) and that the count it holds,
  however old, is covered by the runs counted on its issue (`HeldIsCovered`),
  which only become more.
* `SerialEditsAreKept` is `NoEditLost` under `Serialized` (one concurrency group,
  and the lookup of a diagnosing job does not fail), for any runs, suites, pushes
  and orders of jobs, and any other failing call. `CommentInv`: the comment shows what the edits add up to, and
  the job that is about to write holds what it says. `comment_queue` is the
  instance with a second group.

**ScriptsProofs.**

* *Job selection.* `PathFiltersAreAFloor` (`JudgmentOnlyEscalates`), under
  `SpeaksLast`: an answer that ends in a decision block means it. Without it the
  last clause fails, since the parser takes the last block whoever wrote it; the
  other clauses do not need it. `ReportStaysHonest` (`ReportIsHonest`) has no
  hypothesis; it says nothing of what was billed when no attempt reported its
  tokens. `SelectionInv`: an answer has a call behind it, a call a question,
  and the usages of the report are those that were billed.
* *Diagnosis.* `BestAnswerReturned` (`NothingUsefulDropped`) and
  `OnlyFinishedPosted` (`PostedIsFinished`), for any responses and retries, with
  and without a fallback. `AskingInv`: while models are asked every attempt so
  far was incomplete, and the text there was is in the running loop or kept from
  the primary; `AnswerInv`: an answer not marked incomplete is what cleaning
  leaves of one finished response. `AttemptsAreBilled` (`EveryAttemptBilled`):
  the program adds up each model's attempts and merges the two totals, the
  property adds up everything received with both its counts in the order it came. `LedgerInv` says
  that the two ledgers together hold what was received; both sums are functions
  defined from their value before (`Folds`), which exist and are unique
  (`Folding`, `SameFold`), so that each grows by one attempt (`TotalAppend`,
  `BillAppend`).
* *Trends.* `OutcomesStay` (`OutcomesKept`) and `CleanPassesRepair`
  (`CleanPassRepairs`), for any runs, artifacts, tests and histories. `PassInv`
  carries the second: while a pass is clean, every run a stored day was written
  from is in the pass's list and, once it was fetched, parsed again. That holds
  because what was uploaded and stored inside the window is still there
  (`StoredInv`), and it makes the new day a superset of the old, which is what the
  two guards ask. `DocumentsAreRight` (`DocumentsAgree`): each rollup row counts
  the stored rows of its key (`RolledUp`), whole keys leave and join
  (`RolledPart`, `RolledJoin`), and a sum of counts of disjoint sets counts their
  union (`SumOfCounts`).
* *Queue gauge.* `QueueGaugeIsHonest` (`QueueGaugeHonest`), for any runs, numbers
  of re-runs and waiting times and any loss of the caches. `CachesInv`: an
  attempt filed under its jobs has some, and one to be looked at again was found
  empty after the grace period. `TallyInv`: some set of runs was counted, some
  set of them called zombies, and both are as the properties want them
  (`Tally`), run by run, while the listing is worked off.

Induction over data is not used as a rule anywhere (the library's induction
theorems take an operator, which the provers cannot instantiate). Where a sum or
a total is recursive, the definition is a function, and uniqueness follows from
the least place where two such functions would differ (`SmallestOne`).

**Only model-checked**: the liveness properties `TrackedEventuallyStored`,
`CaptureEventuallyRegistered`, `WaitEnds`, `PlaceholderReplaced` and
`InstanceGone`. Fairness and ENABLED are beyond the prover.

## 5. Limits met while modelling

What the code does in these cases follows from the models, or lies just outside
them; none has a run of its own.

*Pull requests.* Row and coverage are read in two connections, so a pass that
writes between them makes a stored pull request look missing; `MissingExplained`
allows exactly that. A stored row stays as it is while its pull request is
reopened. A failed pull request is retried by the next run only within the
overlap, later by the daily full pass.

*Queue gauges.* A failed count is published as zero queued runs
(`workflow-exporter.py:2502`). A cycle longer than the grace period can subtract
a zombie that was not yet queued when the runs were counted. The model lists
one page; a run that moves between two pages while they are read would be
listed twice, and a zombie subtracted twice. A failing check of a
confirmed zombie keeps it one for as long as it fails, as the docstring says.

*Trends.* A run of which one of two artifacts has expired counts as parsed, so
a later pass may replace its day with a thinner reading (`OutcomesKept` is about
runs, not about single tests). A day written before
`parsed_run_ids` existed is guarded by its count only. The history endpoint reads
twice (`ci_observe_history.py:373-408`).

*Local stack.* A scrape in the middle of a file with sent equal to accepted is
taken as the end (`ci-observe.py:510`), so `RecordsAreTrue` asks for every signal
and not for every line. `down --purge` keeps the import index. A podman failure
is recorded as a refusal and never retried. Two commands at once would share the
replay container, its port and the index (914); the model runs one. The quadlet
mode is not modelled.

*Run evidence.* A capture of attempt 2 asked for before its upload caches attempt
1's results for the whole time to live; the note about it disappears once the row
of attempt 2 is stored, and a run known by suite rows only never has it. A
connection that breaks while the artifact is streamed raises out of the lookup
(`ci_observe_run_evidence.py:319`), against "this must never raise into the
endpoint" (491).

*Diagnosis and selection.* A blocked response that has text counts as a complete
one. An exception of the fallback model drops the primary's partial text. In
`select-jobs.py` a comment calls `decide`'s last branch a skip; it is sanity.
When a response counts its prompt and thoughts but no candidates,
`ai-diagnose-failure.py:1131` drops all of its tokens, while `select-jobs.py`,
which says that it mirrors that function "exactly" (140), keeps them (156):
`EveryAttemptBilled` is about attempts that reported both counts. When every
dispatched attempt fails before it reports usage, the cost line says "$0.0000 (0
input + 0 output tokens)" (`select-jobs.py:249`, as its docstring explains), where
`aggregate_cost` counts on a wording of "unavailable" (202): the line of zero says
nothing of what was billed, and `ReportIsHonest` reads it so.

*Reports.* A placeholder stays as it is until the suite runs again when its run is
cancelled, when the pull request's head moved before the outcome was reported
(`resolve-pr-from-head-sha/action.yml:132`), or when any call of the reporting job
failed, since nothing is tried again: `PlaceholderReplaced` allows these cases
(`Excused`) and no other. A push back to an older head, a reopened pull request and
a reporting job that is cancelled while it works are not modelled; "Passing" and
"Skipped" are one wording. A failed lookup in the diagnosing job is
an empty answer and posts a second comment, against
`ai-diagnostic-e2e.yml:706`. Two trackers of different pull requests lose a
count (`track-recurring-failure.py:237`): `FlagEarned` is that no flag comes too
early, not that none comes late. A confirmation a maintainer writes between read
and PATCH is overwritten. The tracker asks `gh api user` for its own login
(`track-recurring-failure.py:96`), which comments elsewhere say does not work with
an installation token (`ai-diagnostic-e2e.yml:521`); if so every tracker fails at
its start, which the model has as `TrackFails` and not as the only behaviour.

*EC2.* A registration lingers when its DELETE failed or its name was never
output, since the watchdog starts from live instances. An orphan of attempt 1 is
protected by attempt 2's running and is then caught by age only. "Re-run failed
jobs", which reuses outputs of the attempt before, is not modelled, and neither are
stopped instances, which the watchdog's filter leaves out
(`reap-orphans.sh:78`), nor instances in a region other than the watchdog's.

## 6. Not modelled

* The bisection of the backfill's dates, merge records and start-up migrations: they
  can be modelled (section 7).
* Text: redaction, prompts, evidence collection, the digest, links and wording.
  Regular expressions over free text leave nothing for a finite model.
* Read-only aggregations (overview, percentiles, exporter endpoints): SQL with no
  state of its own.
* Process control and installation: the capture action, host, vault, infra, fleet
  and itenv set-up. Straight-line scripts over third-party services.

## 7. What could come next

1. Merge records with their tri-state lookup, and the start-up migrations.
2. The release gate as operators, and the reconciliation of bare-metal hosts.
3. A second page in the queued listing, where a run may be listed twice.
