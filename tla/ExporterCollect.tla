--------------------------- MODULE ExporterCollect ---------------------------
(***************************************************************************)
(* The collect() cycle of monitoring/scripts/workflow-exporter.py: how the *)
(* exporter learns that a GitHub Actions run finished and writes it, once  *)
(* per attempt, into its SQLite job history.                               *)
(*                                                                         *)
(* Actors: GitHub (external; runs are queued, start, finish, are re-run at *)
(* any moment), the poller (initial_load, then collect() for ever) and the *)
(* one-off backfill, a second process on the same database.  One step is   *)
(* one API call, one SQLite transaction or one in-memory update, so that   *)
(* GitHub, the other writer and a crash can come between any two of them.  *)
(***************************************************************************)
EXTENDS Naturals, FiniteSets

CONSTANTS
    Run,          \* GitHub run ids
    Repo,         \* the monitored repositories
    RepoOf,       \* the repository of each run
    Pipeline,     \* pull-request-flow runs: their suites get rows of their own
    Ignored,      \* runs whose event is in IGNORED_EVENTS
    MaxAttempt,   \* bound: attempts of one run
    MaxCount,     \* bound: a counter is not followed beyond this value
    Window,       \* page size of _recent_completed (50 in the code)
    InitWindow,   \* page size of _fetch_recent_history (100 in the code)
    Page,         \* page size of _fetch_active_runs (100 in the code)
    HistoryMax,   \* JOBS_HISTORY_MAX_COUNT
    Fault,        \* the failures that may happen, see FaultKind
    BackfillDays  \* days the one-off backfill covers, 0 when it is not run

(***************************************************************************)
(* "repos": get_active_repos misses a repository; "count": _run_count;     *)
(* "list": a page of _fetch_active_runs; "jobs": _fetch_run_jobs;          *)
(* "recent": _recent_completed or _fetch_recent_history; "get": the        *)
(* catch-up's GET of one run; "db": a SQLite write; "crash": the process   *)
(* dies; "age": a run outlives JOBS_HISTORY_DAYS.                          *)
(***************************************************************************)
FaultKind == {"repos", "count", "list", "jobs", "recent", "get", "db", "crash", "age"}

ASSUME CollectAssumption ==
    /\ RepoOf \in [Run -> Repo]
    /\ Pipeline \subseteq Run /\ Ignored \subseteq Run
    /\ IsFiniteSet(Run)
    /\ MaxAttempt \in Nat \ {0} /\ MaxCount \in Nat \ {0}
    /\ Window \in Nat \ {0} /\ InitWindow \in Nat \ {0} /\ Page \in Nat \ {0}
    /\ HistoryMax \in Nat \ {0}
    /\ Fault \subseteq FaultKind /\ BackfillDays \in Nat

VARIABLES
    status,      \* GitHub: the state of each run's latest attempt
    attempt,     \* GitHub: the number of that attempt, 0 before the run exists
    born,        \* GitHub: rank of the run in created_at order, 0 before it exists
    old,         \* runs whose created_at is older than JOBS_HISTORY_DAYS
    rows,        \* jobs table, run rows: stored run_attempt, 0 when there is no row
    suites,      \* jobs table, suite rows: <<run, attempt of the job, run_attempt>>
    active,      \* self.active_runs, run records only
    counted,     \* completed_runs.inc() calls per run and attempt, this process
    suiteCounted,\* completed_runs.inc() calls per suite job, this process
    gauge,       \* queued and in-progress gauges of each repository and of the org
    published,   \* the run records the by-category gauges were last set from
    pc,          \* where each writer is
    item,        \* the run each writer is processing
    work,        \* listed <<run, attempt>> each writer has still to process
    back,        \* where each writer continues once work is empty
    todo,        \* repositories the current pass has still to visit
    repo,        \* the repository being visited
    q, ip,       \* its queued and in_progress counts
    tot,         \* tot_queued and tot_in_progress
    offset,      \* runs of the current list already paged through
    fetched,     \* records of _fetch_active_runs so far
    cur,         \* current_active
    prev,        \* previous_active_by_id
    complete,    \* active_runs_complete
    seen,        \* history: <<run, attempt>> tracked as active and not pruned since
    steady       \* history: runs active without a break since the cycle began

ghVars    == <<status, attempt, born, old>>
dbVars    == <<rows, suites>>
countVars == <<counted, suiteCounted>>
itemVars  == <<pc, item, work, back>>
gaugeVars == <<gauge, published>>
cycleVars == <<todo, repo, q, ip, tot, offset, fetched, cur, prev, complete>>
vars == <<ghVars, dbVars, countVars, itemVars, cycleVars, gaugeVars, active, seen, steady>>

Poller   == "poller"
Backfill == "backfill"
Writer   == {Poller, Backfill}
Attempt  == 1 .. MaxAttempt
NoRepo   == "none"
Org      == "org"
NoItem   == [run |-> "none", attempt |-> 0, jobs |-> 0]
Item     == [run : Run, attempt : Attempt, jobs : 0 .. MaxAttempt]
Active   == {"queued", "in_progress"}
Record   == [run : Run, status : Active \cup {"completed"}, attempt : Attempt]

PC == {"boot", "load", "idle", "next_repo", "count_queued", "count_active", "list_queued",
       "list_active", "set_gauges", "recent", "publish", "catchup", "finish",
       "process", "jobs", "upsert", "upsert_suites"}

------------------------------------------------------------------------------
(* GitHub *)

Exists(r)    == attempt[r] > 0
IsActive(r)  == status[r] \in Active
RunsOf(rp, st) == {r \in Run : RepoOf[r] = rp /\ status[r] = st}
\* Position of r in the list S, newest created_at first, counted from 0.
Rank(S, r)   == Cardinality({s \in S : born[s] > born[r]})
Slice(S, from, n) == {r \in S : Rank(S, r) >= from /\ Rank(S, r) < from + n}
\* Mutant: the attempt missing from the answer is taken as 0.
ListedNoAttempt(S) == {<<r, 0>> : r \in S}
Listed(S)    == {<<r, attempt[r]>> : r \in S}
Records(S)   == {[run |-> r, status |-> status[r], attempt |-> attempt[r]] : r \in S}
Ids(recs)    == {x.run : x \in recs}

GhQueue(r) ==
    /\ ~Exists(r)
    /\ status'  = [status EXCEPT ![r] = "queued"]
    /\ attempt' = [attempt EXCEPT ![r] = 1]
    /\ born'    = [born EXCEPT ![r] = Cardinality({s \in Run : Exists(s)}) + 1]
    /\ UNCHANGED <<old, steady>>

GhStart(r) ==
    /\ status[r] = "queued"
    /\ status' = [status EXCEPT ![r] = "in_progress"]
    /\ UNCHANGED <<attempt, born, old, steady>>

\* A queued run may be cancelled, so it may complete too; it then has no suite
\* result, which is what a run outside Pipeline stands for.
GhComplete(r) ==
    /\ status[r] = "in_progress" \/ (status[r] = "queued" /\ r \notin Pipeline)
    /\ status' = [status EXCEPT ![r] = "completed"]
    /\ steady' = steady \ {r}
    /\ UNCHANGED <<attempt, born, old>>

\* A re-run keeps the id; only run_attempt grows.
GhRerun(r) ==
    /\ status[r] = "completed" /\ attempt[r] < MaxAttempt /\ r \notin old
    /\ status'  = [status EXCEPT ![r] = "queued"]
    /\ attempt' = [attempt EXCEPT ![r] = @ + 1]
    /\ UNCHANGED <<born, old, steady>>

\* The retention period is far longer than a run: a run is completed, and can
\* no longer be re-run, when it reaches it.  Older runs reach it first.
GhAge(r) ==
    /\ "age" \in Fault
    /\ status[r] = "completed" /\ r \notin old
    /\ \A s \in Run : born[s] > 0 /\ born[s] < born[r] => s \in old
    /\ old' = old \cup {r}
    /\ UNCHANGED <<status, attempt, born, steady>>

GitHub ==
    /\ \E r \in Run : GhQueue(r) \/ GhStart(r) \/ GhComplete(r) \/ GhRerun(r) \/ GhAge(r)
    /\ UNCHANGED <<dbVars, countVars, itemVars, cycleVars, gaugeVars, active, seen>>

------------------------------------------------------------------------------
(* _process_completed_run and its siblings in initial_load and backfill: the *)
(* path every listed run takes into the database.                           *)

Goto(p, l)     == pc' = [pc EXCEPT ![p] = l]
Counts(p)      == back[p] \in {"next_repo", "catchup"}
NeedsUpsert(r, a) == rows[r] < a

\* The caller's except clause, or its `continue`: this run is given up.
SkipRun(p) == /\ item' = [item EXCEPT ![p] = NoItem]
              /\ Goto(p, "process")
              /\ UNCHANGED <<work, back>>
\* An exception also gives up the rest of the list it was found in.
AbandonList(p) == /\ item' = [item EXCEPT ![p] = NoItem]
                  /\ work' = [work EXCEPT ![p] = {}]
                  /\ Goto(p, "process")
                  /\ UNCHANGED back

\* Take the next listed run; initial_load does not ask _needs_upsert.
PickRun(p) ==
    /\ pc[p] = "process"
    /\ \E x \in work[p] :
         /\ work' = [work EXCEPT ![p] = @ \ {x}]
         /\ IF x[1] \notin Ignored /\ (back[p] = "load" \/ NeedsUpsert(x[1], x[2]))
            THEN /\ item' = [item EXCEPT ![p] = [run |-> x[1], attempt |-> x[2], jobs |-> 0]]
                 /\ Goto(p, "jobs")
            ELSE UNCHANGED <<item, pc>>
    /\ UNCHANGED <<ghVars, dbVars, countVars, cycleVars, back, gaugeVars, active, seen, steady>>

ListProcessed(p) ==
    /\ pc[p] = "process" /\ work[p] = {}
    /\ Goto(p, back[p])
    /\ UNCHANGED <<ghVars, dbVars, countVars, cycleVars, item, work, back, gaugeVars, active, seen, steady>>

\* _fetch_run_jobs asks for the latest attempt, which need not be the listed
\* one; item.jobs is the attempt whose suite result it found, 0 for none.
FetchJobs(p) ==
    /\ pc[p] = "jobs"
    /\ LET r == item[p].run IN
       \E j \in {0, attempt[r]} :
         /\ j > 0 => r \in Pipeline /\ status[r] \in {"in_progress", "completed"}
         /\ j = 0 => r \notin Pipeline \/ status[r] # "completed"
         /\ item' = [item EXCEPT ![p].jobs = j]
    /\ Goto(p, "upsert")
    /\ UNCHANGED <<ghVars, dbVars, countVars, cycleVars, work, back, gaugeVars, active, seen, steady>>

FetchJobsFails(p) ==
    /\ "jobs" \in Fault
    /\ pc[p] = "jobs"
    /\ SkipRun(p) \/ AbandonList(p)
    /\ UNCHANGED <<ghVars, dbVars, countVars, cycleVars, gaugeVars, active, seen, steady>>

\* INSERT ... ON CONFLICT DO UPDATE WHERE excluded.run_attempt > jobs.run_attempt
UpsertRun(p) ==
    /\ pc[p] = "upsert"
    /\ IF rows[item[p].run] < item[p].attempt
       THEN /\ rows' = [rows EXCEPT ![item[p].run] = item[p].attempt]
            /\ Goto(p, "upsert_suites")
            /\ UNCHANGED <<item, work, back>>
       ELSE SkipRun(p) /\ UNCHANGED rows
    /\ UNCHANGED <<ghVars, suites, countVars, cycleVars, gaugeVars, active, seen, steady>>

\* Counters stop at MaxCount, which stands for "MaxCount or more".
Inc(n) == IF n < MaxCount THEN n + 1 ELSE n

SuiteLabels(r, j) == {s \in suites : s[1] = r /\ s[2] = j}

\* Mutant: initial_load and backfill store the run's row only.
UpsertSuitesPollOnly(p) ==
    /\ pc[p] = "upsert_suites"
    /\ LET r == item[p].run
           a == item[p].attempt
           j == item[p].jobs
       IN IF Counts(p)
          THEN /\ suites' = IF j > 0 THEN suites \cup {<<r, j, a>>} ELSE suites
               /\ counted' = [counted EXCEPT ![r][a] = Inc(@)]
          ELSE UNCHANGED <<suites, counted>>
    /\ SkipRun(p)
    /\ UNCHANGED <<ghVars, rows, suiteCounted, cycleVars, gaugeVars, active, seen, steady>>

\* The suite row in a transaction of its own, then the counters.
UpsertSuites(p) ==
    /\ pc[p] = "upsert_suites"
    /\ LET r == item[p].run
           a == item[p].attempt
           j == item[p].jobs
           stored == j > 0 /\ \A s \in SuiteLabels(r, j) : s[3] < a
       IN /\ suites' = IF stored THEN (suites \ SuiteLabels(r, j)) \cup {<<r, j, a>>} ELSE suites
          /\ IF Counts(p)
             THEN /\ counted' = [counted EXCEPT ![r][a] = Inc(@)]
                  /\ suiteCounted' = IF stored
                                     THEN [suiteCounted EXCEPT ![r][j] = Inc(@)]
                                     ELSE suiteCounted
             ELSE UNCHANGED countVars
    /\ SkipRun(p)
    /\ UNCHANGED <<ghVars, rows, cycleVars, gaugeVars, active, seen, steady>>

\* "database is locked": the exception reaches the caller's except clause.
DbFails(p) ==
    /\ "db" \in Fault
    /\ pc[p] \in {"upsert", "upsert_suites"}
    /\ AbandonList(p)
    /\ UNCHANGED <<ghVars, dbVars, countVars, cycleVars, gaugeVars, active, seen, steady>>

ProcessRun(p) ==
    \/ PickRun(p) \/ ListProcessed(p) \/ FetchJobs(p) \/ FetchJobsFails(p)
    \/ UpsertRun(p) \/ UpsertSuites(p) \/ DbFails(p)

------------------------------------------------------------------------------
(* Start-up and the one-off backfill *)

At(l) == pc[Poller] = l
Step(l) == Goto(Poller, l)
ProcessList(p, list, cont) ==
    /\ work' = [work EXCEPT ![p] = list]
    /\ back' = [back EXCEPT ![p] = cont]
    /\ Goto(p, "process")

\* get_active_repos: a failed probe drops a repository for this pass.
ActiveRepos(set) == set = Repo \/ ("repos" \in Fault /\ set \subseteq Repo)

\* _recent_completed and _fetch_recent_history: the first page of completed
\* runs in created_at order, and nothing when the call fails.
CompletedPage(rp, n) ==
    {Listed(Slice(RunsOf(rp, "completed"), 0, n))} \cup (IF "recent" \in Fault THEN {{}} ELSE {})

DbEmpty == suites = {} /\ \A r \in Run : rows[r] = 0

\* initial_load only reads GitHub when the job history is empty.
Boot ==
    /\ At("boot")
    /\ IF DbEmpty
       THEN /\ \E set \in SUBSET Repo : ActiveRepos(set) /\ todo' = set
            /\ Step("load")
       ELSE /\ UNCHANGED todo
            /\ Step("idle")
    /\ UNCHANGED <<ghVars, dbVars, countVars, item, work, back, repo, q, ip, tot, offset,
                   fetched, cur, prev, complete, gaugeVars, active, seen, steady>>

LoadRepo ==
    /\ At("load")
    /\ \E rp \in todo :
         /\ todo' = todo \ {rp}
         /\ \E list \in CompletedPage(rp, InitWindow) : ProcessList(Poller, list, "load")
    /\ UNCHANGED <<ghVars, dbVars, countVars, item, repo, q, ip, tot, offset, fetched, cur,
                   prev, complete, gaugeVars, active, seen, steady>>

LoadDone ==
    /\ At("load") /\ todo = {}
    /\ Step("idle")
    /\ UNCHANGED <<ghVars, dbVars, countVars, item, work, back, cycleVars, gaugeVars, active, seen, steady>>

\* backfill(), a separate process, goes page by page through the completed runs
\* of a range of dates: one page is some of them.
BackfillPage ==
    /\ BackfillDays > 0 /\ pc[Backfill] = "idle"
    /\ \E rp \in Repo : \E page \in SUBSET RunsOf(rp, "completed") :
         ProcessList(Backfill, Listed(page), "idle")
    /\ UNCHANGED <<ghVars, dbVars, countVars, item, cycleVars, gaugeVars, active, seen, steady>>

------------------------------------------------------------------------------
(* collect() *)

AllRows == {<<r, 0>> : r \in {x \in Run : rows[x] > 0}} \cup {<<s[1], s[2]>> : s \in suites}

\* Mutant: the comparison with the cutoff is turned round.
KeptExpired(keep) == keep = {x \in AllRows : x[1] \in old}

\* _prune_jobs: the retention period, then the newest HistoryMax rows.  A suite
\* row has the created_at of its run.
Kept(keep) ==
    LET young == {x \in AllRows : x[1] \notin old}
    IN /\ keep \subseteq young
       /\ Cardinality(young) <= HistoryMax => keep = young
       /\ Cardinality(young) > HistoryMax => Cardinality(keep) = HistoryMax
       /\ \A x \in keep, y \in young \ keep : born[x[1]] >= born[y[1]]

\* A pruned row was recorded: nothing is owed for its run any more.
StartCycle ==
    /\ At("idle")
    /\ \E keep \in SUBSET AllRows :
         /\ Kept(keep)
         /\ rows' = [r \in Run |-> IF <<r, 0>> \in keep THEN rows[r] ELSE 0]
         /\ seen' = {x \in seen : rows[x[1]] > 0 => <<x[1], 0>> \in keep}
         /\ suites' = {s \in suites : <<s[1], s[2]>> \in keep}
    /\ \E set \in SUBSET Repo : ActiveRepos(set) /\ todo' = set
    /\ prev' = Ids(active)
    /\ cur' = {} /\ complete' = TRUE /\ tot' = <<0, 0>>
    /\ steady' = {r \in Run \ Ignored : IsActive(r)}
    /\ Step("next_repo")
    /\ UNCHANGED <<ghVars, countVars, item, work, back, repo, q, ip, offset, fetched, gaugeVars, active>>

NextRepo ==
    /\ At("next_repo")
    /\ \E rp \in todo : repo' = rp /\ todo' = todo \ {rp}
    /\ Step("count_queued")
    /\ UNCHANGED <<ghVars, dbVars, countVars, item, work, back, q, ip, tot, offset, fetched, cur, prev,
                   complete, gaugeVars, active, seen, steady>>

\* _run_count answers 0 when the call fails.
RunCount(st) == {Cardinality(RunsOf(repo, st))} \cup (IF "count" \in Fault THEN {0} ELSE {})

CountQueued ==
    /\ At("count_queued")
    /\ q' \in RunCount("queued")
    /\ Step("count_active")
    /\ UNCHANGED <<ghVars, dbVars, countVars, item, work, back, todo, repo, ip, tot, offset, fetched, cur,
                   prev, complete, gaugeVars, active, seen, steady>>

CountActive ==
    /\ At("count_active")
    /\ ip' \in RunCount("in_progress")
    /\ fetched' = {} /\ offset' = 0
    /\ Step(IF q > 0 \/ ip' > 0 THEN "list_queued" ELSE "set_gauges")
    /\ UNCHANGED <<ghVars, dbVars, countVars, item, work, back, todo, repo, q, tot, cur, prev, complete,
                   gaugeVars, active, seen, steady>>

\* A network exception instead of an answer: the repository is given up.
RepoFails ==
    /\ \/ "count" \in Fault /\ pc[Poller] \in {"count_queued", "count_active"}
       \/ "recent" \in Fault /\ At("recent")
    /\ Step("next_repo")
    /\ q' = 0 /\ ip' = 0 /\ repo' = NoRepo
    /\ UNCHANGED <<ghVars, dbVars, countVars, item, work, back, todo, tot, offset, fetched, cur, prev, complete,
                   gaugeVars, active, seen, steady>>

\* Mutant: the in-progress list is read before the queued one.
ListPageSwapped(st, here, next) ==
    /\ At(here)
    /\ LET all  == RunsOf(repo, IF st = "queued" THEN "in_progress" ELSE "queued")
           more == Cardinality(all) > offset + Page
       IN /\ fetched' = fetched \cup Records(Slice(all, offset, Page) \ Ignored)
          /\ offset' = IF more THEN offset + Page ELSE 0
          /\ Step(IF more THEN here ELSE next)
    /\ UNCHANGED <<ghVars, dbVars, countVars, item, work, back, todo, repo, q, ip, tot, cur, prev, complete,
                   gaugeVars, active, seen, steady>>

\* One page of one of the two status lists of _fetch_active_runs.  When the
\* jobs of an in-progress pipeline run cannot be read the list is not complete.
ListPage(st, here, next) ==
    /\ At(here)
    /\ LET all  == RunsOf(repo, st)
           page == Slice(all, offset, Page)
           more == Cardinality(all) > offset + Page
       IN /\ fetched' = fetched \cup Records(page \ Ignored)
          /\ offset' = IF more THEN offset + Page ELSE 0
          /\ Step(IF more THEN here ELSE next)
          /\ \/ UNCHANGED complete
             \/ /\ st = "in_progress" /\ "jobs" \in Fault
                /\ (page \ Ignored) \cap Pipeline # {}
                /\ complete' = FALSE
    /\ UNCHANGED <<ghVars, dbVars, countVars, item, work, back, todo, repo, q, ip, tot, cur, prev, gaugeVars,
                   active, seen, steady>>

ListQueued == ListPage("queued", "list_queued", "list_active")
ListActive == ListPage("in_progress", "list_active", "set_gauges")

\* A page that is not ok ends its status list; an exception ends both and
\* what was fetched is dropped.
ListFails ==
    /\ "list" \in Fault
    /\ complete' = FALSE
    /\ \/ At("list_queued") /\ Step("list_active") /\ UNCHANGED fetched
       \/ At("list_active") /\ Step("set_gauges") /\ UNCHANGED fetched
       \/ pc[Poller] \in {"list_queued", "list_active"} /\ Step("set_gauges") /\ fetched' = {}
    /\ offset' = 0
    /\ UNCHANGED <<ghVars, dbVars, countVars, item, work, back, todo, repo, q, ip, tot, cur, prev, gaugeVars,
                   active, seen, steady>>

\* current_active.extend, then the repository's gauges and the running totals.
SetGauges ==
    /\ At("set_gauges")
    /\ cur' = cur \cup fetched
    /\ gauge' = [gauge EXCEPT ![repo] = <<q, ip>>]
    /\ tot' = <<tot[1] + q, tot[2] + ip>>
    /\ fetched' = {} /\ q' = 0 /\ ip' = 0
    /\ Step("recent")
    /\ UNCHANGED <<ghVars, dbVars, countVars, item, work, back, todo, repo, offset, prev, complete, published,
                   active, seen, steady>>

RecentCompleted ==
    /\ At("recent")
    /\ \E list \in CompletedPage(repo, Window) : ProcessList(Poller, list, "next_repo")
    /\ repo' = NoRepo
    /\ UNCHANGED <<ghVars, dbVars, countVars, item, todo, q, ip, tot, offset, fetched, cur, prev, complete,
                   gaugeVars, active, seen, steady>>

\* The org totals always; the by-category gauges and the catch-up only after a
\* complete fetch.  still_active_ids is computed here, once.
Publish ==
    /\ At("next_repo") /\ todo = {}
    /\ gauge' = [gauge EXCEPT ![Org] = tot]
    /\ tot' = <<0, 0>>
    /\ published' = IF complete THEN cur ELSE published
    /\ prev' = IF complete THEN prev \ Ids(cur) ELSE {}
    /\ Step("catchup")
    /\ UNCHANGED <<ghVars, dbVars, countVars, item, work, back, todo, repo, q, ip, offset, fetched, cur,
                   complete, active, seen, steady>>

\* Mutant: a run that left the active list is taken as finished.
CatchUpUnchecked ==
    /\ At("catchup")
    /\ \E r \in prev :
         /\ prev' = prev \ {r}
         /\ ProcessList(Poller, Listed({r}), "catchup")
    /\ UNCHANGED <<ghVars, dbVars, countVars, item, todo, repo, q, ip, tot, offset, fetched, cur, complete,
                   gaugeVars, active, seen, steady>>

\* Mutant: a run that is not completed is not put back on the active list.
CatchUpForgets ==
    /\ At("catchup")
    /\ \E r \in prev :
         /\ prev' = prev \ {r}
         /\ IF status[r] # "completed"
            THEN UNCHANGED <<pc, work, back>>
            ELSE ProcessList(Poller, Listed({r}), "catchup")
    /\ UNCHANGED <<ghVars, dbVars, countVars, item, todo, repo, q, ip, tot, offset, fetched, cur, complete,
                   gaugeVars, active, seen, steady>>

\* Mutant: no catch-up, the page of recent completions is all there is.
CatchUpNever ==
    /\ At("catchup")
    /\ prev # {} /\ prev' = {}
    /\ UNCHANGED <<ghVars, dbVars, countVars, itemVars, todo, repo, q, ip, tot, offset, fetched, cur, complete,
                   gaugeVars, active, seen, steady>>

\* GET the run by id: a run that is not completed stays tracked, a completed
\* one is processed.
CatchUp ==
    /\ At("catchup")
    /\ \E r \in prev :
         /\ prev' = prev \ {r}
         /\ IF status[r] # "completed"
            THEN /\ cur' = cur \cup Records({r})
                 /\ UNCHANGED <<pc, work, back>>
            ELSE /\ ProcessList(Poller, Listed({r}), "catchup")
                 /\ UNCHANGED cur
    /\ UNCHANGED <<ghVars, dbVars, countVars, item, todo, repo, q, ip, tot, offset, fetched, complete,
                   gaugeVars, active, seen, steady>>

\* `if not resp.ok: continue`, or an exception: the run is tracked no more.
CatchUpFails ==
    /\ "get" \in Fault
    /\ At("catchup")
    /\ \E r \in prev : prev' = prev \ {r}
    /\ UNCHANGED <<ghVars, dbVars, countVars, itemVars, todo, repo, q, ip, tot, offset, fetched, cur, complete,
                   gaugeVars, active, seen, steady>>

\* self.active_runs = current_active, whatever the cycle managed to fetch.
Finish ==
    /\ At("catchup") /\ prev = {}
    /\ active' = cur
    /\ cur' = {} /\ steady' = {} /\ complete' = TRUE
    /\ seen' = seen \cup {<<x.run, x.attempt>> : x \in cur}
    /\ Step("idle")
    /\ UNCHANGED <<ghVars, dbVars, countVars, item, work, back, todo, repo, q, ip, tot, offset, fetched, prev,
                   gaugeVars>>

Zero == [r \in Run |-> [a \in Attempt |-> 0]]
ZeroGauges == [x \in Repo \cup {Org} |-> <<0, 0>>]

\* The exporter dies and is restarted: only the database survives.
Crash ==
    /\ "crash" \in Fault
    /\ pc[Poller] # "boot"
    /\ Step("boot")
    /\ item' = [item EXCEPT ![Poller] = NoItem]
    /\ work' = [work EXCEPT ![Poller] = {}]
    /\ back' = [back EXCEPT ![Poller] = "load"]
    /\ todo' = {} /\ repo' = NoRepo /\ q' = 0 /\ ip' = 0 /\ tot' = <<0, 0>> /\ offset' = 0
    /\ fetched' = {} /\ cur' = {} /\ prev' = {} /\ complete' = TRUE
    /\ counted' = Zero /\ suiteCounted' = Zero
    /\ gauge' = ZeroGauges /\ published' = {} /\ active' = {}
    /\ seen' = {} /\ steady' = {}
    /\ UNCHANGED <<ghVars, dbVars>>

------------------------------------------------------------------------------

Init ==
    /\ status = [r \in Run |-> "none"] /\ attempt = [r \in Run |-> 0]
    /\ born = [r \in Run |-> 0] /\ old = {}
    /\ rows = [r \in Run |-> 0] /\ suites = {}
    /\ counted = Zero /\ suiteCounted = Zero
    /\ gauge = ZeroGauges /\ published = {} /\ active = {}
    /\ pc = [p \in Writer |-> IF p = Poller THEN "boot" ELSE "idle"]
    /\ item = [p \in Writer |-> NoItem] /\ work = [p \in Writer |-> {}]
    /\ back = [p \in Writer |-> IF p = Poller THEN "load" ELSE "idle"]
    /\ todo = {} /\ repo = NoRepo /\ q = 0 /\ ip = 0 /\ tot = <<0, 0>> /\ offset = 0
    /\ fetched = {} /\ cur = {} /\ prev = {} /\ complete = TRUE
    /\ seen = {} /\ steady = {}

PollerStep ==
    \/ Boot \/ LoadRepo \/ LoadDone \/ StartCycle \/ NextRepo \/ CountQueued \/ CountActive
    \/ RepoFails \/ ListQueued \/ ListActive \/ ListFails \/ SetGauges \/ RecentCompleted
    \/ Publish \/ CatchUp \/ CatchUpFails \/ Finish
    \/ ProcessRun(Poller)

Next ==
    \/ GitHub \/ PollerStep \/ BackfillPage \/ ProcessRun(Backfill) \/ Crash

Spec == Init /\ [][Next]_vars

------------------------------------------------------------------------------
(* Properties *)

GitHubType ==
    /\ status \in [Run -> {"none", "queued", "in_progress", "completed"}]
    /\ attempt \in [Run -> 0 .. MaxAttempt] /\ born \in [Run -> Nat] /\ old \subseteq Run
DbType == rows \in [Run -> 0 .. MaxAttempt] /\ suites \subseteq Run \X Attempt \X Attempt
MetricType ==
    /\ counted \in [Run -> [Attempt -> 0 .. MaxCount]]
    /\ suiteCounted \in [Run -> [Attempt -> 0 .. MaxCount]]
    /\ gauge \in [Repo \cup {Org} -> Nat \X Nat] /\ published \subseteq Record
WriterType ==
    /\ pc \in [Writer -> PC]
    /\ item \in [Writer -> Item \cup {NoItem}]
    /\ work \in [Writer -> SUBSET (Run \X Attempt)]
    /\ back \in [Writer -> {"load", "next_repo", "catchup", "idle"}]
CycleType ==
    /\ todo \subseteq Repo /\ repo \in Repo \cup {NoRepo}
    /\ q \in Nat /\ ip \in Nat /\ tot \in Nat \X Nat /\ offset \in Nat
    /\ fetched \subseteq Record /\ cur \subseteq Record /\ prev \subseteq Run
    /\ complete \in BOOLEAN
TrackType == active \subseteq Record /\ seen \subseteq Run \X Attempt /\ steady \subseteq Run

\* The domains of the variables.
TypeOK ==
    GitHubType /\ DbType /\ MetricType /\ WriterType /\ CycleType /\ TrackType

Completed(r, a) == a < attempt[r] \/ (a = attempt[r] /\ status[r] = "completed")

\* A stored row stands for an attempt that really finished, of a run whose
\* event is not ignored.  A row stored early would never be corrected, since
\* _needs_upsert compares only the attempt (the comment in the catch-up).
OnlyFinishedRunsStored ==
    \A r \in Run : rows[r] > 0 => Completed(r, rows[r]) /\ r \notin Ignored

\* completed_runs counts a finished attempt once, whichever of the two paths of
\* collect() found it and whatever the backfill writes meanwhile, and a suite
\* job as one e2e test.  The jobs of attempt a may also be read with an earlier
\* attempt of the run that is still being processed, once for each; a run that
\* is not re-run has its suite counted once.
CountedOnce ==
    \A r \in Run, a \in Attempt : counted[r][a] <= 1 /\ suiteCounted[r][a] <= a

\* Once no writer is busy with a pull-request-flow run whose latest attempt is
\* stored, its suite has a row of that attempt too.  (The jobs of an earlier
\* attempt may be read when the re-run has none yet.)
SuitesStored ==
    \A r \in Pipeline :
        rows[r] > 0 /\ rows[r] = attempt[r] /\ (\A p \in Writer : item[p].run # r)
            => \E s \in suites : s[1] = r /\ s[3] = rows[r]

\* A run once listed as active is, between two cycles, still tracked or stored
\* with at least that attempt: long runs are not lost.
TrackedOrStored ==
    At("idle") => \A x \in seen : x[1] \in Ids(active) \/ rows[x[1]] >= x[2]

\* A weaker promise, of the whole cycle: a run once listed as active is tracked,
\* stored, or still on the first page of completed runs; otherwise no later
\* cycle can find it, because its place in created_at order only gets worse.
NeverLost ==
    At("idle") => \A x \in seen :
        \/ x[1] \in Ids(active) \/ rows[x[1]] >= x[2]
        \/ x[1] \in Slice(RunsOf(RepoOf[x[1]], "completed"), 0, Window)

\* The stored attempt of a run never goes back: a row is replaced by a newer
\* attempt or pruned.
StoredAttemptGrows ==
    [][\A r \in Run : rows'[r] >= rows[r] \/ rows'[r] = 0]_vars

\* When a cycle publishes, every run that was active during the whole of it
\* is among the runs the by-category gauges are set from, and the org totals
\* are no smaller than the number of such runs.
GaugesCoverActiveRuns ==
    [][At("next_repo") /\ pc'[Poller] = "catchup" =>
         /\ complete => steady \subseteq Ids(published')
         /\ gauge'[Org][1] + gauge'[Org][2] >= Cardinality(steady)]_vars

\* The job history as a ledger of finished attempts, see RunHistory.
Finished == [r \in Run |-> IF status[r] = "completed" \/ attempt[r] = 0
                           THEN attempt[r] ELSE attempt[r] - 1]
History == INSTANCE RunHistory WITH finished <- Finished, stored <- rows
LedgerSpec == History!Spec

\* The main loop runs for ever and every request has a timeout, so the poller
\* keeps taking steps.  Nothing is assumed of GitHub or of the backfill.
FairSpec == Spec /\ WF_vars(PollerStep)

\* A tracked run that has finished is eventually stored, unless it is re-run.
TrackedEventuallyStored ==
    \A r \in Run : (r \in Ids(active) /\ status[r] = "completed")
                      ~> (rows[r] = attempt[r] \/ status[r] # "completed")

====
