----------------------------- MODULE PrBackfill -----------------------------
(***************************************************************************)
(* The pull-request backfill of ci_observe_prs.py and the requests that    *)
(* read what it stored.                                                    *)
(*                                                                         *)
(* A pass lists the closed pull requests of every repository, newest       *)
(* update first, one page per call, stores the ones that have no row yet,  *)
(* and finally records itself in pr_backfill_runs.  The table is kept here *)
(* as what its readers take from it: the window end of the last complete   *)
(* pass (coverage) and of the last complete full pass (lastFull); zero     *)
(* stands for no such row.  GitHub moves between any two calls.            *)
(***************************************************************************)
EXTENDS Integers, FiniteSets

CONSTANTS
    PR,          \* pull requests; a number, so that equal update times have an order
    Repo,        \* repositories of the organisation
    RepoOf,      \* the repository of a pull request
    Retention,   \* --days, the retention window
    Overlap,     \* INCREMENTAL_OVERLAP
    FullEvery,   \* FULL_PASS_INTERVAL
    Page,        \* PAGE_SIZE
    Start,       \* the time of the first state
    MaxNow,      \* bound on the clock
    Options,     \* the --mode, --force and --repo a pass is started with
    Reopenable,  \* bound: the pull requests that may be reopened
    Touchable,   \* bound: those that are updated after their end
    Asked,       \* bound: the pull requests a reader asks for
    NoRepo       \* repo while no repository is being worked on

ASSUME PrAssumption ==
    /\ PR \subseteq Nat /\ IsFiniteSet(PR)
    /\ RepoOf \in [PR -> Repo] /\ NoRepo \notin Repo
    /\ Retention \in Nat /\ Overlap \in Nat /\ FullEvery \in Nat
    /\ Page \in Nat \ {0}
    /\ MaxNow \in Nat /\ Start \in 0..MaxNow /\ Start > Retention + Overlap
    /\ Options \subseteq [mode : {"auto", "full", "incremental"}, force : BOOLEAN, only : SUBSET Repo]
    /\ Reopenable \subseteq PR /\ Touchable \subseteq PR /\ Asked \subseteq PR

VARIABLES
    now,        \* the clock
    ended,      \* GitHub: when the pull request was merged or closed, 0 while open
    updated,    \* GitHub: updated_at of a closed pull request, 0 while open
    stored,     \* pr_events: the recorded end of a stored pull request, 0 without a row
    coverage,   \* window_to of the last pass with listing_complete
    lastFull,   \* the same of the last full pass
    pc,         \* where the pass is
    passNow,    \* the pass's own now
    full,       \* its resolved mode
    since,      \* its updated_at floor
    force,      \* --force
    subset,     \* --repo was given
    todo,       \* repositories still to list
    repo,       \* the repository being listed or stored
    offset,     \* entries before the next page of the listing
    listed,     \* ended as the listing showed it, 0 when not listed
    pending,    \* listed pull requests still to store
    runsOk,     \* the merge_group runs of this repository were fetched
    failed,     \* pull requests whose pages failed in this pass
    complete,   \* listing_complete
    req,        \* the request for one pull request
    gaveUp,     \* history: failed in a pass that moved coverage, unstored since
    disturbed,  \* history: reopened, or hidden by a reopening while being listed
    overtaken   \* history: a pass wrote while the request was under way

gh == <<ended, updated>>
table == <<coverage, lastFull>>
plan == <<passNow, full, since, force, subset>>
work == <<todo, repo, offset, listed, pending, runsOk, failed, complete>>
vars == <<now, gh, stored, table, pc, plan, work, req, gaveUp, disturbed, overtaken>>

Zero == [p \in PR |-> 0]
Time == 0..MaxNow
NoReq == [pc |-> "idle", pr |-> 0, cov |-> 0]
Larger(a, b) == IF a > b THEN a ELSE b
Cutoff(t) == t - Retention

-----------------------------------------------------------------------------
(* GitHub and the clock.                                                   *)

\* A request is over within a step of the clock; a pass need not be.
Tick ==
    /\ now < MaxNow
    /\ req.pc = "idle"
    /\ now' = now + 1
    /\ UNCHANGED <<gh, stored, table, pc, plan, work, req, gaveUp, disturbed, overtaken>>

Env == UNCHANGED <<now, stored, table, pc, plan, work, req, gaveUp, overtaken>>

PrEnds(p) ==
    /\ ended[p] = 0
    /\ ended' = [ended EXCEPT ![p] = now]
    /\ updated' = [updated EXCEPT ![p] = now]
    /\ UNCHANGED disturbed
    /\ Env

PrTouched(p) ==
    /\ p \in Touchable
    /\ ended[p] # 0
    /\ updated[p] < now
    /\ updated' = [updated EXCEPT ![p] = now]
    /\ UNCHANGED <<ended, disturbed>>
    /\ Env

\* The pull request leaves the closed list, and every later entry of a list
\* that is being paged moves up by one.
PrReopens(p) ==
    /\ p \in Reopenable
    /\ ended[p] # 0
    /\ ended' = [ended EXCEPT ![p] = 0]
    /\ updated' = [updated EXCEPT ![p] = 0]
    /\ disturbed' = disturbed \cup {p} \cup
         (IF pc = "list" /\ RepoOf[p] = repo THEN {q \in PR : RepoOf[q] = repo} ELSE {})
    /\ Env

\* state=closed&sort=updated&direction=desc
Closed(r) == {p \in PR : RepoOf[p] = r /\ ended[p] # 0}
Before(p, q) == updated[p] > updated[q] \/ (updated[p] = updated[q] /\ p < q)
Rank(r, p) == Cardinality({q \in Closed(r) : Before(q, p)})

-----------------------------------------------------------------------------
(* A pass.                                                                 *)

\* A pass is a process of its own: nothing but the database outlives it.
ProcessEnds ==
    /\ pc' = "idle"
    /\ passNow' = Start /\ full' = FALSE /\ since' = 0 /\ force' = FALSE /\ subset' = FALSE
    /\ todo' = {} /\ repo' = NoRepo /\ offset' = 0 /\ listed' = Zero
    /\ pending' = {} /\ runsOk' = FALSE /\ failed' = {} /\ complete' = FALSE

FullPassDue == lastFull = 0 \/ lastFull < now - FullEvery

Floor(isFull) == IF isFull THEN Cutoff(now) ELSE Larger(coverage - Overlap, Cutoff(now))

\* backfill up to _plan: the mode it resolves to, its window and its flags.
StartPass(o) ==
    /\ pc = "idle"
    /\ pc' = "repos"
    /\ passNow' = now
    /\ full' = (\/ o.mode = "full"
                \/ o.mode = "auto" /\ (o.force \/ FullPassDue)
                \/ coverage = 0)
    /\ since' = Floor(full')
    /\ force' = o.force
    /\ subset' = (o.only # {})
    /\ todo' = IF o.only # {} THEN o.only ELSE Repo
    /\ complete' = TRUE
    /\ failed' = {}
    /\ UNCHANGED <<now, gh, stored, table, repo, offset, listed, pending, runsOk, req, gaveUp, disturbed, overtaken>>

\* The pages of the organisation's repositories: all of them, or None.  A
\* --repo pass asks for none.
ListRepos ==
    /\ pc = "repos"
    /\ pc' = "next"
    /\ \/ UNCHANGED <<todo, complete>>
       \/ ~subset /\ todo' = {} /\ complete' = FALSE
    /\ UNCHANGED <<now, gh, stored, table, plan, repo, offset, listed, pending, runsOk, failed, req, gaveUp, disturbed, overtaken>>

NextRepo ==
    /\ pc = "next"
    /\ \E r \in todo : repo' = r /\ todo' = todo \ {r}
    /\ pc' = "list"
    /\ offset' = 0
    /\ listed' = Zero
    /\ UNCHANGED <<now, gh, stored, table, plan, pending, runsOk, failed, complete, req, gaveUp, disturbed, overtaken>>

OnPage(p) == p \in Closed(repo) /\ offset <= Rank(repo, p) /\ Rank(repo, p) < offset + Page
LastPage ==
    \/ Cardinality(Closed(repo)) <= offset + Page
    \/ /\ \E p \in PR : OnPage(p)
       /\ \A p \in PR : OnPage(p) => updated[p] < since
Collected == [p \in PR |-> IF OnPage(p) /\ ended[p] >= Cutoff(passNow) THEN ended[p] ELSE listed[p]]

\* One page of _fetch_closed_prs; after the last one the stored pull requests
\* are skipped, and the merge_group runs are only fetched if any is left.
ListPage ==
    /\ pc = "list"
    /\ listed' = Collected
    /\ IF LastPage
         THEN /\ pending' = {p \in PR : listed'[p] # 0 /\ (force \/ stored[p] = 0)}
              /\ pc' = IF pending' = {} THEN "prune" ELSE "runs"
              /\ offset' = 0
         ELSE /\ offset' = offset + Page
              /\ UNCHANGED <<pc, pending>>
    /\ UNCHANGED <<now, gh, stored, table, plan, todo, repo, runsOk, failed, complete, req, gaveUp, disturbed, overtaken>>

\* A page failed: the repository is left alone, its expired rows included.
ListFails ==
    /\ pc = "list"
    /\ complete' = FALSE
    /\ pc' = "next"
    /\ repo' = NoRepo
    /\ offset' = 0
    /\ listed' = Zero
    /\ UNCHANGED <<now, gh, stored, table, plan, todo, pending, runsOk, failed, req, gaveUp, disturbed, overtaken>>

FetchRuns(ok) ==
    /\ pc = "runs"
    /\ pc' = "store"
    /\ runsOk' = ok
    /\ UNCHANGED <<now, gh, stored, table, plan, todo, repo, offset, listed, pending, failed, complete, req, gaveUp, disturbed, overtaken>>

\* _backfill_one and the two reasons to stop behind it: the rate limit and
\* --limit.  A stopped pass lists no further repository.
BackfillOne(p, ok, stop) ==
    /\ pc = "store"
    /\ p \in pending
    /\ ok => runsOk
    /\ stored' = IF ok THEN [stored EXCEPT ![p] = listed[p]] ELSE stored
    /\ failed' = IF ok THEN failed ELSE failed \cup {p}
    /\ gaveUp' = IF ok THEN gaveUp \ {p} ELSE gaveUp
    /\ pending' = IF stop THEN {} ELSE pending \ {p}
    /\ todo' = IF stop THEN {} ELSE todo
    /\ complete' = (complete /\ ~stop)
    /\ overtaken' = (req.pc # "idle" /\ (overtaken \/ ok))
    /\ pc' = IF pending' = {} THEN "prune" ELSE pc
    /\ UNCHANGED <<now, gh, table, plan, repo, offset, listed, runsOk, req, disturbed>>

Expired(p) == RepoOf[p] = repo /\ stored[p] < Cutoff(passNow)

Prune ==
    /\ pc = "prune"
    /\ stored' = IF full THEN [p \in PR |-> IF Expired(p) THEN 0 ELSE stored[p]] ELSE stored
    /\ pc' = "next"
    /\ repo' = NoRepo
    /\ listed' = Zero
    /\ runsOk' = FALSE
    /\ UNCHANGED <<now, gh, table, plan, todo, offset, pending, failed, complete, req, gaveUp, disturbed, overtaken>>

\* A pass over a part of the organisation, or one that stopped, moves nothing;
\* rows of passes before the retention window are dropped.
\* Mutant: a failed listing counts as an empty one.
CoversAlways == ~subset
Covers == complete /\ ~subset
Recorded(t, moves) == LET u == IF moves THEN passNow ELSE t
                      IN IF u < Cutoff(passNow) THEN 0 ELSE u
RecordRun ==
    /\ pc = "next"
    /\ todo = {}
    /\ coverage' = Recorded(coverage, Covers)
    /\ lastFull' = Recorded(lastFull, Covers /\ full)
    /\ gaveUp' = IF Covers THEN gaveUp \cup failed ELSE gaveUp
    /\ overtaken' = (req.pc # "idle")
    /\ ProcessEnds
    /\ UNCHANGED <<now, gh, stored, req, disturbed>>

\* The service is stopped, or the container restarts: no row is recorded.
Crash ==
    /\ pc # "idle"
    /\ ProcessEnds
    /\ UNCHANGED <<now, gh, stored, table, req, gaveUp, disturbed, overtaken>>

-----------------------------------------------------------------------------
(* A request for one pull request: the row, then the freshness, then the   *)
(* live lookup, each read on its own.                                      *)

ReqEnv == UNCHANGED <<now, gh, stored, table, pc, plan, work, gaveUp, disturbed>>

\* A stored row answers at once; only a miss goes on.
ReadRow(p) ==
    /\ p \in Asked
    /\ req.pc = "idle"
    /\ stored[p] = 0
    /\ req' = [pc |-> "freshness", pr |-> p, cov |-> 0]
    /\ overtaken' = FALSE
    /\ ReqEnv

ReadFreshness ==
    /\ req.pc = "freshness"
    /\ req' = [req EXCEPT !.pc = "live", !.cov = coverage]
    /\ UNCHANGED overtaken
    /\ ReqEnv

\* Mutant: every pass counts as one that covered its window.
MissStateAnyPass(e) ==
    CASE e = 0 -> "open"
      [] e # 0 /\ e < Cutoff(now) -> "outside_window"
      [] OTHER -> "missing"

\* _miss_state for the live answer e: when the pull request ended, 0 if open.
\* A cached answer is at most LIVE_CACHE_TTL_SECONDS old, less than a step of
\* the clock, so it is GitHub's answer of now.
MissState(e) ==
    CASE e = 0 -> "open"
      [] e # 0 /\ e < Cutoff(now) -> "outside_window"
      [] e # 0 /\ e >= Cutoff(now) /\ (req.cov = 0 \/ e > req.cov) -> "not_yet_fetched"
      [] OTHER -> "missing"

\* The lookup, _miss_state and the response.  A failed lookup is "missing" too,
\* with a sentence of its own that claims nothing about the pull request.
LiveLookup ==
    /\ req.pc = "live"
    /\ req' = NoReq
    /\ overtaken' = FALSE
    /\ ReqEnv

-----------------------------------------------------------------------------
Init ==
    /\ now = Start
    /\ ended = Zero
    /\ updated = Zero
    /\ stored = Zero
    /\ coverage = 0 /\ lastFull = 0
    /\ pc = "idle"
    /\ passNow = Start /\ full = FALSE /\ since = 0 /\ force = FALSE /\ subset = FALSE
    /\ todo = {} /\ repo = NoRepo /\ offset = 0 /\ listed = Zero
    /\ pending = {} /\ runsOk = FALSE /\ failed = {} /\ complete = FALSE
    /\ req = NoReq
    /\ gaveUp = {} /\ disturbed = {} /\ overtaken = FALSE

GitHub == \E p \in PR : PrEnds(p) \/ PrTouched(p) \/ PrReopens(p)
Begin == \E o \in Options : StartPass(o)
Step ==
    \/ ListRepos \/ NextRepo \/ ListPage \/ ListFails \/ Prune \/ RecordRun
    \/ \E ok \in BOOLEAN : FetchRuns(ok)
    \/ \E p \in PR, ok, stop \in BOOLEAN : BackfillOne(p, ok, stop)
Request == (\E p \in PR : ReadRow(p)) \/ ReadFreshness \/ LiveLookup

Next == Tick \/ GitHub \/ Begin \/ Step \/ Crash \/ Request
Spec == Init /\ [][Next]_vars

-----------------------------------------------------------------------------
\* Every variable keeps its type.
TypeOK ==
    /\ now \in Time
    /\ ended \in [PR -> Time] /\ updated \in [PR -> Time] /\ stored \in [PR -> Time]
    /\ coverage \in Time /\ lastFull \in Time
    /\ pc \in {"idle", "repos", "next", "list", "runs", "store", "prune"}
    /\ passNow \in Time /\ since \in Time
    /\ full \in BOOLEAN /\ force \in BOOLEAN /\ subset \in BOOLEAN
    /\ todo \subseteq Repo /\ repo \in Repo \cup {NoRepo}
    /\ offset \in Nat /\ listed \in [PR -> Time]
    /\ pending \subseteq PR /\ failed \subseteq PR
    /\ runsOk \in BOOLEAN /\ complete \in BOOLEAN
    /\ req \in [pc : {"idle", "freshness", "live"}, pr : PR \cup {0}, cov : Time]
    /\ gaveUp \subseteq PR /\ disturbed \subseteq PR /\ overtaken \in BOOLEAN

Excused(p) == p \in gaveUp \/ p \in disturbed

\* Coverage is a promise about rows: a pull request that ended inside the
\* covered window and inside the retention has a row, unless its own pages
\* failed, a reopening moved the list, or it was updated after the window
\* closed, in which case the next incremental pass lists it again.
NothingSlipsPast ==
    \A p \in PR :
      (/\ ended[p] # 0 /\ ended[p] <= coverage /\ ended[p] >= Cutoff(now)
       /\ stored[p] = 0 /\ ~Excused(p))
      => updated[p] >= coverage

\* The verdict "missing" blames the pass that covered the window
\* (_miss_state): when no pass wrote while the request was under way, the
\* pull request did end inside that window, and it failed there, was hidden
\* by a reopening, or was updated too late for the pass to list it.
MissingExplained ==
    [][(LiveLookup /\ MissState(ended[req.pr]) = "missing" /\ ~overtaken)
         => (/\ ended[req.pr] <= req.cov
             /\ Excused(req.pr) \/ updated[req.pr] >= req.cov)]_vars
=============================================================================
