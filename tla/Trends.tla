------------------------------- MODULE Trends -------------------------------
(***************************************************************************)
(* The per-test history of CI Observe (ci_observe_trends.py): a daily pass *)
(* lists the E2E runs the exporter has recorded, reads the JUnit artifacts *)
(* GitHub still has of each, and replaces the rows of whole days in        *)
(* trends.db.  Artifacts expire after Retention days, so the table is the  *)
(* only copy of older outcomes.  The compare and the history endpoint read *)
(* it (compare_document, ci_observe_history.py).                           *)
(*                                                                         *)
(* Names, labels and durations are abstracted: a row is told apart by its  *)
(* day, workflow label, test, source SHA and run.                          *)
(***************************************************************************)
EXTENDS Integers, FiniteSets, FiniteSetsExt

CONSTANTS
    Run,            \* the ids of the workflow runs, in order of creation
    Artifact,       \* the JUnit artifacts one run may have, one per suite
    Test,           \* the test ids
    Content,        \* [Run -> [Artifact -> [Test -> "pass", "fail", "skip" or "none"]]]
    World,          \* what the runs may be: see world
    MaxArtifacts,   \* MAX_ARTIFACTS_PER_RUN
    Retention,      \* ARTIFACT_RETENTION_DAYS
    LastDay         \* bound of the clock

VARIABLES
    world,          \* per run the day it is created, its source SHA, and the exporter
                    \* rows it gets, each [own, e2e, sha: BOOLEAN]; it never changes
    today,          \* the UTC day
    rows,           \* [Run -> rows of the exporter's jobs table naming that run]
    art,            \* [Run -> [Artifact -> "absent", "live" or "expired"]]
    db,             \* trends.db: its three tables
    pass            \* the rollup process
vars == <<world, today, rows, art, db, pass>>

NoSha == "none"
Idle == [pc |-> "idle"]
Empty == [rollup |-> {}, runs |-> {}, days |-> {}]

DayOf(r) == world[r].day
ShaOf(r) == world[r].sha

Init ==
    /\ world \in World
    /\ today = 0
    /\ rows = [r \in Run |-> {}]
    /\ art = [r \in Run |-> [a \in Artifact |-> "absent"]]
    /\ db = Empty
    /\ pass = Idle

-----------------------------------------------------------------------------
(* GitHub, the exporter and the clock. *)

Tick == today < LastDay /\ today' = today + 1 /\ UNCHANGED <<rows, art, db, pass>>

\* A run (or a rerun of it) uploads the artifact of one suite.
Upload(r, a) ==
    /\ DayOf(r) <= today /\ today < DayOf(r) + Retention
    /\ art[r][a] = "absent" /\ \E t \in Test : Content[r][a][t] # "none"
    /\ art' = [art EXCEPT ![r][a] = "live"]
    /\ UNCHANGED <<today, rows, db, pass>>

Expire(r, a) ==
    /\ art[r][a] = "live" /\ today >= DayOf(r) + Retention
    /\ art' = [art EXCEPT ![r][a] = "expired"]
    /\ UNCHANGED <<today, rows, db, pass>>

\* The exporter records rows one by one; a suite's row may come first and
\* may carry no SHA.
StoreRow(r, x) ==
    /\ DayOf(r) <= today /\ x \notin rows[r]
    /\ rows' = [rows EXCEPT ![r] = @ \cup {x}]
    /\ UNCHANGED <<today, art, db, pass>>

PruneRows(r) ==
    /\ rows[r] # {} /\ today >= DayOf(r) + Retention
    /\ rows' = [rows EXCEPT ![r] = {}]
    /\ UNCHANGED <<today, art, db, pass>>

-----------------------------------------------------------------------------
(* The rollup: candidate_runs, ArtifactFetcher, rollup_rows, write_day. *)

\* Any non-empty SHA of the run's rows; the rows of a run carry the same one.
SourceSha(r) == IF \E x \in rows[r] : x.sha THEN ShaOf(r) ELSE NoSha
\* The run-level row labels the run when it is stored.
Label(r) == IF \E x \in rows[r] : x.own THEN "run" ELSE "suites"

CandidateRuns(days) ==
    {[run |-> r, day |-> DayOf(r), sha |-> SourceSha(r), label |-> Label(r)] :
        r \in {q \in Run : DayOf(q) \in days /\ \E x \in rows[q] : x.e2e}}

\* The outcomes in the artifacts read: a failure wins, a skip is left out.
Parse(r, read) ==
    {[test |-> t, passed |-> \A a \in read : Content[r][a][t] # "fail"] :
        t \in {u \in Test : \E a \in read : Content[r][a][u] \in {"pass", "fail"}}}

\* One row per test of a parsed run, and their aggregate per test and SHA.
TestRunRows(runs, got) ==
    UNION {{[day |-> c.day, label |-> c.label, sha |-> c.sha, run |-> c.run,
             test |-> k.test, passed |-> k.passed] : k \in got[c.run]} : c \in runs}

Key(x) == [day |-> x.day, label |-> x.label, sha |-> x.sha, test |-> x.test]

RollupRows(runs, got) ==
    LET all == TestRunRows(runs, got)
        Count(k, S) == Cardinality({x \in S : Key(x) = k})
    IN  {[key |-> k, runs |-> Count(k, all),
          passes |-> Count(k, {x \in all : x.passed}),
          failures |-> Count(k, {x \in all : ~x.passed})] : k \in {Key(x) : x \in all}}

\* Mutant: test_runs is forgotten.
PrunedRollupOnly(d, cutoff) ==
    [rollup |-> {x \in d.rollup : x.key.day >= cutoff}, runs |-> d.runs,
     days |-> {x \in d.days : x.day >= cutoff}]

\* prune_old_days.
Pruned(d, cutoff) ==
    [rollup |-> {x \in d.rollup : x.key.day >= cutoff},
     runs |-> {x \in d.runs : x.day >= cutoff},
     days |-> {x \in d.days : x.day >= cutoff}]

\* The days a pass covers: one (--day) or the whole window.
Window == {d \in 0..LastDay : today - Retention <= d}

\* main, up to the first fetch: the listing, then the prune.
Start(days, force) ==
    /\ pass = Idle
    /\ db' = Pruned(db, today - Retention)
    /\ LET runs == CandidateRuns(days)
       IN  pass' = IF runs = {} THEN Idle
                   ELSE [pc |-> "fetch", runs |-> runs, today |-> today, force |-> force, clean |-> TRUE,
                         got |-> [r \in {c.run : c \in runs} |-> {}], left |-> {c.run : c \in runs}]
    /\ UNCHANGED <<today, rows, art>>

\* ArtifactFetcher.fetch: every artifact not read (listing failed, expired,
\* too large, download failed, unreadable) is left out.
Fetch(r, read) ==
    /\ pass.pc = "fetch" /\ r = Min(pass.left)
    /\ \A a \in read : art[r][a] = "live"
    /\ Cardinality(read) <= MaxArtifacts
    /\ pass' = [pass EXCEPT !.got[r] = Parse(r, read), !.left = @ \ {r},
                            !.clean = @ /\ read = {a \in Artifact : art[r][a] # "absent"},
                            !.pc = IF pass.left = {r} THEN "write" ELSE "fetch"]
    /\ UNCHANGED <<today, rows, art, db>>

Listed == {c.day : c \in pass.runs}
DayRuns(d) == {c \in pass.runs : c.day = d}
ParsedIds(d) == {c.run : c \in {x \in DayRuns(d) : pass.got[x.run] # {}}}

\* Mutant: as many runs are as good, the mistake the docstring warns of.
CountIsEnough(previous, current) == Cardinality(previous) <= Cardinality(current)

DayIsSuperset(previous, current) == previous \subseteq current
\* Mutant: a stored day is never replaced.
KeepsStoredAlways(d) == ~pass.force /\ \E p \in db.days : p.day = d

KeepsStored(d) ==
    \E p \in db.days : /\ p.day = d /\ ~pass.force
                       /\ \/ ~DayIsSuperset(p.ids, ParsedIds(d))
                          \/ p.parsed > Cardinality(ParsedIds(d))

\* write_day: one transaction replaces the day in all three tables.
DayWritten(d) ==
    [rollup |-> {x \in db.rollup : x.key.day # d} \cup RollupRows(DayRuns(d), pass.got),
     runs |-> {x \in db.runs : x.day # d} \cup TestRunRows(DayRuns(d), pass.got),
     days |-> {x \in db.days : x.day # d} \cup
              {[day |-> d, listed |-> Cardinality(DayRuns(d)),
                parsed |-> Cardinality(ParsedIds(d)), ids |-> ParsedIds(d)]}]

\* The days are written in order, each one on its own.
WriteDay(d) ==
    /\ pass.pc = "write"
    /\ d = Min(Listed)
    /\ db' = IF KeepsStored(d) THEN db ELSE DayWritten(d)
    /\ LET rest == {c \in pass.runs : c.day # d}
       IN  pass' = IF rest = {} THEN Idle ELSE [pass EXCEPT !.runs = rest]
    /\ UNCHANGED <<today, rows, art>>

Crash ==
    /\ pass.pc \in {"fetch", "write"}
    /\ pass' = Idle
    /\ UNCHANGED <<today, rows, art, db>>

Next ==
    /\ UNCHANGED world
    /\ \/ Tick
       \/ \E r \in Run, a \in Artifact : Upload(r, a) \/ Expire(r, a)
       \/ \E r \in Run : PruneRows(r) \/ \E x \in world[r].rows : StoreRow(r, x)
       \/ \E force \in BOOLEAN : Start(Window, force) \/ \E d \in Window : Start({d}, force)
       \/ \E r \in Run, read \in SUBSET Artifact : Fetch(r, read)
       \/ \E d \in 0..LastDay : WriteDay(d)
       \/ Crash

Spec == Init /\ [][Next]_vars

-----------------------------------------------------------------------------
(* What the endpoints answer. *)

\* One count of the rows, added up.
SumOf(list, count) == MapThenSumSet(LAMBDA x : x[count], list)

\* sha_totals: one revision's tests over the window's days.
ShaTotals(sha, from) ==
    LET mine == {x \in db.rollup : x.key.sha = sha /\ x.key.day >= from}
        Of(id) == {x \in mine : x.key.label = id[1] /\ x.key.test = id[2]}
    IN  [id \in {<<x.key.label, x.key.test>> : x \in mine} |->
            [runs |-> SumOf(Of(id), "runs"),
             failures |-> SumOf(Of(id), "failures")]]

\* compare_rows: the tests of both revisions, and those of one only.
CompareDocument(base, head, from) ==
    LET b == ShaTotals(base, from)
        h == ShaTotals(head, from)
    IN  [both |-> [id \in DOMAIN b \cap DOMAIN h |-> h[id].failures - b[id].failures],
         onlyBase |-> DOMAIN b \ DOMAIN h, onlyHead |-> DOMAIN h \ DOMAIN b]

\* _test_history: counts from the rollup, durations and recent runs from
\* the rows behind it.
TestHistory(t, from) ==
    LET mine == {x \in db.rollup : x.key.test = t /\ x.key.day >= from}
    IN  [runs |-> SumOf(mine, "runs"),
         passes |-> SumOf(mine, "passes"),
         failures |-> SumOf(mine, "failures"),
         recent |-> {x \in db.runs : x.test = t /\ x.day >= from}]

-----------------------------------------------------------------------------
(* Properties. *)

\* A run whose outcomes are stored stays stored until its day leaves the
\* retention window, whatever expires, fails or crashes meanwhile; only a
\* pass with --force may drop it (main, "the only copy").
OutcomesKeptStep ==
    \A p \in db.days : p.day >= today - Retention =>
        \/ \E q \in db'.days : q.day = p.day /\ p.ids \subseteq q.ids
        \/ pass.pc = "write" /\ pass.force
OutcomesKept == [][OutcomesKeptStep]_vars

\* A pass that read everything corrects the day it writes, over whatever
\* partial, forced or interrupted passes left there: a day well inside the
\* window is never refused to it (main, the two guards).
CleanPassRepairsStep ==
    \A d \in 0..LastDay : (WriteDay(d) /\ pass.clean /\ d > pass.today - Retention) =>
        \A c \in DayRuns(d) :
            {[test |-> x.test, passed |-> x.passed] : x \in {y \in db'.runs : y.run = c.run}} = pass.got[c.run]
CleanPassRepairs == [][CleanPassRepairsStep]_vars

\* The documents agree: the totals behind compare and history are the
\* number of stored runs of that test and revision, over any window.
DocumentsAgree ==
    \A from \in 0..LastDay :
        /\ \A t \in Test : LET h == TestHistory(t, from)
                           IN  /\ h.runs = Cardinality(h.recent)
                               /\ h.passes + h.failures = h.runs
        /\ \A b, s \in {ShaOf(r) : r \in Run} :
              LET doc == CompareDocument(b, s, from)
                  Failed(sha, id) == Cardinality({x \in db.runs : x.sha = sha /\ x.label = id[1]
                                        /\ x.test = id[2] /\ x.day >= from /\ ~x.passed})
              IN  /\ \A id \in DOMAIN doc.both : doc.both[id] = Failed(s, id) - Failed(b, id)
                  /\ \A id \in doc.onlyBase : ~\E x \in db.runs : x.sha = s /\ x.label = id[1]
                                        /\ x.test = id[2] /\ x.day >= from
=============================================================================
