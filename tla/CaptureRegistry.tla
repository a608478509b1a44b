--------------------------- MODULE CaptureRegistry ---------------------------
(***************************************************************************)
(* CaptureRegistry of monitoring/scripts/workflow-exporter.py, the poll    *)
(* that records which E2E runs left telemetry, and the verdict that        *)
(* ci_observe_runs.py draws from it: "capture", "not collected" (the only  *)
(* one that blames CI) or "unknown".                                       *)
(*                                                                         *)
(* Actors: the runs and the telemetry stores (external), the poller thread *)
(* and a request thread, which share the SQLite file and nothing else.     *)
(* One step is one HTTP query with the write that records it, one SQLite   *)
(* transaction or one SQLite read.  Times are clock ticks; 0 is "never".   *)
(***************************************************************************)
EXTENDS Integers

CONSTANTS
    Run,         \* E2E runs, each with at most one capture
    NSource,     \* number of sources; the last one is the info metric
    Start, End,  \* first and last clock tick
    Lag,         \* telemetry of a run arrives no later than this after its end
    Grace,       \* JUST_ENDED_SECONDS
    Stale,       \* STALE_SECONDS
    Retention,   \* retention of every source
    Margin,      \* the day coverage_from keeps clear of retention
    PruneAfter,  \* PRUNE_DAYS
    HistoryKeep, \* JOBS_HISTORY_DAYS: how long a run is in the job history
    Fault        \* "source", "db", "crash": the failures that may happen

ASSUME CaptureAssumption ==
    /\ NSource \in Nat \ {0}
    /\ Start \in Nat /\ End \in Nat /\ Start > Retention
    /\ Lag \in Nat /\ Grace \in Nat /\ Stale \in Nat
    /\ Retention \in Nat /\ Margin \in 0 .. Retention
    /\ PruneAfter \in Nat /\ HistoryKeep \in Nat
    /\ Fault \subseteq {"source", "db", "crash"}

VARIABLES
    now,        \* the clock
    created,    \* when each run was created
    done,       \* when it finished
    arrived,    \* when its capture became visible in each source
    seen,       \* captures table: last_seen_at of the run's capture
    identity,   \* captures table: rows whose identity_source is info
    coverage,   \* capture_source: coverage_from of each source
    lastOk,     \* capture_source: last_ok_at of each source
    poll,       \* where the poller is
    at,         \* the source it asks next
    t,          \* refresh()'s own now
    found,      \* captures of this refresh
    named,      \* those of them the info metric named
    dropped,    \* history: captures found by a refresh that ended before it stored them
    req,        \* where the request is
    reqNow,     \* the request's own now
    listed,     \* runs of the page it read
    captured,   \* those of them that had a capture
    source,     \* the source summary it read
    table,      \* the verdict of each listed run
    cards,      \* the verdict of each run as counted for the cards
    overlap     \* history: a refresh was in flight during this request

runVars  == <<created, done, arrived>>
dbVars   == <<seen, identity, coverage, lastOk>>
pollVars == <<poll, at, t, found, named, dropped>>
reqVars  == <<req, reqNow, listed, captured, source, table, cards, overlap>>
vars     == <<now, runVars, dbVars, pollVars, reqVars>>

Never   == 0
Source  == 1 .. NSource
Time    == Start .. End
MayTime == Time \cup {Never}
Info    == NSource
Verdicts == {"capture", "not collected", "unknown"}
NoSource == [ok |-> Never, from |-> Never]
None     == [r \in Run |-> "unlisted"]

------------------------------------------------------------------------------
(* The runs and their telemetry *)

Tick ==
    /\ now < End
    /\ now' = now + 1
    /\ UNCHANGED <<runVars, dbVars, pollVars, reqVars>>

RunStarts(r) ==
    /\ created[r] = Never
    /\ created' = [created EXCEPT ![r] = now]
    /\ UNCHANGED <<now, done, arrived, dbVars, pollVars, reqVars>>

RunFinishes(r) ==
    /\ created[r] # Never /\ done[r] = Never
    /\ done' = [done EXCEPT ![r] = now]
    /\ UNCHANGED <<now, created, arrived, dbVars, pollVars, reqVars>>

\* The capture action posts telemetry while the run lasts and at its end, and
\* the last batch may lag behind.
CaptureArrives(s, r) ==
    /\ created[r] # Never /\ arrived[s][r] = Never
    /\ done[r] # Never => now <= done[r] + Lag
    /\ arrived' = [arrived EXCEPT ![s][r] = now]
    /\ UNCHANGED <<now, created, done, dbVars, pollVars, reqVars>>

------------------------------------------------------------------------------
(* The poller: refresh() and poll_forever() *)

StartRefresh ==
    /\ poll = "sleep"
    /\ poll' = "fetch" /\ at' = 1 /\ t' = now
    /\ found' = {} /\ named' = {}
    /\ overlap' = (req # "idle")
    /\ UNCHANGED <<now, runVars, dbVars, dropped, req, reqNow, listed, captured, source, table, cards>>

\* A query for [t - Retention, t].  What became visible in the source after t
\* was read may be in the answer too, when its samples are older.
Answer(s) ==
    LET kept == {r \in Run : arrived[s][r] # Never /\ arrived[s][r] >= t - Retention}
        sure == {r \in kept : arrived[s][r] < t}
    IN {set \in SUBSET kept : sure \subseteq set}

\* coverage_from is written once, last_ok_at every time.
RecordSuccess(s) ==
    /\ lastOk' = [lastOk EXCEPT ![s] = t]
    /\ coverage' = [coverage EXCEPT ![s] = IF @ = Never THEN t - (Retention - Margin) ELSE @]

NextSource(l) ==
    /\ at' = IF at < NSource THEN at + 1 ELSE at
    /\ poll' = IF at < NSource THEN "fetch" ELSE l

\* Mutant: the answer of a source replaces those of the earlier ones.
FetchSourceReplaces ==
    /\ poll = "fetch"
    /\ \E set \in Answer(at) :
         /\ found' = set
         /\ named' = IF at = Info THEN set ELSE named
    /\ RecordSuccess(at)
    /\ NextSource("upsert")
    /\ UNCHANGED <<now, runVars, seen, identity, t, dropped, reqVars>>

\* The source answers; _record_success commits before the captures are stored.
FetchSource ==
    /\ poll = "fetch"
    /\ \E set \in Answer(at) :
         /\ found' = found \cup set
         /\ named' = IF at = Info THEN set ELSE named
    /\ RecordSuccess(at)
    /\ NextSource("upsert")
    /\ UNCHANGED <<now, runVars, seen, identity, t, dropped, reqVars>>

\* _record_failure keeps coverage_from and last_ok_at as they are.
SourceFails ==
    /\ "source" \in Fault
    /\ poll = "fetch"
    /\ NextSource("upsert")
    /\ UNCHANGED <<now, runVars, dbVars, t, found, named, dropped, reqVars>>

\* Mutant: INSERT OR REPLACE, the row takes what this refresh knows.
UpsertCapturesReplaces ==
    /\ poll = "upsert"
    /\ seen' = [r \in Run |-> IF r \in found THEN t ELSE seen[r]]
    /\ identity' = (identity \ found) \cup named
    /\ poll' = "prune"
    /\ dropped' = dropped \ found
    /\ UNCHANGED <<now, runVars, coverage, lastOk, at, t, found, named, reqVars>>

\* identity_source = CASE WHEN excluded is 'info' THEN 'info' ELSE captures'
UpsertCaptures ==
    /\ poll = "upsert"
    /\ seen' = [r \in Run |-> IF r \in found THEN t ELSE seen[r]]
    /\ identity' = identity \cup named
    /\ poll' = "prune"
    /\ dropped' = dropped \ found
    /\ UNCHANGED <<now, runVars, coverage, lastOk, at, t, found, named, reqVars>>

Expired == {r \in Run : seen[r] # Never /\ seen[r] < t - PruneAfter}

EndRefresh == poll' = "sleep" /\ at' = 1 /\ found' = {} /\ named' = {}

Prune ==
    /\ poll = "prune"
    /\ seen' = [r \in Run |-> IF r \in Expired THEN Never ELSE seen[r]]
    /\ identity' = identity \ Expired
    /\ EndRefresh
    /\ UNCHANGED <<now, runVars, coverage, lastOk, t, dropped, reqVars>>

\* The refresh ends here, with its successes recorded and its captures not.
DropRefresh ==
    /\ dropped' = IF poll = "prune" THEN dropped ELSE dropped \cup found
    /\ EndRefresh

\* A write raises ("database is locked"): poll_forever drops the refresh.
WriteFails ==
    /\ "db" \in Fault
    /\ poll # "sleep"
    /\ DropRefresh
    /\ UNCHANGED <<now, runVars, dbVars, t, reqVars>>

Poller ==
    \/ StartRefresh \/ FetchSource \/ SourceFails \/ UpsertCaptures \/ Prune \/ WriteFails

------------------------------------------------------------------------------
(* A request for /api/ci-observe/runs: CIObserveRuns.get_json *)

\* The job history has finished runs only, and prunes the old ones.
InHistory(r) == done[r] # Never /\ now - created[r] <= HistoryKeep

\* _state: every condition short of "not collected" gives "unknown".
Verdict(has, r, src, when) ==
    IF has THEN "capture"
    ELSE IF \/ when - done[r] < Grace
            \/ src.ok = Never
            \/ done[r] > src.ok
            \/ src.from = Never
            \/ when - src.ok > Stale
            \/ created[r] < src.from
         THEN "unknown"
    ELSE "not collected"

\* Mutant: the newest answer speaks for all sources.
SummaryNewest(src) ==
    LET answered == {lastOk[s] : s \in Source} \ {Never}
        covers   == {coverage[s] : s \in Source}
    IN /\ answered = {} => src.ok = Never
       /\ answered # {} => src.ok \in answered /\ \A x \in answered : x <= src.ok
       /\ Never \in covers => src.from = Never
       /\ Never \notin covers => src.from \in covers /\ \A x \in covers : x <= src.from

\* source_summary: the oldest answer of those that answered, and the latest
\* coverage_from once every source has one.
Summary(src) ==
    LET answered == {lastOk[s] : s \in Source} \ {Never}
        covers   == {coverage[s] : s \in Source}
    IN /\ answered = {} => src.ok = Never
       /\ answered # {} => src.ok \in answered /\ \A x \in answered : src.ok <= x
       /\ Never \in covers => src.from = Never
       /\ Never \notin covers => src.from \in covers /\ \A x \in covers : x <= src.from

ReadPage ==
    /\ req = "idle"
    /\ reqNow' = now
    /\ listed' = {r \in Run : InHistory(r)}
    /\ captured' = {r \in listed' : seen[r] # Never}
    /\ overlap' = (poll # "sleep")
    /\ req' = "source"
    /\ UNCHANGED <<now, runVars, dbVars, pollVars, source, table, cards>>

Summaries == [ok : {lastOk[s] : s \in Source} \cup {Never},
              from : {coverage[s] : s \in Source} \cup {Never}]

ReadSource ==
    /\ req = "source"
    /\ source' \in Summaries /\ Summary(source')
    /\ req' = "counts"
    /\ UNCHANGED <<now, runVars, dbVars, pollVars, reqNow, listed, captured, table, cards, overlap>>

VerdictsOf(set, has, when) ==
    [r \in Run |-> IF r \in set THEN Verdict(r \in has, r, source, when) ELSE "unlisted"]

\* Mutant: the cards take the clock when they are counted.
ReadCountsLater ==
    /\ req = "counts"
    /\ table' = VerdictsOf(listed, captured, reqNow)
    /\ cards' = VerdictsOf({r \in Run : InHistory(r)}, {r \in Run : seen[r] # Never}, now)
    /\ req' = "done"
    /\ UNCHANGED <<now, runVars, dbVars, pollVars, reqNow, listed, captured, source, overlap>>

\* _verdict_counts reads the whole window again; the rules are those of the table.
ReadCounts ==
    /\ req = "counts"
    /\ table' = VerdictsOf(listed, captured, reqNow)
    /\ cards' = VerdictsOf({r \in Run : InHistory(r)}, {r \in Run : seen[r] # Never}, reqNow)
    /\ req' = "done"
    /\ UNCHANGED <<now, runVars, dbVars, pollVars, reqNow, listed, captured, source, overlap>>

ReqClear ==
    /\ req' = "idle" /\ reqNow' = Start /\ listed' = {} /\ captured' = {}
    /\ source' = NoSource /\ table' = None /\ cards' = None /\ overlap' = FALSE

Respond ==
    /\ req = "done"
    /\ ReqClear
    /\ UNCHANGED <<now, runVars, dbVars, pollVars>>

Request == ReadPage \/ ReadSource \/ ReadCounts \/ Respond

\* The exporter dies and is restarted: only the database survives.
Crash ==
    /\ "crash" \in Fault
    /\ DropRefresh /\ ReqClear
    /\ UNCHANGED <<now, runVars, dbVars, t>>

------------------------------------------------------------------------------

Init ==
    /\ now = Start
    /\ created = [r \in Run |-> Never] /\ done = [r \in Run |-> Never]
    /\ arrived = [s \in Source |-> [r \in Run |-> Never]]
    /\ seen = [r \in Run |-> Never] /\ identity = {}
    /\ coverage = [s \in Source |-> Never] /\ lastOk = [s \in Source |-> Never]
    /\ poll = "sleep" /\ at = 1 /\ t = Start /\ found = {} /\ named = {}
    /\ dropped = {}
    /\ req = "idle" /\ reqNow = Start /\ listed = {} /\ captured = {}
    /\ source = NoSource /\ table = None /\ cards = None /\ overlap = FALSE

World ==
    \/ Tick
    \/ \E r \in Run : RunStarts(r) \/ RunFinishes(r) \/ \E s \in Source : CaptureArrives(s, r)

Next == World \/ Poller \/ Request \/ Crash

Spec == Init /\ [][Next]_vars

------------------------------------------------------------------------------
(* Properties *)

ClockType == now \in Nat /\ t \in Nat /\ reqNow \in Nat
WorldType ==
    /\ created \in [Run -> Nat] /\ done \in [Run -> Nat]
    /\ arrived \in [Source -> [Run -> Nat]]
RegistryType ==
    /\ seen \in [Run -> Nat] /\ identity \subseteq Run
    /\ coverage \in [Source -> Nat] /\ lastOk \in [Source -> Nat]
PollType ==
    /\ poll \in {"sleep", "fetch", "upsert", "prune"} /\ at \in Source
    /\ found \subseteq Run /\ named \subseteq Run /\ dropped \subseteq Run
RequestType ==
    /\ req \in {"idle", "source", "counts", "done"}
    /\ listed \subseteq Run /\ captured \subseteq listed
    /\ source \in [ok : Nat, from : Nat]
    /\ table \in [Run -> Verdicts \cup {"unlisted"}] /\ cards \in [Run -> Verdicts \cup {"unlisted"}]
    /\ overlap \in BOOLEAN

\* The domains of the variables.
TypeOK == ClockType /\ WorldType /\ RegistryType /\ PollType /\ RequestType

\* "not collected" rests on the last answer of every source: no telemetry of the
\* run had arrived in any of them when the oldest of these answers was asked for
\* (verdict, source_summary), unless a refresh that found it ended unstored.
AbsenceAsAnswered ==
    \A r \in Run : table[r] = "not collected" =>
        r \in dropped \/ \A s \in Source : arrived[s][r] = Never \/ arrived[s][r] >= source.ok

\* The same, of a request that no refresh overlaps.
QuietAbsenceAsAnswered == ~overlap => AbsenceAsAnswered

HasArrived(r) == \E s \in Source : arrived[s][r] # Never

\* "not collected" is only answered for a run none of whose telemetry arrived:
\* "the page never blames CI for an unproven absence" (verdict's docstring).
AbsenceProven == \A r \in Run : table[r] = "not collected" => ~HasArrived(r)

\* The same, of a request that no refresh overlaps.
QuietAbsenceProven == ~overlap => AbsenceProven

\* "the cards and the table can never disagree about a run" (_verdict_counts).
CardsMatchTable ==
    \A r \in Run : table[r] # "unlisted" /\ cards[r] # "unlisted" => table[r] = cards[r]

\* The same, of a request that no refresh overlaps.
QuietCardsMatchTable == ~overlap => CardsMatchTable

\* "An upsert never empties a known field": an identity, once known, stays until
\* its capture is pruned, also when the info metric stops answering.
IdentityKept == [][\A r \in identity : r \in identity' \/ seen'[r] = Never]_vars

\* poll_forever is a loop and every query has a timeout.
FairSpec == Spec /\ WF_vars(Poller)

\* A failing write or a crash ends the refresh before it stores what it found.
CutOff == poll \in {"fetch", "upsert"} /\ poll' = "sleep"

\* From some time on source s answers whenever it is asked, and no refresh is cut off.
Recovers(s) == <>[][~CutOff /\ ~(SourceFails /\ at = s)]_vars

\* A capture that has been in any one source for a tick is eventually registered
\* once that source answers again and writes succeed, whatever the other sources
\* do (refresh() goes on after a source fails).
CaptureEventuallyRegistered ==
    \A s \in Source, r \in Run :
        Recovers(s) => ((arrived[s][r] # Never /\ arrived[s][r] < now) ~> (seen[r] # Never))
====
