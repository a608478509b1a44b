------------------------------ MODULE PrRecords ------------------------------
(***************************************************************************)
(* What ci_observe_prs.py derives from the life of one pull request: the   *)
(* record and the queue attempts the backfill writes once it has ended     *)
(* (_build_pr_record, _build_attempts, _write_pr), the same two read live  *)
(* from GitHub and the job history (_live_detail, _attempts_from_runs),    *)
(* and the five stages of the page (_stages).                              *)
(*                                                                         *)
(* The state is the life itself; the documents are operators of it.  Time  *)
(* 0 stands for a missing timestamp and Unknown for a missing duration.    *)
(***************************************************************************)
EXTENDS Integers, Sequences, FiniteSets, FiniteSetsExt, SequencesExt

CONSTANTS
    Workflow,    \* the workflows a queue entry starts
    Required,    \* those the merge queue waits for
    E2E,         \* those the exporter's job history holds
    Conclusion,  \* how a run can end
    MaxTime,     \* bound on the clock
    MaxReviews,  \* bound on the reviews
    MaxEntries   \* bound on the queue entries

VARIABLES
    now,      \* the clock; the pull request was opened at 1
    reviews,  \* submitted reviews
    entries,  \* merge-queue entries, oldest first: when they began and their runs
    state,    \* open, merged or closed
    endedAt   \* merged_at or closed_at

vars == <<now, reviews, entries, state, endedAt>>

Unknown == -1
Failing == {"failure", "timed_out", "startup_failure", "action_required"}
None == "none"   \* no conclusion yet, of a run or of an attempt
Pending == [done |-> 0, conclusion |-> None]

-----------------------------------------------------------------------------
(* The life of a pull request on GitHub.                                   *)

Tick ==
    /\ now < MaxTime
    /\ now' = now + 1
    /\ UNCHANGED <<reviews, entries, state, endedAt>>

\* A human review; _build_pr_record drops the others.
Review(kind) ==
    /\ state = "open"
    /\ Cardinality(reviews) < MaxReviews
    /\ reviews' = reviews \cup {[at |-> now, kind |-> kind]}
    /\ UNCHANGED <<now, entries, state, endedAt>>

Running(e) == \E w \in Workflow : e.runs[w].done = 0
InQueue == entries # <<>> /\ Running(Last(entries))

Enqueue ==
    /\ state = "open"
    /\ Len(entries) < MaxEntries
    /\ ~InQueue
    /\ entries' = Append(entries, [began |-> now, runs |-> [w \in Workflow |-> Pending]])
    /\ UNCHANGED <<now, reviews, state, endedAt>>

RunEnds(w, c) ==
    /\ InQueue
    /\ Last(entries).runs[w].done = 0
    /\ entries' = [entries EXCEPT ![Len(entries)].runs[w] = [done |-> now, conclusion |-> c]]
    /\ UNCHANGED <<now, reviews, state, endedAt>>

\* GitHub merges once the required runs passed; the others may still run.
Merge ==
    /\ state = "open"
    /\ entries # <<>>
    /\ \A w \in Required : Last(entries).runs[w].conclusion \in {"success", "skipped"}
    /\ state' = "merged"
    /\ endedAt' = now
    /\ UNCHANGED <<now, reviews, entries>>

Close ==
    /\ state = "open"
    /\ state' = "closed"
    /\ endedAt' = now
    /\ UNCHANGED <<now, reviews, entries>>

-----------------------------------------------------------------------------
(* Durations, conclusions and the last stage reached.                      *)

\* seconds_between: a missing boundary is unknown, a negative one is zero.
SecondsBetween(start, end) ==
    IF start = 0 \/ end = 0 THEN Unknown ELSE IF end > start THEN end - start ELSE 0

Earliest(S) == IF S = {} THEN 0 ELSE Min(S)
Latest(S) == IF S = {} THEN 0 ELSE Max(S)

\* _entry_conclusion over the conclusions of a group of runs.
\* Mutant: a cancellation outranks the failure that caused it, and a skipped
\* workflow is no pass.
EntryConclusionNoSkip(cs) ==
    CASE cs \cap Failing # {} -> CHOOSE c \in cs \cap Failing : TRUE
      [] cs \cap Failing = {} /\ cs \cap {"cancelled", "skipped"} # {} -> "cancelled"
      [] OTHER -> IF cs = {"success"} THEN "success" ELSE None
EntryConclusion(cs) ==
    CASE cs \cap Failing # {} -> CHOOSE c \in cs \cap Failing : TRUE
      [] cs \cap Failing = {} /\ "cancelled" \in cs -> "cancelled"
      [] OTHER -> IF cs # {} /\ cs \subseteq {"success", "skipped", "neutral"} THEN "success" ELSE None

FinalStage(rec) ==
    CASE rec.state = "merged" -> "merged"
      [] rec.state = "open" -> IF rec.queued # 0 THEN "open in queue" ELSE "open"
      [] OTHER -> IF rec.queued # 0 THEN "closed in queue"
                  ELSE IF rec.approval # 0 THEN "closed after approval"
                  ELSE IF rec.review # 0 THEN "closed in review" ELSE "closed in authoring"

-----------------------------------------------------------------------------
(* The stored record and its attempts.                                     *)

\* _build_pr_record: the first review and the first approval.
BuildPrRecord ==
    LET review == Earliest({r.at : r \in reviews})
        approval == Earliest({a.at : a \in {r \in reviews : r.kind = "APPROVED"}})
    IN [state |-> state, opened |-> 1, review |-> review, approval |-> approval,
        queued |-> 0, last |-> 0, ended |-> endedAt, asOf |-> 0,
        authoring |-> SecondsBetween(1, review), reviewing |-> SecondsBetween(review, approval),
        waiting |-> Unknown, queue |-> Unknown, merged |-> Unknown,
        total |-> SecondsBetween(1, IF endedAt # 0 THEN endedAt ELSE now)]

\* _build_attempts groups the runs of one entry by branch and commit;
\* _build_attempt ends the attempt when every run has, and calls it ejected
\* when it failed or another entry follows.
Attempt(i) ==
    LET runs == entries[i].runs
        conclusion == EntryConclusion({runs[w].conclusion : w \in Workflow})
    IN [started |-> entries[i].began,
        completed |-> IF Running(entries[i]) THEN 0 ELSE Latest({runs[w].done : w \in Workflow}),
        conclusion |-> conclusion,
        ejected |-> conclusion \notin {None, "success"} \/ i < Len(entries)]
Attempts == [i \in 1..Len(entries) |-> Attempt(i)]

\* _write_pr: the queue runs from the first start to the last completion, and
\* the merge from there to merged_at.
\* Mutant: the queue runs up to merged_at, and so does the merge.
QueueTimesTwice(rec, done) ==
    [rec EXCEPT !.last = done,
                !.waiting = SecondsBetween(rec.approval, rec.queued),
                !.queue = SecondsBetween(rec.queued, rec.ended),
                !.merged = IF rec.state = "merged" THEN SecondsBetween(done, rec.ended) ELSE Unknown]
QueueTimes(rec, done) ==
    [rec EXCEPT !.last = done,
                !.waiting = SecondsBetween(rec.approval, rec.queued),
                !.queue = SecondsBetween(rec.queued, done),
                !.merged = IF rec.state = "merged" THEN SecondsBetween(done, rec.ended) ELSE Unknown]
WritePr ==
    IF entries = <<>> THEN BuildPrRecord
    ELSE QueueTimes([BuildPrRecord EXCEPT !.queued = Attempts[1].started],
                    Latest({Attempts[i].completed : i \in DOMAIN Attempts}))

-----------------------------------------------------------------------------
(* The live record: the same reviews, and the runs the job history holds.  *)
(* A run is in the job history once it completed.                          *)

Held(i) == {w \in E2E : entries[i].runs[w].done # 0}
HeldEntries == {i \in DOMAIN entries : Held(i) # {}}
LiveDone == Latest(UNION {{entries[i].runs[w].done : w \in Held(i)} : i \in HeldEntries})

\* _live_detail: an open pull request measures its running stage up to now.
LiveDetail ==
    LET rec == [BuildPrRecord EXCEPT !.asOf = now]
        queued == [rec EXCEPT !.queued = Earliest({entries[i].began : i \in HeldEntries}), !.last = LiveDone]
    IN IF HeldEntries # {}
         THEN [queued EXCEPT
                 !.waiting = SecondsBetween(queued.approval, queued.queued),
                 !.queue = SecondsBetween(queued.queued, IF state = "open" THEN now ELSE LiveDone),
                 !.merged = IF state = "merged" THEN SecondsBetween(LiveDone, endedAt) ELSE Unknown]
         ELSE [rec EXCEPT !.waiting = IF state = "open" THEN SecondsBetween(rec.approval, now) ELSE Unknown]

\* _attempts_from_runs: the conclusion is the only ejection signal.
LiveEjected(i) ==
    EntryConclusion({entries[i].runs[w].conclusion : w \in Held(i)}) \notin {None, "success", "skipped", "neutral"}

-----------------------------------------------------------------------------
(* _stages: measured, unknown or not reached, with the boundaries shown.   *)

Stages == {"authoring", "review", "waiting", "queue", "merged"}
Open(rec) == rec.state = "open" /\ rec.asOf # 0
Boundaries(rec) ==
    [authoring |-> <<rec.opened, rec.review, rec.authoring>>,
     review    |-> <<rec.review, rec.approval, rec.reviewing>>,
     waiting   |-> <<rec.approval,
                     IF Open(rec) /\ rec.approval # 0 /\ rec.queued = 0 THEN rec.asOf ELSE rec.queued,
                     rec.waiting>>,
     queue     |-> <<rec.queued, IF Open(rec) /\ rec.queued # 0 THEN rec.asOf ELSE rec.last, rec.queue>>,
     merged    |-> <<rec.last, IF rec.state = "merged" THEN rec.ended ELSE 0, rec.merged>>]

StageState(rec, s) ==
    LET b == Boundaries(rec)[s]
    IN CASE s = "merged" -> IF rec.state # "merged" THEN "not_reached"
                            ELSE IF rec.last = 0 THEN "unknown" ELSE "measured"
         [] s = "queue" /\ rec.queued = 0 -> "not_reached"
         [] s \in {"review", "waiting"} /\ b[1] = 0 -> "not_reached"
         [] OTHER -> IF b[3] = Unknown THEN "unknown" ELSE "measured"

Documents == {LiveDetail} \cup (IF state = "open" THEN {} ELSE {WritePr})
Measured(rec) == {s \in Stages : StageState(rec, s) = "measured"}
MeasuredTime(rec) ==
    LET measured == Measured(rec)
        of(s) == IF s \in measured THEN Boundaries(rec)[s][3] ELSE 0
    IN  of("authoring") + of("review") + of("waiting") + of("queue") + of("merged")

-----------------------------------------------------------------------------
Init ==
    /\ now = 1
    /\ reviews = {}
    /\ entries = <<>>
    /\ state = "open"
    /\ endedAt = 0

Next ==
    \/ Tick \/ Enqueue \/ Merge \/ Close
    \/ \E kind \in {"APPROVED", "COMMENTED"} : Review(kind)
    \/ \E w \in Workflow, c \in Conclusion : RunEnds(w, c)

Spec == Init /\ [][Next]_vars

-----------------------------------------------------------------------------
InOrder(rec) ==
    LET moments == <<rec.opened, rec.review, rec.approval, rec.queued, rec.last, rec.ended>>
    IN \A i, j \in 1..6 : i < j /\ moments[i] # 0 /\ moments[j] # 0 => moments[i] <= moments[j]

\* A stage the page calls measured lasts as long as the two moments shown for
\* it are apart, in the stored document as in the live one (_stages takes
\* boundaries and durations from different fields).  And no time is counted
\* twice: when the moments of a pull request follow each other, the measured
\* stages fit into its total, and fill it when all five were measured (the
\* comment in _write_pr on queue_seconds).
StagesConsistent ==
    \A rec \in Documents :
      /\ \A s \in Measured(rec) :
           LET b == Boundaries(rec)[s] IN b[3] # Unknown /\ b[3] = SecondsBetween(b[1], b[2])
      /\ InOrder(rec) => /\ MeasuredTime(rec) <= rec.total
                         /\ Measured(rec) = Stages => MeasuredTime(rec) = rec.total

\* One queue entry is one attempt however many workflows it starts: of a merged
\* pull request all attempts but the last were ejected, and the last was
\* not, unless a workflow the queue did not wait for went wrong.  The live
\* page sees only the end-to-end runs of an entry; an ejection it shows is
\* still there when the backfill has stored the whole entry.
AttemptsConsistent ==
    /\ (/\ state = "merged"
        /\ \A w \in Workflow : Last(entries).runs[w].conclusion \in {None, "success", "skipped"})
       => {i \in DOMAIN Attempts : Attempts[i].ejected} = 1..(Len(entries) - 1)
    /\ \A i \in HeldEntries : LiveEjected(i) => Attempts[i].ejected
=============================================================================
