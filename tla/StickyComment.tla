---------------------------- MODULE StickyComment ----------------------------
(***************************************************************************)
(* The sticky comment of a pull request: one section per end-to-end suite  *)
(* and a running total of what the diagnoses cost.  Three jobs edit it     *)
(* (Reserve when a run is requested, Diagnose or Mark Resolved when it is  *)
(* completed), each by a read-modify-write over the GitHub API with        *)
(* upsert-pr-comment.py in between.  Jobs of one concurrency group run one *)
(* after the other, in order (queue: max); jobs of different groups        *)
(* interleave.  Any call of a job may fail: nothing is tried again.        *)
(***************************************************************************)
EXTENDS Integers, Sequences

CONSTANTS
    Run,        \* end-to-end runs of one pull request
    Merge,      \* those of the merge queue
    Suite,
    SuiteOf,    \* the workflow of a run
    Group,
    GroupOf,    \* the concurrency group of its reporting jobs
    FindFault   \* the jobs whose lookup of the comment may fail

VARIABLES
    e2e,       \* a run: "idle", "running", "completed" or "cancelled"
    queue,     \* per group, the jobs waiting, the one at work first
    work,      \* per group, the step of that job and what it read
    comments,  \* the bot's sticky comments on the pull request, oldest first
    open,      \* the pull request is open
    stale,     \* the runs that belong to no head of an open pull request
    edits,     \* history: what all the edits made so far add up to
    missed     \* history: the runs a failed call left shown as running

vars == <<e2e, queue, work, comments, open, stale, edits, missed>>

Outcome == {"failure", "success", "skipped", "cancelled"}
None == [kind |-> "none"]
Empty == [section |-> [s \in Suite |-> None], cost |-> 0, count |-> 0]
Idle == [step |-> "resolve", body |-> Empty, id |-> 0, cost |-> 0]
Job(g) == Head(queue[g])
At(g, s) == queue[g] # <<>> /\ work[g].step = s

-----------------------------------------------------------------------------
(* End-to-end runs and the jobs they trigger.                              *)

\* "requested" triggers Reserve.
Requested(r) ==
    /\ e2e[r] = "idle"
    /\ open
    /\ e2e' = [e2e EXCEPT ![r] = "running"]
    /\ queue' = [queue EXCEPT ![GroupOf[r]] = Append(@, [run |-> r, kind |-> "reserve"])]
    /\ UNCHANGED <<work, comments, open, stale, edits, missed>>

\* "completed" triggers Diagnose after a failure with evidence, and Mark
\* Resolved after a success or when the suite never ran ("skipped"); a
\* cancelled run triggers neither.
\* Mutant: without evidence there is nothing to report.
ReportsWithEvidence(outcome) == outcome \notin {"cancelled", "skipped"}
Reports(outcome) == outcome # "cancelled"
JobOf(outcome) == IF outcome = "failure" THEN "diagnose" ELSE "resolved"
Completed(r, outcome) ==
    /\ e2e[r] = "running"
    /\ e2e' = [e2e EXCEPT ![r] = IF outcome = "cancelled" THEN "cancelled" ELSE "completed"]
    /\ queue' = IF ~Reports(outcome) THEN queue
                ELSE [queue EXCEPT ![GroupOf[r]] = Append(@, [run |-> r, kind |-> JobOf(outcome)])]
    /\ UNCHANGED <<work, comments, open, stale, edits, missed>>

PrCloses ==
    /\ open
    /\ open' = FALSE
    /\ stale' = Run
    /\ UNCHANGED <<e2e, queue, work, comments, edits, missed>>

\* A push moves the head of the pull request; a merge-queue run names the pull
\* request in its branch and keeps finding it.
Push ==
    /\ open
    /\ stale' = {r \in Run \ Merge : e2e[r] # "idle"}
    /\ stale' # stale
    /\ UNCHANGED <<e2e, queue, work, comments, open, edits, missed>>

EndJob(g) ==
    /\ queue' = [queue EXCEPT ![g] = Tail(@)]
    /\ work' = [work EXCEPT ![g] = Idle]

\* The comment shows the run as running.
Pending(r) == comments # <<>> /\ comments[1].section[SuiteOf[r]] = [run |-> r, kind |-> "reserve"]

\* The job ends without its edit.
GiveUp(g) ==
    /\ EndJob(g)
    /\ missed' = IF Pending(Job(g).run) THEN missed \cup {Job(g).run} ELSE missed

-----------------------------------------------------------------------------
(* The steps of a job.                                                     *)

\* resolve-pr-from-head-sha: the open pull request whose head the run tested,
\* or nothing; a failing run is diagnosed before the comment is looked up, at
\* a cost that may be unknown (0).
Resolve(g, cost) ==
    /\ At(g, "resolve")
    /\ Job(g).kind # "diagnose" => cost = 0
    /\ IF Job(g).run \notin stale
         THEN work' = [work EXCEPT ![g].step = "find", ![g].cost = cost] /\ UNCHANGED queue
         ELSE EndJob(g)
    /\ UNCHANGED <<e2e, comments, open, stale, edits, missed>>

\* The listing or the commit cannot be read, and the run is taken for one
\* without a pull request; or the job ends in an error before its lookup.
ResolveFails(g) ==
    /\ At(g, "resolve")
    /\ GiveUp(g)
    /\ UNCHANGED <<e2e, comments, open, stale, edits>>

\* The oldest comment of the bot with the marker, if any: its id and body.
Found(cs) == IF cs = <<>> THEN [id |-> 0, body |-> Empty] ELSE [id |-> 1, body |-> Head(cs)]
FindComment(g) ==
    /\ At(g, "find")
    /\ work' = [work EXCEPT ![g].step = "upsert", ![g].id = Found(comments).id,
                            ![g].body = Found(comments).body]
    /\ UNCHANGED <<e2e, queue, comments, open, stale, edits, missed>>

\* The lookup fails.  The steps of Diagnose run on (!cancelled()) and take the
\* comment for missing; the other two jobs stop.
FindFails(g) ==
    /\ At(g, "find")
    /\ Job(g).kind \in FindFault
    /\ IF Job(g).kind = "diagnose"
         THEN work' = [work EXCEPT ![g].step = "upsert"] /\ UNCHANGED <<queue, missed>>
         ELSE GiveUp(g)
    /\ UNCHANGED <<e2e, comments, open, stale, edits>>

\* upsert_section: one section is replaced, the others stay as they are.  It
\* says what became of its run, or that it is running, and links to it.
Upsert(body, s, content) == [body EXCEPT !.section[s] = content]

\* The total block is stripped off the body and put back at its end: raised
\* when this diagnosis has a known cost, and unchanged when it has none.
\* Mutant: it comes back only with a new cost.
NewTotalOnlyCosts(body, cost) ==
    [body EXCEPT !.cost = IF cost = 0 THEN 0 ELSE @ + cost, !.count = IF cost = 0 THEN 0 ELSE @ + 1]
NewTotal(body, cost) ==
    IF cost = 0 THEN body ELSE [body EXCEPT !.cost = @ + cost, !.count = @ + 1]

\* One more edit of a suite's section, and its cost where it is known.
Recorded(s, content, cost) ==
    [section |-> [edits.section EXCEPT ![s] = content],
     cost |-> edits.cost + cost,
     count |-> edits.count + (IF cost # 0 THEN 1 ELSE 0)]

\* "Upsert PR comment": the pull request is looked at once more, then the
\* comment found before is overwritten, or a new one is posted.
WriteComment(g) ==
    LET s == SuiteOf[Job(g).run]
        body == NewTotal(Upsert(work[g].body, s, Job(g)), work[g].cost)
    IN /\ At(g, "upsert")
       /\ IF ~open THEN UNCHANGED <<comments, edits>>
          ELSE /\ comments' = IF work[g].id = 1 THEN [comments EXCEPT ![1] = body]
                                                ELSE Append(comments, body)
               /\ edits' = Recorded(s, Job(g), work[g].cost)
       /\ EndJob(g)
       /\ UNCHANGED <<e2e, open, stale, missed>>

\* The pull request cannot be looked at, or the comment not be written.
WriteFails(g) ==
    /\ At(g, "upsert")
    /\ GiveUp(g)
    /\ UNCHANGED <<e2e, comments, open, stale, edits>>

-----------------------------------------------------------------------------
Init ==
    /\ e2e = [r \in Run |-> "idle"]
    /\ queue = [g \in Group |-> <<>>]
    /\ work = [g \in Group |-> Idle]
    /\ comments = <<>>
    /\ open = TRUE
    /\ stale = {}
    /\ edits = Empty
    /\ missed = {}

JobStep(g) ==
    \/ \E cost \in {0, 1} : Resolve(g, cost)
    \/ FindComment(g) \/ WriteComment(g)
    \/ ResolveFails(g) \/ FindFails(g) \/ WriteFails(g)

Next ==
    \/ \E r \in Run : Requested(r) \/ \E o \in Outcome : Completed(r, o)
    \/ PrCloses \/ Push
    \/ \E g \in Group : JobStep(g)

Spec == Init /\ [][Next]_vars

\* Runners pick up queued jobs, whose calls return or fail; that a run ever
\* completes is assumed too (its job has a time limit).
Fairness ==
    /\ \A g \in Group : WF_vars(JobStep(g))
    /\ WF_vars(\E r \in Run, o \in Outcome : Completed(r, o))
FairSpec == Spec /\ Fairness

-----------------------------------------------------------------------------
\* No edit of the sticky comment is ever lost: there is one comment, every
\* section shows the last edit of its suite, and the total is the sum of all
\* known costs, whatever was edited in between (the concurrency comments of
\* ai-diagnostic-e2e.yml and e2e-reserve-comment-on-start.yml).
NoEditLost == edits # Empty => comments = <<edits>>

\* The placeholder goes away: again and again a run shown as running comes to
\* be shown with its outcome, or another run of its suite is shown.  One that
\* stays is explained: the pull request closed, the run was cancelled, its head
\* was pushed over before its outcome was reported, or a call of the job that
\* was to report it failed (the header of comment-success).
Excused(r) == e2e[r] = "cancelled" \/ r \in stale \/ r \in missed
PlaceholderReplaced == []<>(\A r \in Run : Pending(r) => Excused(r))
=============================================================================
