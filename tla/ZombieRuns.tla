----------------------------- MODULE ZombieRuns -----------------------------
(***************************************************************************)
(* The queued and zombie gauges of one repository: how collect of          *)
(* workflow-exporter.py counts the queued runs, lists them, takes those    *)
(* without jobs out of the count (_is_zombie_run) and publishes the rest.  *)
(*                                                                         *)
(* Every call to GitHub is a step of its own and may fail, and runs change *)
(* in between.  A run is listed with its attempt; <<run, attempt>> is the  *)
(* key of both caches.  GitHub gives every run its run_started_at, and the *)
(* queued runs fit on one page of the listing.                             *)
(***************************************************************************)
EXTENDS Integers, Sequences, FiniteSets, FiniteSetsExt

CONSTANTS
    Run,          \* run ids of the repository, of events the exporter follows
    Rerunnable,   \* those somebody runs again
    MaxAttempt,   \* bound on the attempts
    Grace,        \* ZOMBIE_GRACE_MINUTES
    Recheck,      \* ZOMBIE_RECHECK_MINUTES
    CacheMax,     \* a cache with more entries is cleared
    MaxTime       \* bound on the clock

VARIABLES
    now,       \* the clock
    gh,        \* the runs on GitHub; jobs[a] is when attempt a got its jobs
    withJobs,  \* _runs_with_jobs
    recheck,   \* _zombie_recheck_at; 0 for a key it does not hold
    cycle,     \* the collect cycle at work
    look       \* what the last looks at an attempt's jobs found, for the property

vars == <<now, gh, withJobs, recheck, cycle, look>>

Never == -1
Key == Run \X (1..MaxAttempt)
Attempt(r) == Len(gh[r].jobs)
KeyOf(r) == <<r, Attempt(r)>>
JobsAt(k) == gh[k[1]].jobs[k[2]]
Queued == {r \in Run : gh[r].queued}

\* Nothing is under way.  steady are the counted runs that have been queued
\* ever since; clean is no part of the code either.
Idle == [pc |-> "idle", start |-> 0, q |-> 0, steady |-> {}, todo |-> {},
         zombies |-> 0, complete |-> TRUE, clean |-> TRUE]

-----------------------------------------------------------------------------
(* GitHub: jobs appear late or never; a run is taken up, ends, is re-run.  *)

Tick ==
    /\ now < MaxTime
    /\ now' = now + 1
    /\ UNCHANGED <<gh, withJobs, recheck, cycle, look>>

JobsAppear(r) ==
    /\ r \in Queued
    /\ JobsAt(KeyOf(r)) = Never
    /\ gh' = [gh EXCEPT ![r].jobs[Attempt(r)] = now]
    /\ UNCHANGED <<now, withJobs, recheck, cycle, look>>

\* A runner takes the run up, or it is cancelled.
Leaves(r) ==
    /\ r \in Queued
    /\ gh' = [gh EXCEPT ![r].queued = FALSE]
    /\ cycle' = [cycle EXCEPT !.steady = @ \ {r}]
    /\ UNCHANGED <<now, withJobs, recheck, look>>

Rerun(r) ==
    /\ r \in Rerunnable \ Queued
    /\ Attempt(r) < MaxAttempt
    /\ gh' = [gh EXCEPT ![r] = [queued |-> TRUE, started |-> now, jobs |-> Append(@.jobs, Never)]]
    /\ UNCHANGED <<now, withJobs, recheck, cycle, look>>

-----------------------------------------------------------------------------
(* One cycle: the counts, the listing, every listed run, the gauges.       *)

\* _run_count is 0 when the call fails; without queued runs and running ones
\* (busy), nothing is listed.
CountRuns(ok, busy) ==
    LET q == IF ok THEN Cardinality(Queued) ELSE 0
    IN /\ cycle.pc = "idle"
       /\ cycle' = [Idle EXCEPT !.pc = IF q > 0 \/ busy THEN "list" ELSE "publish",
                                !.start = now, !.q = q, !.clean = ok,
                                !.steady = IF ok THEN Queued ELSE {}]
       /\ UNCHANGED <<now, gh, withJobs, recheck, look>>

ListRuns ==
    /\ cycle.pc = "list"
    /\ cycle' = [cycle EXCEPT !.pc = "classify",
                              !.todo = {[key |-> KeyOf(r), started |-> gh[r].started] : r \in Queued}]
    /\ UNCHANGED <<now, gh, withJobs, recheck, look>>

\* A page of either listing, or the jobs of a running run, cannot be read.
ListingFails ==
    /\ cycle.pc \in {"list", "classify"}
    /\ cycle.complete
    /\ cycle' = [cycle EXCEPT !.pc = "classify", !.todo = {}, !.complete = FALSE]
    /\ UNCHANGED <<now, gh, withJobs, recheck, look>>

Held == {k \in Key : recheck[k] # 0}

\* The caches after a look at k that found jobs, or none.
\* Mutant: the answer that has become wrong stays in its cache.
FoundJobsNoPop(k) ==
    /\ withJobs' = (IF Cardinality(withJobs) > CacheMax THEN {} ELSE withJobs) \cup {k}
    /\ recheck' = recheck
FoundJobs(k) ==
    /\ withJobs' = (IF Cardinality(withJobs) > CacheMax THEN {} ELSE withJobs) \cup {k}
    /\ recheck' = [recheck EXCEPT ![k] = 0]
FoundNone(k) ==
    /\ recheck' = [(IF Cardinality(Held) > CacheMax THEN [h \in Key |-> 0] ELSE recheck)
                   EXCEPT ![k] = now + Recheck]
    /\ UNCHANGED withJobs

\* The listing is newest first.
Listed(i) == i \in cycle.todo /\ \A j \in cycle.todo : j.key[1] <= i.key[1]
Marked(i, zombie, ok) ==
    cycle' = [cycle EXCEPT !.todo = @ \ {i}, !.zombies = @ + (IF zombie THEN 1 ELSE 0), !.clean = @ /\ ok]

\* What the caches and the clock know without asking GitHub.
Settled(i) ==
    \/ i.key \in withJobs
    \/ now < recheck[i.key]
    \/ now - i.started < Grace

\* _is_zombie_run answers without a call.
Recall(i) ==
    /\ Listed(i)
    /\ Settled(i)
    /\ Marked(i, i.key \notin withJobs /\ now < recheck[i.key], TRUE)
    /\ UNCHANGED <<now, gh, withJobs, recheck, look>>

\* _is_zombie_run reads the jobs of the attempt that was listed.
Look(i) ==
    LET found == JobsAt(i.key) # Never
    IN /\ Listed(i)
       /\ ~Settled(i)
       /\ Marked(i, ~found, TRUE)
       /\ IF found THEN FoundJobs(i.key) ELSE FoundNone(i.key)
       /\ look' = [look EXCEPT ![i.key] = IF found THEN "jobs" ELSE "none"]
       /\ UNCHANGED <<now, gh>>

\* The jobs cannot be read: the last answer stands, and no answer is no zombie.
LookFails(i) ==
    LET k == i.key
        known == recheck[k] # 0
    IN /\ Listed(i)
       /\ ~Settled(i)
       /\ Marked(i, known, FALSE)
       /\ recheck' = IF known THEN [recheck EXCEPT ![k] = now + Recheck] ELSE recheck
       /\ look' = [look EXCEPT ![k] = IF known /\ @ = "none" THEN "kept" ELSE @]
       /\ UNCHANGED <<now, gh, withJobs>>

\* z: nothing is subtracted after a partial listing, and never more than q.
Subtracted == IF cycle.complete THEN Min({cycle.zombies, cycle.q}) ELSE 0

\* What goes into the gauges, which nothing reads back.
QueuedGauge == cycle.q - Subtracted
ZombieGauge == Subtracted

Publishing == cycle.pc \in {"classify", "publish"} /\ cycle.todo = {}
Publish ==
    /\ Publishing
    /\ cycle' = Idle
    /\ UNCHANGED <<now, gh, withJobs, recheck, look>>

\* The caches live in the process.
Restart ==
    /\ withJobs' = {}
    /\ recheck' = [k \in Key |-> 0]
    /\ cycle' = Idle
    /\ UNCHANGED <<now, gh, look>>

-----------------------------------------------------------------------------
Init ==
    /\ now = 0
    /\ gh = [r \in Run |-> [queued |-> TRUE, started |-> 0, jobs |-> <<Never>>]]
    /\ withJobs = {}
    /\ recheck = [k \in Key |-> 0]
    /\ cycle = Idle
    /\ look = [k \in Key |-> "never"]

Next ==
    \/ Tick \/ ListRuns \/ ListingFails \/ Publish \/ Restart
    \/ \E i \in cycle.todo : Recall(i) \/ Look(i) \/ LookFails(i)
    \/ \E ok, busy \in BOOLEAN : CountRuns(ok, busy)
    \/ \E r \in Run : JobsAppear(r) \/ Leaves(r) \/ Rerun(r)

Spec == Init /\ [][Next]_vars

-----------------------------------------------------------------------------
\* A counted run nobody may call a zombie in this cycle: it is younger than
\* the grace period, no look found it empty or the last one found its jobs,
\* or its jobs are older than the time after which an answer is checked again
\* and no check failed.
Waiting(r) ==
    \/ now - gh[r].started < Grace
    \/ look[KeyOf(r)] \in {"never", "jobs"}
    \/ /\ look[KeyOf(r)] = "none"
       /\ JobsAt(KeyOf(r)) # Never
       /\ JobsAt(KeyOf(r)) + Recheck <= cycle.start

\* A run that was past the grace period and without jobs all along.
Dead(r) == JobsAt(KeyOf(r)) = Never /\ cycle.start - gh[r].started >= Grace

\* The queued gauge hides no backlog: it is no smaller than the number of runs
\* that were queued through the whole cycle and wait for a runner, whatever is
\* re-run, fails or is dropped from a cache meanwhile (for a cycle shorter than
\* the grace period).  Nor does a dead run stay unnoticed: after a cycle in
\* which every call succeeded, the zombie gauge is no smaller than the number
\* of those that never got jobs.
QueueGaugeHonest ==
    Publishing =>
      /\ now - cycle.start < Grace =>
           QueuedGauge >= Cardinality({r \in cycle.steady : Waiting(r)})
      /\ cycle.clean /\ cycle.complete =>
           ZombieGauge >= Cardinality({r \in cycle.steady : Dead(r)})
=============================================================================
