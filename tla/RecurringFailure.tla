-------------------------- MODULE RecurringFailure --------------------------
(***************************************************************************)
(* The tracking issues of recurring failures.  track-recurring-failure.py  *)
(* runs once per failing end-to-end run, finds the issue of its first      *)
(* failing test and raises the occurrence count, or opens a new issue;     *)
(* enough occurrences flag it for review.  Trackers of one concurrency     *)
(* group run one after the other, those of different pull requests         *)
(* interleave between API calls.  A maintainer may confirm an issue, and   *)
(* the daily cleanup closes quiet ones.                                    *)
(***************************************************************************)
EXTENDS Integers, Sequences, FiniteSets

CONSTANTS
    Run,        \* failing end-to-end runs
    TestOf,     \* the first failing test of a run
    NoTest,     \* no failing test case in junit.xml
    GroupOf,    \* the concurrency group of a run
    Promotion,  \* PROMOTION_THRESHOLD
    MaxIssues   \* bound on the tracking issues

VARIABLES
    step,     \* a tracker: "idle", "list", "write", "note", "flag" or "done"
    seen,     \* the issue it found (0: none) and the count it read or wrote
    issues,   \* tracking issues, oldest first
    snapshot, \* the issues the cleanup listed and has yet to look at
    closing,  \* the issue the cleanup is about to close, or 0
    bumps     \* per issue, the runs counted on it, and whether two overlapped

vars == <<step, seen, issues, snapshot, closing, bumps>>

\* junit.xml without a failing test case leaves no signature: nothing is
\* tracked.
StartTracker(r) ==
    /\ step[r] = "idle"
    /\ \A q \in Run \ {r} : GroupOf[q] = GroupOf[r] => step[q] \in {"idle", "done"}
    /\ step' = [step EXCEPT ![r] = IF TestOf[r] = NoTest THEN "done" ELSE "list"]
    /\ UNCHANGED <<seen, issues, snapshot, closing, bumps>>

\* find_existing: open issues with that title, newest first, without the
\* label of a confirmed one.
Matching(test) ==
    {i \in DOMAIN issues : issues[i].test = test /\ issues[i].open /\ ~issues[i].confirmed}
Newest(S) == CHOOSE i \in S : \A j \in S : j <= i
FindExisting(r) ==
    LET found == Matching(TestOf[r])
    IN /\ step[r] = "list"
       /\ found # {} \/ Len(issues) < MaxIssues
       /\ step' = [step EXCEPT ![r] = "write"]
       /\ seen' = [seen EXCEPT ![r] = IF found = {} THEN [issue |-> 0, count |-> 0]
                                      ELSE [issue |-> Newest(found), count |-> issues[Newest(found)].count]]
       /\ UNCHANGED <<issues, snapshot, closing, bumps>>

CreateIssue(r) ==
    /\ step[r] = "write"
    /\ seen[r].issue = 0
    /\ Len(issues) < MaxIssues
    /\ issues' = Append(issues, [test |-> TestOf[r], count |-> 1, open |-> TRUE,
                                 confirmed |-> FALSE, review |-> FALSE])
    /\ bumps' = Append(bumps, [runs |-> {r}, raced |-> FALSE])
    /\ seen' = [seen EXCEPT ![r].issue = Len(issues) + 1, ![r].count = 1]
    /\ step' = [step EXCEPT ![r] = "note"]
    /\ UNCHANGED <<snapshot, closing>>

\* The PATCH writes the body find_existing read, its count raised by one.
NewCount(count) == count + 1
BumpIssue(r) ==
    LET i == seen[r].issue
    IN /\ step[r] = "write"
       /\ i # 0
       /\ issues' = [issues EXCEPT ![i].count = NewCount(seen[r].count)]
       /\ bumps' = [bumps EXCEPT ![i].runs = @ \cup {r},
                                 ![i].raced = @ \/ issues[i].count # seen[r].count]
       /\ seen' = [seen EXCEPT ![r].count = NewCount(seen[r].count)]
       /\ step' = [step EXCEPT ![r] = "flag"]
       /\ UNCHANGED <<snapshot, closing>>

\* The first occurrence is only noted on the issue.
NoteFirst(r) ==
    /\ step[r] = "note"
    /\ step' = [step EXCEPT ![r] = "done"]
    /\ UNCHANGED <<seen, issues, snapshot, closing, bumps>>

\* A later one is noted, and labelled for review once the count is reached.
\* Mutant: one occurrence short of the threshold.
DueEarly(count) == count + 1 >= Promotion
Due(count) == count >= Promotion
NoteAndFlag(r) ==
    /\ step[r] = "flag"
    /\ issues' = [issues EXCEPT ![seen[r].issue].review = @ \/ Due(seen[r].count)]
    /\ step' = [step EXCEPT ![r] = "done"]
    /\ UNCHANGED <<seen, snapshot, closing, bumps>>

\* Any call of the script may fail: it gives up there.
TrackFails(r) ==
    /\ step[r] \in {"list", "write", "note", "flag"}
    /\ step' = [step EXCEPT ![r] = "done"]
    /\ UNCHANGED <<seen, issues, snapshot, closing, bumps>>

-----------------------------------------------------------------------------
\* A maintainer turns the issue into a write-up and confirms it.
Confirm(i) ==
    /\ i \in DOMAIN issues
    /\ issues[i].open /\ ~issues[i].confirmed
    /\ issues' = [issues EXCEPT ![i].confirmed = TRUE]
    /\ UNCHANGED <<step, seen, snapshot, closing, bumps>>

Eligible(i) == issues[i].open /\ ~issues[i].review /\ ~issues[i].confirmed
\* The daily cleanup lists the quiet issues, then looks at each once more
\* before it closes it; whether one has been quiet is left open.
CleanupLists ==
    /\ snapshot = {} /\ closing = 0
    /\ \E quiet \in SUBSET {i \in DOMAIN issues : Eligible(i)} \ {{}} : snapshot' = quiet
    /\ UNCHANGED <<step, seen, issues, closing, bumps>>
CleanupRechecks(i) ==
    /\ closing = 0
    /\ i \in snapshot
    /\ snapshot' = snapshot \ {i}
    /\ closing' = IF Eligible(i) THEN i ELSE 0
    /\ UNCHANGED <<step, seen, issues, bumps>>
CleanupCloses ==
    /\ closing # 0
    /\ issues' = [issues EXCEPT ![closing].open = FALSE]
    /\ closing' = 0
    /\ UNCHANGED <<step, seen, snapshot, bumps>>

-----------------------------------------------------------------------------
Init ==
    /\ step = [r \in Run |-> "idle"]
    /\ seen = [r \in Run |-> [issue |-> 0, count |-> 0]]
    /\ issues = <<>>
    /\ snapshot = {}
    /\ closing = 0
    /\ bumps = <<>>

Next ==
    \/ \E r \in Run :
         \/ StartTracker(r) \/ FindExisting(r) \/ CreateIssue(r) \/ BumpIssue(r)
         \/ NoteFirst(r) \/ NoteAndFlag(r) \/ TrackFails(r)
    \/ \E i \in 1..MaxIssues : Confirm(i) \/ CleanupRechecks(i)
    \/ CleanupLists \/ CleanupCloses

Spec == Init /\ [][Next]_vars

-----------------------------------------------------------------------------
\* An issue flagged for review stands for that many different failing runs of
\* its test, however trackers of different pull requests interleave; the count
\* never exceeds them, and is exact as long as no two trackers overlapped.
FlagEarned ==
    \A i \in DOMAIN issues :
      /\ issues[i].review => Cardinality(bumps[i].runs) >= Promotion
      /\ issues[i].count <= Cardinality(bumps[i].runs)
      /\ ~bumps[i].raced => issues[i].count = Cardinality(bumps[i].runs)
      /\ \A r \in bumps[i].runs : TestOf[r] = issues[i].test
=============================================================================
