----------------------------- MODULE MCWorkflows -----------------------------
(***************************************************************************)
(* What the workflows keep outside their own run: the ephemeral EC2        *)
(* runners (Ec2Runners), the sticky comment of a pull request              *)
(* (StickyComment) and the tracking issues (RecurringFailure).  They share *)
(* no state, so that a behaviour is one of them and the others keep their  *)
(* initial state; one TLC run checks all three, and WorkflowsProofs states *)
(* its theorems of the same specification.                                 *)
(***************************************************************************)
EXTENDS Ec2Runners

CONSTANTS
    Runs, Merge, Suite, SuiteOf, Group, Branches, FindFault,       \* StickyComment
    Failing, TestOf, NoTest, FailingBranches, Promotion, MaxIssues \* RecurringFailure

\* Every run is one of a suite; a threshold is a count.
ASSUME WorkflowsAssumption ==
    /\ SuiteOf \in [Runs -> Suite]
    /\ IsFiniteSet(Failing) /\ Promotion \in Nat

VARIABLES
    part,                                                      \* which of the three it is
    e2e, queue, work, comments, open, stale, edits, missed,    \* StickyComment
    step, seen, issues, snapshot, closing, bumps               \* RecurringFailure
commentVars == <<e2e, queue, work, comments, open, stale, edits, missed>>
trackingVars == <<step, seen, issues, snapshot, closing, bumps>>
allVars == <<vars, part, commentVars, trackingVars>>

Comment == INSTANCE StickyComment WITH Run <- Runs, GroupOf <- Branches
Tracking == INSTANCE RecurringFailure WITH Run <- Failing, GroupOf <- FailingBranches

MCInit == part \in {"comment", "runners", "tracking"} /\ Init /\ Comment!Init /\ Tracking!Init

MCNext ==
    /\ UNCHANGED part
    /\ \/ part = "runners" /\ Next /\ UNCHANGED <<commentVars, trackingVars>>
       \/ part = "comment" /\ Comment!Next /\ UNCHANGED <<vars, trackingVars>>
       \/ part = "tracking" /\ Tracking!Next /\ UNCHANGED <<vars, commentVars>>

MCSpec == MCInit /\ [][MCNext]_allVars

\* Fairness of Ec2Runners (the clock, the watchdog's schedule, its calls to
\* AWS) and of StickyComment (runners pick up queued jobs, runs complete).
MCFairSpec ==
    /\ MCSpec
    /\ Fairness
    /\ \A g \in Group : WF_commentVars(part = "comment" /\ Comment!JobStep(g))
    /\ WF_commentVars(part = "comment" /\ \E r \in Runs, o \in Comment!Outcome : Comment!Completed(r, o))

\* StickyComment: no edit of the sticky comment is ever lost.
NoEditLost == part = "comment" => Comment!NoEditLost
\* StickyComment: a run shown as running is in the end shown with an outcome,
\* or it is known why not.
PlaceholderReplaced == []<>(part = "comment" => \A r \in Runs : Comment!Pending(r) => Comment!Excused(r))
\* RecurringFailure: a flagged issue stands for that many failing runs.
FlagEarned == part = "tracking" => Tracking!FlagEarned

-----------------------------------------------------------------------------
(* The instances checked.                                                  *)

CONSTANTS r1, r2, r3, r4, caas, vmaas, branch, entry, test, none

\* Runs of two suites on one pull request: the third is a new push to its
\* branch, or the merge queue's run, which has a branch of its own.
TwoSuites == [r \in Runs |-> IF r = r2 THEN vmaas ELSE caas]
OneBranch == [r \in Runs |-> branch]
QueueBranch == [r \in Runs |-> IF r = r3 THEN entry ELSE branch]

\* Four failing runs, three of them on one branch and one without a failing
\* test case in its report.
OneTest == [r \in Failing |-> IF r = r4 THEN none ELSE test]
TwoBranches == [r \in Failing |-> IF r = r3 THEN entry ELSE branch]
=============================================================================
