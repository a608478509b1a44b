--------------------------- MODULE WorkflowsProofs ---------------------------
(***************************************************************************)
(* What the workflows share, proved of the specification MCWorkflows       *)
(* checks: a flagged issue was earned, for any number of failing runs,     *)
(* issues and concurrency groups, any promotion threshold and any          *)
(* interleaving of trackers, maintainers and the daily cleanup; and no     *)
(* edit of the sticky comment is lost as long as its jobs share one        *)
(* concurrency group, for any runs, suites and costs.                      *)
(***************************************************************************)
EXTENDS MCWorkflows, Integers, Sequences, FiniteSetTheorems, WellFoundedInduction, TLAPS

-----------------------------------------------------------------------------
(* RecurringFailure.                                                       *)

\* The instance counts as the module FiniteSets does.
LEMMA SameCount == \A S : Tracking!Cardinality(S) = Cardinality(S)
BY DEF Tracking!Cardinality, Cardinality

Tests == {TestOf[r] : r \in Failing}
Issue == [test : Tests, count : Nat, open : BOOLEAN, confirmed : BOOLEAN, review : BOOLEAN]
Bump == [runs : SUBSET Failing, raced : BOOLEAN]

TrackingType ==
    /\ step \in [Failing -> {"idle", "list", "write", "note", "flag", "done"}]
    /\ seen \in [Failing -> [issue : Nat, count : Nat]]
    /\ issues \in Seq(Issue)
    /\ bumps \in Seq(Bump)
    /\ Len(bumps) = Len(issues)

\* The cleanup works on issues that exist.
CleanupOK ==
    /\ snapshot \subseteq DOMAIN issues
    /\ closing # 0 => closing \in DOMAIN issues

\* A tracker counts its run on one issue, in its own write.
NotYetCounted ==
    \A r \in Failing : step[r] \in {"idle", "list", "write"} =>
        \A i \in DOMAIN bumps : r \notin bumps[i].runs

\* What a tracker holds was read from, or written to, an issue of its test,
\* and the runs counted on that issue only become more.
HeldIsCovered ==
    \A r \in Failing : step[r] = "flag" \/ (step[r] = "write" /\ seen[r].issue # 0) =>
        /\ seen[r].issue \in DOMAIN issues
        /\ issues[seen[r].issue].test = TestOf[r]
        /\ seen[r].count <= Cardinality(bumps[seen[r].issue].runs)

TrackingInv == TrackingType /\ CleanupOK /\ NotYetCounted /\ HeldIsCovered /\ Tracking!FlagEarned

-----------------------------------------------------------------------------
\* Counting one more run raises the number of runs by one, or by none when
\* the run was counted already (bumps in CreateIssue and BumpIssue).
LEMMA CountGrows ==
    ASSUME NEW S \in SUBSET Failing, NEW r \in Failing
    PROVE  /\ Cardinality(S) \in Nat
           /\ Cardinality(S \cup {r}) \in Nat
           /\ Cardinality(S \cup {r}) = Cardinality(S) + (IF r \in S THEN 0 ELSE 1)
<1>1. IsFiniteSet(S)
  BY FS_Subset, WorkflowsAssumption
<1>2. Cardinality(S) \in Nat
  BY <1>1, FS_CardinalityType
<1>3. Cardinality(S \cup {r}) = IF r \in S THEN Cardinality(S) ELSE Cardinality(S) + 1
  BY <1>1, FS_AddElement
<1> QED
  BY <1>2, <1>3

\* What a write to one field leaves of the record a tracker holds.
LEMMA HeldUpdates ==
    ASSUME NEW f \in [Failing -> [issue : Nat, count : Nat]], NEW r \in Failing, NEW i \in Nat, NEW c \in Nat
    PROVE  /\ [f EXCEPT ![r].issue = i, ![r].count = c] \in [Failing -> [issue : Nat, count : Nat]]
           /\ [f EXCEPT ![r].count = c] = [f EXCEPT ![r] = [issue |-> f[r].issue, count |-> c]]
<1>1. f[r] = [issue |-> f[r].issue, count |-> f[r].count] /\ f[r].issue \in Nat /\ f[r].count \in Nat
  OBVIOUS
<1>2. [f[r] EXCEPT !.count = c] = [issue |-> f[r].issue, count |-> c]
  BY <1>1
<1>3. [f EXCEPT ![r].count = c] = [f EXCEPT ![r] = [f[r] EXCEPT !.count = c]]
  OBVIOUS
<1>4. [[f[r] EXCEPT !.issue = i] EXCEPT !.count = c] \in [issue : Nat, count : Nat]
  BY <1>1
<1>5. [f EXCEPT ![r].issue = i, ![r].count = c]
        = [f EXCEPT ![r] = [[f[r] EXCEPT !.issue = i] EXCEPT !.count = c]]
  OBVIOUS
<1> QED
  BY <1>2, <1>3, <1>4, <1>5

\* What a write to one issue leaves of the list of issues.
LEMMA IssueUpdates ==
    ASSUME NEW s \in Seq(Issue), NEW i \in DOMAIN s, NEW e \in Issue, NEW t, t = [s EXCEPT ![i] = e]
    PROVE  /\ t \in Seq(Issue) /\ DOMAIN t = DOMAIN s /\ Len(t) = Len(s)
           /\ t[i] = e /\ \A j \in DOMAIN s \ {i} : t[j] = s[j]
<1>1. t \in [1..Len(s) -> Issue] /\ Len(s) \in Nat
  OBVIOUS
<1> QED
  BY <1>1

\* A choice among matching issues always has a newest one (Newest).
LEMMA NewestExists ==
    ASSUME NEW n \in Nat, NEW S \in SUBSET (1..n), S # {}
    PROVE  Tracking!Newest(S) \in S
<1> DEFINE R == OpToRel(<, Nat)
           T == {n - i : i \in S}
<1>1. T \subseteq Nat /\ T # {}
  <2>1. \A i \in S : n - i \in Nat
    OBVIOUS
  <2> QED
    BY <2>1
<1>2. PICK x \in T : \A y \in T : ~(<<y, x>> \in R)
  BY <1>1, NatLessThanWellFounded, WFMin
<1>3. \A y \in T : x <= y
  <2> SUFFICES ASSUME NEW y \in T PROVE x <= y
    OBVIOUS
  <2>1. x \in Nat /\ y \in Nat
    BY <1>1
  <2>2. <<y, x>> \notin R
    BY <1>2
  <2> HIDE DEF T
  <2>3. ~(y < x)
    BY <2>1, <2>2 DEF OpToRel
  <2> QED
    BY <2>1, <2>3
<1>4. PICK i \in S : x = n - i
  OBVIOUS
<1>5. \A j \in S : j <= i
  <2> TAKE j \in S
  <2>1. n - j \in T
    OBVIOUS
  <2> QED
    BY <2>1, <1>3, <1>4
<1> QED
  BY <1>5 DEF Tracking!Newest

\* A tracker that starts, is done with the first note, or gives up writes
\* nothing (StartTracker, NoteFirst, TrackFails).
LEMMA TrackerMoves ==
    ASSUME TrackingInv, NEW r \in Failing, NEW to \in {"list", "done"},
           step' = [step EXCEPT ![r] = to], to = "list" => step[r] = "idle",
           UNCHANGED <<seen, issues, snapshot, closing, bumps>>
    PROVE  TrackingInv'
<1> USE DEF TrackingInv
<1>1. TrackingType'
  BY DEF TrackingType
<1>2. CleanupOK'
  BY DEF CleanupOK
<1>3. NotYetCounted'
  BY DEF NotYetCounted, TrackingType
<1>4. HeldIsCovered'
  BY DEF HeldIsCovered, TrackingType
<1>5. Tracking!FlagEarned'
  BY SameCount DEF Tracking!FlagEarned
<1> QED
  BY <1>1, <1>2, <1>3, <1>4, <1>5

\* find_existing reads the newest match: an issue of the tracker's test, with
\* the count it has at that moment.
LEMMA FindExistingStep ==
    ASSUME TrackingInv, NEW r \in Failing, Tracking!FindExisting(r)
    PROVE  TrackingInv'
<1> USE DEF TrackingInv, Tracking!FindExisting
<1> DEFINE found == Tracking!Matching(TestOf[r])
<1>1. found # {} => Tracking!Newest(found) \in found
  <2>1. Len(issues) \in Nat /\ found \in SUBSET (1..Len(issues))
    BY DEF Tracking!Matching, TrackingType
  <2> QED
    BY <2>1, NewestExists
<1>2. found # {} => /\ Tracking!Newest(found) \in DOMAIN issues
                    /\ issues[Tracking!Newest(found)].test = TestOf[r]
                    /\ issues[Tracking!Newest(found)].count \in Nat
  <2> SUFFICES ASSUME found # {}, NEW i, i = Tracking!Newest(found)
               PROVE  i \in DOMAIN issues /\ issues[i].test = TestOf[r] /\ issues[i].count \in Nat
    OBVIOUS
  <2>1. i \in DOMAIN issues /\ issues[i].test = TestOf[r]
    BY <1>1 DEF Tracking!Matching
  <2>2. issues[i] \in Issue
    BY <2>1 DEF TrackingType
  <2> QED
    BY <2>1, <2>2 DEF Issue
<1>3. TrackingType'
  BY <1>2 DEF TrackingType
<1>4. CleanupOK'
  BY DEF CleanupOK
<1>5. NotYetCounted'
  BY DEF NotYetCounted, TrackingType
<1>6. HeldIsCovered'
  <2>1. \A i \in DOMAIN issues : issues[i].count <= Cardinality(bumps[i].runs)
    BY SameCount DEF Tracking!FlagEarned
  <2> QED
    BY <1>2, <2>1 DEF HeldIsCovered, TrackingType
<1>7. Tracking!FlagEarned'
  BY SameCount DEF Tracking!FlagEarned
<1> QED
  BY <1>3, <1>4, <1>5, <1>6, <1>7

\* The first occurrence opens an issue, counted once, for a run that is
\* counted nowhere else.
LEMMA CreateIssueStep ==
    ASSUME TrackingInv, NEW r \in Failing, Tracking!CreateIssue(r)
    PROVE  TrackingInv'
<1> USE WorkflowsAssumption DEF TrackingInv, Tracking!CreateIssue
<1> DEFINE n == Len(issues) + 1
           new == [test |-> TestOf[r], count |-> 1, open |-> TRUE, confirmed |-> FALSE, review |-> FALSE]
           first == [runs |-> {r}, raced |-> FALSE]
<1>1. new \in Issue /\ first \in Bump
  BY DEF Issue, Bump, Tests
<1>2. issues \in Seq(Issue) /\ bumps \in Seq(Bump) /\ Len(bumps) = Len(issues)
  BY DEF TrackingType
<1>3. /\ issues' = Append(issues, new) /\ issues' \in Seq(Issue) /\ Len(issues') = n
      /\ issues'[n] = new /\ \A i \in DOMAIN issues : issues'[i] = issues[i]
      /\ DOMAIN issues = 1..Len(issues) /\ DOMAIN issues' = 1..n /\ Len(issues) \in Nat
  BY <1>1, <1>2
<1>4. /\ bumps' = Append(bumps, first) /\ bumps' \in Seq(Bump) /\ Len(bumps') = n
      /\ bumps'[n] = first /\ \A i \in DOMAIN bumps : bumps'[i] = bumps[i]
      /\ DOMAIN bumps = 1..Len(issues) /\ DOMAIN bumps' = 1..n
  BY <1>1, <1>2
<1> HIDE DEF new, first
<1>5. TrackingType'
  <2>1. step' \in [Failing -> {"idle", "list", "write", "note", "flag", "done"}]
    BY DEF TrackingType
  <2>2. seen \in [Failing -> [issue : Nat, count : Nat]] /\ n \in Nat
    BY <1>3 DEF TrackingType
  <2>3. seen' \in [Failing -> [issue : Nat, count : Nat]]
    BY <2>2, HeldUpdates
  <2> QED
    BY <2>1, <2>3, <1>3, <1>4 DEF TrackingType
<1>6. CleanupOK'
  BY <1>3 DEF CleanupOK
<1>7. NotYetCounted'
  <2> SUFFICES ASSUME NEW q \in Failing, step'[q] \in {"idle", "list", "write"}, NEW i \in 1..n
               PROVE  q \notin bumps'[i].runs
    BY <1>4 DEF NotYetCounted
  <2>1. q # r /\ step'[q] = step[q]
    BY DEF TrackingType
  <2>2. CASE i = n
    BY <2>1, <2>2, <1>4 DEF first
  <2>3. CASE i # n
    BY <2>1, <2>3, <1>3, <1>4 DEF NotYetCounted
  <2> QED
    BY <2>2, <2>3
<1>8. HeldIsCovered'
  <2> SUFFICES ASSUME NEW q \in Failing, step'[q] = "flag" \/ (step'[q] = "write" /\ seen'[q].issue # 0)
               PROVE  /\ seen'[q].issue \in DOMAIN issues'
                      /\ issues'[seen'[q].issue].test = TestOf[q]
                      /\ seen'[q].count <= Cardinality(bumps'[seen'[q].issue].runs)
    BY DEF HeldIsCovered
  <2>1. q # r /\ step'[q] = step[q] /\ seen'[q] = seen[q]
    BY DEF TrackingType
  <2> QED
    BY <2>1, <1>3, <1>4 DEF HeldIsCovered
<1>9. Tracking!FlagEarned'
  <2>1. Cardinality({r}) = 1
    BY FS_Singleton
  <2> SUFFICES ASSUME NEW i \in 1..n
               PROVE  /\ issues'[i].review => Cardinality(bumps'[i].runs) >= Promotion
                      /\ issues'[i].count <= Cardinality(bumps'[i].runs)
                      /\ ~bumps'[i].raced => issues'[i].count = Cardinality(bumps'[i].runs)
                      /\ \A q \in bumps'[i].runs : TestOf[q] = issues'[i].test
    BY <1>3, SameCount DEF Tracking!FlagEarned
  <2>2. CASE i = n
    BY <2>1, <2>2, <1>3, <1>4 DEF new, first
  <2>3. CASE i # n
    <3>1. i \in DOMAIN issues /\ issues'[i] = issues[i] /\ bumps'[i] = bumps[i]
      BY <2>3, <1>3, <1>4
    <3> QED
      BY <3>1, SameCount DEF Tracking!FlagEarned
  <2> QED
    BY <2>2, <2>3
<1> QED
  BY <1>5, <1>6, <1>7, <1>8, <1>9

\* The PATCH writes the count that was read plus one: at most the runs
\* counted, now with this one, and exactly those when nobody wrote between.
LEMMA BumpIssueStep ==
    ASSUME TrackingInv, NEW r \in Failing, Tracking!BumpIssue(r)
    PROVE  TrackingInv'
<1> USE WorkflowsAssumption DEF TrackingInv
<1> DEFINE i == seen[r].issue
           c == seen[r].count
           raced == bumps[i].raced \/ issues[i].count # c
<1>1. /\ i \in DOMAIN issues /\ issues[i].test = TestOf[r]
      /\ c \in Nat /\ c <= Cardinality(bumps[i].runs)
  BY DEF Tracking!BumpIssue, HeldIsCovered, TrackingType
<1>2. /\ DOMAIN issues = 1..Len(issues) /\ DOMAIN bumps = DOMAIN issues
      /\ issues \in [DOMAIN issues -> Issue] /\ bumps \in [DOMAIN issues -> Bump]
  BY DEF TrackingType
<1>3. issues[i] \in Issue /\ bumps[i] \in Bump /\ bumps[i].runs \in SUBSET Failing
  BY <1>1, <1>2 DEF Bump
<1>4. r \notin bumps[i].runs
  BY <1>1, <1>2 DEF Tracking!BumpIssue, NotYetCounted
<1>5. /\ issues' = [issues EXCEPT ![i] = [issues[i] EXCEPT !.count = c + 1]]
      /\ bumps' = [bumps EXCEPT ![i] = [runs |-> bumps[i].runs \cup {r}, raced |-> raced]]
      /\ seen' = [seen EXCEPT ![r] = [issue |-> i, count |-> c + 1]]
      /\ step' = [step EXCEPT ![r] = "flag"]
      /\ UNCHANGED <<snapshot, closing>>
  <2>1. issues' = [issues EXCEPT ![i].count = c + 1]
    BY DEF Tracking!BumpIssue, Tracking!NewCount
  <2>2. bumps' = [bumps EXCEPT ![i].runs = @ \cup {r}, ![i].raced = @ \/ issues[i].count # c]
    BY DEF Tracking!BumpIssue
  <2>3. bumps[i] = [runs |-> bumps[i].runs, raced |-> bumps[i].raced]
    BY <1>3 DEF Bump
  <2>5. seen' = [seen EXCEPT ![r].count = c + 1]
    BY DEF Tracking!BumpIssue, Tracking!NewCount
  <2>6. bumps' = [bumps EXCEPT ![i] = [runs |-> bumps[i].runs \cup {r}, raced |-> raced]]
    <3>1. bumps' \in [DOMAIN issues -> Bump] /\ \A j \in DOMAIN issues \ {i} : bumps'[j] = bumps[j]
      BY <2>2, <1>1, <1>2, <1>3 DEF Bump
    <3>2. bumps'[i] = [runs |-> bumps[i].runs \cup {r}, raced |-> raced]
      BY <2>2, <2>3, <1>1, <1>2
    <3> QED
      BY <3>1, <3>2, <1>1, <1>2
  <2>7. seen' = [seen EXCEPT ![r] = [issue |-> i, count |-> c + 1]]
    <3>1. seen \in [Failing -> [issue : Nat, count : Nat]] /\ c + 1 \in Nat
      BY <1>1 DEF TrackingType
    <3>2. [seen EXCEPT ![r].count = c + 1] = [seen EXCEPT ![r] = [issue |-> seen[r].issue, count |-> c + 1]]
      BY <3>1, HeldUpdates
    <3> QED
      BY <2>5, <3>2
  <2>8. issues' = [issues EXCEPT ![i] = [issues[i] EXCEPT !.count = c + 1]]
    BY <2>1, <1>1, <1>2
  <2> QED
    BY <2>6, <2>7, <2>8 DEF Tracking!BumpIssue
<1>6. /\ issues' \in [DOMAIN issues -> Issue] /\ bumps' \in [DOMAIN issues -> Bump]
      /\ issues'[i].count = c + 1 /\ issues'[i].test = TestOf[r] /\ issues'[i].review = issues[i].review
      /\ bumps'[i].runs = bumps[i].runs \cup {r} /\ bumps'[i].raced = raced
      /\ \A j \in DOMAIN issues \ {i} : issues'[j] = issues[j] /\ bumps'[j] = bumps[j]
      /\ \A j \in DOMAIN issues : issues'[j].test = issues[j].test
  <2>1. [issues[i] EXCEPT !.count = c + 1] \in Issue
    BY <1>1, <1>3 DEF Issue
  <2>2. [runs |-> bumps[i].runs \cup {r}, raced |-> raced] \in Bump
    BY <1>3 DEF Bump
  <2>3. /\ issues'[i] = [issues[i] EXCEPT !.count = c + 1]
        /\ bumps'[i] = [runs |-> bumps[i].runs \cup {r}, raced |-> raced]
        /\ \A j \in DOMAIN issues \ {i} : issues'[j] = issues[j] /\ bumps'[j] = bumps[j]
    BY <1>1, <1>2, <1>5
  <2>4. issues' \in [DOMAIN issues -> Issue] /\ bumps' \in [DOMAIN issues -> Bump]
    BY <2>1, <2>2, <1>1, <1>2, <1>5
  <2>5. /\ issues'[i].count = c + 1 /\ issues'[i].test = issues[i].test /\ issues'[i].review = issues[i].review
    BY <2>3, <1>3 DEF Issue
  <2>6. \A j \in DOMAIN issues : issues'[j].test = issues[j].test
    BY <2>3, <2>5
  <2> QED
    BY <2>3, <2>4, <2>5, <2>6, <1>1
<1>7. /\ Cardinality(bumps[i].runs) \in Nat
      /\ Cardinality(bumps'[i].runs) = Cardinality(bumps[i].runs) + 1
  <2>1. /\ Cardinality(bumps[i].runs) \in Nat
        /\ Cardinality(bumps[i].runs \cup {r}) = Cardinality(bumps[i].runs) + 1
    BY <1>3, <1>4, CountGrows
  <2> QED
    BY <2>1, <1>6
<1> HIDE DEF i, c, raced
<1>8. TrackingType'
  <2>1. issues' \in Seq(Issue) /\ bumps' \in Seq(Bump) /\ Len(bumps') = Len(issues')
    <3>1. Len(issues) \in Nat
      BY DEF TrackingType
    <3>2. issues' \in [1..Len(issues) -> Issue] /\ bumps' \in [1..Len(issues) -> Bump]
      BY <1>2, <1>6
    <3> QED
      BY <3>1, <3>2
  <2> QED
    BY <2>1, <1>1, <1>2, <1>5 DEF TrackingType
<1>9. DOMAIN issues' = DOMAIN issues /\ DOMAIN bumps' = DOMAIN issues
  BY <1>6
<1>10. CleanupOK'
  BY <1>5, <1>9 DEF CleanupOK
<1>11. NotYetCounted'
  <2> SUFFICES ASSUME NEW q \in Failing, step'[q] \in {"idle", "list", "write"}, NEW j \in DOMAIN issues
               PROVE  q \notin bumps'[j].runs
    BY <1>9 DEF NotYetCounted
  <2>1. q # r /\ step'[q] = step[q]
    BY <1>5 DEF TrackingType
  <2>2. q \notin bumps[j].runs
    BY <2>1, <1>2 DEF NotYetCounted
  <2> QED
    BY <2>1, <2>2, <1>6
<1>12. HeldIsCovered'
  <2> SUFFICES ASSUME NEW q \in Failing, step'[q] = "flag" \/ (step'[q] = "write" /\ seen'[q].issue # 0)
               PROVE  /\ seen'[q].issue \in DOMAIN issues'
                      /\ issues'[seen'[q].issue].test = TestOf[q]
                      /\ seen'[q].count <= Cardinality(bumps'[seen'[q].issue].runs)
    BY DEF HeldIsCovered
  <2>1. CASE q = r
    BY <2>1, <1>1, <1>5, <1>6, <1>7, <1>9 DEF TrackingType
  <2>2. CASE q # r
    <3>1. step'[q] = step[q] /\ seen'[q] = seen[q]
      BY <2>2, <1>5 DEF TrackingType
    <3>2. /\ seen[q].issue \in DOMAIN issues /\ issues[seen[q].issue].test = TestOf[q]
          /\ seen[q].count <= Cardinality(bumps[seen[q].issue].runs) /\ seen[q].count \in Nat
      BY <3>1 DEF HeldIsCovered, TrackingType
    <3>3. CASE seen[q].issue = i
      <4>1. seen[q].count <= Cardinality(bumps[i].runs)
        BY <3>2, <3>3
      <4>2. seen[q].count <= Cardinality(bumps'[i].runs)
        BY <4>1, <3>2, <1>7
      <4> QED
        BY <4>2, <3>1, <3>2, <3>3, <1>6, <1>9
    <3>4. CASE seen[q].issue # i
      BY <3>1, <3>2, <3>4, <1>6, <1>9
    <3> QED
      BY <3>3, <3>4
  <2> QED
    BY <2>1, <2>2
<1>13. Tracking!FlagEarned'
  <2> SUFFICES ASSUME NEW j \in DOMAIN issues
               PROVE  /\ issues'[j].review => Cardinality(bumps'[j].runs) >= Promotion
                      /\ issues'[j].count <= Cardinality(bumps'[j].runs)
                      /\ ~bumps'[j].raced => issues'[j].count = Cardinality(bumps'[j].runs)
                      /\ \A q \in bumps'[j].runs : TestOf[q] = issues'[j].test
    BY <1>9, SameCount DEF Tracking!FlagEarned
  <2>1. CASE j # i
    BY <2>1, <1>6, SameCount DEF Tracking!FlagEarned
  <2>2. CASE j = i
    <3>1. /\ issues[i].review => Cardinality(bumps[i].runs) >= Promotion
          /\ ~bumps[i].raced => issues[i].count = Cardinality(bumps[i].runs)
          /\ \A q \in bumps[i].runs : TestOf[q] = issues[i].test
      BY <1>1, SameCount DEF Tracking!FlagEarned
    <3>2. issues'[i].review => Cardinality(bumps'[i].runs) >= Promotion
      BY <3>1, <1>6, <1>7
    <3>3. issues'[i].count <= Cardinality(bumps'[i].runs)
      BY <1>1, <1>6, <1>7
    <3>4. ~bumps'[i].raced => issues'[i].count = Cardinality(bumps'[i].runs)
      BY <3>1, <1>1, <1>6, <1>7 DEF raced
    <3>5. \A q \in bumps'[i].runs : TestOf[q] = issues'[i].test
      BY <3>1, <1>1, <1>6
    <3> QED
      BY <2>2, <3>2, <3>3, <3>4, <3>5
  <2> QED
    BY <2>1, <2>2
<1> QED
  BY <1>8, <1>10, <1>11, <1>12, <1>13

\* The label is set on the count the tracker wrote, and the runs behind that
\* count are still counted on the issue.
LEMMA NoteAndFlagStep ==
    ASSUME TrackingInv, NEW r \in Failing, Tracking!NoteAndFlag(r)
    PROVE  TrackingInv'
<1> USE WorkflowsAssumption DEF TrackingInv
<1> DEFINE i == seen[r].issue
           label == issues[i].review \/ seen[r].count >= Promotion
<1>1. i \in DOMAIN issues /\ seen[r].count <= Cardinality(bumps[i].runs) /\ seen[r].count \in Nat
  BY DEF Tracking!NoteAndFlag, HeldIsCovered, TrackingType
<1>2. bumps[i].runs \in SUBSET Failing
  <2>1. bumps[i] \in Bump
    BY <1>1 DEF TrackingType
  <2> QED
    BY <2>1 DEF Bump
<1>3. Cardinality(bumps[i].runs) \in Nat
  BY <1>2, CountGrows
<1>4. issues' = [issues EXCEPT ![i].review = label]
  BY DEF Tracking!NoteAndFlag, Tracking!Due
<1>5. label \in BOOLEAN /\ (label => Cardinality(bumps[i].runs) >= Promotion)
  BY <1>1, <1>3, SameCount DEF Tracking!FlagEarned, TrackingType, Issue
<1> HIDE DEF i, label
<1>6. /\ issues' \in Seq(Issue) /\ DOMAIN issues' = DOMAIN issues /\ Len(issues') = Len(issues)
      /\ \A j \in DOMAIN issues : /\ issues'[j].test = issues[j].test /\ issues'[j].count = issues[j].count
                                /\ j # i => issues'[j].review = issues[j].review
      /\ issues'[i].review = label
  <2>1. issues[i] \in Issue
    BY <1>1 DEF TrackingType
  <2> DEFINE e == [issues[i] EXCEPT !.review = label]
  <2>2. e \in Issue /\ e.test = issues[i].test /\ e.count = issues[i].count /\ e.review = label
    BY <2>1, <1>5 DEF Issue
  <2>3. issues' = [issues EXCEPT ![i] = e]
    BY <1>4
  <2> HIDE DEF e
  <2>4. /\ issues' \in Seq(Issue) /\ DOMAIN issues' = DOMAIN issues /\ Len(issues') = Len(issues)
        /\ issues'[i] = e /\ \A j \in DOMAIN issues \ {i} : issues'[j] = issues[j]
    BY <2>2, <2>3, <1>1, IssueUpdates DEF TrackingType
  <2> QED
    BY <2>2, <2>4
<1>7. TrackingType'
  BY <1>6 DEF TrackingType, Tracking!NoteAndFlag
<1>8. CleanupOK'
  BY <1>6 DEF CleanupOK, Tracking!NoteAndFlag
<1>9. NotYetCounted'
  BY DEF NotYetCounted, Tracking!NoteAndFlag, TrackingType
<1>10. HeldIsCovered'
  BY <1>6 DEF HeldIsCovered, Tracking!NoteAndFlag, TrackingType
<1>11. Tracking!FlagEarned'
  BY <1>1, <1>5, <1>6, SameCount DEF Tracking!FlagEarned, Tracking!NoteAndFlag
<1> QED
  BY <1>7, <1>8, <1>9, <1>10, <1>11

\* Confirming and closing an issue changes neither what it counts nor whom.
LEMMA IssueEdited ==
    ASSUME TrackingInv, NEW i \in DOMAIN issues,
           issues' = [issues EXCEPT ![i].confirmed = TRUE] \/ issues' = [issues EXCEPT ![i].open = FALSE],
           closing' \in {closing, 0}, snapshot' = snapshot, UNCHANGED <<step, seen, bumps>>
    PROVE  TrackingInv'
<1> USE DEF TrackingInv
<1>1. /\ issues' \in Seq(Issue) /\ DOMAIN issues' = DOMAIN issues /\ Len(issues') = Len(issues)
      /\ \A j \in DOMAIN issues : /\ issues'[j].test = issues[j].test /\ issues'[j].count = issues[j].count
                                /\ issues'[j].review = issues[j].review
  <2>1. issues[i] \in Issue
    BY DEF TrackingType
  <2>2. PICK e \in Issue : /\ e.test = issues[i].test /\ e.count = issues[i].count /\ e.review = issues[i].review
                           /\ issues' = [issues EXCEPT ![i] = e]
    <3> DEFINE confirmed == [issues[i] EXCEPT !.confirmed = TRUE]
               shut == [issues[i] EXCEPT !.open = FALSE]
    <3>1. /\ confirmed \in Issue /\ confirmed.test = issues[i].test
          /\ confirmed.count = issues[i].count /\ confirmed.review = issues[i].review
      BY <2>1 DEF Issue
    <3>2. /\ shut \in Issue /\ shut.test = issues[i].test
          /\ shut.count = issues[i].count /\ shut.review = issues[i].review
      BY <2>1 DEF Issue
    <3>3. issues' = [issues EXCEPT ![i] = confirmed] \/ issues' = [issues EXCEPT ![i] = shut]
      OBVIOUS
    <3> HIDE DEF confirmed, shut
    <3> QED
      BY <3>1, <3>2, <3>3
  <2>3. /\ issues' \in Seq(Issue) /\ DOMAIN issues' = DOMAIN issues /\ Len(issues') = Len(issues)
        /\ issues'[i] = e /\ \A j \in DOMAIN issues \ {i} : issues'[j] = issues[j]
    BY <2>2, IssueUpdates DEF TrackingType
  <2> QED
    BY <2>2, <2>3
<1>2. TrackingType'
  BY <1>1 DEF TrackingType
<1>3. CleanupOK'
  BY <1>1 DEF CleanupOK
<1>4. NotYetCounted'
  BY DEF NotYetCounted
<1>5. HeldIsCovered'
  BY <1>1 DEF HeldIsCovered
<1>6. Tracking!FlagEarned'
  BY <1>1, SameCount DEF Tracking!FlagEarned
<1> QED
  BY <1>2, <1>3, <1>4, <1>5, <1>6

\* The cleanup's listing and second look write nothing to the tracker.
LEMMA CleanupLooks ==
    ASSUME TrackingInv, CleanupOK', UNCHANGED <<step, seen, issues, bumps>>
    PROVE  TrackingInv'
BY DEF TrackingInv, TrackingType, NotYetCounted, HeldIsCovered, Tracking!FlagEarned

LEMMA TrackingInit ==
    ASSUME Tracking!Init PROVE TrackingInv
<1> USE DEF Tracking!Init
<1>1. TrackingType
  BY DEF TrackingType
<1>2. CleanupOK /\ NotYetCounted /\ HeldIsCovered /\ Tracking!FlagEarned
  BY DEF CleanupOK, NotYetCounted, HeldIsCovered, Tracking!FlagEarned
<1> QED
  BY <1>1, <1>2 DEF TrackingInv

LEMMA TrackingStep ==
    ASSUME TrackingInv, [Tracking!Next]_(Tracking!vars)
    PROVE  TrackingInv'
<1>1. ASSUME NEW r \in Failing, Tracking!StartTracker(r) PROVE TrackingInv'
  BY <1>1, TrackerMoves DEF Tracking!StartTracker
<1>2. ASSUME NEW r \in Failing, Tracking!FindExisting(r) PROVE TrackingInv'
  BY <1>2, FindExistingStep
<1>3. ASSUME NEW r \in Failing, Tracking!CreateIssue(r) PROVE TrackingInv'
  BY <1>3, CreateIssueStep
<1>4. ASSUME NEW r \in Failing, Tracking!BumpIssue(r) PROVE TrackingInv'
  BY <1>4, BumpIssueStep
<1>5. ASSUME NEW r \in Failing, Tracking!NoteFirst(r) \/ Tracking!TrackFails(r) PROVE TrackingInv'
  BY <1>5, TrackerMoves DEF Tracking!NoteFirst, Tracking!TrackFails
<1>6. ASSUME NEW r \in Failing, Tracking!NoteAndFlag(r) PROVE TrackingInv'
  BY <1>6, NoteAndFlagStep
<1>7. ASSUME NEW i, Tracking!Confirm(i) PROVE TrackingInv'
  BY <1>7, IssueEdited DEF Tracking!Confirm
<1>8. ASSUME NEW i, Tracking!CleanupRechecks(i) PROVE TrackingInv'
  <2>1. CleanupOK'
    BY <1>8 DEF Tracking!CleanupRechecks, CleanupOK, TrackingInv
  <2> QED
    BY <2>1, <1>8, CleanupLooks DEF Tracking!CleanupRechecks
<1>9. CASE Tracking!CleanupLists
  <2>1. CleanupOK'
    BY <1>9 DEF Tracking!CleanupLists, CleanupOK, TrackingInv
  <2> QED
    BY <2>1, <1>9, CleanupLooks DEF Tracking!CleanupLists
<1>10. CASE Tracking!CleanupCloses
  BY <1>10, IssueEdited DEF Tracking!CleanupCloses, CleanupOK, TrackingInv
<1>11. CASE UNCHANGED Tracking!vars
  BY <1>11, CleanupLooks DEF Tracking!vars, CleanupOK, TrackingInv
<1> QED
  BY <1>1, <1>2, <1>3, <1>4, <1>5, <1>6, <1>7, <1>8, <1>9, <1>10, <1>11 DEF Tracking!Next

-----------------------------------------------------------------------------
\* An issue labelled for review stands for at least as many different failing
\* runs of its test as the promotion threshold asks, and a count is exact
\* unless two trackers overlapped (bump_issue, note_and_flag).
THEOREM FlagsAreEarned == MCSpec => []FlagEarned
<1>1. MCInit => TrackingInv
  BY TrackingInit DEF MCInit
<1>2. TrackingInv /\ [MCNext]_allVars => TrackingInv'
  <2> SUFFICES ASSUME TrackingInv, [MCNext]_allVars PROVE TrackingInv'
    OBVIOUS
  <2>1. CASE Tracking!Next
    BY <2>1, TrackingStep
  <2>2. CASE UNCHANGED trackingVars
    BY <2>2, TrackingStep DEF trackingVars, Tracking!vars
  <2> QED
    BY <2>1, <2>2 DEF MCNext, allVars
<1>3. TrackingInv => FlagEarned
  BY DEF TrackingInv, FlagEarned
<1> QED
  BY <1>1, <1>2, <1>3, PTL DEF MCSpec

-----------------------------------------------------------------------------
(* StickyComment.                                                          *)

\* All jobs that edit the comment are in one concurrency group, and a
\* diagnosis finds the comment when there is one.
Serialized == (\A g, h \in Group : g = h) /\ "diagnose" \notin FindFault

Kind == {"reserve", "diagnose", "resolved"}
Jobs == [run : Runs, kind : Kind]
Content == {Comment!None} \cup Jobs
Body == [section : [Suite -> Content], cost : Nat, count : Nat]
Work == [step : {"resolve", "find", "upsert"}, body : Body, id : {0, 1}, cost : {0, 1}]

\* The comment is what the edits add up to, and the job that is about to
\* write it holds what it says.
CommentInv ==
    /\ edits \in Body
    /\ queue \in [Group -> Seq(Jobs)]
    /\ work \in [Group -> Work]
    /\ comments = IF edits = Comment!Empty THEN <<>> ELSE <<edits>>
    /\ \A g \in Group : work[g].step = "upsert" =>
         work[g].body = edits /\ (work[g].id = 0 <=> edits = Comment!Empty)
    /\ \A g \in Group : work[g].step # "upsert" => work[g].body = Comment!Empty /\ work[g].id = 0

\* Putting a job at the end of a queue and taking one from its front.
LEMMA QueueMoves ==
    ASSUME NEW q \in Seq(Jobs)
    PROVE  /\ \A j \in Jobs : Append(q, j) \in Seq(Jobs)
           /\ q # <<>> => Head(q) \in Jobs /\ Tail(q) \in Seq(Jobs)
OBVIOUS

LEMMA CommentInit ==
    ASSUME Comment!Init PROVE CommentInv
<1>1. Comment!Empty \in Body /\ Comment!Idle \in Work
  BY DEF Comment!Empty, Comment!Idle, Body, Work, Content
<1>2. Comment!Idle.step = "resolve" /\ Comment!Idle.body = Comment!Empty /\ Comment!Idle.id = 0
  BY DEF Comment!Idle
<1> QED
  BY <1>1, <1>2 DEF Comment!Init, CommentInv

\* A job that ends leaves the next one of its group at its first step.
LEMMA EndJobType ==
    ASSUME CommentInv, NEW g \in Group, queue[g] # <<>>, Comment!EndJob(g)
    PROVE  /\ queue' \in [Group -> Seq(Jobs)]
           /\ work' \in [Group -> Work]
           /\ work'[g] = Comment!Idle
<1> USE DEF CommentInv, Comment!EndJob
<1>1. Comment!Idle \in Work
  BY DEF Comment!Idle, Comment!Empty, Body, Work, Content
<1>2. Tail(queue[g]) \in Seq(Jobs)
  BY QueueMoves
<1> QED
  BY <1>1, <1>2

\* A run asks for a job at the end of its group's queue.
LEMMA JobQueued ==
    ASSUME CommentInv, NEW r \in Runs, NEW k \in Kind,
           queue' \in {queue, [queue EXCEPT ![Branches[r]] = Append(@, [run |-> r, kind |-> k])]},
           UNCHANGED <<work, comments, edits>>
    PROVE  CommentInv'
<1> USE DEF CommentInv
<1>1. \A g \in Group : Append(queue[g], [run |-> r, kind |-> k]) \in Seq(Jobs)
  BY QueueMoves DEF Jobs
<1>2. queue' \in [Group -> Seq(Jobs)]
  <2> DEFINE b == Branches[r]
             q == Append(queue[b], [run |-> r, kind |-> k])
  <2>1. queue' = queue \/ queue' = [queue EXCEPT ![b] = q]
    OBVIOUS
  <2>2. b \in Group => q \in Seq(Jobs)
    BY <1>1
  <2> HIDE DEF b, q
  <2> QED
    BY <2>1, <2>2
<1> QED
  BY <1>2

\* What a step of a job leaves of its record.
LEMMA WorkFinds ==
    ASSUME NEW w \in Work, NEW c \in {0, 1}, NEW v, v = [w EXCEPT !.step = "find", !.cost = c]
    PROVE  v \in Work /\ v.step = "find" /\ v.body = w.body /\ v.id = w.id
BY DEF Work

\* A job writes what the edits add up to, on top of the comment it read.
LEMMA TotalRaised ==
    ASSUME NEW x \in [Suite -> Content], NEW m \in Nat, NEW n \in Nat, NEW c \in {0, 1},
           NEW s \in Suite, NEW k \in Jobs, x[s] = k,
           NEW old, old = [section |-> x, cost |-> m, count |-> n],
           NEW sum, sum = [section |-> x, cost |-> m + c, count |-> n + (IF c # 0 THEN 1 ELSE 0)]
    PROVE  Comment!NewTotal(old, c) = sum /\ sum \in Body /\ sum # Comment!Empty
<1>1. m + c \in Nat /\ n + (IF c # 0 THEN 1 ELSE 0) \in Nat
  OBVIOUS
<1>2. c = 0 => m + c = m /\ n + (IF c # 0 THEN 1 ELSE 0) = n
  OBVIOUS
<1>3. c = 1 => n + (IF c # 0 THEN 1 ELSE 0) = n + 1
  OBVIOUS
<1>4. Comment!NewTotal(old, c) = sum
  <2> DEFINE cost == m + c
             count == n + (IF c # 0 THEN 1 ELSE 0)
  <2>1. CASE c = 0
    <3>1. sum = old
      BY <2>1, <1>2
    <3> QED
      BY <3>1, <2>1 DEF Comment!NewTotal
  <2>2. CASE c = 1
    <3>1. Comment!NewTotal(old, c) = [old EXCEPT !.cost = old.cost + c, !.count = old.count + 1]
      BY <2>2 DEF Comment!NewTotal
    <3>2. old.cost + c = cost /\ old.count + 1 = count /\ sum = [section |-> x, cost |-> cost, count |-> count]
      BY <2>2, <1>3
    <3> HIDE DEF cost, count
    <3> QED
      BY <3>1, <3>2
  <2> QED
    BY <2>1, <2>2
<1>5. Comment!Empty.section[s] # k
  BY DEF Comment!Empty, Comment!None, Jobs, Kind
<1> QED
  BY <1>1, <1>4, <1>5 DEF Body

LEMMA WritesSum ==
    ASSUME NEW b \in Body, NEW s \in Suite, NEW k \in Jobs, NEW c \in {0, 1}
    PROVE  LET sum == [section |-> [b.section EXCEPT ![s] = k], cost |-> b.cost + c,
                       count |-> b.count + (IF c # 0 THEN 1 ELSE 0)]
           IN  /\ Comment!NewTotal(Comment!Upsert(b, s, k), c) = sum
               /\ sum \in Body /\ sum # Comment!Empty
<1> DEFINE x == [b.section EXCEPT ![s] = k]
<1>1. /\ b = [section |-> b.section, cost |-> b.cost, count |-> b.count]
      /\ b.section \in [Suite -> Content] /\ b.cost \in Nat /\ b.count \in Nat
  BY DEF Body
<1>2. x \in [Suite -> Content] /\ x[s] = k
  BY <1>1 DEF Content
<1>3. Comment!Upsert(b, s, k) = [b EXCEPT !.section = x]
  BY DEF Comment!Upsert
<1> HIDE DEF x
<1>4. Comment!Upsert(b, s, k) = [section |-> x, cost |-> b.cost, count |-> b.count]
  BY <1>1, <1>3
<1> DEFINE m == b.cost
           n == b.count
           old == Comment!Upsert(b, s, k)
           sum == [section |-> x, cost |-> m + c, count |-> n + (IF c # 0 THEN 1 ELSE 0)]
<1>5. m \in Nat /\ n \in Nat /\ old = [section |-> x, cost |-> m, count |-> n]
  BY <1>1, <1>4
<1> HIDE DEF m, n, old
<1>6. Comment!NewTotal(old, c) = sum /\ sum \in Body /\ sum # Comment!Empty
  BY <1>2, <1>5, TotalRaised
<1> QED
  BY <1>6 DEF x, m, n, old

\* The jobs that read, and those that stop: the comment stays as it is.
LEMMA JobReads ==
    ASSUME Serialized, CommentInv, NEW g \in Group,
           \/ \E cost \in {0, 1} : Comment!Resolve(g, cost)
           \/ Comment!FindComment(g) \/ Comment!FindFails(g) \/ Comment!ResolveFails(g)
    PROVE  CommentInv'
<1> USE DEF CommentInv
<1>1. queue[g] # <<>> /\ UNCHANGED <<comments, edits>> /\ work[g] \in Work /\ work[g].step # "upsert"
  BY DEF Comment!Resolve, Comment!FindComment, Comment!FindFails, Comment!ResolveFails, Comment!At
<1>2. \A h \in Group : h = g
  BY DEF Serialized
<1>3. CASE Comment!EndJob(g)
  <2>1. work'[g].step = "resolve" /\ work'[g].body = Comment!Empty /\ work'[g].id = 0
    BY <1>1, <1>3, EndJobType DEF Comment!Idle
  <2> QED
    BY <2>1, <1>1, <1>2, <1>3, EndJobType
<1>4. ASSUME NEW cost \in {0, 1}, queue' = queue,
             work' = [work EXCEPT ![g].step = "find", ![g].cost = cost]
      PROVE  CommentInv'
  <2>1. /\ work' \in [Group -> Work]
        /\ work'[g].step = "find" /\ work'[g].body = work[g].body /\ work'[g].id = work[g].id
    <3>1. work' = [work EXCEPT ![g] = [work[g] EXCEPT !.step = "find", !.cost = cost]]
      BY <1>4
    <3> DEFINE w == [work[g] EXCEPT !.step = "find", !.cost = cost]
    <3>2. w \in Work /\ w.step = "find" /\ w.body = work[g].body /\ w.id = work[g].id
      BY <1>1, WorkFinds
    <3>3. work' = [work EXCEPT ![g] = w]
      BY <3>1
    <3> HIDE DEF w
    <3> QED
      BY <3>2, <3>3
  <2> QED
    BY <2>1, <1>1, <1>2, <1>4
<1>5. CASE Comment!FindComment(g)
  <2>1. Comment!Empty \in Body
    BY DEF Comment!Empty, Body, Content
  <2>2. /\ Comment!Found(comments).id \in {0, 1} /\ Comment!Found(comments).body = edits
        /\ Comment!Found(comments).id = 0 <=> edits = Comment!Empty
    BY DEF Comment!Found
  <2>3. /\ work' \in [Group -> Work]
        /\ work'[g].step = "upsert" /\ work'[g].body = edits
        /\ work'[g].id = 0 <=> edits = Comment!Empty
    <3> DEFINE i == Comment!Found(comments).id
               b == Comment!Found(comments).body
    <3>1. work' = [work EXCEPT ![g] = [work[g] EXCEPT !.step = "upsert", !.id = i, !.body = b]]
      BY <1>5 DEF Comment!FindComment
    <3>2. i \in {0, 1} /\ b \in Body /\ b = edits /\ (i = 0 <=> edits = Comment!Empty)
      BY <2>2
    <3> HIDE DEF i, b
    <3> DEFINE w == [work[g] EXCEPT !.step = "upsert", !.id = i, !.body = b]
    <3>3. w \in Work /\ w.step = "upsert" /\ w.body = b /\ w.id = i
      <4>1. i \in {0, 1} /\ b \in Body /\ work[g] \in Work
        BY <3>2, <1>1
      <4>2. w = [work[g] EXCEPT !.step = "upsert", !.id = i, !.body = b]
        OBVIOUS
      <4> HIDE DEF w, CommentInv
      <4> QED
        BY <4>1, <4>2 DEF Work
    <3>4. work' = [work EXCEPT ![g] = w]
      BY <3>1
    <3> HIDE DEF w
    <3> QED
      BY <3>2, <3>3, <3>4
  <2> QED
    BY <2>3, <1>1, <1>2, <1>5 DEF Comment!FindComment
<1> QED
  <2>1. CASE Comment!FindFails(g)
    <3>1. Comment!GiveUp(g)
      BY <2>1 DEF Comment!FindFails, Serialized
    <3> QED
      BY <3>1, <1>3 DEF Comment!GiveUp
  <2>2. CASE Comment!ResolveFails(g)
    BY <2>2, <1>3 DEF Comment!ResolveFails, Comment!GiveUp
  <2>3. ASSUME NEW cost \in {0, 1}, Comment!Resolve(g, cost) PROVE CommentInv'
    BY <2>3, <1>3, <1>4 DEF Comment!Resolve
  <2> QED
    BY <1>5, <2>1, <2>2, <2>3

\* The write puts the edit on top of all edits before it; one that fails
\* leaves the comment alone.
LEMMA WriteCommentStep ==
    ASSUME Serialized, CommentInv, NEW g \in Group,
           Comment!WriteComment(g) \/ Comment!WriteFails(g)
    PROVE  CommentInv'
<1> USE DEF CommentInv
<1> DEFINE job_ == Comment!Job(g)
           s == SuiteOf[job_.run]
           c == work[g].cost
           new == Comment!NewTotal(Comment!Upsert(work[g].body, s, job_), c)
           sum == Comment!Recorded(s, job_, c)
<1>1. /\ queue[g] # <<>> /\ work[g] \in Work /\ work[g].step = "upsert"
      /\ Comment!EndJob(g)
  BY DEF Comment!WriteComment, Comment!WriteFails, Comment!GiveUp, Comment!At
<1>2. work[g].body = edits /\ (work[g].id = 0 <=> edits = Comment!Empty) /\ c \in {0, 1} /\ work[g].id \in {0, 1}
  BY <1>1 DEF Work
<1>3. job_ \in Jobs /\ s \in Suite
  <2>1. queue[g] \in Seq(Jobs)
    OBVIOUS
  <2>2. job_ \in Jobs
    BY <2>1, <1>1, QueueMoves DEF Comment!Job
  <2> QED
    BY <2>2, WorkflowsAssumption DEF Jobs
<1> HIDE DEF job_, s, c
<1>7. new = sum /\ sum \in Body /\ sum # Comment!Empty
  BY <1>2, <1>3, WritesSum DEF Comment!Recorded
<1>9. /\ UNCHANGED <<comments, edits>>
      \/ /\ comments' = IF work[g].id = 1 THEN [comments EXCEPT ![1] = new] ELSE Append(comments, new)
         /\ edits' = sum
  BY DEF Comment!WriteComment, Comment!WriteFails, job_, s, c
<1> HIDE DEF new, sum
<1>10. edits' \in Body /\ comments' = IF edits' = Comment!Empty THEN <<>> ELSE <<edits'>>
  BY <1>2, <1>7, <1>9
<1>11. work'[g].step = "resolve" /\ work'[g].body = Comment!Empty /\ work'[g].id = 0
  BY <1>1, EndJobType DEF Comment!Idle
<1> QED
  BY <1>1, <1>10, <1>11, EndJobType DEF Serialized

LEMMA CommentStep ==
    ASSUME Serialized, CommentInv, Comment!Next
    PROVE  CommentInv'
<1>1. ASSUME NEW r \in Runs, Comment!Requested(r) PROVE CommentInv'
  BY <1>1, JobQueued DEF Comment!Requested, Kind
<1>2. ASSUME NEW r \in Runs, NEW o \in Comment!Outcome, Comment!Completed(r, o) PROVE CommentInv'
  <2>1. CASE o = "cancelled"
    BY <1>2, <2>1, JobQueued DEF Comment!Completed, Comment!Reports, Kind
  <2>2. CASE o # "cancelled"
    BY <1>2, <2>2, JobQueued DEF Comment!Completed, Comment!Reports, Comment!JobOf, Kind
  <2> QED
    BY <2>1, <2>2
<1>3. CASE Comment!PrCloses \/ Comment!Push
  BY <1>3 DEF Comment!PrCloses, Comment!Push, CommentInv
<1>4. ASSUME NEW g \in Group, Comment!JobStep(g) PROVE CommentInv'
  BY <1>4, JobReads, WriteCommentStep DEF Comment!JobStep
<1> QED
  BY <1>1, <1>2, <1>3, <1>4 DEF Comment!Next

\* In one concurrency group no edit of the sticky comment is lost, whatever
\* the runs are, however they end, in whatever order their jobs are queued and
\* whichever calls of theirs fail, but for one: no lookup of the comment by a
\* diagnosing job may (upsert_section, the concurrency group of the reporting
\* jobs).
THEOREM SerialEditsAreKept ==
    ASSUME Serialized PROVE MCSpec => []NoEditLost
<1>1. MCInit => CommentInv
  BY CommentInit DEF MCInit
<1>2. CommentInv /\ [MCNext]_allVars => CommentInv'
  <2> SUFFICES ASSUME CommentInv, [MCNext]_allVars PROVE CommentInv'
    OBVIOUS
  <2>1. CASE Comment!Next
    BY <2>1, CommentStep
  <2>2. CASE UNCHANGED commentVars
    BY <2>2 DEF commentVars, CommentInv
  <2> QED
    BY <2>1, <2>2 DEF MCNext, allVars
<1>3. CommentInv => NoEditLost
  BY DEF CommentInv, NoEditLost, Comment!NoEditLost
<1> QED
  BY <1>1, <1>2, <1>3, PTL DEF MCSpec
=============================================================================
