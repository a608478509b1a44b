------------------------ MODULE ExporterCollectProofs ------------------------
(***************************************************************************)
(* Proofs about ExporterCollect, for every set of runs and repositories,   *)
(* every page size and every number of attempts.                           *)
(***************************************************************************)
EXTENDS ExporterCollect, FiniteSetTheorems, TLAPS

Busy == {"jobs", "upsert", "upsert_suites"}

\* A run exists from its first attempt on.
GitHubOK == \A r \in Run : status[r] = "none" <=> attempt[r] = 0

\* Everything on the active lists is a run GitHub knows, with an attempt that
\* has begun, and no ignored event.
KnownRecord(x) == x.attempt <= attempt[x.run] /\ x.run \notin Ignored
ListsOK ==
    /\ \A x \in active \cup cur \cup fetched : KnownRecord(x)
    /\ \A r \in prev : attempt[r] > 0 /\ r \notin Ignored

\* Only finished attempts are listed as completed and processed.
WorkOK ==
    /\ \A p \in Writer : \A x \in work[p] : Completed(x[1], x[2])
    /\ \A p \in Writer : pc[p] \in Busy =>
         /\ item[p] \in Item
         /\ Completed(item[p].run, item[p].attempt)
         /\ item[p].run \notin Ignored

Inv == TypeOK /\ GitHubOK /\ ListsOK /\ WorkOK /\ OnlyFinishedRunsStored

------------------------------------------------------------------------------

LEMMA InitInv == Init => Inv
BY CollectAssumption DEF Init, Inv, TypeOK, GitHubType, DbType, MetricType, WriterType, CycleType, TrackType,
    GitHubOK, ListsOK, WorkOK, OnlyFinishedRunsStored, Busy,
    Zero, ZeroGauges, Attempt, PC, Writer, Poller, Backfill, NoItem

\* Finished attempts stay finished, whatever GitHub does.
LEMMA GitHubInv ==
    ASSUME Inv, GitHub PROVE Inv'
<1> USE DEF Inv
<1>1. PICK r \in Run : GhQueue(r) \/ GhStart(r) \/ GhComplete(r) \/ GhRerun(r) \/ GhAge(r)
  BY DEF GitHub
<1>2. UNCHANGED <<dbVars, countVars, itemVars, cycleVars, gaugeVars, active, seen>>
  BY DEF GitHub
<1>3. /\ status' \in [Run -> {"none", "queued", "in_progress", "completed"}]
      /\ attempt' \in [Run -> 0 .. MaxAttempt] /\ born' \in [Run -> Nat]
      /\ old' \subseteq Run /\ steady' \subseteq Run
  <2>1. Cardinality({s \in Run : Exists(s)}) \in Nat
    BY FS_Subset, FS_CardinalityType, CollectAssumption
  <2>2. CASE GhQueue(r)
    BY <2>1, <2>2, CollectAssumption DEF TypeOK, GitHubType, TrackType, GhQueue
  <2>3. CASE GhStart(r) \/ GhComplete(r) \/ GhAge(r)
    BY <2>3 DEF TypeOK, GitHubType, TrackType, GhStart, GhComplete, GhAge
  <2>4. CASE GhRerun(r)
    BY <2>4, CollectAssumption DEF TypeOK, GitHubType, TrackType, GhRerun
  <2>5. QED BY <1>1, <2>2, <2>3, <2>4
<1>4. /\ \A s \in Run : attempt[s] <= attempt'[s]
      /\ \A s \in Run, a \in Attempt : Completed(s, a) => Completed(s, a)'
      /\ GitHubOK'
  <2>1. /\ status \in [Run -> {"none", "queued", "in_progress", "completed"}]
        /\ attempt \in [Run -> Nat]
        /\ \A s \in Run : status[s] = "none" <=> attempt[s] = 0
    BY CollectAssumption DEF TypeOK, GitHubType, GitHubOK
  <2> HIDE DEF Inv
  <2>2. CASE GhQueue(r)
    BY <2>1, <2>2 DEF GhQueue, Exists, GitHubOK, Completed, Attempt
  <2>3. CASE GhStart(r)
    BY <2>1, <2>3 DEF GhStart, GitHubOK, Completed, Attempt
  <2>4. CASE GhComplete(r)
    BY <2>1, <2>4 DEF GhComplete, GitHubOK, Completed, Attempt
  <2>5. CASE GhRerun(r)
    BY <2>1, <2>5 DEF GhRerun, GitHubOK, Completed, Attempt
  <2>6. CASE GhAge(r)
    BY <2>1, <2>6 DEF GhAge, GitHubOK, Completed, Attempt
  <2>7. QED BY <1>1, <2>2, <2>3, <2>4, <2>5, <2>6
<1>5. TypeOK'
  BY <1>2, <1>3 DEF TypeOK, GitHubType, DbType, MetricType, WriterType, CycleType, TrackType, dbVars, countVars, itemVars, cycleVars, gaugeVars
<1>6. ListsOK'
  BY <1>2, <1>3, <1>4 DEF TypeOK, GitHubType, CycleType, TrackType, ListsOK, KnownRecord, cycleVars, Record, Attempt
<1>7. WorkOK'
  BY <1>2, <1>3, <1>4 DEF TypeOK, WriterType, WorkOK, itemVars, Item
<1>8. OnlyFinishedRunsStored'
  BY <1>2, <1>4 DEF TypeOK, DbType, OnlyFinishedRunsStored, dbVars, Attempt
<1>9. QED BY <1>4, <1>5, <1>6, <1>7, <1>8

\* The path of one listed run into the database.
LEMMA ProcessInv ==
    ASSUME NEW p \in Writer, Inv, ProcessRun(p) PROVE Inv'
<1> USE DEF Inv
<1>1. UNCHANGED <<ghVars, cycleVars, gaugeVars, active, seen, steady>>
  BY DEF ProcessRun, PickRun, ListProcessed, FetchJobs, FetchJobsFails, UpsertRun, UpsertSuites, DbFails
<1>2. GitHubOK' /\ ListsOK' /\ \A r \in Run, a \in Attempt : Completed(r, a)' <=> Completed(r, a)
  BY <1>1 DEF ghVars, cycleVars, GitHubOK, ListsOK, KnownRecord, Completed
<1>3. CASE PickRun(p)
  <2>1. PICK x \in work[p] :
          /\ work' = [work EXCEPT ![p] = @ \ {x}]
          /\ \/ UNCHANGED <<item, pc>>
             \/ /\ x[1] \notin Ignored
                /\ item' = [item EXCEPT ![p] = [run |-> x[1], attempt |-> x[2], jobs |-> 0]]
                /\ pc' = [pc EXCEPT ![p] = "jobs"]
    BY <1>3 DEF PickRun, Goto
  <2>2. x[1] \in Run /\ x[2] \in Attempt /\ Completed(x[1], x[2])
    BY DEF TypeOK, WriterType, WorkOK
  <2>3. WriterType'
    BY <1>3, <2>1, <2>2, CollectAssumption DEF PickRun, TypeOK, WriterType, PC, Item
  <2>4. WorkOK'
    BY <2>1, <2>2, <1>2, CollectAssumption DEF TypeOK, WriterType, WorkOK, Item, Busy
  <2>5. TypeOK' /\ OnlyFinishedRunsStored'
    BY <1>1, <1>2, <1>3, <2>3 DEF PickRun, TypeOK, GitHubType, DbType, MetricType, CycleType, TrackType,
         ghVars, dbVars, countVars, cycleVars, gaugeVars, OnlyFinishedRunsStored, Completed
  <2>6. QED BY <1>2, <2>4, <2>5
<1>4. CASE ListProcessed(p)
  <2>1. WriterType' /\ WorkOK'
    BY <1>2, <1>4 DEF ListProcessed, Goto, TypeOK, WriterType, WorkOK, PC, Busy, Item
  <2>2. TypeOK' /\ OnlyFinishedRunsStored'
    BY <1>1, <1>2, <1>4, <2>1 DEF ListProcessed, TypeOK, GitHubType, DbType, MetricType, CycleType, TrackType,
         ghVars, dbVars, countVars, cycleVars, gaugeVars, OnlyFinishedRunsStored, Completed
  <2>3. QED BY <1>2, <2>1, <2>2
<1>5. CASE FetchJobs(p)
  <2>1. item[p] \in Item /\ Completed(item[p].run, item[p].attempt) /\ item[p].run \notin Ignored
    BY <1>5 DEF FetchJobs, WorkOK, Busy
  <2>2. PICK j \in {0, attempt[item[p].run]} : item' = [item EXCEPT ![p].jobs = j]
    BY <1>5 DEF FetchJobs
  <2>3. j \in 0 .. MaxAttempt
    BY <2>1, CollectAssumption DEF TypeOK, GitHubType, Item
  <2>4. /\ item'[p] \in Item /\ item'[p].run = item[p].run /\ item'[p].attempt = item[p].attempt
        /\ item' \in [Writer -> Item \cup {NoItem}]
        /\ \A o \in Writer : o # p => item'[o] = item[o]
    BY <2>1, <2>2, <2>3 DEF TypeOK, WriterType, Item
  <2>5. pc' = [pc EXCEPT ![p] = "upsert"] /\ UNCHANGED <<work, back>>
    BY <1>5 DEF FetchJobs, Goto
  <2>6. WriterType'
    BY <2>4, <2>5 DEF TypeOK, WriterType, PC
  <2>7. WorkOK'
    BY <1>2, <2>1, <2>4, <2>5 DEF TypeOK, WriterType, WorkOK, Busy, Item
  <2>8. TypeOK' /\ OnlyFinishedRunsStored'
    BY <1>1, <1>2, <1>5, <2>6 DEF FetchJobs, TypeOK, GitHubType, DbType, MetricType, CycleType, TrackType,
         ghVars, dbVars, countVars, cycleVars, gaugeVars, OnlyFinishedRunsStored, Completed
  <2>9. QED BY <1>2, <2>7, <2>8
<1>6. ASSUME SkipRun(p) \/ AbandonList(p) PROVE WriterType' /\ WorkOK'
  <2>1. /\ item' = [item EXCEPT ![p] = NoItem] /\ pc' = [pc EXCEPT ![p] = "process"] /\ UNCHANGED back
        /\ \A o \in Writer : work'[o] \subseteq work[o]
        /\ work' \in [Writer -> SUBSET (Run \X Attempt)]
    BY <1>6 DEF SkipRun, AbandonList, Goto, TypeOK, WriterType
  <2>2. WriterType'
    BY <2>1 DEF TypeOK, WriterType, PC
  <2>3. WorkOK'
    BY <1>2, <2>1 DEF TypeOK, WriterType, WorkOK, Busy, Item
  <2>4. QED BY <2>2, <2>3
<1>7. CASE FetchJobsFails(p) \/ DbFails(p)
  <2>1. SkipRun(p) \/ AbandonList(p)
    BY <1>7 DEF FetchJobsFails, DbFails
  <2>2. TypeOK' /\ OnlyFinishedRunsStored'
    BY <1>1, <1>2, <1>6, <1>7, <2>1 DEF FetchJobsFails, DbFails, TypeOK, GitHubType, DbType, MetricType, CycleType, TrackType,
         ghVars, dbVars, countVars, cycleVars, gaugeVars, OnlyFinishedRunsStored, Completed
  <2>3. QED BY <1>2, <1>6, <2>1, <2>2
<1>8. CASE UpsertRun(p)
  <2>1. item[p] \in Item /\ Completed(item[p].run, item[p].attempt) /\ item[p].run \notin Ignored
    BY <1>8 DEF UpsertRun, WorkOK, Busy
  <2>2. /\ rows' \in [Run -> 0 .. MaxAttempt]
        /\ \A r \in Run : rows'[r] = rows[r] \/ (r = item[p].run /\ rows'[r] = item[p].attempt)
    BY <1>8, <2>1, CollectAssumption DEF UpsertRun, TypeOK, DbType, Item, Attempt
  <2>3. OnlyFinishedRunsStored'
    BY <1>2, <2>1, <2>2, CollectAssumption DEF OnlyFinishedRunsStored, Item, TypeOK, DbType, Attempt
  <2>4. WriterType' /\ WorkOK'
    <3>1. CASE SkipRun(p)
      BY <1>6, <3>1
    <3>2. CASE pc' = [pc EXCEPT ![p] = "upsert_suites"] /\ UNCHANGED <<item, work, back>>
      BY <1>2, <1>8, <2>1, <3>2 DEF UpsertRun, TypeOK, WriterType, WorkOK, PC, Busy, Item
    <3>3. QED BY <1>8, <3>1, <3>2 DEF UpsertRun, Goto
  <2>5. TypeOK'
    BY <1>1, <1>8, <2>2, <2>4 DEF UpsertRun, TypeOK, GitHubType, DbType, MetricType, CycleType, TrackType,
         ghVars, dbVars, countVars, cycleVars, gaugeVars, OnlyFinishedRunsStored, Completed
  <2>6. QED BY <1>2, <2>3, <2>4, <2>5
<1>9. CASE UpsertSuites(p)
  <2>1. item[p] \in Item
    BY <1>9 DEF UpsertSuites, WorkOK, Busy
  <2>2. item[p].run \in Run /\ item[p].attempt \in Attempt /\ item[p].jobs \in 0 .. MaxAttempt
    BY <2>1 DEF Item
  <2>3. suites' \subseteq Run \X Attempt \X Attempt
    BY <1>9, <2>2, CollectAssumption DEF UpsertSuites, SuiteLabels, TypeOK, DbType, Attempt
  <2>4. \A n \in 0 .. MaxCount : Inc(n) \in 0 .. MaxCount
    BY CollectAssumption DEF Inc
  <2>5. /\ counted' \in [Run -> [Attempt -> 0 .. MaxCount]]
        /\ suiteCounted' \in [Run -> [Attempt -> 0 .. MaxCount]]
    <3>1. ASSUME NEW f \in [Run -> [Attempt -> 0 .. MaxCount]], NEW r \in Run, NEW a \in Attempt
          PROVE  [f EXCEPT ![r][a] = Inc(@)] \in [Run -> [Attempt -> 0 .. MaxCount]]
      <4>1. Inc(f[r][a]) \in 0 .. MaxCount
        BY <2>4
      <4>2. QED BY <4>1
    <3>2. item[p].jobs > 0 => item[p].jobs \in Attempt
      BY <2>2, CollectAssumption DEF Attempt
    <3>3. \/ counted' = counted
          \/ counted' = [counted EXCEPT ![item[p].run][item[p].attempt] = Inc(@)]
      BY <1>9 DEF UpsertSuites, countVars
    <3>4. \/ suiteCounted' = suiteCounted
          \/ /\ item[p].jobs > 0
             /\ suiteCounted' = [suiteCounted EXCEPT ![item[p].run][item[p].jobs] = Inc(@)]
      BY <1>9 DEF UpsertSuites, countVars
    <3>5. /\ counted \in [Run -> [Attempt -> 0 .. MaxCount]]
          /\ suiteCounted \in [Run -> [Attempt -> 0 .. MaxCount]]
      BY DEF TypeOK, MetricType
    <3>6. counted' \in [Run -> [Attempt -> 0 .. MaxCount]]
      <4>1. [counted EXCEPT ![item[p].run][item[p].attempt] = Inc(@)] \in [Run -> [Attempt -> 0 .. MaxCount]]
        BY <2>2, <3>1, <3>5, Zenon
      <4>2. QED BY <3>3, <3>5, <4>1, Zenon
    <3>7. suiteCounted' \in [Run -> [Attempt -> 0 .. MaxCount]]
      <4>1. CASE item[p].jobs > 0
        <5>1. [suiteCounted EXCEPT ![item[p].run][item[p].jobs] = Inc(@)] \in [Run -> [Attempt -> 0 .. MaxCount]]
          BY <2>2, <3>1, <3>2, <3>5, <4>1, Zenon
        <5>2. QED BY <3>4, <3>5, <5>1, Zenon
      <4>2. QED BY <3>4, <3>5, <4>1, Zenon
    <3>8. QED BY <3>6, <3>7
  <2>6. WriterType' /\ WorkOK'
    BY <1>6, <1>9 DEF UpsertSuites
  <2>7. TypeOK' /\ OnlyFinishedRunsStored'
    BY <1>1, <1>2, <1>9, <2>3, <2>5, <2>6 DEF UpsertSuites, TypeOK, GitHubType, DbType, MetricType, CycleType, TrackType,
         ghVars, dbVars, countVars, cycleVars, gaugeVars, OnlyFinishedRunsStored, Completed
  <2>8. QED BY <1>2, <2>6, <2>7
<1>10. QED BY <1>3, <1>4, <1>5, <1>7, <1>8, <1>9 DEF ProcessRun

\* What GitHub lists as completed is a finished attempt.
LEMMA ListedCompleted ==
    ASSUME Inv, NEW S \in SUBSET Run, \A r \in S : status[r] = "completed"
    PROVE  Listed(S) \in SUBSET (Run \X Attempt) /\ \A x \in Listed(S) : Completed(x[1], x[2])
<1>1. \A r \in S : attempt[r] \in Attempt
  BY CollectAssumption DEF Inv, TypeOK, GitHubType, GitHubOK, Attempt
<1>2. QED BY <1>1 DEF Listed, Completed

\* The records made of runs GitHub knows.
LEMMA RecordsKnown ==
    ASSUME Inv, NEW S \in SUBSET Run, \A r \in S : status[r] # "none" /\ r \notin Ignored
    PROVE  Records(S) \in SUBSET Record /\ \A x \in Records(S) : KnownRecord(x)
<1>1. \A r \in S : /\ attempt[r] \in Attempt
                   /\ status[r] \in Active \cup {"completed"}
                   /\ attempt[r] <= attempt[r]
  BY CollectAssumption DEF Inv, TypeOK, GitHubType, GitHubOK, Attempt, Active
<1>2. QED BY <1>1 DEF Records, Record, KnownRecord

LEMMA RunsOfCardinality ==
    ASSUME NEW rp, NEW st PROVE Cardinality(RunsOf(rp, st)) \in Nat
BY FS_Subset, FS_CardinalityType, CollectAssumption DEF RunsOf

LEMMA CompletedPageListed ==
    ASSUME Inv, NEW rp, NEW n, NEW list \in CompletedPage(rp, n)
    PROVE  list \in SUBSET (Run \X Attempt) /\ \A x \in list : Completed(x[1], x[2])
<1> DEFINE S == Slice(RunsOf(rp, "completed"), 0, n)
<1>1. S \in SUBSET Run /\ \A r \in S : status[r] = "completed"
  BY DEF Slice, RunsOf
<1>2. list = Listed(S) \/ list = {}
  BY DEF CompletedPage
<1>3. CASE list = Listed(S) BY <1>1, <1>3, ListedCompleted
<1>4. CASE list = {} BY <1>4
<1>5. QED BY <1>2, <1>3, <1>4

\* The poller moves on without touching what is being processed.
LEMMA StepWriter ==
    ASSUME Inv, NEW l \in PC \ Busy, Step(l), UNCHANGED <<ghVars, item, work, back>>
    PROVE  WriterType' /\ WorkOK'
<1>1. pc' = [pc EXCEPT ![Poller] = l] /\ UNCHANGED <<status, attempt, item, work, back>>
  BY DEF Step, Goto, ghVars
<1>2. WriterType'
  BY <1>1 DEF Inv, TypeOK, WriterType
<1>3. WorkOK'
  BY <1>1 DEF Inv, TypeOK, WriterType, WorkOK, Completed, Writer
<1>4. QED BY <1>2, <1>3

\* A writer starts on a list of finished runs.
LEMMA ProcessListWriter ==
    ASSUME Inv, NEW p \in Writer, NEW list \in SUBSET (Run \X Attempt),
           \A x \in list : Completed(x[1], x[2]),
           NEW cont \in {"load", "next_repo", "catchup", "idle"},
           ProcessList(p, list, cont), UNCHANGED <<ghVars, item>>
    PROVE  WriterType' /\ WorkOK'
<1>1. /\ pc' = [pc EXCEPT ![p] = "process"] /\ work' = [work EXCEPT ![p] = list]
      /\ back' = [back EXCEPT ![p] = cont] /\ UNCHANGED <<status, attempt, item>>
  BY DEF ProcessList, Goto, ghVars
<1>2. WriterType'
  BY <1>1 DEF Inv, TypeOK, WriterType, PC
<1>3. WorkOK'
  BY <1>1 DEF Inv, TypeOK, WriterType, WorkOK, Completed, Busy
<1>4. QED BY <1>2, <1>3

\* Every step of initial_load and collect() outside the processing of a run, the
\* backfill's listing and a crash.
LEMMA PollerInv ==
    ASSUME Inv,
           \/ Boot \/ LoadRepo \/ LoadDone \/ StartCycle \/ NextRepo \/ CountQueued \/ CountActive
           \/ RepoFails \/ ListQueued \/ ListActive \/ ListFails \/ SetGauges \/ RecentCompleted
           \/ Publish \/ CatchUp \/ CatchUpFails \/ Finish \/ BackfillPage \/ Crash
    PROVE  Inv'
<1> USE DEF Inv, TypeOK
<1> DEFINE Rest == GitHubType /\ GitHubOK /\ DbType /\ MetricType /\ CycleType /\ TrackType /\ ListsOK
                      /\ OnlyFinishedRunsStored
<1>0. ASSUME Rest', WriterType', WorkOK' PROVE Inv'
  BY <1>0
<1>1. CASE Boot
  <2>1. WriterType' /\ WorkOK'
    BY <1>1, StepWriter DEF Boot, PC, Busy
  <2>2. Rest'
    BY <1>1 DEF Boot, ghVars, dbVars, countVars, gaugeVars, cycleVars, GitHubType, GitHubOK, DbType, MetricType,
         CycleType, TrackType, ListsOK, KnownRecord, OnlyFinishedRunsStored, Completed
  <2>3. QED BY <1>0, <2>1, <2>2
<1>2. CASE LoadRepo
  <2>1. PICK rp \in todo : \E list \in CompletedPage(rp, InitWindow) : ProcessList(Poller, list, "load")
    BY <1>2 DEF LoadRepo
  <2>2. WriterType' /\ WorkOK'
    BY <1>2, <2>1, CompletedPageListed, ProcessListWriter DEF LoadRepo, Writer
  <2>3. Rest'
    BY <1>2 DEF LoadRepo, ghVars, dbVars, countVars, gaugeVars, cycleVars, GitHubType, GitHubOK, DbType, MetricType,
         CycleType, TrackType, ListsOK, KnownRecord, OnlyFinishedRunsStored, Completed
  <2>4. QED BY <1>0, <2>2, <2>3
<1>3. CASE LoadDone
  <2>1. WriterType' /\ WorkOK'
    BY <1>3, StepWriter DEF LoadDone, PC, Busy
  <2>2. Rest'
    BY <1>3 DEF LoadDone, ghVars, dbVars, countVars, gaugeVars, cycleVars, GitHubType, GitHubOK, DbType, MetricType,
         CycleType, TrackType, ListsOK, KnownRecord, OnlyFinishedRunsStored, Completed
  <2>3. QED BY <1>0, <2>1, <2>2
<1>4. CASE StartCycle
  <2>1. WriterType' /\ WorkOK'
    BY <1>4, StepWriter DEF StartCycle, PC, Busy
  <2>2. PICK keep \in SUBSET AllRows :
          /\ rows' = [r \in Run |-> IF <<r, 0>> \in keep THEN rows[r] ELSE 0]
          /\ seen' = {x \in seen : rows[x[1]] > 0 => <<x[1], 0>> \in keep}
          /\ suites' = {s \in suites : <<s[1], s[2]>> \in keep}
    BY <1>4 DEF StartCycle
  <2>3. DbType' /\ OnlyFinishedRunsStored'
    BY <1>4, <2>2, CollectAssumption DEF StartCycle, ghVars, DbType, OnlyFinishedRunsStored, Completed
  <2>4. \A r \in Ids(active) : r \in Run /\ attempt[r] > 0 /\ r \notin Ignored
    BY CollectAssumption DEF TrackType, ListsOK, KnownRecord, Ids, Record, Attempt, GitHubType
  <2>5. CycleType' /\ ListsOK'
    BY <1>4, <2>4 DEF StartCycle, ghVars, CycleType, ListsOK, KnownRecord, ActiveRepos
  <2>6. TrackType'
    BY <1>4, <2>2 DEF StartCycle, TrackType
  <2>7. GitHubType' /\ GitHubOK' /\ MetricType'
    BY <1>4 DEF StartCycle, ghVars, dbVars, countVars, gaugeVars, cycleVars, GitHubType, GitHubOK, DbType, MetricType,
         CycleType, TrackType, ListsOK, KnownRecord, OnlyFinishedRunsStored, Completed
  <2>8. QED BY <1>0, <2>1, <2>3, <2>5, <2>6, <2>7
<1>5. CASE NextRepo
  <2>1. WriterType' /\ WorkOK'
    BY <1>5, StepWriter DEF NextRepo, PC, Busy
  <2>2. Rest'
    BY <1>5 DEF NextRepo, ghVars, dbVars, countVars, gaugeVars, cycleVars, GitHubType, GitHubOK, DbType, MetricType,
         CycleType, TrackType, ListsOK, KnownRecord, OnlyFinishedRunsStored, Completed
  <2>3. QED BY <1>0, <2>1, <2>2
<1>6. CASE CountQueued
  <2>1. WriterType' /\ WorkOK'
    BY <1>6, StepWriter DEF CountQueued, PC, Busy
  <2>2. q' \in Nat
    BY <1>6, RunsOfCardinality DEF CountQueued, RunCount
  <2>3. Rest'
    BY <1>6, <2>2 DEF CountQueued, ghVars, dbVars, countVars, gaugeVars, cycleVars, GitHubType, GitHubOK, DbType, MetricType,
         CycleType, TrackType, ListsOK, KnownRecord, OnlyFinishedRunsStored, Completed
  <2>4. QED BY <1>0, <2>1, <2>3
<1>7. CASE CountActive
  <2>1. WriterType' /\ WorkOK'
    <3>1. PICK l \in {"list_queued", "set_gauges"} : Step(l)
      BY <1>7 DEF CountActive
    <3>2. QED BY <1>7, <3>1, StepWriter DEF CountActive, PC, Busy
  <2>2. ip' \in Nat
    BY <1>7, RunsOfCardinality DEF CountActive, RunCount
  <2>3. Rest'
    BY <1>7, <2>2 DEF CountActive, ghVars, dbVars, countVars, gaugeVars, cycleVars, GitHubType, GitHubOK, DbType, MetricType,
         CycleType, TrackType, ListsOK, KnownRecord, OnlyFinishedRunsStored, Completed
  <2>4. QED BY <1>0, <2>1, <2>3
<1>8. CASE RepoFails
  <2>1. WriterType' /\ WorkOK'
    BY <1>8, StepWriter DEF RepoFails, PC, Busy
  <2>2. Rest'
    BY <1>8 DEF RepoFails, ghVars, dbVars, countVars, gaugeVars, cycleVars, GitHubType, GitHubOK, DbType, MetricType,
         CycleType, TrackType, ListsOK, KnownRecord, OnlyFinishedRunsStored, Completed
  <2>3. QED BY <1>0, <2>1, <2>2
<1>9. CASE ListQueued \/ ListActive
  <2>1. PICK st \in Active, here \in PC \ Busy, next \in PC \ Busy : ListPage(st, here, next)
    BY <1>9 DEF ListQueued, ListActive, PC, Busy, Active
  <2> DEFINE all  == RunsOf(repo, st)
             page == Slice(all, offset, Page)
  <2>2. WriterType' /\ WorkOK'
    <3>1. PICK l \in {here, next} : Step(l)
      BY <2>1 DEF ListPage
    <3>2. QED BY <2>1, <3>1, StepWriter DEF ListPage
  <2>3. /\ fetched' = fetched \cup Records(page \ Ignored)
        /\ offset' \in {0, offset + Page}
        /\ complete' \in {complete, FALSE}
        /\ UNCHANGED <<ghVars, dbVars, countVars, gaugeVars, todo, repo, q, ip, tot, cur, prev, active, seen, steady>>
    BY <2>1 DEF ListPage
  <2>4. page \in SUBSET Run /\ \A r \in page : status[r] = st
    BY DEF Slice, RunsOf
  <2>5. Records(page \ Ignored) \in SUBSET Record /\ \A x \in Records(page \ Ignored) : KnownRecord(x)
    <3>1. \A r \in page \ Ignored : status[r] # "none" /\ r \notin Ignored
      BY <2>4 DEF Active
    <3>2. QED BY <2>4, <3>1, RecordsKnown
  <2>6. offset' \in Nat
    BY <2>3, CollectAssumption DEF CycleType
  <2>7. Rest'
    BY <2>3, <2>5, <2>6 DEF ghVars, dbVars, countVars, gaugeVars, cycleVars, GitHubType, GitHubOK, DbType, MetricType,
         CycleType, TrackType, ListsOK, KnownRecord, OnlyFinishedRunsStored, Completed
  <2>8. QED BY <1>0, <2>2, <2>7
<1>10. CASE ListFails
  <2>1. WriterType' /\ WorkOK'
    <3>1. PICK l \in {"list_active", "set_gauges"} : Step(l)
      BY <1>10 DEF ListFails
    <3>2. QED BY <1>10, <3>1, StepWriter DEF ListFails, PC, Busy
  <2>2. Rest'
    BY <1>10 DEF ListFails, ghVars, dbVars, countVars, gaugeVars, cycleVars, GitHubType, GitHubOK, DbType, MetricType,
         CycleType, TrackType, ListsOK, KnownRecord, OnlyFinishedRunsStored, Completed
  <2>3. QED BY <1>0, <2>1, <2>2
<1>11. CASE SetGauges
  <2>1. WriterType' /\ WorkOK'
    BY <1>11, StepWriter DEF SetGauges, PC, Busy
  <2>2. tot' \in Nat \X Nat /\ gauge' \in [Repo \cup {Org} -> Nat \X Nat]
    <3>1. tot[1] + q \in Nat /\ tot[2] + ip \in Nat /\ <<q, ip>> \in Nat \X Nat
      BY DEF CycleType
    <3>2. QED BY <1>11, <3>1 DEF SetGauges, MetricType
  <2>3. Rest'
    BY <1>11, <2>2 DEF SetGauges, ghVars, dbVars, countVars, gaugeVars, cycleVars, GitHubType, GitHubOK, DbType, MetricType,
         CycleType, TrackType, ListsOK, KnownRecord, OnlyFinishedRunsStored, Completed
  <2>4. QED BY <1>0, <2>1, <2>3
<1>12. CASE RecentCompleted
  <2>1. PICK list \in CompletedPage(repo, Window) : ProcessList(Poller, list, "next_repo")
    BY <1>12 DEF RecentCompleted
  <2>2. WriterType' /\ WorkOK'
    BY <1>12, <2>1, CompletedPageListed, ProcessListWriter DEF RecentCompleted, Writer
  <2>3. Rest'
    BY <1>12 DEF RecentCompleted, ghVars, dbVars, countVars, gaugeVars, cycleVars, GitHubType, GitHubOK, DbType, MetricType,
         CycleType, TrackType, ListsOK, KnownRecord, OnlyFinishedRunsStored, Completed
  <2>4. QED BY <1>0, <2>2, <2>3
<1>13. CASE Publish
  <2>1. WriterType' /\ WorkOK'
    BY <1>13, StepWriter DEF Publish, PC, Busy
  <2>2. gauge' \in [Repo \cup {Org} -> Nat \X Nat] /\ tot' \in Nat \X Nat
    BY <1>13 DEF Publish, CycleType, MetricType
  <2>3. Rest'
    BY <1>13, <2>2 DEF Publish, ghVars, dbVars, countVars, gaugeVars, cycleVars, GitHubType, GitHubOK, DbType, MetricType,
         CycleType, TrackType, ListsOK, KnownRecord, OnlyFinishedRunsStored, Completed
  <2>4. QED BY <1>0, <2>1, <2>3
<1>14. CASE CatchUp
  <2>1. PICK r \in prev :
          /\ prev' = prev \ {r}
          /\ IF status[r] # "completed"
             THEN cur' = cur \cup Records({r}) /\ UNCHANGED <<pc, work, back>>
             ELSE ProcessList(Poller, Listed({r}), "catchup") /\ UNCHANGED cur
    BY <1>14 DEF CatchUp
  <2>2. r \in Run /\ status[r] # "none" /\ r \notin Ignored
    BY DEF CycleType, ListsOK, GitHubOK, GitHubType
  <2>3. UNCHANGED <<ghVars, dbVars, countVars, item, todo, repo, q, ip, tot, offset, fetched, complete,
                    gaugeVars, active, seen, steady>>
    BY <1>14 DEF CatchUp
  <2>4. Records({r}) \in SUBSET Record /\ \A x \in Records({r}) : KnownRecord(x)
    BY <2>2, RecordsKnown
  <2>5. WriterType' /\ WorkOK'
    <3>1. CASE status[r] # "completed"
      BY <2>1, <2>3, <3>1 DEF WriterType, WorkOK, Completed, ghVars
    <3>2. CASE status[r] = "completed"
      <4>1. Listed({r}) \in SUBSET (Run \X Attempt) /\ \A x \in Listed({r}) : Completed(x[1], x[2])
        BY <2>2, <3>2, ListedCompleted
      <4>2. QED BY <2>1, <2>3, <3>2, <4>1, ProcessListWriter DEF Writer
    <3>3. QED BY <3>1, <3>2
  <2>6. Rest'
    BY <2>1, <2>3, <2>4 DEF ghVars, dbVars, countVars, gaugeVars, cycleVars, GitHubType, GitHubOK, DbType, MetricType,
         CycleType, TrackType, ListsOK, KnownRecord, OnlyFinishedRunsStored, Completed
  <2>7. QED BY <1>0, <2>5, <2>6
<1>15. CASE CatchUpFails
  <2>1. WriterType' /\ WorkOK'
    BY <1>15 DEF CatchUpFails, WriterType, WorkOK, Completed, ghVars, itemVars
  <2>2. Rest'
    BY <1>15 DEF CatchUpFails, ghVars, dbVars, countVars, gaugeVars, cycleVars, GitHubType, GitHubOK, DbType, MetricType,
         CycleType, TrackType, ListsOK, KnownRecord, OnlyFinishedRunsStored, Completed
  <2>3. QED BY <1>0, <2>1, <2>2
<1>16. CASE Finish
  <2>1. WriterType' /\ WorkOK'
    BY <1>16, StepWriter DEF Finish, PC, Busy
  <2>2. seen' \subseteq Run \X Attempt
    BY <1>16 DEF Finish, CycleType, TrackType, Record
  <2>3. Rest'
    BY <1>16, <2>2 DEF Finish, ghVars, dbVars, countVars, gaugeVars, cycleVars, GitHubType, GitHubOK, DbType, MetricType,
         CycleType, TrackType, ListsOK, KnownRecord, OnlyFinishedRunsStored, Completed
  <2>4. QED BY <1>0, <2>1, <2>3
<1>17. CASE BackfillPage
  <2>1. PICK rp \in Repo : \E S \in SUBSET RunsOf(rp, "completed") : ProcessList(Backfill, Listed(S), "idle")
    BY <1>17 DEF BackfillPage
  <2>0. PICK S \in SUBSET RunsOf(rp, "completed") : ProcessList(Backfill, Listed(S), "idle")
    BY <2>1
  <2>2. S \in SUBSET Run /\ \A r \in S : status[r] = "completed"
    BY DEF RunsOf
  <2>3. Listed(S) \in SUBSET (Run \X Attempt) /\ \A x \in Listed(S) : Completed(x[1], x[2])
    BY <2>2, ListedCompleted
  <2>4. WriterType' /\ WorkOK'
    BY <1>17, <2>0, <2>3, ProcessListWriter DEF BackfillPage, Writer
  <2>5. Rest'
    BY <1>17 DEF BackfillPage, ghVars, dbVars, countVars, gaugeVars, cycleVars, GitHubType, GitHubOK, DbType, MetricType,
         CycleType, TrackType, ListsOK, KnownRecord, OnlyFinishedRunsStored, Completed
  <2>6. QED BY <1>0, <2>4, <2>5
<1>18. CASE Crash
  <2>1. WriterType' /\ WorkOK'
    <3>1. /\ pc' = [pc EXCEPT ![Poller] = "boot"] /\ item' = [item EXCEPT ![Poller] = NoItem]
          /\ work' = [work EXCEPT ![Poller] = {}] /\ back' = [back EXCEPT ![Poller] = "load"]
          /\ UNCHANGED <<status, attempt>>
      BY <1>18 DEF Crash, Step, Goto, ghVars
    <3>2. WriterType'
      BY <3>1 DEF WriterType, PC
    <3>3. WorkOK'
      BY <3>1 DEF WriterType, WorkOK, Completed, Busy
    <3>4. QED BY <3>2, <3>3
  <2>2. Rest'
    BY <1>18, CollectAssumption DEF Crash, Zero, ZeroGauges, ghVars, dbVars, countVars, gaugeVars, cycleVars, GitHubType, GitHubOK, DbType, MetricType,
         CycleType, TrackType, ListsOK, KnownRecord, OnlyFinishedRunsStored, Completed
  <2>3. QED BY <1>0, <2>1, <2>2
<1>19. QED
  BY <1>1, <1>2, <1>3, <1>4, <1>5, <1>6, <1>7, <1>8, <1>9, <1>10, <1>11, <1>12, <1>13, <1>14, <1>15, <1>16,
     <1>17, <1>18

LEMMA NextInv == ASSUME Inv, [Next]_vars PROVE Inv'
<1>1. CASE GitHub
  BY <1>1, GitHubInv
<1>2. CASE ProcessRun(Poller) \/ ProcessRun(Backfill)
  BY <1>2, ProcessInv DEF Writer
<1>3. CASE PollerStep \/ BackfillPage \/ Crash
  BY <1>2, <1>3, PollerInv DEF PollerStep
<1>4. CASE UNCHANGED vars
  BY <1>4 DEF vars, ghVars, dbVars, countVars, itemVars, gaugeVars, cycleVars, Inv, TypeOK, GitHubType,
       DbType, MetricType, WriterType, CycleType, TrackType, GitHubOK, ListsOK, KnownRecord, WorkOK,
       OnlyFinishedRunsStored, Completed
<1>5. QED BY <1>1, <1>2, <1>3, <1>4 DEF Next

\* Every variable keeps its type: no step of GitHub, of either writer or of a
\* restart of the exporter leaves the domains the code works in.
THEOREM TypeCorrect == Spec => []TypeOK
<1>1. Init => Inv
  BY InitInv
<1>2. Inv /\ [Next]_vars => Inv'
  BY NextInv
<1>3. Inv => TypeOK
  BY DEF Inv
<1>4. QED BY <1>1, <1>2, <1>3, PTL DEF Spec

\* The job history never holds an attempt that has not finished, nor a run of
\* an ignored event, whatever fails and however GitHub, the poller and the
\* backfill interleave: the status test of the catch-up and the lists of
\* completed runs are the only ways into _upsert_job.
THEOREM OnlyFinishedRuns == Spec => []OnlyFinishedRunsStored
<1>1. Init => Inv
  BY InitInv
<1>2. Inv /\ [Next]_vars => Inv'
  BY NextInv
<1>3. Inv => OnlyFinishedRunsStored
  BY DEF Inv
<1>4. QED BY <1>1, <1>2, <1>3, PTL DEF Spec

------------------------------------------------------------------------------
(* The job history implements RunHistory. *)

\* A step changes the stored attempts in one of two ways: _upsert_job stores a
\* newer finished attempt of one run, or _prune_jobs evicts some rows.
LEMMA RowsStep ==
    ASSUME Inv, [Next]_vars
    PROVE  \/ UNCHANGED rows
           \/ /\ UNCHANGED <<status, attempt>>
              /\ \E r \in Run, a \in Attempt :
                    rows[r] < a /\ Completed(r, a) /\ rows' = [rows EXCEPT ![r] = a]
           \/ /\ UNCHANGED <<status, attempt>>
              /\ \E out \in SUBSET Run : rows' = [r \in Run |-> IF r \in out THEN 0 ELSE rows[r]]
<1>1. CASE StartCycle
  <2>1. PICK keep : rows' = [r \in Run |-> IF <<r, 0>> \in keep THEN rows[r] ELSE 0]
    BY <1>1 DEF StartCycle
  <2>2. rows' = [r \in Run |-> IF r \in {x \in Run : <<x, 0>> \notin keep} THEN 0 ELSE rows[r]]
    BY <2>1
  <2>3. QED BY <1>1, <2>2 DEF StartCycle, ghVars
<1>2. ASSUME NEW p \in Writer, UpsertRun(p) PROVE
           \/ UNCHANGED rows
           \/ /\ UNCHANGED <<status, attempt>>
              /\ \E r \in Run, a \in Attempt :
                    rows[r] < a /\ Completed(r, a) /\ rows' = [rows EXCEPT ![r] = a]
  <2>1. item[p] \in Item /\ Completed(item[p].run, item[p].attempt)
    BY <1>2 DEF UpsertRun, Inv, WorkOK, Busy
  <2>2. item[p].run \in Run /\ item[p].attempt \in Attempt
    BY <2>1 DEF Item
  <2>3. QED BY <1>2, <2>1, <2>2 DEF UpsertRun, ghVars
<1>3. ASSUME NEW p \in Writer, ProcessRun(p), ~UpsertRun(p) PROVE UNCHANGED rows
  BY <1>3 DEF ProcessRun, PickRun, ListProcessed, FetchJobs, FetchJobsFails, UpsertSuites, DbFails, dbVars
<1>4. CASE PollerStep /\ ~StartCycle /\ ~ProcessRun(Poller)
  BY <1>4 DEF PollerStep, Boot, LoadRepo, LoadDone, NextRepo, CountQueued, CountActive, RepoFails,
       ListQueued, ListActive, ListPage, ListFails, SetGauges, RecentCompleted, Publish, CatchUp,
       CatchUpFails, Finish, dbVars
<1>5. CASE GitHub \/ BackfillPage \/ Crash \/ UNCHANGED vars
  BY <1>5 DEF GitHub, BackfillPage, Crash, vars, dbVars
<1>6. QED BY <1>1, <1>2, <1>3, <1>4, <1>5 DEF Next, PollerStep, Writer

\* The stored attempt of a run only grows, until the row is pruned: the guard
\* of the upsert holds even when the backfill writes between _needs_upsert and
\* _upsert_job.
THEOREM AttemptsGrow == Spec => StoredAttemptGrows
<1>1. Init => Inv
  BY InitInv
<1>2. Inv /\ [Next]_vars => Inv'
  BY NextInv
<1>3. Inv /\ [Next]_vars => [\A r \in Run : rows'[r] >= rows[r] \/ rows'[r] = 0]_vars
  <2> SUFFICES ASSUME Inv, [Next]_vars, NEW r \in Run PROVE rows'[r] >= rows[r] \/ rows'[r] = 0
    OBVIOUS
  <2>1. rows \in [Run -> Nat] /\ Attempt \subseteq Nat
    BY CollectAssumption DEF Inv, TypeOK, DbType, Attempt
  <2>2. QED BY <2>1, RowsStep
<1>4. QED BY <1>1, <1>2, <1>3, PTL DEF Spec, StoredAttemptGrows

\* The detailed cycle implements the ledger: whatever the API calls, the
\* crashes and the second writer do, a reader of the job history sees finished
\* attempts stored, replaced by later ones and evicted, and nothing else.
THEOREM HistoryIsLedger == Spec => LedgerSpec
<1>1. Init => Inv
  BY InitInv
<1>2. Inv /\ [Next]_vars => Inv'
  BY NextInv
<1>3. Init => History!Init
  <2> SUFFICES ASSUME Init PROVE History!Init
    OBVIOUS
  <2>1. Finished = [r \in Run |-> 0]
    BY DEF Init, Finished
  <2>2. QED BY <2>1 DEF Init, History!Init
<1>4. Inv /\ [Next]_vars => [History!Next]_<<Finished, rows>>
  <2> SUFFICES ASSUME Inv, [Next]_vars PROVE History!Next \/ UNCHANGED <<Finished, rows>>
    OBVIOUS
  <2>1. /\ status \in [Run -> {"none", "queued", "in_progress", "completed"}]
        /\ attempt \in [Run -> 0 .. MaxAttempt] /\ MaxAttempt \in Nat \ {0}
        /\ \A s \in Run : status[s] = "none" <=> attempt[s] = 0
    BY CollectAssumption DEF Inv, TypeOK, GitHubType, GitHubOK
  <2>2. CASE UNCHANGED <<status, attempt>>
    <3>1. Finished' = Finished
      BY <2>2 DEF Finished
    <3>2. ASSUME NEW r \in Run, NEW a \in Attempt, rows[r] < a, Completed(r, a), rows' = [rows EXCEPT ![r] = a]
          PROVE  History!Next
      <4>1. a <= Finished[r]
        BY <2>1, <3>2 DEF Finished, Completed, Attempt
      <4>2. History!Store(r, a)
        BY <3>1, <3>2, <4>1 DEF History!Store
      <4>3. QED BY <4>2 DEF History!Next, Attempt
    <3>3. ASSUME NEW out \in SUBSET Run, rows' = [r \in Run |-> IF r \in out THEN 0 ELSE rows[r]]
          PROVE  History!Next
      BY <3>1, <3>3 DEF History!Next, History!Evict
    <3>4. QED BY <3>1, <3>2, <3>3, RowsStep
  <2>3. CASE ~UNCHANGED <<status, attempt>>
    <3>1. GitHub
      BY <2>3 DEF Next, PollerStep, Boot, LoadRepo, LoadDone, StartCycle, NextRepo, CountQueued, CountActive,
           RepoFails, ListQueued, ListActive, ListPage, ListFails, SetGauges, RecentCompleted, Publish, CatchUp,
           CatchUpFails, Finish, BackfillPage, Crash, ProcessRun, PickRun, ListProcessed, FetchJobs,
           FetchJobsFails, UpsertRun, UpsertSuites, DbFails, ghVars, vars
    <3>2. PICK r \in Run : GhQueue(r) \/ GhStart(r) \/ GhComplete(r) \/ GhRerun(r) \/ GhAge(r)
      BY <3>1 DEF GitHub
    <3>3. UNCHANGED rows
      BY <3>1 DEF GitHub, dbVars
    <3> HIDE DEF Inv
    <3>4. CASE GhComplete(r)
      <4>1. status[r] \in {"queued", "in_progress"} /\ status' = [status EXCEPT ![r] = "completed"]
            /\ attempt' = attempt
        BY <3>4 DEF GhComplete
      <4>2. attempt[r] \in 1 .. MaxAttempt
        BY <2>1, <4>1
      <4>3. Finished[r] = attempt[r] - 1 /\ Finished' = [Finished EXCEPT ![r] = attempt[r]]
        BY <2>1, <4>1, <4>2 DEF Finished
      <4>4. History!FinishAttempt(r)
        <5>1. Finished[r] < MaxAttempt /\ attempt[r] = Finished[r] + 1
          BY <2>1, <4>2, <4>3
        <5>2. Finished' = [Finished EXCEPT ![r] = Finished[r] + 1]
          BY <4>3, <5>1, Zenon
        <5>3. QED BY <3>3, <5>1, <5>2 DEF History!FinishAttempt
      <4>5. QED BY <4>4 DEF History!Next
    <3>5. CASE GhQueue(r)
      BY <2>1, <3>3, <3>5 DEF GhQueue, Exists, Finished
    <3>6. CASE GhStart(r)
      BY <2>1, <3>3, <3>6 DEF GhStart, Finished
    <3>7. CASE GhRerun(r)
      BY <2>1, <3>3, <3>7 DEF GhRerun, Finished
    <3>8. QED BY <2>3, <3>2, <3>4, <3>5, <3>6, <3>7 DEF GhAge
  <2>4. QED BY <2>2, <2>3
<1>5. QED BY <1>1, <1>2, <1>3, <1>4, PTL DEF Spec, LedgerSpec, History!Spec

------------------------------------------------------------------------------
(* No tracked run is lost. *)

\* The failures after which collect() forgets a run: a partial active list, a
\* failed jobs fetch, a failed GET in the catch-up and a failed write.
Lossless == Fault \cap {"list", "jobs", "get", "db"} = {}

\* Where the poller is, seen from collect(): processing a run is part of the
\* step that listed it.
Place == IF pc[Poller] \in {"process"} \cup Busy THEN back[Poller] ELSE pc[Poller]
Outside == {"boot", "load", "idle"}

Pending(r, a) ==
    \/ \E x \in work[Poller] : x[1] = r /\ x[2] >= a
    \/ pc[Poller] \in {"jobs", "upsert"} /\ item[Poller].run = r /\ item[Poller].attempt >= a

\* What keeps a tracked run from being lost: its row, or the variable that
\* carries it through the cycle at this point.
Accounted(x) ==
    \/ rows[x[1]] >= x[2]
    \/ Place \in Outside /\ x[1] \in Ids(active)
    \/ Place \notin Outside \cup {"catchup"} /\ x[1] \in prev
    \/ Place = "catchup" /\ (x[1] \in prev \cup Ids(cur) \/ Pending(x[1], x[2]))

TrackInv ==
    /\ complete = TRUE
    /\ pc[Poller] \notin {"process"} \cup Busy => work[Poller] = {}
    /\ \A x \in seen : x[2] <= attempt[x[1]] /\ x[1] \notin Ignored
    /\ \A x \in seen : Accounted(x)

\* Outside the pruning the stored attempts do not go back.
LEMMA ProcessRows ==
    ASSUME Inv, NEW p \in Writer, ProcessRun(p) PROVE \A r \in Run : rows'[r] >= rows[r]
<1>1. rows \in [Run -> Nat]
  BY CollectAssumption DEF Inv, TypeOK, DbType
<1>2. CASE UpsertRun(p)
  <2>1. item[p] \in Item
    BY <1>2 DEF UpsertRun, Inv, WorkOK, Busy
  <2>2. item[p].run \in Run /\ item[p].attempt \in Nat
    BY <2>1, CollectAssumption DEF Item, Attempt
  <2>3. QED BY <1>1, <1>2, <2>2 DEF UpsertRun
<1>3. CASE ~UpsertRun(p)
  BY <1>1, <1>3 DEF ProcessRun, PickRun, ListProcessed, FetchJobs, FetchJobsFails, UpsertSuites, DbFails, dbVars
<1>4. QED BY <1>2, <1>3

LEMMA TrackGitHub ==
    ASSUME Inv, TrackInv, GitHub PROVE TrackInv'
<1>1. UNCHANGED <<rows, seen, active, prev, cur, work, item, pc, back, complete>>
  BY DEF GitHub, dbVars, itemVars, cycleVars
<1>2. \A r \in Run : attempt[r] \in Nat /\ attempt'[r] \in Nat /\ attempt[r] <= attempt'[r]
  <2>1. PICK r \in Run : GhQueue(r) \/ GhStart(r) \/ GhComplete(r) \/ GhRerun(r) \/ GhAge(r)
    BY DEF GitHub
  <2>2. attempt \in [Run -> Nat]
    BY CollectAssumption DEF Inv, TypeOK, GitHubType
  <2>3. QED BY <2>1, <2>2 DEF GhQueue, Exists, GhStart, GhComplete, GhRerun, GhAge
<1>3. \A x \in seen : x[1] \in Run /\ x[2] \in Nat
  BY CollectAssumption DEF Inv, TypeOK, TrackType, Attempt
<1>4. \A x \in seen : Accounted(x)'
  BY <1>1 DEF TrackInv, Accounted, Place, Pending, Ids
<1>5. QED BY <1>1, <1>2, <1>3, <1>4 DEF TrackInv

\* The other writer only adds rows.
LEMMA TrackBackfill ==
    ASSUME Inv, TrackInv, ProcessRun(Backfill) \/ BackfillPage PROVE TrackInv'
<1>1. /\ UNCHANGED <<attempt, seen, active, prev, cur, complete>>
      /\ pc'[Poller] = pc[Poller] /\ item'[Poller] = item[Poller]
      /\ work'[Poller] = work[Poller] /\ back'[Poller] = back[Poller]
  BY DEF Inv, TypeOK, WriterType, Writer, Poller, Backfill, ProcessRun, PickRun, ListProcessed, FetchJobs,
       FetchJobsFails, UpsertRun, UpsertSuites, DbFails, BackfillPage, ProcessList, SkipRun, AbandonList, Goto,
       ghVars, cycleVars
<1>2. \A r \in Run : rows[r] \in Nat /\ rows'[r] >= rows[r]
  BY ProcessRows, CollectAssumption DEF Writer, BackfillPage, dbVars, Inv, TypeOK, DbType
<1>3. \A x \in seen : x[1] \in Run /\ x[2] \in Nat
  BY CollectAssumption DEF Inv, TypeOK, TrackType, Attempt
<1>4. \A r \in Run : rows'[r] \in Nat
  <2>1. Inv'
    BY NextInv DEF Next
  <2>2. QED BY <2>1, CollectAssumption DEF Inv, TypeOK, DbType
<1>5. \A x \in seen : Accounted(x)'
  BY <1>1, <1>2, <1>3, <1>4 DEF TrackInv, Accounted, Place, Pending, Ids
<1>6. QED BY <1>1, <1>5 DEF TrackInv

\* Processing a run ends with its row stored.
LEMMA TrackProcess ==
    ASSUME Lossless, Inv, TrackInv, ProcessRun(Poller) PROVE TrackInv'
<1>1. UNCHANGED <<attempt, seen, active, prev, cur, complete>>
  BY DEF ProcessRun, PickRun, ListProcessed, FetchJobs, FetchJobsFails, UpsertRun, UpsertSuites, DbFails, ghVars,
       cycleVars
<1>2. \A r \in Run : rows[r] \in Nat /\ rows'[r] \in Nat /\ rows'[r] >= rows[r]
  <2>1. Inv'
    BY ProcessInv DEF Writer
  <2>2. QED BY <2>1, ProcessRows, CollectAssumption DEF Writer, Inv, TypeOK, DbType
<1>3. \A x \in seen : x[1] \in Run /\ x[2] \in Nat /\ x[1] \notin Ignored
  BY CollectAssumption DEF Inv, TypeOK, TrackType, Attempt, TrackInv
<1>4. /\ pc \in [Writer -> PC] /\ item \in [Writer -> Item \cup {NoItem}]
      /\ work \in [Writer -> SUBSET (Run \X Nat)] /\ Poller \in Writer
  BY CollectAssumption DEF Inv, TypeOK, WriterType, Writer, Attempt
<1>5. pc[Poller] \in Busy => /\ item[Poller].run \in Run
                             /\ item[Poller].attempt \in Nat
                             /\ item[Poller] \in Item
  BY CollectAssumption DEF Inv, WorkOK, Item, Attempt, Writer
<1>6. SUFFICES /\ Place' = Place
               /\ pc'[Poller] \notin {"process"} \cup Busy => work'[Poller] = {}
               /\ \A r \in Run \ Ignored, a \in Nat : Pending(r, a) => Pending(r, a)' \/ rows'[r] >= a
  <2>1. ASSUME NEW x \in seen PROVE Accounted(x)'
    <3>1. Accounted(x)
      BY DEF TrackInv
    <3>2. QED BY <1>1, <1>2, <1>3, <1>6, <3>1 DEF Accounted, Ids
  <2>2. QED BY <1>1, <1>6, <2>1 DEF TrackInv
<1>7. CASE PickRun(Poller)
  <2>1. PICK x \in work[Poller] :
          /\ work' = [work EXCEPT ![Poller] = @ \ {x}]
          /\ IF x[1] \notin Ignored /\ (back[Poller] = "load" \/ NeedsUpsert(x[1], x[2]))
             THEN /\ item' = [item EXCEPT ![Poller] = [run |-> x[1], attempt |-> x[2], jobs |-> 0]]
                  /\ pc' = [pc EXCEPT ![Poller] = "jobs"]
             ELSE UNCHANGED <<item, pc>>
    BY <1>7 DEF PickRun, Goto
  <2>2. pc[Poller] = "process" /\ pc'[Poller] \in {"process", "jobs"} /\ UNCHANGED <<back, rows>>
    BY <1>4, <1>7, <2>1 DEF PickRun, dbVars
  <2>3. x[1] \in Run /\ x[2] \in Nat
    BY <1>4
  <2>4. ASSUME NEW r \in Run \ Ignored, NEW a \in Nat, Pending(r, a) PROVE Pending(r, a)' \/ rows'[r] >= a
    <3>1. PICK y \in work[Poller] : y[1] = r /\ y[2] >= a
      BY <2>2, <2>4 DEF Pending
    <3>2. y[2] \in Nat
      BY <1>4
    <3>3. CASE y # x
      BY <1>4, <2>1, <3>1, <3>3 DEF Pending
    <3>4. CASE y = x /\ pc'[Poller] = "jobs"
      <4>1. item'[Poller].run = r /\ item'[Poller].attempt >= a
        BY <1>4, <2>1, <2>2, <3>1, <3>4
      <4>2. QED BY <3>4, <4>1 DEF Pending
    <3>5. CASE y = x /\ pc'[Poller] = "process"
      <4>1. ~NeedsUpsert(x[1], x[2])
        BY <1>4, <2>1, <3>1, <3>5
      <4>2. QED BY <1>2, <2>2, <3>1, <3>2, <3>5, <4>1 DEF NeedsUpsert
    <3>6. QED BY <2>2, <3>3, <3>4, <3>5
  <2>5. QED BY <2>2, <2>4 DEF Place, Busy
<1>8. CASE ListProcessed(Poller)
  <2>1. pc[Poller] = "process" /\ work[Poller] = {} /\ pc'[Poller] = back[Poller] /\ UNCHANGED <<back, work>>
    BY <1>4, <1>8 DEF ListProcessed, Goto
  <2>2. back[Poller] \notin {"process"} \cup Busy
    BY <1>4 DEF Inv, TypeOK, WriterType, Busy
  <2>3. QED BY <2>1, <2>2 DEF Place, Pending, Busy
<1>9. CASE FetchJobs(Poller)
  <2>1. /\ pc[Poller] = "jobs" /\ pc'[Poller] = "upsert" /\ UNCHANGED <<back, work>>
        /\ item'[Poller].run = item[Poller].run /\ item'[Poller].attempt = item[Poller].attempt
    BY <1>4, <1>5, <1>9 DEF FetchJobs, Goto, Busy, Item
  <2>2. QED BY <2>1 DEF Place, Pending, Busy
<1>10. CASE UpsertRun(Poller)
  <2>1. /\ pc[Poller] = "upsert" /\ pc'[Poller] \in {"upsert_suites", "process"} /\ UNCHANGED <<back, work>>
        /\ rows'[item[Poller].run] >= item[Poller].attempt
    <3>1. item[Poller].run \in Run /\ item[Poller].attempt \in Nat /\ rows \in [Run -> Nat]
      BY <1>5, <1>10, CollectAssumption DEF UpsertRun, Busy, Inv, TypeOK, DbType
    <3>2. QED BY <1>4, <1>10, <3>1 DEF UpsertRun, SkipRun, Goto
  <2>2. ASSUME NEW r \in Run, NEW a \in Nat, Pending(r, a) PROVE Pending(r, a)' \/ rows'[r] >= a
    BY <1>2, <1>5, <2>1, <2>2 DEF Pending, Busy
  <2>3. QED BY <2>1, <2>2 DEF Place, Busy
<1>11. CASE UpsertSuites(Poller)
  <2>1. pc[Poller] = "upsert_suites" /\ pc'[Poller] = "process" /\ UNCHANGED <<back, work>>
    BY <1>4, <1>11 DEF UpsertSuites, SkipRun, Goto
  <2>2. QED BY <2>1 DEF Place, Pending, Busy
<1>12. ~FetchJobsFails(Poller) /\ ~DbFails(Poller)
  BY DEF Lossless, FetchJobsFails, DbFails
<1>13. QED BY <1>7, <1>8, <1>9, <1>10, <1>11, <1>12 DEF ProcessRun

\* The cycle hands every tracked run from active_runs to previous_active_by_id,
\* and from there to current_active or to the database.
LEMMA TrackPoller ==
    ASSUME Lossless, Inv, TrackInv,
           \/ Boot \/ LoadRepo \/ LoadDone \/ StartCycle \/ NextRepo \/ CountQueued \/ CountActive
           \/ RepoFails \/ ListQueued \/ ListActive \/ ListFails \/ SetGauges \/ RecentCompleted
           \/ Publish \/ CatchUp \/ CatchUpFails \/ Finish \/ Crash
    PROVE  TrackInv'
<1>1. /\ pc \in [Writer -> PC] /\ work \in [Writer -> SUBSET (Run \X Nat)] /\ Poller \in Writer
      /\ back \in [Writer -> {"load", "next_repo", "catchup", "idle"}]
  BY CollectAssumption DEF Inv, TypeOK, WriterType, Writer, Attempt
<1>2. \A x \in seen : x[1] \in Run /\ x[2] \in Nat /\ x[2] > 0 /\ rows[x[1]] \in Nat
  BY CollectAssumption DEF Inv, TypeOK, TrackType, DbType, Attempt
<1> DEFINE Idle == pc[Poller] \notin {"process"} \cup Busy
<1>3. CASE Boot \/ LoadDone
  <2>1. /\ pc[Poller] \in {"boot", "load"} /\ pc'[Poller] \in {"load", "idle"}
        /\ UNCHANGED <<attempt, rows, seen, active, complete, work>>
    BY <1>1, <1>3 DEF Boot, LoadDone, At, Step, Goto, ghVars, dbVars, cycleVars
  <2>2. QED BY <2>1 DEF TrackInv, Accounted, Place, Outside, Busy, Ids
<1>4. CASE LoadRepo
  <2>1. /\ pc[Poller] = "load" /\ pc'[Poller] = "process" /\ back'[Poller] = "load"
        /\ UNCHANGED <<attempt, rows, seen, active, complete>>
    BY <1>1, <1>4 DEF LoadRepo, ProcessList, At, Goto, ghVars, dbVars
  <2>2. QED BY <2>1 DEF TrackInv, Accounted, Place, Outside, Busy, Ids
<1>5. CASE StartCycle
  <2>1. PICK keep :
          /\ rows' = [r \in Run |-> IF <<r, 0>> \in keep THEN rows[r] ELSE 0]
          /\ seen' = {x \in seen : rows[x[1]] > 0 => <<x[1], 0>> \in keep}
    BY <1>5 DEF StartCycle
  <2>2. /\ pc[Poller] = "idle" /\ pc'[Poller] = "next_repo" /\ prev' = Ids(active) /\ complete' = TRUE
        /\ UNCHANGED <<attempt, work>>
    BY <1>1, <1>5 DEF StartCycle, At, Step, Goto, ghVars
  <2>3. ASSUME NEW x \in seen' PROVE Accounted(x)'
    <3>1. x \in seen /\ Accounted(x)
      BY <2>1 DEF TrackInv
    <3>2. CASE rows[x[1]] >= x[2]
      BY <1>2, <2>1, <3>1, <3>2 DEF Accounted
    <3>3. CASE x[1] \in Ids(active)
      BY <2>2, <3>3 DEF Accounted, Place, Outside, Busy
    <3>4. QED BY <2>2, <3>1, <3>2, <3>3 DEF Accounted, Place, Outside, Busy
  <2>4. QED BY <2>1, <2>2, <2>3 DEF TrackInv, Busy
<1>6. CASE NextRepo \/ CountQueued \/ CountActive \/ RepoFails \/ ListQueued \/ ListActive \/ SetGauges
  <2> DEFINE InCycle == {"next_repo", "count_queued", "count_active", "list_queued", "list_active", "set_gauges",
                         "recent"}
  <2>1. /\ pc[Poller] \in InCycle /\ pc'[Poller] \in InCycle
        /\ UNCHANGED <<attempt, rows, seen, active, prev, work>>
    BY <1>1, <1>6 DEF NextRepo, CountQueued, CountActive, RepoFails, ListQueued, ListActive, ListPage, SetGauges,
         At, Step, Goto, ghVars, dbVars
  <2>2. UNCHANGED complete
    BY <1>6 DEF Lossless, NextRepo, CountQueued, CountActive, RepoFails, ListQueued, ListActive, ListPage, SetGauges
  <2>3. QED BY <2>1, <2>2 DEF TrackInv, Accounted, Place, Outside, Busy, Ids
<1>7. CASE RecentCompleted
  <2>1. /\ pc[Poller] = "recent" /\ pc'[Poller] = "process" /\ back'[Poller] = "next_repo"
        /\ UNCHANGED <<attempt, rows, seen, prev, complete>>
    BY <1>1, <1>7 DEF RecentCompleted, ProcessList, At, Goto, ghVars, dbVars
  <2>2. QED BY <2>1 DEF TrackInv, Accounted, Place, Outside, Busy
<1>8. CASE Publish
  <2>1. /\ pc[Poller] = "next_repo" /\ pc'[Poller] = "catchup" /\ prev' = prev \ Ids(cur)
        /\ UNCHANGED <<attempt, rows, seen, cur, complete, work>>
    BY <1>1, <1>8 DEF Publish, At, Step, Goto, ghVars, dbVars, TrackInv
  <2>2. QED BY <2>1 DEF TrackInv, Accounted, Place, Outside, Busy, Ids
<1>9. CASE CatchUp
  <2>1. PICK r \in prev :
          /\ prev' = prev \ {r}
          /\ IF status[r] # "completed"
             THEN cur' = cur \cup Records({r}) /\ UNCHANGED <<pc, work, back>>
             ELSE ProcessList(Poller, Listed({r}), "catchup") /\ UNCHANGED cur
    BY <1>9 DEF CatchUp
  <2>2. pc[Poller] = "catchup" /\ UNCHANGED <<attempt, rows, seen, complete>>
    BY <1>9 DEF CatchUp, At, ghVars, dbVars
  <2>3. Ids(cur) \subseteq Ids(cur') /\ Place' = "catchup" /\ Place = "catchup"
    BY <1>1, <2>1, <2>2 DEF Ids, Place, ProcessList, Goto, Busy
  <2>4. r \in Ids(cur') \/ <<r, attempt[r]>> \in work'[Poller]
    <3>1. r \in Ids(Records({r})) /\ <<r, attempt[r]>> \in Listed({r})
      <4> DEFINE rec == [run |-> r, status |-> status[r], attempt |-> attempt[r]]
      <4>1. rec \in Records({r}) /\ rec.run = r
        BY DEF Records
      <4>2. QED BY <4>1 DEF Ids, Listed
    <3>2. CASE status[r] # "completed"
      BY <2>1, <3>1, <3>2 DEF Ids
    <3>3. CASE status[r] = "completed"
      BY <1>1, <2>1, <3>1, <3>3 DEF ProcessList
    <3>4. QED BY <3>2, <3>3
  <2>5. pc'[Poller] \notin {"process"} \cup Busy => work'[Poller] = {}
    BY <1>1, <2>1, <2>2 DEF TrackInv, ProcessList, Goto, Busy
  <2>6. ASSUME NEW x \in seen PROVE Accounted(x)'
    <3>1. rows[x[1]] >= x[2] \/ x[1] \in prev \/ x[1] \in Ids(cur)
      BY <2>2, <2>3 DEF TrackInv, Accounted, Pending, Outside, Busy
    <3>2. CASE x[1] = r
      <4>1. x[2] <= attempt[r]
        BY <3>2 DEF TrackInv
      <4>2. CASE r \in Ids(cur')
        BY <2>3, <3>2, <4>2 DEF Accounted
      <4>3. CASE <<r, attempt[r]>> \in work'[Poller]
        <5>1. Pending(x[1], x[2])'
          BY <1>2, <3>2, <4>1, <4>3, CollectAssumption DEF Pending, Inv, TypeOK, GitHubType
        <5>2. QED BY <2>3, <5>1 DEF Accounted
      <4>4. QED BY <2>4, <4>2, <4>3
    <3>3. CASE x[1] # r
      BY <2>1, <2>2, <2>3, <3>1, <3>3 DEF Accounted
    <3>4. QED BY <3>2, <3>3
  <2>7. QED BY <2>2, <2>5, <2>6 DEF TrackInv
<1>10. CASE Finish
  <2>1. /\ pc[Poller] = "catchup" /\ pc'[Poller] = "idle" /\ prev = {} /\ active' = cur /\ complete' = TRUE
        /\ seen' = seen \cup {<<x.run, x.attempt>> : x \in cur}
        /\ UNCHANGED <<attempt, rows, work>>
    BY <1>1, <1>10 DEF Finish, At, Step, Goto, ghVars, dbVars
  <2>2. work[Poller] = {}
    BY <2>1 DEF TrackInv, Busy
  <2>3. ASSUME NEW x \in seen' PROVE x[2] <= attempt'[x[1]] /\ x[1] \notin Ignored /\ Accounted(x)'
    <3>1. CASE x \in seen
      <4>1. rows[x[1]] >= x[2] \/ x[1] \in Ids(cur)
        BY <2>1, <2>2, <3>1 DEF TrackInv, Accounted, Place, Pending, Outside, Busy
      <4>2. QED BY <2>1, <3>1, <4>1 DEF TrackInv, Accounted, Place, Outside, Busy, Ids
    <3>2. CASE \E y \in cur : x = <<y.run, y.attempt>>
      <4>1. PICK y \in cur : x = <<y.run, y.attempt>>
        BY <3>2
      <4>2. y.attempt <= attempt[y.run] /\ y.run \notin Ignored
        BY DEF Inv, ListsOK, KnownRecord
      <4>3. x[1] \in Ids(cur)
        BY <4>1 DEF Ids
      <4>4. QED BY <2>1, <4>1, <4>2, <4>3 DEF Accounted, Place, Outside, Busy, Ids
    <3>3. QED BY <2>1, <3>1, <3>2
  <2>4. QED BY <2>1, <2>2, <2>3 DEF TrackInv
<1>11. CASE Crash
  <2>1. seen' = {} /\ complete' = TRUE /\ work'[Poller] = {}
    BY <1>1, <1>11 DEF Crash
  <2>2. QED BY <2>1 DEF TrackInv
<1>12. ~ListFails /\ ~CatchUpFails
  BY DEF Lossless, ListFails, CatchUpFails
<1>13. QED BY <1>3, <1>4, <1>5, <1>6, <1>7, <1>8, <1>9, <1>10, <1>11, <1>12

\* As long as no active list is partial and no jobs fetch, catch-up GET or write
\* fails, a run once seen active is tracked until it is stored: neither a failed
\* _run_count, a failed _recent_completed, a repository missing from a pass,
\* a page shifting under the reader, a re-run, the backfill nor the size of the
\* _recent_completed page can lose it.
THEOREM NothingTrackedIsLost == ASSUME Lossless PROVE Spec => []TrackedOrStored
<1>1. Init => Inv /\ TrackInv
  <2>1. Init => TrackInv
    BY DEF Init, TrackInv, Writer
  <2>2. QED BY <2>1, InitInv
<1>2. Inv /\ TrackInv /\ [Next]_vars => (Inv /\ TrackInv)'
  <2> SUFFICES ASSUME Inv, TrackInv, [Next]_vars PROVE TrackInv'
    BY NextInv
  <2>1. CASE GitHub
    BY <2>1, TrackGitHub
  <2>2. CASE ProcessRun(Backfill) \/ BackfillPage
    BY <2>2, TrackBackfill
  <2>3. CASE ProcessRun(Poller)
    BY <2>3, TrackProcess
  <2>4. CASE (PollerStep /\ ~ProcessRun(Poller)) \/ Crash
    BY <2>4, TrackPoller DEF PollerStep
  <2>5. CASE UNCHANGED vars
    BY <2>5 DEF vars, ghVars, dbVars, itemVars, cycleVars, TrackInv, Accounted, Place, Pending, Ids
  <2>6. QED BY <2>1, <2>2, <2>3, <2>4, <2>5 DEF Next
<1>3. TrackInv => TrackedOrStored
  BY DEF TrackInv, TrackedOrStored, Accounted, Place, Outside, Busy, At
<1>4. QED BY <1>1, <1>2, <1>3, PTL DEF Spec

------------------------------------------------------------------------------
(* Counted once, and stored with its suite.                                  *)

\* Nothing is pruned: no run outlives the retention period while it is
\* followed, and the table holds every row there can be.
Unpruned == "age" \notin Fault /\ HistoryMax >= Cardinality(Run) * (MaxAttempt + 1)

\* An attempt that has been counted has its row, so neither path of collect()
\* finds it again; a suite's count is no more than the attempt it is stored
\* with, which is no more than the attempt its jobs are of.
CountInv ==
    /\ old = {} /\ back[Backfill] = "idle"
    /\ \A p \in Writer : pc[p] \in {"upsert", "upsert_suites"} /\ item[p].jobs > 0
                             => item[p].attempt <= item[p].jobs
    /\ \A p \in Writer : pc[p] = "upsert_suites" => rows[item[p].run] >= item[p].attempt
    /\ \A s \in suites : s[3] <= s[2]
    /\ \A r \in Run, a \in Attempt : /\ counted[r][a] <= 1
                                     /\ counted[r][a] > 0 => rows[r] >= a
                                     /\ suiteCounted[r][a] > 0 =>
                                          \E s \in SuiteLabels(r, a) : suiteCounted[r][a] <= s[3]
    /\ pc[Poller] = "upsert_suites" => counted[item[Poller].run][item[Poller].attempt] = 0

\* Without the retention period or the limit on the table, pruning keeps all.
LEMMA PruneKeepsAll ==
    ASSUME Unpruned, Inv, old = {}, NEW keep \in SUBSET AllRows, Kept(keep) PROVE keep = AllRows
<1> DEFINE All == Run \X (0 .. MaxAttempt)
<1>1. AllRows \subseteq All
  <2>1. \A r \in {x \in Run : rows[x] > 0} : <<r, 0>> \in All
    BY CollectAssumption
  <2>2. \A s \in suites : <<s[1], s[2]>> \in All
    BY CollectAssumption DEF Inv, TypeOK, DbType, Attempt
  <2>3. QED BY <2>1, <2>2 DEF AllRows
<1>2. IsFiniteSet(All) /\ Cardinality(All) = Cardinality(Run) * (MaxAttempt + 1)
  <2>1. IsFiniteSet(0 .. MaxAttempt) /\ Cardinality(0 .. MaxAttempt) = MaxAttempt + 1
    BY FS_Interval, CollectAssumption
  <2>2. QED BY <2>1, FS_Product, CollectAssumption
<1>3. Cardinality(AllRows) <= Cardinality(All) /\ Cardinality(AllRows) \in Nat /\ Cardinality(All) \in Nat
  BY <1>1, <1>2, FS_Subset, FS_CardinalityType
<1>4. {x \in AllRows : x[1] \notin old} = AllRows
  OBVIOUS
<1>5. Cardinality(AllRows) <= HistoryMax
  BY <1>2, <1>3, CollectAssumption DEF Unpruned
<1>6. QED BY <1>4, <1>5 DEF Kept

\* Only GitHub's clock, the pruning, the upserts and a crash touch what the
\* invariant is about.
LEMMA CountOther ==
    ASSUME Unpruned, Inv, CountInv,
           GitHub \/ (PollerStep /\ ~ProcessRun(Poller)) \/ BackfillPage \/ Crash \/ UNCHANGED vars
    PROVE  /\ old' = {} /\ back'[Backfill] = "idle"
           /\ UNCHANGED <<rows, suites>>
           /\ UNCHANGED <<counted, suiteCounted>> \/ (counted' = Zero /\ suiteCounted' = Zero)
           /\ \A p \in Writer : pc'[p] \in {"upsert", "upsert_suites"} => pc'[p] = pc[p] /\ item'[p] = item[p]
<1>1. pc \in [Writer -> PC] /\ back \in [Writer -> {"load", "next_repo", "catchup", "idle"}]
  BY DEF Inv, TypeOK, WriterType
<1>2. CASE GitHub
  BY <1>2 DEF GitHub, GhQueue, GhStart, GhComplete, GhRerun, GhAge, Unpruned, CountInv, dbVars, countVars, itemVars
<1>3. CASE StartCycle
  <2>1. PICK keep \in SUBSET AllRows :
          /\ Kept(keep)
          /\ rows' = [r \in Run |-> IF <<r, 0>> \in keep THEN rows[r] ELSE 0]
          /\ suites' = {s \in suites : <<s[1], s[2]>> \in keep}
    BY <1>3 DEF StartCycle
  <2>2. keep = AllRows
    BY <2>1, PruneKeepsAll DEF CountInv
  <2>3. rows' = rows
    <3>1. \A r \in Run : rows[r] \in 0 .. MaxAttempt /\ (rows[r] > 0 => <<r, 0>> \in AllRows)
      BY DEF Inv, TypeOK, DbType, AllRows
    <3>2. ASSUME NEW r \in Run PROVE rows'[r] = rows[r]
      <4>1. rows'[r] = IF <<r, 0>> \in AllRows THEN rows[r] ELSE 0
        BY <2>1, <2>2
      <4>2. rows[r] \in Nat /\ (rows[r] > 0 => <<r, 0>> \in AllRows)
        BY <3>1, CollectAssumption
      <4>3. QED BY <4>1, <4>2
    <3>3. rows' = [r \in Run |-> rows'[r]] /\ rows = [r \in Run |-> rows[r]]
      BY <2>1 DEF Inv, TypeOK, DbType
    <3>4. QED BY <3>2, <3>3
  <2>4. suites' = suites
    BY <2>1, <2>2 DEF AllRows
  <2>5. QED BY <1>1, <1>3, <2>3, <2>4 DEF StartCycle, Step, Goto, CountInv, ghVars, countVars
<1>4. CASE Crash
  BY <1>1, <1>4 DEF Crash, Step, Goto, CountInv, ghVars, dbVars, Writer, Poller, Backfill
<1>5. CASE BackfillPage
  BY <1>1, <1>5 DEF BackfillPage, ProcessList, Goto, CountInv, ghVars, dbVars, countVars
<1>6. CASE UNCHANGED vars
  BY <1>6 DEF vars, CountInv, ghVars, dbVars, countVars, itemVars
<1>7. CASE PollerStep /\ ~ProcessRun(Poller) /\ ~StartCycle
  <2>1. UNCHANGED <<old, rows, suites, counted, suiteCounted, item>>
    BY <1>7 DEF PollerStep, Boot, LoadRepo, LoadDone, NextRepo, CountQueued, CountActive, RepoFails,
       ListQueued, ListActive, ListPage, ListFails, SetGauges, RecentCompleted, Publish, CatchUp,
       CatchUpFails, Finish, ghVars, dbVars, countVars, itemVars
  <2> DEFINE Moves(l) == pc' = [pc EXCEPT ![Poller] = l] /\ back'[Backfill] = back[Backfill]
  <2>2. CASE ListQueued \/ ListActive
    <3>1. PICK l \in {"list_queued", "list_active", "set_gauges"} : Moves(l)
      BY <2>2 DEF ListQueued, ListActive, ListPage, Step, Goto
    <3>2. QED BY <1>1, <2>1, <3>1 DEF CountInv
  <2>3. CASE LoadRepo \/ RecentCompleted
    <3>1. Moves("process")
      BY <1>1, <2>3 DEF LoadRepo, RecentCompleted, ProcessList, Goto, Poller, Backfill, Writer
    <3>2. QED BY <1>1, <2>1, <3>1 DEF CountInv
  <2>4. CASE CatchUp \/ CatchUpFails
    <3>1. (pc' = pc /\ back' = back) \/ Moves("process")
      BY <1>1, <2>4 DEF CatchUp, CatchUpFails, ProcessList, Goto, Poller, Backfill, Writer, itemVars
    <3>2. QED BY <1>1, <2>1, <3>1 DEF CountInv
  <2>5. CASE Boot \/ LoadDone \/ NextRepo \/ CountQueued \/ CountActive \/ RepoFails \/ ListFails \/ SetGauges
             \/ Publish \/ Finish
    <3>1. Moves("load") \/ Moves("idle") \/ Moves("count_queued") \/ Moves("count_active") \/ Moves("list_queued")
            \/ Moves("list_active") \/ Moves("set_gauges") \/ Moves("next_repo") \/ Moves("recent") \/ Moves("catchup")
      BY <2>5 DEF Boot, LoadDone, NextRepo, CountQueued, CountActive, RepoFails, ListFails, SetGauges, Publish,
           Finish, Step, Goto
    <3>2. QED BY <1>1, <2>1, <3>1 DEF CountInv
  <2>6. QED BY <1>7, <2>2, <2>3, <2>4, <2>5 DEF PollerStep
<1>8. QED BY <1>2, <1>3, <1>4, <1>5, <1>6, <1>7

LEMMA CountOtherInv ==
    ASSUME Unpruned, Inv, CountInv,
           GitHub \/ (PollerStep /\ ~ProcessRun(Poller)) \/ BackfillPage \/ Crash \/ UNCHANGED vars
    PROVE  CountInv'
<1>1. /\ old' = {} /\ back'[Backfill] = "idle"
      /\ UNCHANGED <<rows, suites>>
      /\ \A p \in Writer : pc'[p] \in {"upsert", "upsert_suites"} => pc'[p] = pc[p] /\ item'[p] = item[p]
  BY CountOther
<1>2. Poller \in Writer
  BY DEF Writer
<1>3. ASSUME NEW p \in Writer, pc'[p] \in {"upsert", "upsert_suites"}
      PROVE  item'[p].run \in Run /\ item'[p].attempt \in Attempt
  BY <1>1, <1>3 DEF Inv, WorkOK, Busy, Item
<1>4. CASE UNCHANGED <<counted, suiteCounted>>
  BY <1>1, <1>2, <1>4 DEF CountInv, SuiteLabels
<1>5. CASE counted' = Zero /\ suiteCounted' = Zero
  <2>1. \A r \in Run, a \in Attempt : counted'[r][a] = 0 /\ suiteCounted'[r][a] = 0
    BY <1>5 DEF Zero
  <2>2. QED BY <1>1, <1>2, <1>3, <2>1 DEF CountInv
<1>6. QED BY <1>4, <1>5, CountOther

\* The path of a listed run into the database, by either writer.
LEMMA CountProcess ==
    ASSUME Inv, CountInv, NEW p \in Writer, ProcessRun(p) PROVE CountInv'
<1>1. /\ pc \in [Writer -> PC] /\ item \in [Writer -> Item \cup {NoItem}]
      /\ rows \in [Run -> Nat] /\ suites \subseteq Run \X Attempt \X Attempt
      /\ (\A a \in Attempt : a \in Nat /\ a > 0) /\ attempt \in [Run -> Nat] /\ Poller \in Writer
      /\ back \in [Writer -> {"load", "next_repo", "catchup", "idle"}]
  BY CollectAssumption DEF Inv, TypeOK, WriterType, DbType, GitHubType, Attempt, Writer
<1>2. \A o \in Writer : pc[o] \in Busy => item[o] \in Item /\ Completed(item[o].run, item[o].attempt)
  BY DEF Inv, WorkOK
<1>3. \A x \in Item : /\ x.run \in Run /\ x.attempt \in Attempt /\ x.jobs \in Nat
                      /\ x.jobs > 0 => x.jobs \in Attempt
                      /\ x.attempt \in Nat
  BY CollectAssumption DEF Item, Attempt
<1>4. old' = old /\ back' = back
  BY DEF ProcessRun, PickRun, ListProcessed, FetchJobs, FetchJobsFails, UpsertRun, UpsertSuites, DbFails,
       SkipRun, AbandonList, ghVars
<1>5. CASE PickRun(p) \/ ListProcessed(p) \/ FetchJobsFails(p) \/ DbFails(p)
  <2>1. UNCHANGED <<rows, suites, counted, suiteCounted>>
    BY <1>5 DEF PickRun, ListProcessed, FetchJobsFails, DbFails, dbVars, countVars
  <2>2. \A o \in Writer : pc'[o] \in {"upsert", "upsert_suites"} => pc'[o] = pc[o] /\ item'[o] = item[o]
    BY <1>1, <1>5 DEF PickRun, ListProcessed, FetchJobsFails, DbFails, SkipRun, AbandonList, Goto
  <2>3. QED BY <1>1, <1>4, <2>1, <2>2 DEF CountInv, SuiteLabels
<1>6. CASE FetchJobs(p)
  <2>1. /\ pc[p] = "jobs" /\ pc' = [pc EXCEPT ![p] = "upsert"]
        /\ UNCHANGED <<rows, suites, counted, suiteCounted>>
    BY <1>6 DEF FetchJobs, Goto, dbVars, countVars
  <2>2. PICK j \in {0, attempt[item[p].run]} : item' = [item EXCEPT ![p].jobs = j]
    BY <1>6 DEF FetchJobs
  <2>3. item[p] \in Item /\ Completed(item[p].run, item[p].attempt)
    BY <1>2, <2>1 DEF Busy
  <2>4. item'[p].jobs = j /\ item'[p].attempt = item[p].attempt /\ \A o \in Writer : o # p => item'[o] = item[o]
    BY <1>1, <2>2, <2>3 DEF Item
  <2>5. j > 0 => item[p].attempt <= j
    BY <1>1, <1>3, <2>2, <2>3 DEF Completed
  <2>6. \A o \in Writer : pc'[o] \in {"upsert", "upsert_suites"} =>
            \/ o = p /\ pc'[o] = "upsert"
            \/ o # p /\ pc'[o] = pc[o] /\ item'[o] = item[o]
    BY <1>1, <2>1, <2>4
  <2>7. QED BY <1>1, <1>4, <2>1, <2>4, <2>5, <2>6 DEF CountInv, SuiteLabels
<1>7. CASE UpsertRun(p)
  <2>1. item[p] \in Item /\ pc[p] = "upsert" /\ UNCHANGED <<suites, counted, suiteCounted>>
    BY <1>2, <1>7 DEF UpsertRun, Busy, countVars
  <2>2. CASE rows[item[p].run] < item[p].attempt
    <3>1. /\ rows' = [rows EXCEPT ![item[p].run] = item[p].attempt]
          /\ pc' = [pc EXCEPT ![p] = "upsert_suites"] /\ UNCHANGED item
      BY <1>7, <2>2 DEF UpsertRun, Goto
    <3>2. \A r \in Run : rows'[r] \in Nat /\ rows'[r] >= rows[r]
      BY <1>1, <1>3, <2>1, <2>2, <3>1
    <3>3. rows'[item[p].run] = item[p].attempt
      BY <1>1, <1>3, <2>1, <3>1
    <3>4. counted[item[p].run][item[p].attempt] = 0
      <4>1. counted[item[p].run][item[p].attempt] \in Nat
        BY <1>3, <2>1, CollectAssumption DEF Inv, TypeOK, MetricType
      <4>2. ~(rows[item[p].run] >= item[p].attempt)
        BY <1>1, <1>3, <2>1, <2>2
      <4>3. QED BY <1>3, <2>1, <4>1, <4>2 DEF CountInv
    <3>5. \A o \in Writer : pc'[o] = "upsert_suites" => rows'[item'[o].run] >= item'[o].attempt
      <4>1. ASSUME NEW o \in Writer, o # p, pc'[o] = "upsert_suites" PROVE rows'[item'[o].run] >= item'[o].attempt
        <5>1. pc[o] = "upsert_suites" /\ item[o] \in Item
          BY <1>1, <1>2, <3>1, <4>1 DEF Busy
        <5>2. rows[item[o].run] >= item[o].attempt /\ item[o].run \in Run /\ item[o].attempt \in Nat
          BY <1>1, <1>3, <5>1 DEF CountInv
        <5>3. QED BY <1>1, <3>1, <3>2, <5>2
      <4>2. item[p].attempt \in Nat
        BY <1>1, <1>3, <2>1
      <4>3. QED BY <3>1, <3>3, <4>1, <4>2
    <3>6. \A r \in Run, a \in Attempt : counted'[r][a] > 0 => rows'[r] >= a
      BY <1>1, <2>1, <3>2 DEF CountInv
    <3>7. \A o \in Writer : pc'[o] \in {"upsert", "upsert_suites"} /\ item'[o].jobs > 0
                              => item'[o].attempt <= item'[o].jobs
      BY <1>1, <2>1, <3>1 DEF CountInv
    <3>8. pc'[Poller] = "upsert_suites" => counted'[item'[Poller].run][item'[Poller].attempt] = 0
      BY <1>1, <2>1, <3>1, <3>4 DEF CountInv
    <3>9. QED BY <1>4, <2>1, <3>5, <3>6, <3>7, <3>8 DEF CountInv, SuiteLabels
  <2>3. CASE ~(rows[item[p].run] < item[p].attempt)
    <3>1. /\ UNCHANGED rows /\ pc' = [pc EXCEPT ![p] = "process"]
          /\ \A o \in Writer : o # p => item'[o] = item[o]
      BY <1>1, <1>7, <2>3 DEF UpsertRun, SkipRun, Goto
    <3>2. \A o \in Writer : pc'[o] \in {"upsert", "upsert_suites"} => pc'[o] = pc[o] /\ item'[o] = item[o]
      BY <1>1, <3>1
    <3>3. QED BY <1>1, <1>4, <2>1, <3>1, <3>2 DEF CountInv, SuiteLabels
  <2>4. QED BY <2>2, <2>3
<1>8. CASE UpsertSuites(p)
  <2> DEFINE r == item[p].run
             a == item[p].attempt
             j == item[p].jobs
             stored == j > 0 /\ \A s \in SuiteLabels(r, j) : s[3] < a
  <2>1. /\ item[p] \in Item /\ pc[p] = "upsert_suites" /\ UNCHANGED rows
        /\ r \in Run /\ a \in Attempt /\ j \in Nat /\ (j > 0 => j \in Attempt /\ a <= j)
    BY <1>2, <1>3, <1>8 DEF UpsertSuites, Busy, CountInv
  <2>2. suites' = IF stored THEN (suites \ SuiteLabels(r, j)) \cup {<<r, j, a>>} ELSE suites
    BY <1>8 DEF UpsertSuites
  <2>3. \/ UNCHANGED <<counted, suiteCounted>>
        \/ /\ p = Poller
           /\ counted' = [counted EXCEPT ![r][a] = Inc(@)]
           /\ suiteCounted' = IF stored THEN [suiteCounted EXCEPT ![r][j] = Inc(@)] ELSE suiteCounted
    <3>1. CASE Counts(p)
      <4>1. p = Poller
        BY <1>1, <3>1 DEF Counts, Writer, CountInv
      <4>2. QED BY <1>8, <3>1, <4>1 DEF UpsertSuites
    <3>2. CASE ~Counts(p)
      BY <1>8, <3>2 DEF UpsertSuites, countVars
    <3>3. QED BY <3>1, <3>2
  <2>4. pc' = [pc EXCEPT ![p] = "process"] /\ \A o \in Writer : o # p => item'[o] = item[o]
    BY <1>1, <1>8 DEF UpsertSuites, SkipRun, Goto
  <2>5. /\ counted \in [Run -> [Attempt -> Nat]] /\ suiteCounted \in [Run -> [Attempt -> Nat]]
        /\ \A n \in Nat : Inc(n) <= n + 1 /\ Inc(n) \in Nat
    BY CollectAssumption DEF Inv, TypeOK, MetricType, Inc
  <2>6. \A s \in suites' : s[3] <= s[2]
    <3>1. stored => <<r, j, a>>[3] <= <<r, j, a>>[2]
      BY <2>1
    <3>2. \A s \in suites : s[3] <= s[2]
      BY DEF CountInv
    <3>3. QED BY <2>2, <3>1, <3>2
  <2>7. \A x \in Run, b \in Attempt : counted'[x][b] <= 1 /\ (counted'[x][b] > 0 => rows'[x] >= b)
    <3>1. CASE UNCHANGED counted
      BY <2>1, <3>1 DEF CountInv
    <3>2. CASE p = Poller /\ counted' = [counted EXCEPT ![r][a] = Inc(@)]
      <4>1. counted[r][a] = 0 /\ rows[r] >= a
        BY <2>1, <3>2 DEF CountInv
      <4>2. ASSUME NEW x \in Run, NEW b \in Attempt
            PROVE  counted'[x][b] = IF x = r /\ b = a THEN Inc(counted[r][a]) ELSE counted[x][b]
        BY <2>1, <2>5, <3>2
      <4>3. Inc(0) <= 1 /\ Inc(0) \in Nat
        BY <2>5
      <4>4. QED BY <2>1, <4>1, <4>2, <4>3 DEF CountInv
    <3>3. QED BY <2>3, <3>1, <3>2
  <2>8. \A x \in Run, b \in Attempt : suiteCounted'[x][b] > 0 =>
            \E s \in SuiteLabels(x, b)' : suiteCounted'[x][b] <= s[3]
    <3> SUFFICES ASSUME NEW x \in Run, NEW b \in Attempt, suiteCounted'[x][b] > 0
                 PROVE  \E s \in SuiteLabels(x, b)' : suiteCounted'[x][b] <= s[3]
      OBVIOUS
    <3>1. \/ suiteCounted'[x][b] = suiteCounted[x][b]
          \/ stored /\ x = r /\ b = j /\ suiteCounted'[x][b] = Inc(suiteCounted[r][j])
      <4>1. CASE UNCHANGED suiteCounted
        BY <4>1
      <4>2. CASE stored /\ suiteCounted' = [suiteCounted EXCEPT ![r][j] = Inc(@)]
        BY <2>1, <2>5, <4>2
      <4>3. QED BY <2>3, <4>1, <4>2
    <3>2. CASE ~(stored /\ x = r /\ b = j)
      <4>1. PICK s \in SuiteLabels(x, b) : suiteCounted[x][b] <= s[3]
        BY <3>1, <3>2 DEF CountInv
      <4>2. s \in suites' /\ s[1] = x /\ s[2] = b
        BY <2>2, <3>2, <4>1 DEF SuiteLabels
      <4>3. s \in SuiteLabels(x, b)'
        BY <4>2 DEF SuiteLabels
      <4>4. QED BY <3>1, <3>2, <4>1, <4>3
    <3>3. CASE stored /\ x = r /\ b = j
      <4>1. <<r, j, a>> \in SuiteLabels(x, b)'
        BY <2>2, <3>3 DEF SuiteLabels
      <4>2. suiteCounted[r][j] + 1 <= a
        <5>1. suiteCounted[r][j] \in Nat /\ a \in Nat /\ a > 0
          BY <1>1, <2>1, <2>5, <3>3
        <5>2. CASE suiteCounted[r][j] > 0
          <6>1. PICK s \in SuiteLabels(r, j) : suiteCounted[r][j] <= s[3]
            BY <2>1, <3>3, <5>2 DEF CountInv
          <6>2. s[3] < a /\ s[3] \in Nat
            BY <1>1, <3>3, <6>1 DEF SuiteLabels
          <6>3. QED BY <5>1, <6>1, <6>2
        <5>3. QED BY <5>1, <5>2
      <4>3. suiteCounted'[x][b] <= a
        <5>1. suiteCounted[r][j] \in Nat /\ a \in Nat
          BY <1>1, <2>1, <2>5, <3>3
        <5>2. Inc(suiteCounted[r][j]) <= suiteCounted[r][j] + 1 /\ Inc(suiteCounted[r][j]) \in Nat
          BY <2>5, <5>1
        <5>3. QED BY <3>1, <3>3, <4>2, <5>1, <5>2
      <4>4. QED BY <4>1, <4>3
    <3>4. QED BY <3>2, <3>3
  <2>9. \A o \in Writer : pc'[o] \in {"upsert", "upsert_suites"} =>
            pc'[o] = pc[o] /\ item'[o] = item[o] /\ o # p
    BY <1>1, <2>4
  <2>10. pc'[Poller] = "upsert_suites" => counted'[item'[Poller].run][item'[Poller].attempt] = 0
    BY <1>1, <2>3, <2>9 DEF CountInv
  <2>11. QED BY <1>4, <2>1, <2>6, <2>7, <2>8, <2>9, <2>10 DEF CountInv
<1>9. QED BY <1>5, <1>6, <1>7, <1>8 DEF ProcessRun

\* completed_runs counts a finished attempt at most once and a suite's jobs at
\* most once per attempt, although two paths of collect() and a backfill find
\* the same run: no failed call, crash or re-run can break it, as long as the
\* job history keeps what tells collect() that a run is known.
THEOREM CountsAreRight == ASSUME Unpruned PROVE Spec => []CountedOnce
<1>1. Init => Inv /\ CountInv
  <2>1. Init => CountInv
    BY DEF Init, CountInv, Writer, Poller, Backfill, Zero, SuiteLabels
  <2>2. QED BY <2>1, InitInv
<1>2. Inv /\ CountInv /\ [Next]_vars => (Inv /\ CountInv)'
  <2> SUFFICES ASSUME Inv, CountInv, [Next]_vars PROVE CountInv'
    BY NextInv
  <2>1. CASE \E p \in Writer : ProcessRun(p)
    BY <2>1, CountProcess
  <2>2. CASE ~\E p \in Writer : ProcessRun(p)
    BY <2>2, CountOtherInv DEF Next, Writer
  <2>3. QED BY <2>1, <2>2
<1>3. Inv /\ CountInv => CountedOnce
  <2> SUFFICES ASSUME Inv, CountInv, NEW r \in Run, NEW a \in Attempt
               PROVE  counted[r][a] <= 1 /\ suiteCounted[r][a] <= a
    BY DEF CountedOnce
  <2>1. counted[r][a] <= 1
    BY DEF CountInv
  <2>2. suiteCounted[r][a] \in Nat /\ a \in Nat /\ \A s \in suites : s[3] \in Nat
    <3>1. \A n \in 0 .. MaxCount : n \in Nat
      BY CollectAssumption
    <3>2. \A n \in Attempt : n \in Nat
      BY CollectAssumption DEF Attempt
    <3>3. suiteCounted \in [Run -> [Attempt -> 0 .. MaxCount]] /\ suites \subseteq Run \X Attempt \X Attempt
      BY DEF Inv, TypeOK, MetricType, DbType
    <3>4. QED BY <3>1, <3>2, <3>3
  <2>3. CASE suiteCounted[r][a] > 0
    <3>1. PICK s \in SuiteLabels(r, a) : suiteCounted[r][a] <= s[3]
      BY <2>3 DEF CountInv
    <3>2. s \in suites /\ s[3] <= s[2] /\ s[2] = a /\ s[3] \in Nat
      BY <2>2, <3>1 DEF CountInv, SuiteLabels
    <3>3. QED BY <2>1, <2>2, <3>1, <3>2
  <2>4. QED BY <2>1, <2>2, <2>3
<1>4. QED BY <1>1, <1>2, <1>3, PTL DEF Spec

\* No write fails and the exporter is not restarted: a run's row and its
\* suite's are two transactions.
Unbroken == Fault \cap {"db", "crash"} = {}

\* The jobs of a run's latest attempt, once it has finished, have its suite's
\* result; the row of that attempt comes with the suite's row, or a writer is
\* between the two.
SuiteInv ==
    /\ \A p \in Writer : pc[p] \in {"upsert", "upsert_suites"} /\ item[p].run \in Pipeline
                              /\ item[p].attempt = attempt[item[p].run]
                           => item[p].jobs = attempt[item[p].run]
    /\ \A r \in Pipeline : rows[r] > 0 /\ rows[r] = attempt[r] =>
         \/ \E s \in suites : s[1] = r /\ s[3] = rows[r]
         \/ \E p \in Writer : pc[p] = "upsert_suites" /\ item[p].run = r /\ item[p].attempt = rows[r]

LEMMA SuiteGitHub ==
    ASSUME Inv, SuiteInv, GitHub PROVE SuiteInv'
<1>1. UNCHANGED <<rows, suites, pc, item>>
  BY DEF GitHub, dbVars, itemVars
<1>2. \A r \in Run : attempt[r] \in Nat /\ attempt'[r] \in Nat /\ attempt[r] <= attempt'[r]
  <2>1. PICK r \in Run : GhQueue(r) \/ GhStart(r) \/ GhComplete(r) \/ GhRerun(r) \/ GhAge(r)
    BY DEF GitHub
  <2>2. attempt \in [Run -> Nat]
    BY CollectAssumption DEF Inv, TypeOK, GitHubType
  <2>3. QED BY <2>1, <2>2 DEF GhQueue, Exists, GhStart, GhComplete, GhRerun, GhAge
<1>3. ASSUME NEW p \in Writer, pc[p] \in {"upsert", "upsert_suites"}
      PROVE  item[p].run \in Run /\ item[p].attempt \in Nat /\ item[p].attempt <= attempt[item[p].run]
  <2>1. item[p] \in Item /\ Completed(item[p].run, item[p].attempt)
    BY <1>3 DEF Inv, WorkOK, Busy
  <2>2. item[p].run \in Run /\ item[p].attempt \in Nat
    BY <2>1, CollectAssumption DEF Item, Attempt
  <2>3. QED BY <1>2, <2>1, <2>2 DEF Completed
<1>4. ASSUME NEW r \in Run, rows[r] > 0 PROVE rows[r] \in Nat /\ rows[r] <= attempt[r]
  <2>1. rows[r] \in Nat /\ Completed(r, rows[r])
    BY <1>4, CollectAssumption DEF Inv, OnlyFinishedRunsStored, TypeOK, DbType
  <2>2. QED BY <1>2, <2>1 DEF Completed
<1>5. Pipeline \subseteq Run
  BY CollectAssumption
<1>6. ASSUME NEW p \in Writer, pc[p] \in {"upsert", "upsert_suites"}, item[p].run \in Pipeline,
             item[p].attempt = attempt'[item[p].run]
      PROVE  item[p].jobs = attempt'[item[p].run]
  <2>1. attempt'[item[p].run] = attempt[item[p].run]
    BY <1>2, <1>3, <1>6
  <2>2. QED BY <1>6, <2>1 DEF SuiteInv
<1>7. ASSUME NEW r \in Pipeline, rows[r] > 0, rows[r] = attempt'[r] PROVE rows[r] = attempt[r]
  BY <1>2, <1>4, <1>5, <1>7
<1>8. QED BY <1>1, <1>6, <1>7 DEF SuiteInv

\* The other steps leave both tables and every writer between them alone.
LEMMA SuiteOther ==
    ASSUME Unpruned, Unbroken, Inv, CountInv, SuiteInv,
           (PollerStep /\ ~ProcessRun(Poller)) \/ BackfillPage \/ Crash \/ UNCHANGED vars
    PROVE  SuiteInv'
<1>1. pc \in [Writer -> PC]
  BY DEF Inv, TypeOK, WriterType
<1>2. ~Crash
  BY DEF Unbroken, Crash
<1>3. /\ UNCHANGED <<rows, suites>>
      /\ \A p \in Writer : pc'[p] \in {"upsert", "upsert_suites"} => pc'[p] = pc[p] /\ item'[p] = item[p]
  BY CountOther
<1>4. UNCHANGED attempt
  BY <1>2 DEF PollerStep, Boot, LoadRepo, LoadDone, StartCycle, NextRepo, CountQueued, CountActive, RepoFails,
       ListQueued, ListActive, ListPage, ListFails, SetGauges, RecentCompleted, Publish, CatchUp,
       CatchUpFails, Finish, BackfillPage, ghVars, vars
<1>5. \A p \in Writer : pc[p] = "upsert_suites" => pc'[p] = pc[p] /\ item'[p] = item[p]
  <2>1. CASE UNCHANGED vars
    BY <2>1 DEF vars, itemVars
  <2>2. CASE BackfillPage
    BY <1>1, <2>2 DEF BackfillPage, ProcessList, Goto
  <2>3. CASE PollerStep /\ ~ProcessRun(Poller)
    <3>1. pc[Poller] # "upsert_suites"
      BY <2>3 DEF PollerStep, Boot, LoadRepo, LoadDone, StartCycle, NextRepo, CountQueued, CountActive, RepoFails,
       ListQueued, ListActive, ListPage, ListFails, SetGauges, RecentCompleted, Publish, CatchUp,
       CatchUpFails, Finish, At
    <3>2. pc'[Backfill] = pc[Backfill] /\ item' = item
      BY <1>1, <2>3 DEF PollerStep, Boot, LoadRepo, LoadDone, StartCycle, NextRepo, CountQueued, CountActive,
       RepoFails, ListQueued, ListActive, ListPage, ListFails, SetGauges, RecentCompleted, Publish, CatchUp,
       CatchUpFails, Finish, itemVars, Step, Goto, ProcessList, Writer, Poller, Backfill
    <3>3. QED BY <3>1, <3>2 DEF Writer
  <2>4. QED BY <1>2, <2>1, <2>2, <2>3
<1>6. QED BY <1>3, <1>4, <1>5 DEF SuiteInv

LEMMA SuiteProcess ==
    ASSUME Unbroken, Inv, CountInv, SuiteInv, NEW p \in Writer, ProcessRun(p) PROVE SuiteInv'
<1>1. /\ pc \in [Writer -> PC] /\ item \in [Writer -> Item \cup {NoItem}]
      /\ rows \in [Run -> Nat] /\ attempt \in [Run -> Nat] /\ Pipeline \subseteq Run
      /\ \A s \in suites : s[1] \in Run /\ s[2] \in Nat /\ s[3] \in Nat
  <2>1. suites \subseteq Run \X Attempt \X Attempt /\ \A a \in Attempt : a \in Nat
    BY CollectAssumption DEF Inv, TypeOK, DbType, Attempt
  <2>2. QED BY <2>1, CollectAssumption DEF Inv, TypeOK, WriterType, DbType, GitHubType
<1>2. ASSUME NEW o \in Writer, pc[o] \in Busy
      PROVE  /\ item[o] \in Item /\ Completed(item[o].run, item[o].attempt)
             /\ item[o].run \in Run /\ item[o].attempt \in Nat /\ item[o].attempt > 0
             /\ item[o].attempt <= attempt[item[o].run]
  <2>1. item[o] \in Item /\ Completed(item[o].run, item[o].attempt)
    BY <1>2 DEF Inv, WorkOK
  <2>2. item[o].run \in Run /\ item[o].attempt \in Nat /\ item[o].attempt > 0
    BY <2>1, CollectAssumption DEF Item, Attempt
  <2>3. QED BY <1>1, <2>1, <2>2 DEF Completed
<1>3. UNCHANGED <<attempt, status>>
  BY DEF ProcessRun, PickRun, ListProcessed, FetchJobs, FetchJobsFails, UpsertRun, UpsertSuites, DbFails, ghVars
<1>4. ~DbFails(p)
  BY DEF Unbroken, DbFails
<1>5. CASE PickRun(p) \/ ListProcessed(p) \/ FetchJobsFails(p)
  <2>1. UNCHANGED <<rows, suites>>
    BY <1>5 DEF PickRun, ListProcessed, FetchJobsFails, dbVars
  <2>2. \A o \in Writer : pc'[o] \in {"upsert", "upsert_suites"} => pc'[o] = pc[o] /\ item'[o] = item[o]
    BY <1>1, <1>5 DEF PickRun, ListProcessed, FetchJobsFails, SkipRun, AbandonList, Goto, Inv, TypeOK, WriterType
  <2>3. \A o \in Writer : pc[o] = "upsert_suites" => pc'[o] = pc[o] /\ item'[o] = item[o]
    BY <1>1, <1>5 DEF PickRun, ListProcessed, FetchJobsFails, SkipRun, AbandonList, Goto
  <2>4. QED BY <1>3, <2>1, <2>2, <2>3 DEF SuiteInv
<1>6. CASE FetchJobs(p)
  <2>1. pc[p] = "jobs" /\ pc' = [pc EXCEPT ![p] = "upsert"] /\ UNCHANGED <<rows, suites>>
    BY <1>6 DEF FetchJobs, Goto, dbVars
  <2>2. PICK j \in {0, attempt[item[p].run]} :
          /\ j = 0 => item[p].run \notin Pipeline \/ status[item[p].run] # "completed"
          /\ item' = [item EXCEPT ![p].jobs = j]
    BY <1>6 DEF FetchJobs
  <2>3. item[p] \in Item /\ Completed(item[p].run, item[p].attempt)
        /\ item[p].attempt \in Nat /\ attempt[item[p].run] \in Nat
    BY <1>1, <1>2, <2>1 DEF Busy
  <2>4. /\ item'[p].jobs = j /\ item'[p].run = item[p].run /\ item'[p].attempt = item[p].attempt
        /\ \A o \in Writer : o # p => item'[o] = item[o]
    BY <1>1, <2>2, <2>3 DEF Item
  <2>5. item[p].run \in Pipeline /\ item[p].attempt = attempt[item[p].run] => j = attempt[item[p].run]
    BY <2>2, <2>3 DEF Completed
  <2>6. \A o \in Writer : o # p => pc'[o] = pc[o]
    BY <1>1, <2>1
  <2>7. \A o \in Writer : pc'[o] \in {"upsert", "upsert_suites"} /\ item'[o].run \in Pipeline
                              /\ item'[o].attempt = attempt'[item'[o].run]
                           => item'[o].jobs = attempt'[item'[o].run]
    BY <1>3, <2>4, <2>5, <2>6 DEF SuiteInv
  <2>8. \A o \in Writer : pc[o] = "upsert_suites" => pc'[o] = pc[o] /\ item'[o] = item[o]
    BY <2>1, <2>4, <2>6
  <2>9. QED BY <1>3, <2>1, <2>7, <2>8 DEF SuiteInv
<1>7. CASE UpsertRun(p)
  <2> DEFINE r == item[p].run
             a == item[p].attempt
  <2>1. pc[p] = "upsert" /\ UNCHANGED suites /\ r \in Run /\ a \in Nat /\ a > 0
    BY <1>2, <1>7 DEF UpsertRun, Busy
  <2>2. CASE rows[r] < a
    <3>1. rows' = [rows EXCEPT ![r] = a] /\ pc' = [pc EXCEPT ![p] = "upsert_suites"] /\ UNCHANGED item
      BY <1>7, <2>2 DEF UpsertRun, Goto
    <3>2. \A o \in Writer : pc'[o] \in {"upsert", "upsert_suites"} => pc[o] \in {"upsert", "upsert_suites"}
      BY <1>1, <2>1, <3>1
    <3>3. pc'[p] = "upsert_suites" /\ \A o \in Writer : pc[o] = "upsert_suites" => pc'[o] = pc[o]
      BY <1>1, <3>1
    <3>4. \A x \in Run : x # r => rows'[x] = rows[x]
      BY <1>1, <3>1
    <3>5. rows'[r] = a
      BY <1>1, <2>1, <3>1
    <3>6. ASSUME NEW x \in Pipeline, rows'[x] > 0, rows'[x] = attempt'[x]
          PROVE  (\/ \E s \in suites : s[1] = x /\ s[3] = rows[x]
                  \/ \E o \in Writer : pc[o] = "upsert_suites" /\ item[o].run = x /\ item[o].attempt = rows[x])'
      <4>1. CASE x = r
        BY <3>1, <3>3, <3>5, <4>1
      <4>2. CASE x # r
        <5>1. rows'[x] = rows[x] /\ rows[x] > 0 /\ rows[x] = attempt[x]
          BY <1>1, <1>3, <3>4, <3>6, <4>2
        <5>2. QED BY <2>1, <3>1, <3>3, <5>1 DEF SuiteInv
      <4>3. QED BY <4>1, <4>2
    <3>7. QED BY <1>3, <3>1, <3>2, <3>6 DEF SuiteInv
  <2>3. CASE ~(rows[r] < a)
    <3>1. /\ UNCHANGED rows /\ pc' = [pc EXCEPT ![p] = "process"]
          /\ \A o \in Writer : o # p => item'[o] = item[o]
      BY <1>1, <1>7, <2>3 DEF UpsertRun, SkipRun, Goto
    <3>2. /\ \A o \in Writer : pc'[o] \in {"upsert", "upsert_suites"} => pc'[o] = pc[o] /\ item'[o] = item[o]
          /\ \A o \in Writer : pc[o] = "upsert_suites" => pc'[o] = pc[o] /\ item'[o] = item[o]
      BY <1>1, <2>1, <3>1
    <3>3. QED BY <1>3, <2>1, <3>1, <3>2 DEF SuiteInv
  <2>4. QED BY <2>2, <2>3
<1>8. CASE UpsertSuites(p)
  <2> DEFINE r == item[p].run
             a == item[p].attempt
             j == item[p].jobs
             stored == j > 0 /\ \A s \in SuiteLabels(r, j) : s[3] < a
  <2>1. pc[p] = "upsert_suites" /\ UNCHANGED rows /\ r \in Run /\ a \in Nat /\ a > 0 /\ a <= attempt[r]
    BY <1>2, <1>8 DEF UpsertSuites, Busy
  <2>2. suites' = IF stored THEN (suites \ SuiteLabels(r, j)) \cup {<<r, j, a>>} ELSE suites
    BY <1>8 DEF UpsertSuites
  <2>3. pc' = [pc EXCEPT ![p] = "process"] /\ \A o \in Writer : o # p => item'[o] = item[o]
    BY <1>1, <1>8 DEF UpsertSuites, SkipRun, Goto
  <2>4. /\ \A o \in Writer : pc'[o] \in {"upsert", "upsert_suites"} => pc'[o] = pc[o] /\ item'[o] = item[o]
        /\ \A o \in Writer : o # p /\ pc[o] = "upsert_suites" => pc'[o] = pc[o] /\ item'[o] = item[o]
    BY <1>1, <2>3
  <2>5. ASSUME NEW x \in Pipeline, rows[x] > 0, rows[x] = attempt[x]
        PROVE  \/ \E s \in suites' : s[1] = x /\ s[3] = rows[x]
               \/ \E o \in Writer : pc'[o] = "upsert_suites" /\ item'[o].run = x /\ item'[o].attempt = rows[x]
    <3>1. CASE \E o \in Writer : o # p /\ pc[o] = "upsert_suites" /\ item[o].run = x /\ item[o].attempt = rows[x]
      BY <2>4, <3>1
    <3>2. CASE \E s \in suites : s[1] = x /\ s[3] = rows[x]
      <4>1. PICK s \in suites : s[1] = x /\ s[3] = rows[x]
        BY <3>2
      <4>2. CASE stored /\ s \in SuiteLabels(r, j)
        <5>1. s[3] < a /\ x = r
          BY <4>1, <4>2 DEF SuiteLabels
        <5>2. QED BY <1>1, <2>1, <2>5, <4>1, <5>1
      <4>3. CASE ~(stored /\ s \in SuiteLabels(r, j))
        BY <2>2, <4>1, <4>3
      <4>4. QED BY <4>2, <4>3
    <3>3. CASE r = x /\ a = rows[x]
      <4>1. j = attempt[r] /\ j = a /\ j > 0
        BY <2>1, <2>5, <3>3 DEF SuiteInv
      <4>2. CASE stored
        <5>1. <<r, j, a>> \in suites'
          BY <2>2, <4>2
        <5>2. <<r, j, a>>[1] = x /\ <<r, j, a>>[3] = rows[x]
          BY <3>3
        <5>3. QED BY <5>1, <5>2
      <4>3. CASE ~stored
        <5>1. PICK s \in SuiteLabels(r, j) : ~(s[3] < a)
          BY <4>1, <4>3
        <5>2. s \in suites /\ s[1] = r /\ s[2] = j /\ s[3] <= s[2]
          BY <5>1 DEF SuiteLabels, CountInv
        <5>3. s[3] = a
          BY <1>1, <2>1, <4>1, <5>1, <5>2
        <5>4. QED BY <2>2, <3>3, <4>3, <5>2, <5>3
      <4>4. QED BY <4>2, <4>3
    <3>4. QED BY <2>5, <3>1, <3>2, <3>3 DEF SuiteInv
  <2>6. QED BY <1>3, <2>1, <2>4, <2>5 DEF SuiteInv
<1>9. QED BY <1>4, <1>5, <1>6, <1>7, <1>8 DEF ProcessRun

\* The row of a pull-request-flow run's latest attempt is never without its
\* suite's, although the two are separate transactions, two writers interleave
\* and the jobs read are those of whichever attempt is the latest by then:
\* _process_completed_run reads the jobs first and writes the suites last.
THEOREM SuitesComeWithRuns == ASSUME Unpruned, Unbroken PROVE Spec => []SuitesStored
<1>1. Init => Inv /\ CountInv /\ SuiteInv
  <2>1. Init => CountInv /\ SuiteInv
    BY CollectAssumption DEF Init, CountInv, SuiteInv, Writer, Poller, Backfill, Zero, SuiteLabels
  <2>2. QED BY <2>1, InitInv
<1>2. Inv /\ CountInv /\ SuiteInv /\ [Next]_vars => (Inv /\ CountInv /\ SuiteInv)'
  <2> SUFFICES ASSUME Inv, CountInv, SuiteInv, [Next]_vars PROVE CountInv' /\ SuiteInv'
    BY NextInv
  <2>1. CASE \E p \in Writer : ProcessRun(p)
    BY <2>1, CountProcess, SuiteProcess
  <2>2. CASE ~\E p \in Writer : ProcessRun(p)
    BY <2>2, CountOtherInv, SuiteGitHub, SuiteOther DEF Next, Writer
  <2>3. QED BY <2>1, <2>2
<1>3. SuiteInv => SuitesStored
  BY DEF SuiteInv, SuitesStored
<1>4. QED BY <1>1, <1>2, <1>3, PTL DEF Spec

------------------------------------------------------------------------------
(* What a cycle publishes.                                                   *)

\* Every repository is probed and counted, and each of its two active lists
\* fits on one page: a run that finishes while a longer list is paged pulls
\* the runs after it back over the edge of the page.
Listable == Fault \cap {"repos", "count"} = {} /\ Page >= Cardinality(Run)

\* The steadily active runs of the repository being visited, and of those done.
Visiting == {"count_queued", "count_active", "list_queued", "list_active", "set_gauges"}
Here == {r \in steady : pc[Poller] \in Visiting /\ RepoOf[r] = repo}
Done == {r \in steady : RepoOf[r] \notin todo} \ Here
InCycle == Place \notin Outside \cup {"catchup"}

\* A run still queued when the queued list is read is on it, and otherwise it
\* is on the in-progress list, which is read later.
Found(r) ==
    /\ pc[Poller] = "count_active" => q > 0 \/ status[r] = "in_progress"
    /\ pc[Poller] = "list_active" => r \in Ids(fetched) \/ status[r] = "in_progress"
    /\ pc[Poller] = "set_gauges" => r \in Ids(fetched)

Collected ==
    /\ complete => \A r \in Done : r \in Ids(cur)
    /\ complete => \A r \in Here : Found(r)

Summed ==
    /\ Cardinality(Done) <= tot[1] + tot[2]
    /\ pc[Poller] = "count_active" => Cardinality({r \in Here : status[r] = "queued"}) <= q
    /\ pc[Poller] \in {"list_queued", "list_active", "set_gauges"} => Cardinality(Here) <= q + ip

GaugeInv ==
    /\ \A r \in steady : IsActive(r) /\ r \notin Ignored
    /\ pc[Poller] \in {"list_queued", "list_active"} => offset = 0
    /\ InCycle => Collected /\ Summed

LEMMA Smaller ==
    ASSUME NEW T \in SUBSET Run, NEW S \in SUBSET T
    PROVE  Cardinality(S) \in Nat /\ Cardinality(T) \in Nat /\ Cardinality(S) <= Cardinality(T)
<1>1. IsFiniteSet(T)
  BY FS_Subset, CollectAssumption
<1>2. QED BY <1>1, FS_Subset, FS_CardinalityType

\* A list that fits on a page is read whole.
LEMMA WholePage ==
    ASSUME Listable, Inv, NEW S \in SUBSET Run
    PROVE  Slice(S, 0, Page) = S /\ ~(Cardinality(S) > 0 + Page)
<1>1. Cardinality(S) <= Page /\ Cardinality(S) \in Nat
  BY Smaller, CollectAssumption DEF Listable
<1>2. ASSUME NEW r \in S PROVE Rank(S, r) >= 0 /\ Rank(S, r) < 0 + Page
  <2> DEFINE T == {s \in S : born[s] > born[r]}
  <2>1. T \subseteq S \ {r}
    <3>1. born[r] \in Nat
      BY DEF Inv, TypeOK, GitHubType
    <3>2. QED BY <3>1
  <2>2. Cardinality(T) <= Cardinality(S \ {r}) /\ Cardinality(T) \in Nat
    BY <2>1, Smaller
  <2>3. Cardinality(S \ {r}) = Cardinality(S) - 1
    BY FS_Subset, FS_RemoveElement, CollectAssumption
  <2>4. QED BY <1>1, <2>2, <2>3, CollectAssumption DEF Rank
<1>3. QED BY <1>1, <1>2, CollectAssumption DEF Slice

\* While a cycle goes on, a run that stays active can only start.
LEMMA GaugeGitHub ==
    ASSUME Inv, GaugeInv, GitHub PROVE GaugeInv'
<1>1. UNCHANGED <<pc, back, todo, repo, q, ip, tot, offset, fetched, cur, complete>>
  BY DEF GitHub, itemVars, cycleVars
<1>2. steady \subseteq Run
  BY DEF Inv, TypeOK, TrackType
<1>3. ASSUME NEW r \in steady'
      PROVE  /\ r \in steady /\ IsActive(r)' /\ r \notin Ignored
             /\ status[r] = "in_progress" => status'[r] = "in_progress"
             /\ status'[r] = "queued" => status[r] = "queued"
  <2>1. PICK x \in Run : GhQueue(x) \/ GhStart(x) \/ GhComplete(x) \/ GhRerun(x) \/ GhAge(x)
    BY DEF GitHub
  <2>2. r \in steady /\ r \in Run
    BY <1>2, <2>1 DEF GhQueue, GhStart, GhComplete, GhRerun, GhAge
  <2>3. status[r] \in {"queued", "in_progress"} /\ r \notin Ignored
    BY <2>2 DEF GaugeInv, IsActive, Active
  <2>4. status \in [Run -> {"none", "queued", "in_progress", "completed"}]
    BY DEF Inv, TypeOK, GitHubType
  <2>5. CASE r # x
    BY <2>1, <2>2, <2>3, <2>4, <2>5 DEF GhQueue, GhStart, GhComplete, GhRerun, GhAge, IsActive, Active
  <2>6. CASE r = x
    <3>1. attempt[r] > 0
      BY <2>2, <2>3, CollectAssumption DEF Inv, GitHubOK, TypeOK, GitHubType
    <3>2. GhStart(r)
      BY <2>1, <2>3, <2>6, <3>1 DEF GhQueue, GhComplete, GhRerun, GhAge, Exists
    <3>3. QED BY <2>2, <2>3, <2>4, <3>2 DEF GhStart, IsActive, Active
  <2>7. QED BY <2>5, <2>6
<1>4. /\ Here' \subseteq Here /\ Done' \subseteq Done
      /\ {r \in Here' : status'[r] = "queued"} \subseteq {r \in Here : status[r] = "queued"}
  BY <1>1, <1>3 DEF Here, Done
<1>5. Here \subseteq Run /\ Done \subseteq Run
  BY <1>2 DEF Here, Done
<1>6. CASE InCycle
  <2>1. Collected'
    BY <1>1, <1>3, <1>4, <1>6 DEF GaugeInv, Collected, Found, Ids, Here
  <2>2. Summed'
    <3>1. Cardinality(Done') <= Cardinality(Done) /\ Cardinality(Here') <= Cardinality(Here)
          /\ Cardinality(Done) \in Nat /\ Cardinality(Here) \in Nat
          /\ Cardinality(Done') \in Nat /\ Cardinality(Here') \in Nat
      BY <1>4, <1>5, Smaller
    <3>2. Cardinality({r \in Here' : status'[r] = "queued"}) <= Cardinality({r \in Here : status[r] = "queued"})
          /\ Cardinality({r \in Here' : status'[r] = "queued"}) \in Nat
          /\ Cardinality({r \in Here : status[r] = "queued"}) \in Nat
      BY <1>4, <1>5, Smaller
    <3>3. q \in Nat /\ ip \in Nat /\ tot[1] \in Nat /\ tot[2] \in Nat
      BY DEF Inv, TypeOK, CycleType
    <3>4. QED BY <1>1, <1>6, <3>1, <3>2, <3>3 DEF GaugeInv, Summed
  <2>3. QED BY <1>1, <1>3, <2>1, <2>2 DEF GaugeInv
<1>7. CASE ~InCycle
  BY <1>1, <1>3, <1>7 DEF GaugeInv, InCycle, Place
<1>8. QED BY <1>6, <1>7

\* Processing a run and the other writer leave the cycle where it is.
LEMMA GaugeProcess ==
    ASSUME Inv, GaugeInv, ProcessRun(Poller) \/ ProcessRun(Backfill) \/ BackfillPage \/ UNCHANGED vars
    PROVE  GaugeInv'
<1>1. UNCHANGED <<steady, status, todo, repo, q, ip, tot, offset, fetched, cur, complete>>
  BY DEF ProcessRun, PickRun, ListProcessed, FetchJobs, FetchJobsFails, UpsertRun, UpsertSuites, DbFails,
       BackfillPage, ghVars, cycleVars, vars
<1>2. /\ pc \in [Writer -> PC] /\ Poller \in Writer /\ Backfill \in Writer
      /\ back \in [Writer -> {"load", "next_repo", "catchup", "idle"}]
  BY DEF Inv, TypeOK, WriterType, Writer
<1>3. CASE pc'[Poller] = pc[Poller] /\ back'[Poller] = back[Poller]
  BY <1>1, <1>3 DEF GaugeInv, InCycle, Place, Collected, Summed, Here, Done, Found, IsActive
<1>4. CASE ProcessRun(Poller)
  <2>1. pc[Poller] \in {"process"} \cup Busy /\ back' = back
    BY <1>4 DEF ProcessRun, PickRun, ListProcessed, FetchJobs, FetchJobsFails, UpsertRun, UpsertSuites, DbFails,
         SkipRun, AbandonList, Busy
  <2>2. pc'[Poller] \in {"process"} \cup Busy \/ pc'[Poller] = back[Poller]
    BY <1>2, <1>4 DEF ProcessRun, PickRun, ListProcessed, FetchJobs, FetchJobsFails, UpsertRun, UpsertSuites,
         DbFails, SkipRun, AbandonList, Goto, Busy
  <2>3. back[Poller] \in {"load", "next_repo", "catchup", "idle"}
    BY <1>2
  <2>4. Place' = Place
    BY <2>1, <2>2, <2>3 DEF Place, Busy
  <2>5. pc[Poller] \notin Visiting /\ pc'[Poller] \notin Visiting
    BY <2>1, <2>2, <2>3 DEF Visiting, Busy
  <2>6. Here = {} /\ Here' = {} /\ Done' = Done
    BY <1>1, <2>5 DEF Here, Done
  <2>7. GaugeInv => Collected' \/ ~InCycle'
    BY <1>1, <2>4, <2>6 DEF GaugeInv, InCycle, Collected
  <2>8. GaugeInv => Summed' \/ ~InCycle'
    BY <1>1, <2>4, <2>5, <2>6 DEF GaugeInv, InCycle, Summed, Visiting
  <2>9. QED BY <1>1, <2>5, <2>7, <2>8 DEF GaugeInv, IsActive, Visiting
<1>5. CASE ProcessRun(Backfill) \/ BackfillPage \/ UNCHANGED vars
  <2>1. pc'[Poller] = pc[Poller] /\ back'[Poller] = back[Poller]
    BY <1>2, <1>5 DEF ProcessRun, PickRun, ListProcessed, FetchJobs, FetchJobsFails, UpsertRun, UpsertSuites,
         DbFails, SkipRun, AbandonList, BackfillPage, ProcessList, Goto, Poller, Backfill, vars, itemVars
  <2>2. QED BY <1>3, <2>1
<1>6. QED BY <1>4, <1>5

\* A step that ends or begins outside the visits to repositories.
LEMMA GaugeOutside ==
    ASSUME Listable, Inv, GaugeInv, Boot \/ LoadRepo \/ LoadDone \/ StartCycle \/ Publish \/ CatchUp
                                     \/ CatchUpFails \/ Finish \/ Crash
    PROVE  GaugeInv'
<1>1. /\ pc \in [Writer -> PC] /\ Poller \in Writer
      /\ back \in [Writer -> {"load", "next_repo", "catchup", "idle"}]
  BY DEF Inv, TypeOK, WriterType, Writer
<1>2. CASE StartCycle
  <2>1. /\ todo' = Repo /\ tot' = <<0, 0>> /\ pc'[Poller] = "next_repo" /\ UNCHANGED status
        /\ steady' = {r \in Run \ Ignored : IsActive(r)}
    BY <1>1, <1>2 DEF StartCycle, ActiveRepos, Listable, Step, Goto, ghVars
  <2>2. \A r \in steady' : RepoOf[r] \in todo'
    BY <2>1, CollectAssumption
  <2>3. Here' = {} /\ Done' = {}
    BY <2>1, <2>2 DEF Here, Done, Visiting
  <2>4. Cardinality(Done') = 0
    BY <2>3, FS_EmptySet
  <2>5. Collected' /\ Summed'
    BY <2>1, <2>3, <2>4 DEF Collected, Summed
  <2>6. QED BY <2>1, <2>5 DEF GaugeInv, IsActive
<1>3. CASE Boot \/ LoadDone \/ Publish \/ Finish \/ Crash
  <2>1. /\ pc'[Poller] \in Outside \cup {"catchup"} /\ UNCHANGED status
        /\ steady' = steady \/ steady' = {}
    BY <1>1, <1>3 DEF Boot, LoadDone, Publish, Finish, Crash, Step, Goto, Outside, ghVars
  <2>2. ~InCycle'
    BY <2>1 DEF InCycle, Place, Outside, Busy
  <2>3. QED BY <2>1, <2>2 DEF GaugeInv, IsActive, Outside
<1>4. CASE LoadRepo \/ CatchUp \/ CatchUpFails
  <2>1. UNCHANGED <<status, steady>>
    BY <1>4 DEF LoadRepo, CatchUp, CatchUpFails, ghVars
  <2>2. \/ pc'[Poller] = "process" /\ back'[Poller] \in {"load", "catchup"}
        \/ pc'[Poller] = "catchup"
    BY <1>1, <1>4 DEF LoadRepo, CatchUp, CatchUpFails, ProcessList, Goto, At, itemVars
  <2>3. ~InCycle'
    BY <2>2 DEF InCycle, Place, Outside, Busy
  <2>4. QED BY <2>1, <2>2, <2>3 DEF GaugeInv, IsActive
<1>5. QED BY <1>2, <1>3, <1>4

\* The visit to a repository.
LEMMA GaugeVisit ==
    ASSUME Listable, Inv, GaugeInv,
           NextRepo \/ CountQueued \/ CountActive \/ RepoFails \/ ListQueued \/ ListActive \/ ListFails
             \/ SetGauges \/ RecentCompleted
    PROVE  GaugeInv'
<1>1. /\ pc \in [Writer -> PC] /\ Poller \in Writer
      /\ back \in [Writer -> {"load", "next_repo", "catchup", "idle"}]
      /\ q \in Nat /\ ip \in Nat /\ tot[1] \in Nat /\ tot[2] \in Nat
      /\ steady \subseteq Run
  BY DEF Inv, TypeOK, WriterType, Writer, CycleType, TrackType
<1>2. UNCHANGED <<status, steady>> /\ pc[Poller] \in Visiting \cup {"next_repo", "recent"}
  BY DEF NextRepo, CountQueued, CountActive, RepoFails, ListQueued, ListActive, ListPage, ListFails, SetGauges,
       RecentCompleted, At, Visiting, ghVars
<1>3. Collected /\ Summed /\ \A r \in steady : IsActive(r) /\ r \notin Ignored
  <2>1. InCycle
    BY <1>2 DEF InCycle, Place, Outside, Busy, Visiting
  <2>2. QED BY <2>1 DEF GaugeInv
<1>4. (\A r \in steady : IsActive(r) /\ r \notin Ignored)'
  BY <1>2, <1>3 DEF IsActive
<1>5. Here \subseteq Run /\ Done \subseteq Run /\ Cardinality(Here) \in Nat /\ Cardinality(Done) \in Nat
  <2>1. Here \subseteq Run /\ Done \subseteq Run
    BY <1>1 DEF Here, Done
  <2>2. QED BY <2>1, Smaller
<1>6. \A st : {r \in Here : status[r] = st} \subseteq Run /\ Cardinality({r \in Here : status[r] = st}) \in Nat
  BY <1>5, Smaller
<1>7. CASE NextRepo
  <2>1. PICK rp \in todo : repo' = rp /\ todo' = todo \ {rp}
    BY <1>7 DEF NextRepo
  <2>2. /\ pc[Poller] = "next_repo" /\ pc'[Poller] = "count_queued"
        /\ UNCHANGED <<q, ip, tot, fetched, cur, complete>>
    BY <1>1, <1>7 DEF NextRepo, At, Step, Goto
  <2>3. Done' \subseteq Done
    BY <1>2, <2>1, <2>2 DEF Done, Here, Visiting
  <2>4. Cardinality(Done') <= Cardinality(Done) /\ Cardinality(Done') \in Nat
    BY <1>5, <2>3, Smaller
  <2>5. Collected' /\ Summed'
    BY <1>1, <1>3, <1>5, <2>2, <2>3, <2>4 DEF Collected, Summed, Found, Ids
  <2>6. QED BY <1>4, <2>2, <2>5 DEF GaugeInv
<1>8. CASE CountQueued
  <2>1. /\ pc[Poller] = "count_queued" /\ pc'[Poller] = "count_active" /\ q' = Cardinality(RunsOf(repo, "queued"))
        /\ UNCHANGED <<todo, repo, tot, cur, complete>>
    BY <1>1, <1>8 DEF CountQueued, RunCount, Listable, At, Step, Goto
  <2>2. Here' = Here /\ Done' = Done
    BY <1>2, <2>1 DEF Here, Done, Visiting
  <2>3. {r \in Here : status[r] = "queued"} \subseteq RunsOf(repo, "queued")
    BY <1>5 DEF Here, RunsOf
  <2>4. Cardinality({r \in Here : status[r] = "queued"}) <= q' /\ q' \in Nat
    BY <2>1, <2>3, Smaller DEF RunsOf
  <2>5. ASSUME NEW r \in Here PROVE q' > 0 \/ status[r] = "in_progress"
    <3>1. CASE status[r] = "queued"
      <4>1. r \in RunsOf(repo, "queued") /\ IsFiniteSet(RunsOf(repo, "queued"))
        BY <2>3, <3>1, FS_Subset, CollectAssumption DEF RunsOf
      <4>2. q' # 0
        BY <2>1, <4>1, FS_EmptySet
      <4>3. QED BY <2>4, <4>2
    <3>2. QED BY <1>3, <3>1 DEF Here, IsActive, Active
  <2>6. Collected' /\ Summed'
    BY <1>2, <1>3, <2>1, <2>2, <2>4, <2>5 DEF Collected, Summed, Found, Ids
  <2>7. QED BY <1>4, <2>1, <2>6 DEF GaugeInv
<1>9. CASE CountActive
  <2>1. /\ pc[Poller] = "count_active" /\ ip' = Cardinality(RunsOf(repo, "in_progress"))
        /\ pc'[Poller] = (IF q > 0 \/ ip' > 0 THEN "list_queued" ELSE "set_gauges")
        /\ offset' = 0 /\ UNCHANGED <<todo, repo, q, tot, cur, complete>>
    BY <1>1, <1>9 DEF CountActive, RunCount, Listable, At, Step, Goto
  <2>2. Here' = Here /\ Done' = Done
    BY <1>2, <2>1 DEF Here, Done, Visiting
  <2>3. {r \in Here : status[r] = "in_progress"} \subseteq RunsOf(repo, "in_progress")
    BY <1>5 DEF Here, RunsOf
  <2>4. Cardinality({r \in Here : status[r] = "in_progress"}) <= ip' /\ ip' \in Nat
    BY <2>1, <2>3, Smaller DEF RunsOf
  <2>5. Cardinality(Here) <= q + ip'
    <3> DEFINE Queued  == {r \in Here : status[r] = "queued"}
               Started == {r \in Here : status[r] = "in_progress"}
    <3>0. Cardinality(Queued) \in Nat /\ Cardinality(Started) \in Nat
      BY <1>6
    <3>1. Here = Queued \cup Started
      BY <1>3 DEF Here, IsActive, Active
    <3>2. IsFiniteSet(Queued) /\ IsFiniteSet(Started)
      BY <1>6, FS_Subset, CollectAssumption
    <3>3. Cardinality(Queued \cup Started) <= Cardinality(Queued) + Cardinality(Started)
      <4>1. Cardinality(Queued \cup Started)
              = Cardinality(Queued) + Cardinality(Started) - Cardinality(Queued \cap Started)
        BY <3>2, FS_Union
      <4>2. Cardinality(Queued \cap Started) \in Nat
        BY <1>5, Smaller
      <4> HIDE DEF Queued, Started
      <4>3. QED BY <3>0, <4>1, <4>2
    <3>4. Cardinality(Queued) <= q
      BY <1>3, <2>1 DEF Summed
    <3>5. Cardinality(Started) <= ip' /\ ip' \in Nat
      BY <2>4
    <3>6. Cardinality(Here) <= Cardinality(Queued) + Cardinality(Started)
      <4> HIDE DEF Queued, Started
      <4>1. QED BY <3>1, <3>3
    <3> HIDE DEF Queued, Started
    <3>7. QED BY <1>1, <1>5, <3>0, <3>4, <3>5, <3>6
  <2>6. pc'[Poller] = "set_gauges" => Here = {}
    <3> SUFFICES ASSUME ~(q > 0), ~(ip' > 0) PROVE Here = {}
      BY <2>1
    <3>1. Cardinality(Here) = 0
      BY <1>1, <1>5, <2>4, <2>5
    <3>2. IsFiniteSet(Here)
      BY <1>5, FS_Subset, CollectAssumption
    <3>3. QED BY <3>1, <3>2, FS_EmptySet
  <2>7. pc'[Poller] \in {"list_queued", "set_gauges"}
    BY <2>1
  <2>8. Collected'
    BY <1>3, <2>1, <2>2, <2>6, <2>7 DEF Collected, Found, Ids
  <2>9. Summed'
    BY <1>3, <2>1, <2>2, <2>5, <2>7 DEF Summed
  <2>10. QED BY <1>4, <2>1, <2>8, <2>9 DEF GaugeInv
<1>10. CASE ListQueued \/ ListActive
  <2>1. PICK st \in Active, next \in {"list_active", "set_gauges"} :
          /\ ListPage(st, pc[Poller], next)
          /\ pc[Poller] \in {"list_queued", "list_active"}
          /\ next = "list_active" => st = "queued"
          /\ next = "set_gauges" => st = "in_progress" /\ pc[Poller] = "list_active"
    BY <1>10 DEF ListQueued, ListActive, ListPage, At, Active
  <2>2. offset = 0
    BY <2>1 DEF GaugeInv
  <2>3. RunsOf(repo, st) \subseteq Run
    BY DEF RunsOf
  <2>4. /\ fetched' = fetched \cup Records(RunsOf(repo, st) \ Ignored)
        /\ offset' = 0 /\ pc'[Poller] = next
        /\ UNCHANGED <<todo, repo, q, ip, tot, cur>>
        /\ complete' => complete
    <3> DEFINE all == RunsOf(repo, st)
    <3>1. Slice(all, 0, Page) = all /\ ~(Cardinality(all) > 0 + Page)
      BY <2>3, WholePage
    <3>2. /\ fetched' = fetched \cup Records(Slice(all, offset, Page) \ Ignored)
          /\ offset' = IF Cardinality(all) > offset + Page THEN offset + Page ELSE 0
          /\ Step(IF Cardinality(all) > offset + Page THEN pc[Poller] ELSE next)
          /\ complete' => complete
          /\ UNCHANGED <<todo, repo, q, ip, tot, cur>>
      BY <2>1 DEF ListPage
    <3> HIDE DEF all
    <3>3. /\ fetched' = fetched \cup Records(all \ Ignored) /\ offset' = 0 /\ Step(next)
      BY <2>2, <3>1, <3>2
    <3>4. pc'[Poller] = next
      BY <1>1, <3>3 DEF Step, Goto
    <3>5. QED BY <3>2, <3>3, <3>4 DEF all
  <2>5. Here' = Here /\ Done' = Done
    BY <1>2, <2>1, <2>4 DEF Here, Done, Visiting
  <2>6. ASSUME NEW r \in Here, status[r] = st PROVE r \in Ids(fetched')
    <3>1. r \in RunsOf(repo, st) \ Ignored
      BY <1>3, <1>5, <2>6 DEF Here, RunsOf
    <3>2. [run |-> r, status |-> status[r], attempt |-> attempt[r]] \in fetched'
      BY <2>4, <3>1 DEF Records
    <3>3. QED BY <3>2 DEF Ids
  <2>7. Ids(fetched) \subseteq Ids(fetched')
    BY <2>4 DEF Ids
  <2>8. ASSUME complete', NEW r \in Here PROVE Found(r)'
    <3>1. Found(r) /\ status[r] \in {"queued", "in_progress"}
      BY <1>3, <2>4, <2>8 DEF Collected, Here, IsActive, Active
    <3>2. CASE next = "list_active"
      BY <1>2, <2>1, <2>4, <2>6, <3>1, <3>2 DEF Found
    <3>3. CASE next = "set_gauges"
      BY <1>2, <2>1, <2>4, <2>6, <2>7, <3>1, <3>3 DEF Found
    <3>4. QED BY <2>1, <3>2, <3>3
  <2>9. Collected'
    BY <1>3, <2>4, <2>5, <2>8 DEF Collected, Ids
  <2>10. Summed'
    BY <1>3, <2>1, <2>4, <2>5 DEF Summed
  <2>11. QED BY <1>4, <2>4, <2>9, <2>10 DEF GaugeInv
<1>11. CASE ListFails
  <2>1. /\ pc[Poller] \in {"list_queued", "list_active"} /\ pc'[Poller] \in {"list_active", "set_gauges"}
        /\ complete' = FALSE /\ offset' = 0 /\ UNCHANGED <<todo, repo, q, ip, tot>>
    BY <1>1, <1>11 DEF ListFails, At, Step, Goto
  <2>2. Here' = Here /\ Done' = Done
    BY <1>2, <2>1 DEF Here, Done, Visiting
  <2>3. Collected' /\ Summed'
    BY <1>3, <2>1, <2>2 DEF Collected, Summed
  <2>4. QED BY <1>4, <2>1, <2>3 DEF GaugeInv
<1>12. CASE SetGauges
  <2>1. /\ pc[Poller] = "set_gauges" /\ pc'[Poller] = "recent" /\ cur' = cur \cup fetched
        /\ tot' = <<tot[1] + q, tot[2] + ip>> /\ UNCHANGED <<todo, repo, complete>>
    BY <1>1, <1>12 DEF SetGauges, At, Step, Goto
  <2>2. Here' = {} /\ Done' \subseteq Done \cup Here
    BY <1>2, <2>1 DEF Here, Done, Visiting
  <2>3. Cardinality(Done') <= Cardinality(Done) + Cardinality(Here) /\ Cardinality(Done') \in Nat
    <3>1. IsFiniteSet(Done) /\ IsFiniteSet(Here) /\ Done \cup Here \subseteq Run
      BY <1>5, FS_Subset, CollectAssumption
    <3>2. Cardinality(Done \cup Here) = Cardinality(Done) + Cardinality(Here) - Cardinality(Done \cap Here)
      BY <3>1, FS_Union
    <3>3. Cardinality(Done \cap Here) \in Nat
      BY <1>5, Smaller
    <3>4. Cardinality(Done') <= Cardinality(Done \cup Here) /\ Cardinality(Done') \in Nat
          /\ Cardinality(Done \cup Here) \in Nat
      BY <2>2, <3>1, Smaller
    <3>5. QED BY <1>5, <3>2, <3>3, <3>4
  <2>4. Summed'
    <3>1. Cardinality(Done) <= tot[1] + tot[2] /\ Cardinality(Here) <= q + ip
      BY <1>3, <2>1 DEF Summed
    <3>2. tot'[1] = tot[1] + q /\ tot'[2] = tot[2] + ip
      BY <2>1
    <3>3. Cardinality(Done') <= tot'[1] + tot'[2]
      BY <1>1, <1>5, <2>3, <3>1, <3>2
    <3>4. QED BY <2>1, <3>3 DEF Summed
  <2>5. Collected'
    BY <1>3, <2>1, <2>2 DEF Collected, Found, Ids
  <2>6. QED BY <1>4, <2>1, <2>4, <2>5 DEF GaugeInv
<1>13. CASE RepoFails \/ RecentCompleted
  <2>1. /\ pc[Poller] = "recent" /\ pc'[Poller] \in {"next_repo", "process"}
        /\ UNCHANGED <<todo, tot, cur, complete>>
    BY <1>1, <1>13 DEF RepoFails, RecentCompleted, ProcessList, Listable, At, Step, Goto
  <2>2. Here = {} /\ Here' = {} /\ Done' = Done
    BY <1>2, <2>1 DEF Here, Done, Visiting
  <2>3. Collected' /\ Summed'
    BY <1>3, <2>1, <2>2 DEF Collected, Summed, Ids
  <2>4. QED BY <1>4, <2>1, <2>3 DEF GaugeInv
<1>14. QED BY <1>7, <1>8, <1>9, <1>10, <1>11, <1>12, <1>13

\* Publishing at the end of the visits: every run that has been active all the
\* time is in current_active, and the totals count at least these runs.  The
\* two lists are read one after the other while runs start and finish; the
\* order, queued first, is what the theorem rests on.
THEOREM GaugesCover == ASSUME Listable PROVE Spec => GaugesCoverActiveRuns
<1>1. Init => Inv /\ GaugeInv
  <2>1. Init => GaugeInv
    BY DEF Init, GaugeInv, InCycle, Place, Outside, Busy, Writer, Poller
  <2>2. QED BY <2>1, InitInv
<1>2. Inv /\ GaugeInv /\ [Next]_vars => (Inv /\ GaugeInv)'
  <2> SUFFICES ASSUME Inv, GaugeInv, [Next]_vars PROVE GaugeInv'
    BY NextInv
  <2>1. CASE GitHub
    BY <2>1, GaugeGitHub
  <2>2. CASE ProcessRun(Poller) \/ ProcessRun(Backfill) \/ BackfillPage \/ UNCHANGED vars
    BY <2>2, GaugeProcess
  <2>3. CASE Crash \/ (PollerStep /\ ~ProcessRun(Poller))
    BY <2>3, GaugeOutside, GaugeVisit DEF PollerStep
  <2>4. QED BY <2>1, <2>2, <2>3 DEF Next
<1>3. Inv /\ GaugeInv /\ [Next]_vars =>
        [At("next_repo") /\ pc'[Poller] = "catchup" =>
           /\ complete => steady \subseteq Ids(published')
           /\ gauge'[Org][1] + gauge'[Org][2] >= Cardinality(steady)]_vars
  <2> SUFFICES ASSUME Inv, GaugeInv, [Next]_vars, pc[Poller] = "next_repo", pc'[Poller] = "catchup"
               PROVE  /\ complete => steady \subseteq Ids(published')
                      /\ gauge'[Org][1] + gauge'[Org][2] >= Cardinality(steady)
    BY DEF At
  <2>1. pc \in [Writer -> PC] /\ Poller \in Writer /\ steady \subseteq Run
        /\ tot[1] \in Nat /\ tot[2] \in Nat /\ gauge \in [Repo \cup {Org} -> Nat \X Nat]
    BY DEF Inv, TypeOK, WriterType, TrackType, CycleType, MetricType, Writer
  <2>2. Publish
    <3>1. ~UNCHANGED pc
      OBVIOUS
    <3>2. ~GitHub /\ ~UNCHANGED vars
      BY <3>1 DEF GitHub, itemVars, vars
    <3>3. ~ProcessRun(Backfill) /\ ~BackfillPage
      BY <2>1 DEF ProcessRun, PickRun, ListProcessed, FetchJobs, FetchJobsFails, UpsertRun, UpsertSuites, DbFails,
           SkipRun, AbandonList, BackfillPage, ProcessList, Goto, Poller, Backfill, itemVars
    <3>4. ~ProcessRun(Poller) /\ ~Crash
      BY <2>1 DEF ProcessRun, PickRun, ListProcessed, FetchJobs, FetchJobsFails, UpsertRun, UpsertSuites, DbFails,
           Crash, Step, Goto
    <3>5. QED BY <2>1, <3>2, <3>3, <3>4 DEF Next, PollerStep, Boot, LoadRepo, LoadDone, StartCycle, NextRepo,
           CountQueued, CountActive, RepoFails, ListQueued, ListActive, ListPage, ListFails, SetGauges,
           RecentCompleted, CatchUp, CatchUpFails, Finish, At, Step, Goto
  <2>3. Collected /\ Summed
    BY DEF GaugeInv, InCycle, Place, Outside, Busy
  <2>4. todo = {} /\ Here = {}
    BY <2>2 DEF Publish, Here, Visiting
  <2>5. Done = steady
    BY <2>4 DEF Done
  <2>6. published' = (IF complete THEN cur ELSE published) /\ gauge'[Org] = tot
    BY <2>1, <2>2 DEF Publish
  <2>7. complete => steady \subseteq Ids(published')
    BY <2>3, <2>5, <2>6 DEF Collected
  <2>8. Cardinality(steady) \in Nat
    BY <2>1, Smaller
  <2>9. QED BY <2>1, <2>3, <2>5, <2>6, <2>7, <2>8 DEF Summed
<1>4. QED BY <1>1, <1>2, <1>3, PTL DEF Spec, GaugesCoverActiveRuns
====
