-------------------------- MODULE PrBackfillProofs --------------------------
(***************************************************************************)
(* Proofs about the documents of CI Observe: first about PrBackfill, for   *)
(* any pull requests and repositories, page size, retention, overlap and   *)
(* options; then, of the composition in MCPrs, about PrRecords, for any    *)
(* workflows, and about RunEvidence, for any threads, cache size, times to *)
(* live and artifact names.                                                *)
(***************************************************************************)
EXTENDS MCPrs, FiniteSetTheorems, WellFoundedInduction, TLAPS

\* What the running pass still owes a row: GitHub shows it inside the window
\* of the pass, and it neither changed nor moved since the pass began.
Wanted(p) ==
    /\ p \notin disturbed /\ ended[p] # 0
    /\ Cutoff(passNow) <= ended[p]
    /\ since <= updated[p] /\ updated[p] < passNow

\* Where it is: its repository is not listed yet or is being worked on, the
\* pass will not move coverage, or it has its row or a recorded failure.
Handled(p) ==
    \/ RepoOf[p] \in todo \/ subset \/ ~complete
    \/ stored[p] # 0 \/ p \in failed
    \/ pc = "list" /\ RepoOf[p] = repo
    \/ pc \in {"runs", "store"} /\ p \in pending

\* While its list is paged, it has been seen or lies on a page still to come.
Paged(p) == pc = "list" /\ RepoOf[p] = repo => listed[p] = ended[p] \/ offset <= Rank(repo, p)

Clock ==
    /\ Start <= now /\ coverage <= now
    /\ Start <= passNow /\ passNow <= now
    /\ \A p \in PR : ended[p] <= updated[p] /\ updated[p] <= now /\ (ended[p] = 0 <=> updated[p] = 0)

\* The floor of an incremental pass lies inside what is covered already.
Window ==
    pc # "idle" => coverage <= passNow /\ (since <= Cutoff(passNow) \/ since <= coverage - Overlap)

\* Rows and listings of an undisturbed pull request show when it ended.
Rows ==
    \A p \in PR : p \notin disturbed =>
        stored[p] \in {0, ended[p]} /\ listed[p] \in {0, ended[p]}

Queue ==
    /\ pc \notin {"runs", "store"} => pending = {}
    /\ \A p \in pending : listed[p] # 0

\* What the request has read is still true, unless a pass wrote meanwhile.
Answer ==
    /\ req.pc # "idle" => req.pr \in PR /\ (~overtaken => stored[req.pr] = 0)
    /\ req.pc = "live" /\ ~overtaken => req.cov = coverage

Basics == TypeOK /\ Clock /\ Window /\ Rows /\ Queue /\ Answer
Pass == pc # "idle" => \A p \in PR : Wanted(p) => Handled(p) /\ Paged(p)
IInv == Basics /\ Pass /\ NothingSlipsPast

-----------------------------------------------------------------------------
(* Positions in the listing.                                               *)

LEMMA SubsetSize ==
    ASSUME PrAssumption, NEW S \in SUBSET PR, NEW T \in SUBSET S
    PROVE  Cardinality(T) \in Nat /\ Cardinality(T) <= Cardinality(S)
<1>1. IsFiniteSet(S) /\ IsFiniteSet(T)
  BY FS_Subset DEF PrAssumption
<1>2. QED BY <1>1, FS_Subset, FS_CardinalityType

\* A pull request in the list comes before its end.
LEMMA RankBelow ==
    ASSUME PrAssumption, NEW r, NEW p \in Closed(r), updated \in [PR -> Time]
    PROVE  Rank(r, p) \in Nat /\ Rank(r, p) < Cardinality(Closed(r))
<1> DEFINE S == {q \in Closed(r) : Before(q, p)}
<1>1. Closed(r) \in SUBSET PR /\ p \in PR
  BY DEF Closed
<1>2. p \notin S
  BY <1>1 DEF Before, PrAssumption, Time
<1>3. IsFiniteSet(Closed(r))
  BY <1>1, FS_Subset DEF PrAssumption
<1>4. S \in SUBSET (Closed(r) \ {p})
  BY <1>2
<1>5. IsFiniteSet(Closed(r) \ {p}) /\ Cardinality(Closed(r) \ {p}) = Cardinality(Closed(r)) - 1
  BY <1>3, FS_RemoveElement
<1>6. Cardinality(S) \in Nat /\ Cardinality(S) <= Cardinality(Closed(r) \ {p})
  BY <1>1, <1>4, SubsetSize
<1>7. Cardinality(Closed(r)) \in Nat
  BY <1>1, SubsetSize
<1>8. QED BY <1>5, <1>6, <1>7 DEF Rank

\* What comes first in the listing has the smaller position.
LEMMA RankOrder ==
    ASSUME PrAssumption, updated \in [PR -> Time], NEW r,
           NEW p \in Closed(r), NEW q \in Closed(r), Before(p, q)
    PROVE  Rank(r, p) < Rank(r, q)
<1> DEFINE S == {x \in Closed(r) : Before(x, p)}
           T == {x \in Closed(r) : Before(x, q)}
<1>1. Closed(r) \in SUBSET PR /\ p \in PR /\ q \in PR
  BY DEF Closed
<1>2. p \notin S /\ p \in T
  BY <1>1 DEF Before, PrAssumption, Time
<1>3. S \in SUBSET (T \ {p})
  <2> SUFFICES ASSUME NEW x \in Closed(r), Before(x, p) PROVE Before(x, q)
    BY <1>2
  <2>1. x \in Nat /\ p \in Nat /\ q \in Nat /\ updated[x] \in Int /\ updated[p] \in Int /\ updated[q] \in Int
    BY <1>1 DEF PrAssumption, Time
  <2>2. QED BY <2>1 DEF Before
<1>4. IsFiniteSet(T) /\ Cardinality(T) \in Nat
  BY <1>1, FS_Subset, FS_CardinalityType DEF PrAssumption
<1>5. Cardinality(T \ {p}) = Cardinality(T) - 1
  BY <1>2, <1>4, FS_RemoveElement
<1>6. T \ {p} \in SUBSET PR
  BY <1>1
<1>7. Cardinality(S) \in Nat /\ Cardinality(S) <= Cardinality(T \ {p})
  BY <1>3, <1>6, SubsetSize
<1>8. QED BY <1>4, <1>5, <1>7 DEF Rank

\* The page that ends a listing leaves nothing wanted behind it: a later page
\* would be older than the one already below the floor.
LEMMA LastPageSeesAll ==
    ASSUME PrAssumption, TypeOK, pc = "list", LastPage,
           NEW p \in PR, Wanted(p), RepoOf[p] = repo, offset <= Rank(repo, p)
    PROVE  OnPage(p)
<1>1. p \in Closed(repo)
  BY DEF Wanted, Closed
<1>2. Rank(repo, p) \in Nat /\ Rank(repo, p) < Cardinality(Closed(repo))
  BY <1>1, RankBelow DEF TypeOK
<1>3. Cardinality(Closed(repo)) \in Nat
  BY SubsetSize DEF Closed
<1>4. CASE Cardinality(Closed(repo)) <= offset + Page
  BY <1>1, <1>2, <1>3, <1>4 DEF OnPage, TypeOK, PrAssumption
<1>5. CASE \E q \in PR : OnPage(q) /\ updated[q] < since
  <2>1. PICK q \in PR : OnPage(q) /\ updated[q] < since
    BY <1>5
  <2>2. Before(p, q)
    BY <2>1 DEF Wanted, Before, TypeOK, Time
  <2>3. Rank(repo, p) < Rank(repo, q)
    BY <1>1, <2>1, <2>2, RankOrder DEF OnPage, TypeOK
  <2>4. Rank(repo, q) \in Nat
    BY <2>1, RankBelow DEF OnPage, TypeOK
  <2>5. QED BY <1>1, <1>2, <2>1, <2>3, <2>4 DEF OnPage, TypeOK, PrAssumption
<1>6. QED BY <1>4, <1>5 DEF LastPage

\* While others are updated, an untouched entry of the list only moves down.
LEMMA RankGrows ==
    ASSUME PrAssumption, NEW r, NEW p \in PR,
           Closed(r) \subseteq Closed(r)', Closed(r)' \subseteq PR,
           \A x \in Closed(r) : Before(x, p) => Before(x, p)'
    PROVE  Rank(r, p) \in Nat /\ Rank(r, p)' \in Nat /\ Rank(r, p) <= Rank(r, p)'
<1> DEFINE S == {x \in Closed(r) : Before(x, p)}
           T == {x \in Closed(r)' : Before(x, p)'}
<1>1. S \in SUBSET T /\ T \in SUBSET PR
  OBVIOUS
<1>2. Cardinality(T) \in Nat /\ Cardinality(S) \in Nat /\ Cardinality(S) <= Cardinality(T)
  BY <1>1, SubsetSize
<1>3. QED BY <1>2 DEF Rank
-----------------------------------------------------------------------------
(* The invariant, step by step.                                            *)

\* The numbers among the constants.
LEMMA Numbers ==
    ASSUME PrAssumption
    PROVE  /\ Start \in Nat /\ MaxNow \in Nat /\ Retention \in Nat /\ Overlap \in Nat
           /\ Page \in Nat /\ Page > 0 /\ Start <= MaxNow /\ Asked \subseteq PR
           /\ Time \subseteq Nat /\ 0 \in Time
BY DEF PrAssumption, Time

LEMMA InitIInv ==
    ASSUME PrAssumption, Init PROVE IInv
<1>1. Start \in Time /\ 0 \in Time
  BY DEF Time, PrAssumption
<1>2. Zero \in [PR -> Time] /\ NoReq \in [pc : {"idle", "freshness", "live"}, pr : PR \cup {0}, cov : Time]
  BY <1>1 DEF Zero, NoReq
<1>3. TypeOK
  BY <1>1, <1>2 DEF Init, TypeOK
<1>4. Basics
  BY <1>3 DEF Init, Basics, Clock, Window, Rows, Queue, Answer, Zero, NoReq, PrAssumption
<1>5. QED BY <1>4 DEF Init, IInv, Pass, NothingSlipsPast, Zero

\* GitHub and the clock: whatever moves while a pass is under way moves to
\* the front of its list, or disturbs what was behind it.
LEMMA GitHubBasics ==
    ASSUME PrAssumption, IInv, Tick \/ GitHub PROVE Basics' /\ NothingSlipsPast'
<1> USE DEF IInv, Basics, PrAssumption
<1>1. CASE Tick
  <2>1. TypeOK'
    BY <1>1 DEF Tick, TypeOK, Time, gh, table, plan, work
  <2>2. Basics' /\ NothingSlipsPast'
    BY <1>1, <2>1 DEF Tick, TypeOK, Clock, Window, Rows, Queue, Answer, NothingSlipsPast, Excused, Cutoff, Time, gh, table, plan, work
  <2>3. QED BY <2>2
<1>2. ASSUME NEW p \in PR, PrEnds(p) PROVE Basics' /\ NothingSlipsPast'
  <2>1. TypeOK'
    BY <1>2 DEF PrEnds, Env, TypeOK, Time, gh, table, plan, work
  <2>2. Basics' /\ NothingSlipsPast'
    BY <1>2, <2>1 DEF PrEnds, Env, TypeOK, Clock, Window, Rows, Queue, Answer, NothingSlipsPast, Excused, Cutoff, Time, gh, table, plan, work
  <2>3. QED BY <2>2
<1>3. ASSUME NEW p \in PR, PrTouched(p) PROVE Basics' /\ NothingSlipsPast'
  <2>1. TypeOK'
    BY <1>3 DEF PrTouched, Env, TypeOK, Time, gh, table, plan, work
  <2>2. Basics' /\ NothingSlipsPast'
    BY <1>3, <2>1 DEF PrTouched, Env, TypeOK, Clock, Window, Rows, Queue, Answer, NothingSlipsPast, Excused, Cutoff, Time, gh, table, plan, work
  <2>3. QED BY <2>2
<1>4. ASSUME NEW p \in PR, PrReopens(p) PROVE Basics' /\ NothingSlipsPast'
  <2>1. disturbed \cup {p} \subseteq disturbed' /\ disturbed' \subseteq PR
    BY <1>4 DEF PrReopens, TypeOK
  <2>2. TypeOK'
    BY <1>4, <2>1 DEF PrReopens, Env, TypeOK, Time, gh, table, plan, work
  <2>3. Basics' /\ NothingSlipsPast'
    BY <1>4, <2>1, <2>2 DEF PrReopens, Env, TypeOK, Clock, Window, Rows, Queue, Answer, NothingSlipsPast, Excused, Cutoff, Time, gh, table, plan, work
  <2>4. QED BY <2>3
<1>5. QED BY <1>1, <1>2, <1>3, <1>4 DEF GitHub

LEMMA GitHubPass ==
    ASSUME PrAssumption, IInv, Tick \/ GitHub PROVE Pass'
<1> USE DEF IInv, Basics
<1>1. UNCHANGED <<stored, table, pc, plan, work>>
  BY DEF Tick, GitHub, PrEnds, PrTouched, PrReopens, Env
<1>2. SUFFICES ASSUME pc # "idle", NEW p \in PR, Wanted(p)' PROVE Handled(p)' /\ Paged(p)'
  BY <1>1 DEF Pass
<1>3. Wanted(p) /\ ended'[p] = ended[p] /\ updated'[p] = updated[p]
  BY <1>1, <1>2 DEF Tick, GitHub, PrEnds, PrTouched, PrReopens, Env, gh, plan, Wanted, Clock, TypeOK, Cutoff, Time, PrAssumption
<1>4. Handled(p) /\ Paged(p)
  BY <1>2, <1>3 DEF Pass
<1>5. Handled(p)'
  BY <1>1, <1>4 DEF Handled, plan, work
<1>6. Paged(p)'
  <2>1. CASE Tick
    BY <1>1, <1>4, <2>1 DEF Tick, gh, work, Paged, Rank, Closed, Before
  <2>2. CASE pc = "list" /\ RepoOf[p] = repo /\ GitHub
    <3>1. PICK x \in PR : PrEnds(x) \/ PrTouched(x) \/ PrReopens(x)
      BY <2>2 DEF GitHub
    <3>2. CASE PrReopens(x) /\ RepoOf[x] = repo
      BY <1>2, <2>2, <3>2 DEF PrReopens, Wanted
    <3>3. CASE ~(PrReopens(x) /\ RepoOf[x] = repo)
      <4>1. /\ Closed(repo) \subseteq Closed(repo)' /\ Closed(repo)' \subseteq PR
        BY <1>1, <3>1, <3>3 DEF PrEnds, PrTouched, PrReopens, Closed, TypeOK, Clock, Time, work, PrAssumption
      <4>2. \A y \in Closed(repo) : Before(y, p) => Before(y, p)'
        BY <1>1, <1>3, <3>1, <3>3 DEF PrEnds, PrTouched, PrReopens, Closed, Before, TypeOK, Clock, Time
      <4>3. Rank(repo, p) \in Nat /\ Rank(repo, p)' \in Nat /\ Rank(repo, p) <= Rank(repo, p)'
        <5>1. repo' = repo
          BY <1>1 DEF work
        <5>2. QED BY <4>1, <4>2, <5>1, RankGrows
      <4>4. QED BY <1>1, <1>3, <1>4, <2>2, <4>3 DEF Paged, work, TypeOK
    <3>4. QED BY <3>2, <3>3
  <2>3. QED BY <1>1, <2>1, <2>2 DEF Paged, work
<1>7. QED BY <1>5, <1>6
\* The steps of a pass other than the paging of a list: the type of each.
LEMMA PassType ==
    ASSUME PrAssumption, TypeOK, Clock, Begin \/ Step \/ Crash PROVE TypeOK'
<1> USE DEF gh, table, plan, work
<1>0. Start \in Time /\ 0 \in Time /\ Zero \in [PR -> Time]
  BY DEF PrAssumption, Time, Zero
<1>1. ASSUME NEW o \in Options, StartPass(o) PROVE TypeOK'
  <2>1. o.mode \in {"auto", "full", "incremental"} /\ o.force \in BOOLEAN /\ o.only \subseteq Repo
    BY DEF PrAssumption
  <2>2. since' \in Time
    BY <1>1 DEF StartPass, Floor, Larger, Cutoff, TypeOK, Clock, Time, PrAssumption
  <2>3. full' \in BOOLEAN /\ force' \in BOOLEAN /\ subset' \in BOOLEAN /\ todo' \subseteq Repo
    BY <1>1, <2>1 DEF StartPass
  <2>4. QED BY <1>1, <2>2, <2>3 DEF StartPass, TypeOK
<1>2. CASE ListRepos
  BY <1>2 DEF ListRepos, TypeOK
<1>3. CASE NextRepo
  BY <1>0, <1>3 DEF NextRepo, TypeOK
<1>4. CASE ListPage
  <2>1. listed' \in [PR -> Time]
    BY <1>4 DEF ListPage, Collected, TypeOK
  <2>2. offset' \in Nat /\ pending' \subseteq PR /\ pc' \in {"list", "prune", "runs"}
    <3>1. CASE LastPage
      BY <1>4, <3>1 DEF ListPage
    <3>2. CASE ~LastPage
      <4>1. offset' = offset + Page /\ pc' = "list" /\ pending' = pending
        BY <1>4, <3>2 DEF ListPage
      <4>2. offset \in Nat /\ Page \in Nat /\ pending \subseteq PR
        BY Numbers DEF TypeOK
      <4>3. QED BY <4>1, <4>2
    <3>3. QED BY <3>1, <3>2
  <2>3. QED BY <1>4, <2>1, <2>2 DEF ListPage, TypeOK
<1>5. CASE ListFails
  BY <1>0, <1>5 DEF ListFails, TypeOK
<1>6. ASSUME NEW ok \in BOOLEAN, FetchRuns(ok) PROVE TypeOK'
  BY <1>6 DEF FetchRuns, TypeOK
<1>7. ASSUME NEW p \in PR, NEW ok \in BOOLEAN, NEW stop \in BOOLEAN, BackfillOne(p, ok, stop) PROVE TypeOK'
  <2>1. stored' \in [PR -> Time]
    BY <1>7 DEF BackfillOne, TypeOK
  <2>2. failed' \subseteq PR /\ gaveUp' \subseteq PR /\ pending' \subseteq PR /\ todo' \subseteq Repo
    BY <1>7 DEF BackfillOne, TypeOK
  <2>3. complete' \in BOOLEAN /\ overtaken' \in BOOLEAN /\ pc' \in {"store", "prune"}
    BY <1>7 DEF BackfillOne, TypeOK
  <2>4. QED BY <1>7, <2>1, <2>2, <2>3 DEF BackfillOne, TypeOK
<1>8. CASE Prune
  <2>1. stored' \in [PR -> Time]
    BY <1>0, <1>8 DEF Prune, TypeOK
  <2>2. QED BY <1>0, <1>8, <2>1 DEF Prune, TypeOK
<1>9. CASE RecordRun
  <2>1. coverage' \in Time /\ lastFull' \in Time
    BY <1>0, <1>9 DEF RecordRun, Recorded, TypeOK
  <2>2. gaveUp' \subseteq PR /\ overtaken' \in BOOLEAN
    BY <1>9 DEF RecordRun, TypeOK
  <2>3. QED BY <1>0, <1>9, <2>1, <2>2 DEF RecordRun, ProcessEnds, TypeOK
<1>10. CASE Crash
  BY <1>0, <1>10 DEF Crash, ProcessEnds, TypeOK
<1>11. QED BY <1>1, <1>2, <1>3, <1>4, <1>5, <1>6, <1>7, <1>8, <1>9, <1>10 DEF Begin, Step

\* Starting a pass, and its ways to the next repository.
LEMMA WalkInv ==
    ASSUME PrAssumption, IInv, Begin \/ ListRepos \/ NextRepo \/ ListFails \/ Crash PROVE IInv'
<1> USE DEF gh, table, plan, work
<1>1. TypeOK'
  BY PassType DEF IInv, Basics, Step
<1>2. Clock' /\ Rows'
  <2>1. Start <= passNow' /\ passNow' <= now
    <3>1. passNow' \in {passNow, now, Start}
      BY DEF Begin, StartPass, ListRepos, NextRepo, ListFails, Crash, ProcessEnds
    <3>2. Start \in Nat /\ now \in Nat /\ passNow \in Nat
      BY Numbers DEF IInv, Basics, TypeOK
    <3>3. QED BY <3>1, <3>2 DEF IInv, Basics, Clock
  <2>2. listed' \in {listed, Zero}
    BY DEF Begin, StartPass, ListRepos, NextRepo, ListFails, Crash, ProcessEnds
  <2>3. UNCHANGED <<now, ended, updated, stored, coverage, disturbed>>
    BY DEF Begin, StartPass, ListRepos, NextRepo, ListFails, Crash
  <2>4. QED BY <2>1, <2>2, <2>3 DEF IInv, Basics, Clock, Rows, Zero
<1>3. Window'
  <2>1. ASSUME NEW o \in Options, StartPass(o) PROVE Window'
    BY <2>1 DEF StartPass, Floor, Larger, IInv, Basics, TypeOK, Clock, Window, Time, PrAssumption, Cutoff
  <2>2. CASE ListRepos \/ NextRepo \/ ListFails
    BY <2>2 DEF ListRepos, NextRepo, ListFails, IInv, Basics, Window, Cutoff
  <2>3. CASE Crash
    BY <2>3 DEF Crash, ProcessEnds, Window
  <2>4. QED BY <2>1, <2>2, <2>3 DEF Begin
<1>4. Queue' /\ Answer'
  BY <1>1 DEF Begin, StartPass, ListRepos, NextRepo, ListFails, Crash, ProcessEnds, IInv, Basics, TypeOK,
     Queue, Answer, Zero
<1>5. NothingSlipsPast'
  BY DEF Begin, StartPass, ListRepos, NextRepo, ListFails, Crash, ProcessEnds, IInv, NothingSlipsPast, Excused, Cutoff
<1>6. Pass'
  <2>1. CASE Begin
    BY <1>1, <2>1 DEF Begin, StartPass, Pass, Handled, Paged, TypeOK, PrAssumption
  <2>2. CASE ListRepos
    BY <2>2 DEF ListRepos, IInv, Pass, Wanted, Handled, Paged, Cutoff
  <2>3. CASE NextRepo
    <3> SUFFICES ASSUME NEW p \in PR, Wanted(p)' PROVE Handled(p)' /\ Paged(p)'
      BY DEF Pass
    <3>1. Wanted(p) /\ Handled(p)
      BY <2>3 DEF NextRepo, IInv, Pass, Wanted, Cutoff
    <3>2. Handled(p)'
      BY <2>3, <3>1 DEF NextRepo, Handled
    <3>3. Paged(p)'
      <4>1. CASE RepoOf[p] = repo'
        <5>1. p \in Closed(repo') /\ updated \in [PR -> Time]
          BY <2>3, <3>1, <4>1 DEF NextRepo, Closed, Wanted, IInv, Basics, TypeOK
        <5>2. Rank(repo', p) \in Nat
          BY <5>1, RankBelow
        <5>3. Rank(repo, p)' = Rank(repo', p)
          BY <2>3 DEF NextRepo, Rank, Closed, Before
        <5>4. QED BY <2>3, <5>2, <5>3 DEF NextRepo, Paged
      <4>2. QED BY <4>1 DEF Paged
    <3>4. QED BY <3>2, <3>3
  <2>4. CASE ListFails
    BY <2>4 DEF ListFails, Pass, Handled, Paged
  <2>5. CASE Crash
    BY <2>5 DEF Crash, ProcessEnds, Pass
  <2>6. QED BY <2>1, <2>2, <2>3, <2>4, <2>5
<1>7. QED BY <1>1, <1>2, <1>3, <1>4, <1>5, <1>6 DEF IInv, Basics

\* One page of a list: what the pass still wants of it is read by the last.
LEMMA PageInv ==
    ASSUME PrAssumption, IInv, ListPage PROVE IInv'
<1> USE DEF gh, table, plan, work
<1>1. TypeOK'
  BY PassType DEF IInv, Basics, Step
<1>2. Clock' /\ Window' /\ Answer' /\ NothingSlipsPast'
  BY DEF ListPage, IInv, Basics, Clock, Window, Answer, NothingSlipsPast, Excused, Cutoff
<1>3. Rows'
  BY DEF ListPage, Collected, IInv, Basics, Rows, TypeOK
<1>4. Queue'
  BY <1>1 DEF ListPage, IInv, Basics, Queue, TypeOK
<1>5. Pass'
  <2> SUFFICES ASSUME NEW p \in PR, Wanted(p)' PROVE Handled(p)' /\ Paged(p)'
    BY DEF Pass
  <2>1. Wanted(p) /\ Handled(p) /\ Paged(p) /\ pc = "list"
    BY DEF ListPage, IInv, Pass, Wanted, Cutoff
  <2>2. CASE RepoOf[p] # repo
    BY <2>1, <2>2 DEF ListPage, Handled, Paged
  <2>3. CASE RepoOf[p] = repo
    <3>1. /\ Rank(repo, p) \in Nat
          /\ Rank(repo, p)' = Rank(repo, p)
      <4>1. p \in Closed(repo) /\ updated \in [PR -> Time]
        BY <2>1, <2>3 DEF Wanted, Closed, IInv, Basics, TypeOK
      <4>2. Rank(repo, p) \in Nat
        BY <4>1, RankBelow
      <4>3. UNCHANGED <<gh, repo>>
        BY DEF ListPage
      <4>4. Closed(repo)' = Closed(repo) /\ \A q \in Closed(repo) : Before(q, p)' = Before(q, p)
        BY ONLY <4>3 DEF gh, Closed, Before
      <4>5. Rank(repo, p)' = Rank(repo, p)
        BY ONLY <4>4, <4>3 DEF Rank
      <4>6. QED BY <4>2, <4>5
    <3>2. listed'[p] = ended[p] \/ ~OnPage(p)
      BY <2>1 DEF ListPage, Collected, Wanted
    <3>3. listed[p] = ended[p] => listed'[p] = ended[p]
      BY DEF ListPage, Collected
    <3>4. CASE LastPage
      <4>1. listed'[p] = ended[p]
        BY <2>1, <2>3, <3>2, <3>3, <3>4, LastPageSeesAll DEF Paged, IInv, Basics
      <4>2. p \in pending' \/ stored[p] # 0
        BY <2>1, <3>4, <4>1 DEF ListPage, Wanted
      <4>3. pc' \in {"runs", "prune"} /\ (pending' # {} => pc' = "runs")
        BY <3>4 DEF ListPage
      <4>4. QED BY <4>2, <4>3 DEF Handled, Paged, ListPage
    <3>5. CASE ~LastPage
      <4>1. Handled(p)'
        BY <2>1, <2>3, <3>5 DEF ListPage, Handled
      <4>2. listed'[p] = ended[p] \/ offset + Page <= Rank(repo, p)
        <5>1. p \in Closed(repo)
          BY <2>1, <2>3 DEF Wanted, Closed
        <5>2. QED BY <2>1, <2>3, <3>1, <3>2, <3>3, <5>1 DEF Paged, OnPage, IInv, Basics, TypeOK, PrAssumption
      <4>3. QED BY <3>1, <3>5, <4>1, <4>2 DEF ListPage, Paged
    <3>6. QED BY <3>4, <3>5
  <2>4. QED BY <2>2, <2>3
<1>6. QED BY <1>1, <1>2, <1>3, <1>4, <1>5 DEF IInv, Basics

\* One pull request of the pass is stored or fails, the merge_group runs are
\* fetched, expired rows are pruned.
LEMMA StoreInv ==
    ASSUME PrAssumption, IInv,
           Prune \/ (\E ok \in BOOLEAN : FetchRuns(ok))
             \/ (\E p \in PR, ok, stop \in BOOLEAN : BackfillOne(p, ok, stop))
    PROVE  IInv'
<1> USE DEF gh, table, plan, work
<1>1. TypeOK'
  BY PassType DEF IInv, Basics, Step
<1>2. ASSUME NEW ok \in BOOLEAN, FetchRuns(ok) PROVE IInv'
  BY <1>1, <1>2 DEF FetchRuns, IInv, Basics, Clock, Window, Rows, Queue, Answer, Pass, Wanted, Handled, Paged,
     NothingSlipsPast, Excused, Cutoff
<1>3. ASSUME NEW p \in PR, NEW ok \in BOOLEAN, NEW stop \in BOOLEAN, BackfillOne(p, ok, stop) PROVE IInv'
  <2>1. /\ UNCHANGED <<now, gh, table, plan, repo, offset, listed, runsOk, req, disturbed>>
        /\ pc = "store" /\ p \in pending /\ listed[p] # 0
    BY <1>3 DEF BackfillOne, IInv, Basics, Queue
  <2>2. \A q \in PR : stored'[q] = stored[q] \/ (ok /\ q = p /\ stored'[q] = listed[q])
    BY <1>3 DEF BackfillOne, IInv, Basics, TypeOK
  <2>3. ok => stored'[p] # 0
    BY <1>3, <2>1 DEF BackfillOne, IInv, Basics, TypeOK
  <2>4. Clock' /\ Window'
    BY <1>3, <2>1 DEF BackfillOne, IInv, Basics, Clock, Window, Cutoff
  <2>5. Rows'
    BY <2>1, <2>2 DEF IInv, Basics, Rows
  <2>6. Queue'
    BY <1>3, <2>1 DEF BackfillOne, IInv, Basics, Queue
  <2>7. Answer'
    BY <1>3, <2>1, <2>2 DEF BackfillOne, IInv, Basics, Answer
  <2>8. NothingSlipsPast'
    <3>1. \A q \in PR : q \in gaveUp => q \in gaveUp' \/ stored'[q] # 0
      BY <1>3, <2>3 DEF BackfillOne
    <3>2. \A q \in PR : stored'[q] = 0 => stored[q] = 0
      BY <2>1, <2>2
    <3>3. QED BY <2>1, <3>1, <3>2 DEF IInv, NothingSlipsPast, Excused, Cutoff
  <2>9. Pass'
    <3> SUFFICES ASSUME NEW q \in PR, Wanted(q)' PROVE Handled(q)' /\ Paged(q)'
      BY DEF Pass
    <3>1. Wanted(q) /\ Handled(q)
      BY <2>1 DEF IInv, Pass, Wanted, Cutoff
    <3>2. stored[q] # 0 => stored'[q] # 0
      BY <2>1, <2>2
    <3>3. q \in failed => q \in failed'
      BY <1>3 DEF BackfillOne
    <3>4. q = p => stored'[q] # 0 \/ q \in failed'
      BY <1>3, <2>3 DEF BackfillOne
    <3>5. CASE stop
      BY <1>3, <3>5, <2>1 DEF BackfillOne, Handled, Paged
    <3>6. CASE ~stop
      BY <1>3, <2>1, <3>1, <3>2, <3>3, <3>4, <3>6 DEF BackfillOne, Handled, Paged
    <3>7. QED BY <3>5, <3>6
  <2>10. QED BY <1>1, <2>4, <2>5, <2>6, <2>7, <2>8, <2>9 DEF IInv, Basics
<1>4. CASE Prune
  <2>1. /\ UNCHANGED <<now, gh, table, plan, todo, offset, pending, failed, complete, req, gaveUp, disturbed, overtaken>>
        /\ pc = "prune" /\ pc' = "next" /\ pending = {} /\ listed' = Zero
    BY <1>4 DEF Prune, IInv, Basics, Queue
  <2>2. \A q \in PR : stored'[q] = stored[q] \/ (stored[q] < Cutoff(passNow) /\ stored'[q] = 0)
    BY <1>4 DEF Prune, Expired, IInv, Basics, TypeOK
  <2>3. Clock' /\ Window' /\ Queue'
    BY <2>1 DEF IInv, Basics, Clock, Window, Queue, Cutoff
  <2>4. Rows'
    BY <2>1, <2>2 DEF IInv, Basics, Rows, Zero
  <2>5. Answer'
    BY <2>1, <2>2 DEF IInv, Basics, Answer
  <2>6. \A q \in PR : (q \notin disturbed /\ ended[q] >= Cutoff(passNow) /\ stored[q] # 0) => stored'[q] # 0
    BY <2>2 DEF IInv, Basics, Rows, TypeOK, Time, Cutoff, PrAssumption
  <2>7. NothingSlipsPast'
    <3>1. Cutoff(passNow) \in Int /\ Cutoff(now) \in Int /\ Cutoff(passNow) <= Cutoff(now)
      BY DEF IInv, Basics, Clock, TypeOK, Time, Cutoff, PrAssumption
    <3>2. \A q \in PR : ended[q] \in Int
      BY DEF IInv, Basics, TypeOK, Time
    <3>3. QED BY <2>1, <2>6, <3>1, <3>2 DEF IInv, NothingSlipsPast, Excused, Cutoff
  <2>8. Pass'
    <3> SUFFICES ASSUME NEW q \in PR, Wanted(q)' PROVE Handled(q)' /\ Paged(q)'
      BY DEF Pass
    <3>1. Wanted(q) /\ Handled(q)
      BY <2>1 DEF IInv, Pass, Wanted, Cutoff
    <3>2. stored[q] # 0 => stored'[q] # 0
      BY <2>6, <3>1 DEF Wanted, IInv, Basics, TypeOK, Time, Cutoff, PrAssumption
    <3>3. QED BY <2>1, <3>1, <3>2 DEF Handled, Paged
  <2>9. QED BY <1>1, <2>3, <2>4, <2>5, <2>7, <2>8 DEF IInv, Basics
<1>5. QED BY <1>2, <1>3, <1>4

\* The pass records itself: what it covers from now on has its row, failed, or
\* was covered before.
LEMMA RecordInv ==
    ASSUME PrAssumption, IInv, RecordRun PROVE IInv'
<1> USE DEF gh, table, plan, work
<1>1. TypeOK'
  BY PassType DEF IInv, Basics, Step
<1>2. /\ UNCHANGED <<now, ended, updated, stored, req, disturbed>>
      /\ pc = "next" /\ pc' = "idle" /\ todo = {}
      /\ pending' = {} /\ listed' = Zero /\ passNow' = Start
      /\ coverage' = Recorded(coverage, Covers)
      /\ gaveUp' = IF Covers THEN gaveUp \cup failed ELSE gaveUp
      /\ overtaken' = (req.pc # "idle")
  BY DEF RecordRun, ProcessEnds
<1>3. coverage' \in {0, coverage, passNow} /\ (coverage' \notin {0, coverage} => Covers)
  BY <1>2 DEF Recorded
<1>4. Clock'
  BY <1>2, <1>3 DEF IInv, Basics, Clock, TypeOK, Time, PrAssumption
<1>5. Window' /\ Rows' /\ Queue' /\ Answer' /\ Pass'
  BY <1>2 DEF IInv, Basics, Window, Rows, Queue, Answer, Pass, Zero
<1>6. NothingSlipsPast'
  <2> SUFFICES ASSUME NEW p \in PR, ended[p] # 0, ended[p] <= coverage', ended[p] >= Cutoff(now),
                      stored[p] = 0, ~Excused(p)', updated[p] < coverage'
               PROVE  FALSE
    BY <1>1, <1>2 DEF NothingSlipsPast, Cutoff, IInv, Basics, TypeOK, Time
  <2>1. ended[p] \in Nat /\ updated[p] \in Nat /\ coverage \in Nat /\ passNow \in Nat /\ since \in Nat
    BY DEF IInv, Basics, TypeOK, Time
  <2>2. p \notin disturbed /\ p \notin gaveUp
    BY <1>2 DEF Excused
  <2>3. coverage' # 0
    BY <2>1
  <2>4. coverage' # coverage
    BY <2>1, <2>2 DEF IInv, NothingSlipsPast, Excused
  <2>5. coverage' = passNow /\ complete /\ ~subset /\ p \notin failed
    BY <1>2, <1>3, <2>3, <2>4 DEF Covers, Excused
  <2>6. Cutoff(passNow) <= ended[p]
    BY <2>1 DEF IInv, Basics, Clock, Cutoff, TypeOK, Time, PrAssumption
  <2>7. CASE since <= updated[p]
    <3>1. Wanted(p)
      BY <2>2, <2>5, <2>6, <2>7 DEF Wanted
    <3>2. Handled(p)
      BY <1>2, <3>1 DEF IInv, Pass
    <3>3. QED BY <1>2, <2>5, <3>2 DEF Handled
  <2>8. CASE updated[p] < since
    <3>1. ended[p] <= updated[p]
      BY DEF IInv, Basics, Clock
    <3>2. since <= coverage - Overlap
      BY <1>2, <2>1, <2>6, <2>8, <3>1 DEF IInv, Basics, Window, Cutoff, PrAssumption
    <3>3. updated[p] < coverage /\ ended[p] <= coverage
      BY <2>1, <2>8, <3>1, <3>2 DEF PrAssumption
    <3>4. QED BY <2>1, <2>2, <3>3 DEF IInv, NothingSlipsPast, Excused
  <2>9. QED BY <2>1, <2>7, <2>8
<1>7. QED BY <1>1, <1>4, <1>5, <1>6 DEF IInv, Basics

\* A request changes nothing but itself.
LEMMA RequestInv ==
    ASSUME PrAssumption, IInv, Request PROVE IInv'
<1> USE DEF gh, table, plan, work
<1>1. UNCHANGED <<now, gh, stored, table, pc, plan, work, gaveUp, disturbed>>
  BY DEF Request, ReadRow, ReadFreshness, LiveLookup, ReqEnv
<1>2. TypeOK'
  <2>1. req' \in [pc : {"idle", "freshness", "live"}, pr : PR \cup {0}, cov : Time] /\ overtaken' \in BOOLEAN
    <3>1. CASE \E p \in PR : ReadRow(p)
      <4>1. PICK p \in PR : req' = [pc |-> "freshness", pr |-> p, cov |-> 0] /\ overtaken' = FALSE
        BY <3>1 DEF ReadRow
      <4>2. 0 \in Time
        BY Numbers
      <4>3. QED BY <4>1, <4>2
    <3>2. CASE ReadFreshness
      BY <3>2 DEF ReadFreshness, IInv, Basics, TypeOK
    <3>3. CASE LiveLookup
      BY <3>3, Numbers DEF LiveLookup, NoReq
    <3>4. QED BY <3>1, <3>2, <3>3 DEF Request
  <2>2. QED BY <1>1, <2>1 DEF IInv, Basics, TypeOK
<1>3. Answer'
  <2>1. CASE \E p \in PR : ReadRow(p)
    BY <1>1, <2>1 DEF ReadRow, Answer
  <2>2. CASE ReadFreshness
    BY <1>1, <2>2 DEF ReadFreshness, IInv, Basics, TypeOK, Answer
  <2>3. CASE LiveLookup
    BY <1>1, <2>3 DEF LiveLookup, NoReq, Answer
  <2>4. QED BY <2>1, <2>2, <2>3 DEF Request
<1>4. Clock' /\ Window' /\ Rows' /\ Queue' /\ NothingSlipsPast'
  BY <1>1 DEF IInv, Basics, Clock, Window, Rows, Queue, NothingSlipsPast, Excused, Cutoff
<1>5. Pass'
  <2>1. \A p \in PR : /\ Wanted(p)' <=> Wanted(p)
                      /\ Handled(p)' <=> Handled(p)
                      /\ Paged(p)' <=> Paged(p)
    BY <1>1 DEF Wanted, Handled, Paged, Rank, Closed, Before, Cutoff
  <2>2. QED BY <1>1, <2>1 DEF IInv, Pass
<1>6. QED BY <1>2, <1>3, <1>4, <1>5 DEF IInv, Basics

LEMMA StutterInv ==
    ASSUME IInv, UNCHANGED vars PROVE IInv'
<1> USE DEF vars, gh, table, plan, work
<1>1. Basics' /\ NothingSlipsPast'
  BY DEF IInv, Basics, TypeOK, Clock, Window, Rows, Queue, Answer, NothingSlipsPast, Excused, Cutoff
<1>2. Pass'
  BY DEF IInv, Pass, Wanted, Handled, Paged, Rank, Closed, Before, Cutoff
<1>3. QED BY <1>1, <1>2 DEF IInv

LEMMA StepIInv ==
    ASSUME PrAssumption, IInv, [Next]_vars PROVE IInv'
<1>1. CASE Tick \/ GitHub
  BY <1>1, GitHubBasics, GitHubPass DEF IInv
<1>2. CASE Begin \/ Step \/ Crash
  BY <1>2, WalkInv, PageInv, StoreInv, RecordInv DEF Step
<1>3. QED BY <1>1, <1>2, RequestInv, StutterInv DEF Next

LEMMA Invariance == Spec => []IInv
<1>1. Init => IInv
  BY InitIInv, PrAssumption
<1>2. IInv /\ [Next]_vars => IInv'
  BY StepIInv, PrAssumption
<1>3. QED BY <1>1, <1>2, PTL DEF Spec

-----------------------------------------------------------------------------
\* Every variable of the backfill model keeps its type.
THEOREM TypeCorrect == Spec => []TypeOK
<1>1. IInv => TypeOK
  BY DEF IInv, Basics
<1>2. QED BY <1>1, Invariance, PTL

\* _fetch_closed_prs pages a list that moves under it and stops at its floor,
\* passes fail, stop early, crash and overlap in what they cover: what
\* coverage promises still has its row, whatever the page size, the overlap
\* and the retention.
THEOREM CoverageIsKept == Spec => []NothingSlipsPast
<1>1. IInv => NothingSlipsPast
  BY DEF IInv
<1>2. QED BY <1>1, Invariance, PTL

\* The verdict of _miss_state is judged against the state of its own moment,
\* although the row, the freshness and the live answer are read one by one.
THEOREM MissingHasACause == Spec => MissingExplained
<1>1. ASSUME IInv, LiveLookup, MissState(ended[req.pr]) = "missing", ~overtaken
      PROVE  /\ ended[req.pr] <= req.cov
             /\ Excused(req.pr) \/ updated[req.pr] >= req.cov
  <2>1. req.pr \in PR /\ stored[req.pr] = 0 /\ req.cov = coverage
    BY <1>1 DEF LiveLookup, IInv, Basics, Answer
  <2>2. ended[req.pr] \in Nat /\ coverage \in Nat /\ Cutoff(now) \in Int
    <3>1. Time \subseteq Nat /\ Retention \in Nat
      BY Numbers, PrAssumption
    <3>2. ended \in [PR -> Time] /\ coverage \in Time /\ now \in Time
      BY <1>1 DEF IInv, Basics, TypeOK
    <3>3. ended[req.pr] \in Time
      BY <2>1, <3>2
    <3>4. now \in Nat /\ coverage \in Nat /\ ended[req.pr] \in Nat
      BY <3>1, <3>2, <3>3
    <3>5. Cutoff(now) \in Int
      BY <3>1, <3>4 DEF Cutoff
    <3>6. QED BY <3>4, <3>5
  <2>3. ended[req.pr] # 0 /\ ended[req.pr] >= Cutoff(now) /\ ended[req.pr] <= req.cov
    BY <1>1, <2>1, <2>2 DEF MissState
  <2>4. QED BY <1>1, <2>1, <2>2, <2>3 DEF IInv, NothingSlipsPast
<1>2. QED BY <1>1, Invariance, PTL DEF MissingExplained

-----------------------------------------------------------------------------
(* Numbers and sequences.                                                  *)

\* The least of some numbers, and the greatest of some that are bounded.
LEMMA LeastOne ==
    ASSUME NEW S \in SUBSET Nat, S # {}
    PROVE  \E a \in S : \A b \in S : a <= b
<1> DEFINE R == OpToRel(<, Nat)
<1>1. PICK a \in S : \A b \in S : ~(<<b, a>> \in R)
  BY NatLessThanWellFounded, WFMin
<1>2. \A b \in S : a <= b
  <2> SUFFICES ASSUME NEW b \in S PROVE a <= b
    OBVIOUS
  <2>1. <<b, a>> \notin R
    BY <1>1
  <2> QED
    BY <2>1 DEF OpToRel
<1> QED
  BY <1>2

LEMMA GreatestOne ==
    ASSUME NEW n \in Nat, NEW S \in SUBSET (0..n), S # {}
    PROVE  \E a \in S : \A b \in S : b <= a
<1> DEFINE T == {n - i : i \in S}
<1>1. T \subseteq Nat /\ T # {}
  <2>1. \A i \in S : n - i \in Nat
    OBVIOUS
  <2> QED
    BY <2>1
<1>2. PICK x \in T : \A y \in T : x <= y
  BY <1>1, LeastOne
<1>3. PICK a \in S : x = n - a
  OBVIOUS
<1>4. \A b \in S : n - a <= n - b
  BY <1>2, <1>3
<1> QED
  BY <1>4

\* A sequence over a set is one over a larger set.
LEMMA MoreEntries ==
    ASSUME NEW S, NEW T, S \subseteq T, NEW c \in Seq(S)
    PROVE  c \in Seq(T)
OBVIOUS

-----------------------------------------------------------------------------
(* The documents of one pull request (PrRecords).                          *)

Run == [done : 0..moment, conclusion : Conclusion \cup {Records!None}]
QueueEntry == [began : 1..moment, runs : [Workflow -> Run]]
RecordsInv ==
    /\ moment \in Nat /\ moment >= 1
    /\ \A r \in reviews : r.at \in 1..moment
    /\ entries \in Seq(QueueEntry)
    /\ state \in {"open", "merged", "closed"}
    /\ endedAt \in 0..moment /\ (state = "open" <=> endedAt = 0)

LEMMA RecordsInit ==
    ASSUME Records!Init PROVE RecordsInv
<1>1. entries \in Seq(QueueEntry)
  BY DEF Records!Init
<1> QED
  BY <1>1 DEF Records!Init, RecordsInv

LEMMA RecordsStep ==
    ASSUME RecordsInv, Records!Next PROVE RecordsInv'
<1>1. /\ moment' \in Nat /\ moment <= moment' /\ moment \in Nat
      /\ \A r \in reviews' : r \in reviews \/ r.at = moment
      /\ state' \in {"open", "merged", "closed"} /\ endedAt' \in {endedAt, moment'}
      /\ (state' = state /\ endedAt' = endedAt) \/ (state' # "open" /\ endedAt' = moment')
  <2>1. CASE Records!Tick
    BY <2>1 DEF RecordsInv, Records!Tick
  <2>2. CASE Records!Enqueue
    BY <2>2 DEF RecordsInv, Records!Enqueue
  <2>3. CASE Records!Merge \/ Records!Close
    BY <2>3 DEF RecordsInv, Records!Merge, Records!Close
  <2>4. ASSUME NEW kind, Records!Review(kind)
        PROVE  /\ UNCHANGED <<moment, state, endedAt>>
               /\ \A r \in reviews' : r \in reviews \/ r.at = moment
    BY <2>4 DEF Records!Review
  <2>5. ASSUME NEW w, NEW c, Records!RunEnds(w, c) PROVE UNCHANGED <<moment, reviews, state, endedAt>>
    BY <2>5 DEF Records!RunEnds
  <2> QED
    BY <2>1, <2>2, <2>3, <2>4, <2>5 DEF RecordsInv, Records!Next
<1>2. (\A r \in reviews : r.at \in 1..moment)' /\ (endedAt \in 0..moment /\ (state = "open" <=> endedAt = 0))'
  BY <1>1 DEF RecordsInv
<1>3. QueueEntry \subseteq QueueEntry'
  BY <1>1 DEF QueueEntry, Run, Records!None
<1>4. entries \in Seq(QueueEntry')
  BY <1>3, MoreEntries DEF RecordsInv
<1>5. entries' \in Seq(QueueEntry')
  <2>1. CASE entries' = entries
    BY <1>4, <2>1
  <2>2. CASE Records!Enqueue
    <3> DEFINE e == [began |-> moment, runs |-> [w \in Workflow |-> Records!Pending]]
    <3>1. e \in QueueEntry'
      BY <2>2 DEF QueueEntry, Run, Records!Pending, Records!None, Records!Enqueue, RecordsInv
    <3>2. entries' = Append(entries, e)
      BY <2>2 DEF Records!Enqueue
    <3> HIDE DEF e
    <3> QED
      BY <1>4, <3>1, <3>2
  <2>3. ASSUME NEW w \in Workflow, NEW c \in Conclusion, Records!RunEnds(w, c)
        PROVE  entries' \in Seq(QueueEntry')
    <3> DEFINE n == Len(entries)
               e == [entries[n] EXCEPT !.runs[w] = [done |-> moment, conclusion |-> c]]
    <3>1. entries' = [entries EXCEPT ![n] = e] /\ moment' = moment /\ entries # <<>>
      BY <2>3 DEF Records!RunEnds, Records!InQueue
    <3>2. n \in 1..Len(entries) /\ entries[n] \in QueueEntry'
      BY <1>4, <3>1
    <3>3. e \in QueueEntry'
      <4>1. [done |-> moment, conclusion |-> c] \in Run'
        BY <1>1, <3>1 DEF Run, RecordsInv
      <4>2. entries[n].began \in (1..moment)' /\ entries[n].runs \in [Workflow -> Run']
        BY <3>2 DEF QueueEntry
      <4>3. [entries[n].runs EXCEPT ![w] = [done |-> moment, conclusion |-> c]] \in [Workflow -> Run']
        BY <4>1, <4>2
      <4>4. e = [began |-> entries[n].began,
                 runs |-> [entries[n].runs EXCEPT ![w] = [done |-> moment, conclusion |-> c]]]
        BY <3>2 DEF QueueEntry
      <4> QED
        BY <4>2, <4>3, <4>4 DEF QueueEntry
    <3> HIDE DEF n, e
    <3> QED
      BY <1>4, <3>1, <3>2, <3>3
  <2> QED
    BY <2>1, <2>2, <2>3 DEF Records!Next, Records!Tick, Records!Merge, Records!Close, Records!Review
<1> QED
  BY <1>1, <1>2, <1>5 DEF RecordsInv

\* The conclusion of some of an entry's runs does not outrank the entry's.
LEMMA Conclusions ==
    ASSUME NEW all, NEW some \in SUBSET all,
           Records!EntryConclusion(some) \notin {Records!None, "success", "skipped", "neutral"}
    PROVE  Records!EntryConclusion(all) \notin {Records!None, "success"}
BY DEF Records!EntryConclusion, Records!Failing, Records!None

LEMMA AttemptsShown ==
    ASSUME RecordsAssumption, RecordsInv
    PROVE  Records!AttemptsConsistent
<1> DEFINE n == Len(entries)
           All(i) == {entries[i].runs[w].conclusion : w \in Workflow}
<1>1. n \in Nat /\ DOMAIN entries = 1..n
  BY DEF RecordsInv
<1> HIDE DEF n
<1>2. DOMAIN Records!Attempts = 1..n
  BY DEF Records!Attempts, n
<1>3. \A i \in 1..n : Records!Attempts[i].ejected <=>
          Records!EntryConclusion(All(i)) \notin {Records!None, "success"} \/ i < n
  BY DEF Records!Attempts, Records!Attempt, n
<1>4. ASSUME state = "merged",
             \A w \in Workflow : Records!Last(entries).runs[w].conclusion \in {Records!None, "success", "skipped"}
      PROVE  {i \in DOMAIN Records!Attempts : Records!Attempts[i].ejected} = 1..(Len(entries) - 1)
  <2>1. n \in 1..n => Records!EntryConclusion(All(n)) \in {Records!None, "success"}
    <3>1. All(n) \subseteq {Records!None, "success", "skipped"}
      BY <1>4 DEF Records!Last, n
    <3> HIDE DEF All
    <3> QED
      BY <3>1 DEF Records!EntryConclusion, Records!Failing, Records!None
  <2>2. \A i \in 1..n : Records!Attempts[i].ejected <=> i < n
    <3> SUFFICES ASSUME NEW i \in 1..n, ~(i < n)
                 PROVE  Records!EntryConclusion(All(i)) \in {Records!None, "success"}
      BY <1>3
    <3>1. i = n
      BY <1>1
    <3> QED
      BY <2>1, <3>1
  <2> QED
    BY <1>1, <1>2, <2>2 DEF n
<1>5. ASSUME NEW i \in Records!HeldEntries, Records!LiveEjected(i)
      PROVE  Records!Attempts[i].ejected
  <2> DEFINE some == {entries[i].runs[w].conclusion : w \in Records!Held(i)}
  <2>1. i \in 1..n
    BY <1>1 DEF Records!HeldEntries
  <2>2. some \subseteq All(i)
    BY DEF Records!Held, RecordsAssumption
  <2>3. Records!EntryConclusion(some) \notin {Records!None, "success", "skipped", "neutral"}
    BY <1>5 DEF Records!LiveEjected
  <2> HIDE DEF some, All
  <2>4. Records!EntryConclusion(All(i)) \notin {Records!None, "success"}
    BY <2>2, <2>3, Conclusions
  <2> QED
    BY <1>3, <2>1, <2>4
<1> QED
  BY <1>4, <1>5 DEF Records!AttemptsConsistent

\* Moments are found among those that have passed.
LEMMA EarliestIn ==
    ASSUME NEW n \in Nat, NEW S \in SUBSET (1..n)
    PROVE  Records!Earliest(S) \in 0..n /\ (S # {} => Records!Earliest(S) # 0)
<1>1. CASE S = {}
  BY <1>1 DEF Records!Earliest
<1>2. CASE S # {}
  <2>1. \E a \in S : \A b \in S : a <= b
    BY <1>2, LeastOne
  <2>2. Records!Min(S) \in S
    BY <2>1 DEF Records!Min
  <2>3. Records!Earliest(S) = Records!Min(S)
    BY <1>2 DEF Records!Earliest
  <2>4. Records!Earliest(S) \in 1..n
    BY <2>2, <2>3
  <2> QED
    BY <2>4
<1> QED
  BY <1>1, <1>2

LEMMA LatestIn ==
    ASSUME NEW n \in Nat, NEW S \in SUBSET (0..n)
    PROVE  Records!Latest(S) \in 0..n
<1>1. CASE S = {}
  BY <1>1 DEF Records!Latest
<1>2. CASE S # {}
  <2>1. \E a \in S : \A b \in S : a >= b
    BY <1>2, GreatestOne
  <2>2. Records!Max(S) \in S
    BY <2>1 DEF Records!Max
  <2> QED
    BY <1>2, <2>2 DEF Records!Latest
<1> QED
  BY <1>1, <1>2

\* How the fields of a document belong together: each duration is the time
\* between two of its moments, up to now where the pull request still is.
Coherent(rec) ==
    /\ rec.opened = 1 /\ rec.review \in 0..moment /\ rec.approval \in 0..moment
    /\ rec.queued \in 0..moment /\ rec.last \in 0..moment /\ rec.ended \in 0..moment
    /\ rec.state \in {"open", "merged", "closed"} /\ (rec.state = "open" <=> rec.ended = 0)
    /\ rec.asOf \in {0, moment} /\ (rec.state = "open" => rec.asOf = moment)
    /\ rec.authoring = Records!SecondsBetween(1, rec.review)
    /\ rec.reviewing = Records!SecondsBetween(rec.review, rec.approval)
    /\ rec.total = Records!SecondsBetween(1, IF rec.ended # 0 THEN rec.ended ELSE moment)
    /\ rec.approval # 0 =>
          rec.waiting = IF rec.queued # 0 THEN Records!SecondsBetween(rec.approval, rec.queued)
                        ELSE IF rec.state = "open" THEN Records!SecondsBetween(rec.approval, moment)
                        ELSE Records!Unknown
    /\ rec.queued # 0 =>
          rec.queue = Records!SecondsBetween(rec.queued, IF rec.state = "open" THEN moment ELSE rec.last)
    /\ rec.state = "merged" /\ rec.last # 0 => rec.merged = Records!SecondsBetween(rec.last, rec.ended)

\* The stages of such a document, one by one.
LEMMA StagesOfRecord ==
    ASSUME RecordsInv, NEW rec, Coherent(rec)
    PROVE  /\ "authoring" \in Records!Measured(rec) <=> rec.review # 0
           /\ "review" \in Records!Measured(rec) <=> rec.review # 0 /\ rec.approval # 0
           /\ "waiting" \in Records!Measured(rec) <=>
                  rec.approval # 0 /\ (rec.queued # 0 \/ rec.state = "open")
           /\ "queue" \in Records!Measured(rec) <=> rec.queued # 0 /\ (rec.state = "open" \/ rec.last # 0)
           /\ "merged" \in Records!Measured(rec) <=> rec.state = "merged" /\ rec.last # 0
           /\ \A s \in Records!Measured(rec) :
                  /\ Records!Boundaries(rec)[s][3] # Records!Unknown
                  /\ Records!Boundaries(rec)[s][3] =
                        Records!SecondsBetween(Records!Boundaries(rec)[s][1], Records!Boundaries(rec)[s][2])
<1> USE DEF Records!SecondsBetween, Records!Unknown
<1> DEFINE B == Records!Boundaries(rec)
           M == Records!Measured(rec)
           Shown(s) == /\ B[s][3] # Records!Unknown
                       /\ B[s][3] = Records!SecondsBetween(B[s][1], B[s][2])
           F == RecordsInv /\ Coherent(rec)
<1>0. F
  OBVIOUS
<1>1. /\ B["authoring"] = <<rec.opened, rec.review, rec.authoring>>
      /\ B["review"] = <<rec.review, rec.approval, rec.reviewing>>
      /\ B["waiting"] = <<rec.approval,
              IF Records!Open(rec) /\ rec.approval # 0 /\ rec.queued = 0 THEN rec.asOf ELSE rec.queued, rec.waiting>>
      /\ B["queue"] = <<rec.queued, IF Records!Open(rec) /\ rec.queued # 0 THEN rec.asOf ELSE rec.last, rec.queue>>
      /\ B["merged"] = <<rec.last, IF rec.state = "merged" THEN rec.ended ELSE 0, rec.merged>>
  BY DEF Records!Boundaries
<1> HIDE DEF B
<1>2. \A s : s \in M <=> s \in Records!Stages /\ Records!StageState(rec, s) = "measured"
  BY DEF Records!Measured
<1> HIDE DEF M
<1>3. moment \in Nat /\ moment >= 1
  BY DEF RecordsInv
<1>4. /\ "authoring" \in M <=> rec.review # 0
      /\ "authoring" \in M => Shown("authoring")
  BY <1>0, <1>1, <1>2, <1>3 DEF Records!StageState, Records!Stages, Records!Open, B, Coherent
<1>5. /\ "review" \in M <=> rec.review # 0 /\ rec.approval # 0
      /\ "review" \in M => Shown("review")
  BY <1>0, <1>1, <1>2, <1>3 DEF Records!StageState, Records!Stages, Records!Open, B, Coherent
<1>6. /\ "waiting" \in M <=> rec.approval # 0 /\ (rec.queued # 0 \/ rec.state = "open")
      /\ "waiting" \in M => Shown("waiting")
  BY <1>0, <1>1, <1>2, <1>3 DEF Records!StageState, Records!Stages, Records!Open, B, Coherent
<1>7. /\ "queue" \in M <=> rec.queued # 0 /\ (rec.state = "open" \/ rec.last # 0)
      /\ "queue" \in M => Shown("queue")
  BY <1>0, <1>1, <1>2, <1>3 DEF Records!StageState, Records!Stages, Records!Open, B, Coherent
<1>8. /\ "merged" \in M <=> rec.state = "merged" /\ rec.last # 0
      /\ "merged" \in M => Shown("merged")
  BY <1>0, <1>1, <1>2, <1>3 DEF Records!StageState, Records!Stages, Records!Open, B, Coherent
<1>9. \A s \in M : s \in {"authoring", "review", "waiting", "queue", "merged"}
  BY <1>2 DEF Records!Stages
<1>10. \A s \in M : Shown(s)
  BY <1>4, <1>5, <1>6, <1>7, <1>8, <1>9
<1> QED
  BY <1>4, <1>5, <1>6, <1>7, <1>8, <1>10 DEF M, B

\* The stages of such a document fit into its total, and fill it together.
LEMMA StagesFit ==
    ASSUME RecordsInv, NEW rec, Coherent(rec), Records!InOrder(rec)
    PROVE  /\ Records!MeasuredTime(rec) <= rec.total
           /\ Records!Measured(rec) = Records!Stages => Records!MeasuredTime(rec) = rec.total
<1> DEFINE M == Records!Measured(rec)
           T(s) == IF s \in M THEN Records!Boundaries(rec)[s][3] ELSE 0
           review == rec.review
           approval == rec.approval
           queued == rec.queued
           last == rec.last
           final == rec.ended
           open == rec.state = "open"
           merged == rec.state = "merged"
           end == IF final # 0 THEN final ELSE moment
<1>1. /\ review \in 0..moment /\ approval \in 0..moment /\ queued \in 0..moment
      /\ last \in 0..moment /\ final \in 0..moment /\ moment \in Nat /\ moment >= 1
      /\ (open <=> final = 0) /\ rec.opened = 1 /\ open \in BOOLEAN /\ merged \in BOOLEAN
      /\ (merged => ~open)
  BY DEF Coherent, RecordsInv
<1>2. LET m == <<1, review, approval, queued, last, final>>
      IN  \A i, j \in 1..6 : i < j /\ m[i] # 0 /\ m[j] # 0 => m[i] <= m[j]
  BY <1>1 DEF Records!InOrder
<1>3. /\ review # 0 => 1 <= review
      /\ approval # 0 => 1 <= approval /\ (review # 0 => review <= approval)
      /\ queued # 0 => 1 <= queued /\ (review # 0 => review <= queued) /\ (approval # 0 => approval <= queued)
      /\ last # 0 => /\ 1 <= last /\ (review # 0 => review <= last)
                     /\ (approval # 0 => approval <= last) /\ (queued # 0 => queued <= last)
      /\ final # 0 => /\ 1 <= final /\ (review # 0 => review <= final) /\ (approval # 0 => approval <= final)
                      /\ (queued # 0 => queued <= final) /\ (last # 0 => last <= final)
  BY <1>1, <1>2
<1>4. /\ "authoring" \in M <=> review # 0
      /\ "review" \in M <=> review # 0 /\ approval # 0
      /\ "waiting" \in M <=> approval # 0 /\ (queued # 0 \/ open)
      /\ "queue" \in M <=> queued # 0 /\ (open \/ last # 0)
      /\ "merged" \in M <=> merged /\ last # 0
  BY StagesOfRecord
<1>5. /\ T("authoring") = IF review # 0 THEN review - 1 ELSE 0
      /\ T("review") = IF review # 0 /\ approval # 0 THEN approval - review ELSE 0
  BY <1>1, <1>3, <1>4 DEF Records!Boundaries, Coherent, Records!SecondsBetween
<1>6. T("waiting") = IF approval # 0 /\ queued # 0 THEN queued - approval
                     ELSE IF approval # 0 /\ open THEN moment - approval ELSE 0
  BY <1>1, <1>3, <1>4 DEF Records!Boundaries, Coherent, Records!SecondsBetween
<1>7. T("queue") = IF queued # 0 /\ open THEN moment - queued
                   ELSE IF queued # 0 /\ last # 0 THEN last - queued ELSE 0
  BY <1>1, <1>3, <1>4 DEF Records!Boundaries, Coherent, Records!SecondsBetween
<1>8. T("merged") = IF merged /\ last # 0 THEN final - last ELSE 0
  BY <1>1, <1>3, <1>4 DEF Records!Boundaries, Coherent, Records!SecondsBetween
<1>9. rec.total = end - 1
  BY <1>1, <1>3 DEF Coherent, Records!SecondsBetween
<1>10. Records!MeasuredTime(rec) = T("authoring") + T("review") + T("waiting") + T("queue") + T("merged")
  BY DEF Records!MeasuredTime
<1>11. M = Records!Stages => review # 0 /\ approval # 0 /\ queued # 0 /\ last # 0 /\ merged
  BY <1>4 DEF Records!Stages
<1> HIDE DEF M, T, review, approval, queued, last, final, open, merged
<1>12. T("authoring") + T("review") + T("waiting") + T("queue") + T("merged") <= end - 1
  BY <1>1, <1>3, <1>5, <1>6, <1>7, <1>8
<1>13. M = Records!Stages => T("authoring") + T("review") + T("waiting") + T("queue") + T("merged") = end - 1
  BY <1>1, <1>3, <1>5, <1>6, <1>7, <1>8, <1>11
<1> QED
  BY <1>9, <1>10, <1>12, <1>13 DEF M

\* The record of GitHub's timestamps alone.
Plain(rec) ==
    /\ rec.opened = 1 /\ rec.review \in 0..moment /\ rec.approval \in 0..moment
    /\ rec.queued = 0 /\ rec.last = 0 /\ rec.ended = endedAt /\ rec.state = state /\ rec.asOf = 0
    /\ rec.authoring = Records!SecondsBetween(1, rec.review)
    /\ rec.reviewing = Records!SecondsBetween(rec.review, rec.approval)
    /\ rec.waiting = Records!Unknown
    /\ rec.total = Records!SecondsBetween(1, IF endedAt # 0 THEN endedAt ELSE moment)
    /\ rec = [state |-> rec.state, opened |-> rec.opened, review |-> rec.review, approval |-> rec.approval,
              queued |-> rec.queued, last |-> rec.last, ended |-> rec.ended, asOf |-> rec.asOf,
              authoring |-> rec.authoring, reviewing |-> rec.reviewing, waiting |-> rec.waiting,
              queue |-> rec.queue, merged |-> rec.merged, total |-> rec.total]

LEMMA PlainRecord ==
    ASSUME RecordsInv
    PROVE  Plain(Records!BuildPrRecord)
<1> DEFINE R == {r.at : r \in reviews}
           A == {a.at : a \in {r \in reviews : r.kind = "APPROVED"}}
<1>1. R \subseteq 1..moment /\ A \subseteq 1..moment /\ moment \in Nat
  BY DEF RecordsInv
<1>2. Records!Earliest(R) \in 0..moment /\ Records!Earliest(A) \in 0..moment
  BY <1>1, EarliestIn
<1> HIDE DEF R, A
<1> QED
  BY <1>2 DEF Plain, Records!BuildPrRecord, R, A

LEMMA EntryTimes ==
    ASSUME RecordsInv, NEW i \in DOMAIN entries
    PROVE  /\ entries[i].began \in 1..moment
           /\ \A w \in Workflow : entries[i].runs[w].done \in 0..moment
<1>1. entries[i] \in QueueEntry
  BY DEF RecordsInv
<1> QED
  BY <1>1 DEF QueueEntry, Run

LEMMA LiveCoherent ==
    ASSUME RecordsInv, RecordsAssumption
    PROVE  Coherent(Records!LiveDetail)
<1> DEFINE H == Records!HeldEntries
           rec == [Records!BuildPrRecord EXCEPT !.asOf = moment]
           began == {entries[i].began : i \in H}
           done == UNION {{entries[i].runs[w].done : w \in Records!Held(i)} : i \in H}
           queued == [rec EXCEPT !.queued = Records!Earliest(began), !.last = Records!LiveDone]
           live == [queued EXCEPT
                      !.waiting = Records!SecondsBetween(queued.approval, queued.queued),
                      !.queue = Records!SecondsBetween(queued.queued, IF state = "open" THEN moment ELSE Records!LiveDone),
                      !.merged = IF state = "merged" THEN Records!SecondsBetween(Records!LiveDone, endedAt)
                                 ELSE Records!Unknown]
           alone == [rec EXCEPT !.waiting = IF state = "open" THEN Records!SecondsBetween(rec.approval, moment)
                                            ELSE Records!Unknown]
<1>1. moment \in Nat /\ state \in {"open", "merged", "closed"} /\ endedAt \in 0..moment
      /\ (state = "open" <=> endedAt = 0)
  BY DEF RecordsInv
<1>2. \A i \in DOMAIN entries : entries[i].began \in 1..moment
                             /\ \A w \in Workflow : entries[i].runs[w].done \in 0..moment
  BY EntryTimes
<1>3. began \subseteq 1..moment /\ done \subseteq 0..moment
  BY <1>2, RecordsAssumption DEF Records!HeldEntries, Records!Held, RecordsAssumption
<1>4. /\ Records!Earliest(began) \in 0..moment /\ (H # {} => Records!Earliest(began) # 0)
      /\ Records!LiveDone \in 0..moment
  <2>1. H # {} => began # {}
    OBVIOUS
  <2>2. Records!LiveDone = Records!Latest(done)
    BY DEF Records!LiveDone
  <2> HIDE DEF began, done, H
  <2> QED
    BY <1>1, <1>3, <2>1, <2>2, EarliestIn, LatestIn
<1>5. Plain(Records!BuildPrRecord)
  BY PlainRecord
<1> HIDE DEF began, done, H
<1>6. CASE H # {}
  <2>1. Records!LiveDetail = live
    BY <1>6 DEF Records!LiveDetail, H, began
  <2>2. Coherent(live)
    BY <1>1, <1>4, <1>5, <1>6 DEF Coherent, Plain
  <2> QED
    BY <2>1, <2>2
<1>7. CASE H = {}
  <2>1. Records!LiveDetail = alone
    BY <1>7 DEF Records!LiveDetail, H
  <2>2. Coherent(alone)
    BY <1>1, <1>5 DEF Coherent, Plain
  <2> QED
    BY <2>1, <2>2
<1> QED
  BY <1>6, <1>7

LEMMA StoredCoherent ==
    ASSUME RecordsInv, state # "open"
    PROVE  Coherent(Records!WritePr)
<1>1. moment \in Nat /\ state \in {"merged", "closed"} /\ endedAt \in 1..moment
      /\ Len(entries) \in Nat /\ DOMAIN entries = 1..Len(entries)
  BY DEF RecordsInv
<1>2. Plain(Records!BuildPrRecord)
  BY PlainRecord
<1>3. CASE entries = <<>>
  BY <1>1, <1>2, <1>3 DEF Records!WritePr, Coherent, Plain
<1>4. CASE entries # <<>>
  <2> DEFINE A == Records!Attempts
             C == {A[i].completed : i \in DOMAIN A}
             rec == [Records!BuildPrRecord EXCEPT !.queued = A[1].started]
  <2>1. \A i \in DOMAIN entries : entries[i].began \in 1..moment
                               /\ \A w \in Workflow : entries[i].runs[w].done \in 0..moment
    BY EntryTimes
  <2>2. DOMAIN A = DOMAIN entries
    BY <1>1 DEF Records!Attempts
  <2>3. \A i \in DOMAIN entries : A[i].started \in 1..moment /\ A[i].completed \in 0..moment
    <3> SUFFICES ASSUME NEW i \in DOMAIN entries
                 PROVE  A[i].started \in 1..moment /\ A[i].completed \in 0..moment
      OBVIOUS
    <3> DEFINE D == {entries[i].runs[w].done : w \in Workflow}
    <3>1. D \subseteq 0..moment
      BY <2>1
    <3>2. Records!Latest(D) \in 0..moment
      <4> HIDE DEF D
      <4> QED
        BY <1>1, <3>1, LatestIn
    <3>3. A[i] = Records!Attempt(i)
      BY <1>1 DEF Records!Attempts
    <3>4. Records!Attempt(i).started = entries[i].began /\ Records!Attempt(i).completed \in {0, Records!Latest(D)}
      BY DEF Records!Attempt
    <3> QED
      BY <1>1, <2>1, <3>2, <3>3, <3>4
  <2>4. C \subseteq 0..moment
    BY <2>2, <2>3
  <2>5. 1 \in DOMAIN entries
    BY <1>1, <1>4 DEF RecordsInv
  <2>6. A[1].started \in 1..moment
    BY <2>3, <2>5
  <2> HIDE DEF A
  <2>7. Records!WritePr = Records!QueueTimes(rec, Records!Latest(C))
    BY <1>4 DEF Records!WritePr, A
  <2> HIDE DEF C
  <2>8. Records!Latest(C) \in 0..moment
    BY <1>1, <2>4, LatestIn
  <2>9. Coherent(Records!QueueTimes(rec, Records!Latest(C)))
    BY <1>1, <1>2, <2>6, <2>8 DEF Coherent, Plain, Records!QueueTimes
  <2> QED
    BY <2>7, <2>9
<1> QED
  BY <1>3, <1>4

LEMMA StagesShown ==
    ASSUME RecordsInv, RecordsAssumption
    PROVE  Records!StagesConsistent
<1>1. \A rec \in Records!Documents : Coherent(rec)
  BY LiveCoherent, StoredCoherent DEF Records!Documents
<1>2. ASSUME NEW rec, Coherent(rec)
      PROVE  /\ \A s \in Records!Measured(rec) :
                   LET b == Records!Boundaries(rec)[s]
                   IN  b[3] # Records!Unknown /\ b[3] = Records!SecondsBetween(b[1], b[2])
             /\ Records!InOrder(rec) =>
                   /\ Records!MeasuredTime(rec) <= rec.total
                   /\ Records!Measured(rec) = Records!Stages => Records!MeasuredTime(rec) = rec.total
  BY <1>2, StagesOfRecord, StagesFit
<1> QED
  BY <1>1, <1>2 DEF Records!StagesConsistent

LEMMA RecordsInvariance == MCSpec => [](part = "records" => RecordsInv)
<1>1. MCInit => (part = "records" => RecordsInv)
  BY RecordsInit DEF MCInit
<1>2. (part = "records" => RecordsInv) /\ [MCNext]_allVars => (part = "records" => RecordsInv)'
  <2> SUFFICES ASSUME part' = "records", part = "records" => RecordsInv, [MCNext]_allVars
               PROVE  RecordsInv'
    OBVIOUS
  <2>1. part = "records" /\ RecordsInv
    BY DEF MCNext, allVars
  <2>2. CASE Records!Next
    BY <2>1, <2>2, RecordsStep
  <2>3. CASE UNCHANGED recordVars
    BY <2>1, <2>3 DEF recordVars, RecordsInv, QueueEntry, Run, Records!None
  <2> QED
    BY <2>1, <2>2, <2>3 DEF MCNext, allVars
<1> QED
  BY <1>1, <1>2, PTL DEF MCSpec

\* A stage the page calls measured lasts as long as the two moments shown for
\* it are apart, and no time is counted twice, in the stored document as in
\* the live one (_stages, _write_pr, _live_detail).
THEOREM StagesAreConsistent == MCSpec => []StagesConsistent
<1>1. (part = "records" => RecordsInv) => StagesConsistent
  BY RecordsAssumption, StagesShown DEF StagesConsistent
<1> QED
  BY <1>1, RecordsInvariance, PTL

\* Of a merged pull request all attempts but the last were ejected, and an
\* ejection the live page shows is still there in the stored attempts
\* (_build_attempts, _attempts_from_runs).
THEOREM AttemptsAreConsistent == MCSpec => []AttemptsConsistent
<1>1. (part = "records" => RecordsInv) => AttemptsConsistent
  BY RecordsAssumption, AttemptsShown DEF AttemptsConsistent
<1> QED
  BY <1>1, RecordsInvariance, PTL

-----------------------------------------------------------------------------
(* The evidence of a run (RunEvidence).                                    *)

Status == {"none", "missing", "not_requested", "expired", "too_large", "invalid", "available"}
Doc == [status : Status, of : Nat]
Entry == [key : Int, value : Doc, expires : Int]
Requests == [pc : {"idle", "sha", "native", "download", "put", "answer"}, begun : Nat,
             attempt : Int, note : BOOLEAN, name : Nat, of : Nat, native : Doc]
USE DEF Requests

EvidenceType ==
    /\ clock \in Nat /\ latest \in Nat /\ changed \in Nat /\ broken \in Int
    /\ art \in [DOMAIN Names -> [of : Nat, kind : {"absent", "live", "large", "invalid", "expired"}]]
    /\ \A n \in DOMAIN Names : art[n].kind = "absent" => art[n] = Evidence!Absent
    /\ rows \in [own : Nat, suites : SUBSET Nat] /\ \A a \in {rows.own} \cup rows.suites : a <= latest
    /\ cache \in Seq(Entry)
    /\ lookup \in [Thread -> Requests]
    /\ \A t \in Thread : lookup[t].pc = "download" => lookup[t].name \in Evidence!Matches

\* No request outlives its timeouts.
InTime ==
    /\ changed <= clock /\ broken <= clock
    /\ \A t \in Thread : lookup[t].pc # "idle" =>
          lookup[t].begun <= clock /\ clock <= lookup[t].begun + LookupTime

\* Nothing has changed since the request began.
Fresh(t) == changed < lookup[t].begun

\* The note was written from the rows as they are.
NoteIsTrue(t) ==
    lookup[t].pc # "idle" /\ lookup[t].attempt # 0 /\ Fresh(t) =>
        (lookup[t].note <=> rows.own # 0 /\ rows.own # lookup[t].attempt)

\* An entry put long enough after the last change is what a lookup yields, or
\* the gap that a lookup left which failed not long before.
PutAt(e) == e.expires - Evidence!TtlOf(e.value)
RightEntry ==
    {e \in Entry : e.key # 0 =>
        /\ PutAt(e) <= clock
        /\ PutAt(e) > changed + LookupTime =>
              \/ e.value = Evidence!Reference
              \/ e.value = Evidence!Gap("not_requested") /\ PutAt(e) <= broken + LookupTime}

\* So is what a request is about to put, and an artifact about to be
\* downloaded is the one that a lookup chooses.
OnTheWay(t) ==
    /\ lookup[t].pc = "put" /\ Fresh(t) =>
          \/ lookup[t].native = Evidence!Reference
          \/ lookup[t].native = Evidence!Gap("not_requested") /\ lookup[t].begun <= broken
    /\ lookup[t].pc = "download" /\ Fresh(t) =>
          /\ Evidence!Matches # {} /\ lookup[t].name = Evidence!Chosen
          /\ lookup[t].of = art[Evidence!Chosen].of
          /\ art[Evidence!Chosen].kind \notin {"expired", "large"}

\* SettledIsRight, for one request.
Right(t) ==
    Evidence!Answered(t) =>
        /\ (Evidence!Settled(t, Ttl) /\ Evidence!Untroubled(t)) => lookup[t].native = Evidence!Reference
        /\ (Evidence!Settled(t, FailureTtl) /\ Evidence!Untroubled(t)
            /\ Evidence!Reference.status = "available") => lookup[t].native.status = "available"

EvidenceInv ==
    /\ EvidenceType /\ InTime /\ cache \in Seq(RightEntry)
    /\ \A t \in Thread : NoteIsTrue(t) /\ OnTheWay(t) /\ Right(t)

-----------------------------------------------------------------------------
(* The artifact a lookup chooses.                                          *)

\* There is one, if there is any artifact at all.
LEMMA ChosenMatches ==
    ASSUME EvidenceAssumption, EvidenceType, Evidence!Matches # {}
    PROVE  Evidence!Chosen \in Evidence!Matches
<1> DEFINE M == Evidence!Matches
           L == {n \in M : art[n].kind # "expired"}
<1>1. M \subseteq Nat /\ L \subseteq M
  BY DEF EvidenceAssumption, Evidence!Matches
<1>2. \E n \in M : \A k \in M \ {n} : Evidence!Before(n, k)
  <2>1. CASE L # {}
    <3>1. PICK n \in L : \A k \in L : n <= k
      BY <2>1, <1>1, LeastOne
    <3>2. \A k \in M \ {n} : Evidence!Before(n, k)
      BY <3>1, <1>1 DEF Evidence!Before
    <3> QED
      BY <3>1, <3>2
  <2>2. CASE L = {}
    <3>1. PICK n \in M : \A k \in M : n <= k
      BY <1>1, LeastOne
    <3>2. \A k \in M \ {n} : Evidence!Before(n, k)
      BY <2>2, <3>1, <1>1 DEF Evidence!Before
    <3> QED
      BY <3>1, <3>2
  <2> QED
    BY <2>1, <2>2
<1> QED
  BY <1>2 DEF Evidence!Chosen

LEMMA ReferenceType ==
    ASSUME EvidenceAssumption, EvidenceType
    PROVE  Evidence!Reference \in Doc
<1>1. CASE Evidence!Matches = {}
  BY <1>1 DEF Evidence!Reference, Evidence!Gap, Evidence!NativeDoc, Doc, Status
<1>2. CASE Evidence!Matches # {}
  <2>1. Evidence!Chosen \in DOMAIN Names /\ art[Evidence!Chosen] # Evidence!Absent
    BY <1>2, ChosenMatches DEF Evidence!Matches
  <2>2. art[Evidence!Chosen].kind \in {"live", "large", "invalid", "expired"} /\ art[Evidence!Chosen].of \in Nat
    BY <2>1 DEF EvidenceType
  <2>3. Evidence!StatusOf(art[Evidence!Chosen].kind) \in Status
    BY <2>2 DEF Evidence!StatusOf, Status
  <2> QED
    BY <1>2, <2>2, <2>3 DEF Evidence!Reference, Evidence!NativeDoc, Doc
<1> QED
  BY <1>1, <1>2

\* It depends on GitHub alone.
LEMMA SameReference ==
    ASSUME UNCHANGED art
    PROVE  /\ Evidence!Reference' = Evidence!Reference
           /\ Evidence!Matches' = Evidence!Matches /\ Evidence!Chosen' = Evidence!Chosen
<1>1. Evidence!Matches' = Evidence!Matches
  BY DEF Evidence!Matches, Evidence!Absent
<1>2. Evidence!Chosen' = Evidence!Chosen
  BY <1>1 DEF Evidence!Chosen, Evidence!Before
<1> QED
  BY <1>1, <1>2 DEF Evidence!Reference, Evidence!NativeDoc, Evidence!Gap, Evidence!StatusOf

-----------------------------------------------------------------------------
(* The cache: an operation adds no entry but the one it is given.          *)

LEMMA GetKeeps ==
    ASSUME NEW S, cache \in Seq(S), NEW key
    PROVE  Evidence!AfterGet(key) \in Seq(S)
<1>1. CASE Evidence!Expired(key) = {}
  BY <1>1 DEF Evidence!AfterGet
<1>2. CASE Evidence!Expired(key) # {}
  <2> DEFINE i == CHOOSE j \in Evidence!Expired(key) : TRUE
  <2>1. i \in 1..Len(cache)
    BY <1>2 DEF Evidence!Expired, Evidence!Holds
  <2> HIDE DEF i
  <2>2. SubSeq(cache, 1, i - 1) \in Seq(S) /\ SubSeq(cache, i + 1, Len(cache)) \in Seq(S)
    BY <2>1
  <2> QED
    BY <1>2, <2>2 DEF Evidence!AfterGet, Evidence!RemoveAt, i
<1> QED
  BY <1>1, <1>2

LEMMA PutKeeps ==
    ASSUME NEW S, NEW c \in Seq(S), NEW key, NEW value, NEW ttl,
           [key |-> key, value |-> value, expires |-> clock + ttl] \in S
    PROVE  Evidence!Put(c, key, value, ttl) \in Seq(S)
<1> DEFINE entry == [key |-> key, value |-> value, expires |-> clock + ttl]
           held == {i \in DOMAIN c : c[i].key = key}
           all == IF held # {} THEN [i \in DOMAIN c |-> IF i \in held THEN entry ELSE c[i]]
                  ELSE Append(c, entry)
<1>1. all \in Seq(S)
  <2>1. entry \in S
    OBVIOUS
  <2> HIDE DEF entry
  <2>2. CASE held # {}
    BY <2>1, <2>2
  <2>3. CASE held = {}
    BY <2>1, <2>3
  <2> QED
    BY <2>2, <2>3
<1>2. Len(all) > CacheSize => Tail(all) \in Seq(S)
  BY <1>1
<1>3. Evidence!Put(c, key, value, ttl) = IF Len(all) > CacheSize THEN Tail(all) ELSE all
  BY DEF Evidence!Put
<1> HIDE DEF all
<1> QED
  BY <1>1, <1>2, <1>3

-----------------------------------------------------------------------------
(* What a step leaves alone stays right.                                   *)

Kept(u) == NoteIsTrue(u) /\ OnTheWay(u) /\ Right(u)

LEMMA PutTime ==
    ASSUME EvidenceAssumption, NEW e \in Entry
    PROVE  Evidence!TtlOf(e.value) \in {Ttl, FailureTtl} /\ PutAt(e) \in Int
<1>1. Ttl \in Int /\ FailureTtl \in Int /\ e.expires \in Int
  BY DEF EvidenceAssumption, Entry
<1>2. Evidence!TtlOf(e.value) \in {Ttl, FailureTtl}
  BY DEF Evidence!TtlOf
<1> QED
  BY <1>1, <1>2 DEF PutAt

LEMMA EntriesStay ==
    ASSUME EvidenceAssumption, EvidenceInv, clock \in Nat, clock' \in Nat, clock <= clock',
           broken' \in Int, broken <= broken',
           UNCHANGED <<art, changed>> \/ changed' = clock
    PROVE  RightEntry \subseteq RightEntry'
<1> SUFFICES ASSUME NEW e \in RightEntry, e.key # 0
             PROVE  /\ PutAt(e) <= clock'
                    /\ PutAt(e) > changed' + LookupTime =>
                          \/ e.value = Evidence!Reference'
                          \/ e.value = Evidence!Gap("not_requested") /\ PutAt(e) <= broken' + LookupTime
  BY DEF RightEntry, PutAt, Evidence!TtlOf, Evidence!Gap, Evidence!NativeDoc
<1>1. e \in Entry /\ PutAt(e) <= clock /\ LookupTime \in Nat /\ broken \in Int /\ changed \in Int
  BY DEF RightEntry, EvidenceInv, EvidenceType, EvidenceAssumption
<1>2. PutAt(e) \in Int
  BY <1>1, PutTime
<1>3. CASE changed' = clock
  BY <1>1, <1>2, <1>3
<1>4. CASE UNCHANGED <<art, changed>>
  <2>1. PutAt(e) > changed + LookupTime =>
            \/ e.value = Evidence!Reference
            \/ e.value = Evidence!Gap("not_requested") /\ PutAt(e) <= broken + LookupTime
    BY DEF RightEntry
  <2>2. Evidence!Reference' = Evidence!Reference
    BY <1>4, SameReference
  <2> QED
    BY <1>1, <1>2, <1>4, <2>1, <2>2
<1> QED
  BY <1>3, <1>4

LEMMA RequestStays ==
    ASSUME EvidenceAssumption, EvidenceInv, NEW u \in Thread, lookup'[u] = lookup[u],
           broken' \in {broken, clock}, UNCHANGED <<art, rows, changed>> \/ changed' = clock
    PROVE  Kept(u)'
<1>1. /\ clock \in Nat /\ changed \in Nat /\ broken \in Int /\ lookup[u].begun \in Nat
      /\ Ttl \in Nat /\ FailureTtl \in Nat /\ FailureTtl > 0 /\ LookupTime \in Nat
      /\ lookup[u].pc # "idle" => lookup[u].begun <= clock
      /\ changed <= clock /\ broken <= clock /\ FailureTtl <= Ttl
      /\ Kept(u)
  BY DEF EvidenceInv, EvidenceType, EvidenceAssumption, InTime, Kept
<1>2. CASE changed' = clock
  BY <1>1, <1>2 DEF Kept, NoteIsTrue, OnTheWay, Right, Fresh, Evidence!Answered, Evidence!Settled
<1>3. CASE UNCHANGED <<art, rows, changed>>
  <2>1. /\ Evidence!Reference' = Evidence!Reference
        /\ Evidence!Matches' = Evidence!Matches /\ Evidence!Chosen' = Evidence!Chosen
    BY <1>3, SameReference
  <2>2. NoteIsTrue(u)'
    BY <1>1, <1>3 DEF Kept, NoteIsTrue, Fresh
  <2>3. OnTheWay(u)'
    <3>1. lookup[u].pc = "put" /\ lookup[u].begun <= broken => lookup[u].begun <= broken'
      BY <1>1
    <3>2. Evidence!Gap("not_requested")' = Evidence!Gap("not_requested")
      BY DEF Evidence!Gap, Evidence!NativeDoc
    <3> QED
      BY <1>1, <1>3, <2>1, <3>1, <3>2 DEF Kept, OnTheWay, Fresh
  <2>4. Right(u)'
    <3>1. CASE broken' = clock
      <4>1. ~Evidence!Untroubled(u)' \/ lookup[u].pc = "idle"
        BY <1>1, <3>1 DEF Evidence!Untroubled
      <4> QED
        BY <4>1 DEF Right, Evidence!Answered
    <3>2. CASE broken' = broken
      BY <1>1, <1>3, <2>1, <3>2 DEF Kept, Right, Evidence!Answered, Evidence!Settled, Evidence!Untroubled
    <3> QED
      BY <3>1, <3>2
  <2> QED
    BY <2>2, <2>3, <2>4 DEF Kept
<1> QED
  BY <1>2, <1>3

-----------------------------------------------------------------------------
(* The actions.                                                            *)

\* GitHub, the exporter and the clock.
LEMMA WorldStep ==
    ASSUME EvidenceAssumption, EvidenceInv, Evidence!World
    PROVE  EvidenceInv'
<1>1. UNCHANGED <<cache, lookup, broken>>
  BY DEF Evidence!World, Evidence!Tick, Evidence!Rerun, Evidence!StoreRow, Evidence!StoreSuite,
         Evidence!Expire, Evidence!Upload, Evidence!Outside
<1>2. clock' \in Nat /\ clock <= clock' /\ (changed' = clock \/ UNCHANGED <<art, rows, changed>>)
  BY DEF Evidence!World, Evidence!Tick, Evidence!Rerun, Evidence!StoreRow, Evidence!StoreSuite,
         Evidence!Expire, Evidence!Upload, Evidence!Outside, EvidenceInv, EvidenceType
<1>8. Evidence!Matches \subseteq Evidence!Matches'
  <2>1. CASE UNCHANGED art
    BY <2>1, SameReference
  <2>2. ASSUME NEW n \in DOMAIN Names, Evidence!Expire(n) PROVE Evidence!Matches \subseteq Evidence!Matches'
    BY <2>2 DEF Evidence!Expire, Evidence!Matches, Evidence!Absent, EvidenceInv, EvidenceType
  <2>3. ASSUME NEW n \in DOMAIN Names, NEW kind \in Kinds, Evidence!Upload(n, kind)
        PROVE  Evidence!Matches \subseteq Evidence!Matches'
    <3>1. kind # "absent"
      BY DEF EvidenceAssumption
    <3> QED
      BY <2>3, <3>1 DEF Evidence!Upload, Evidence!Matches, Evidence!Absent, EvidenceInv, EvidenceType
  <2> QED
    BY <2>1, <2>2, <2>3 DEF Evidence!World, Evidence!Tick, Evidence!Rerun, Evidence!StoreRow,
                            Evidence!StoreSuite
<1>9. (\A t \in Thread : lookup[t].pc = "download" => lookup[t].name \in Evidence!Matches)'
  BY <1>1, <1>8 DEF EvidenceInv, EvidenceType
<1>3. EvidenceType'
  <2>1. CASE Evidence!Tick
    BY <1>9, <2>1 DEF EvidenceInv, EvidenceType, Evidence!Tick
  <2>2. CASE Evidence!Rerun
    BY <1>9, <2>2 DEF EvidenceInv, EvidenceType, Evidence!Rerun, Evidence!Outside
  <2>3. CASE Evidence!StoreRow
    <3>1. /\ rows' \in [own : Nat, suites : SUBSET Nat] /\ rows'.own = latest
          /\ rows'.suites = rows.suites /\ UNCHANGED <<clock, latest, art, cache, lookup, broken>>
          /\ changed' = clock /\ clock \in Nat
      BY <2>3 DEF EvidenceInv, EvidenceType, Evidence!StoreRow, Evidence!Outside
    <3>2. \A a \in {rows'.own} \cup rows'.suites : a <= latest'
      BY <3>1 DEF EvidenceInv, EvidenceType
    <3> QED
      BY <1>9, <3>1, <3>2 DEF EvidenceInv, EvidenceType, Evidence!Absent
  <2>4. CASE Evidence!StoreSuite
    <3>1. /\ rows' \in [own : Nat, suites : SUBSET Nat] /\ rows'.own = rows.own
          /\ rows'.suites = rows.suites \cup {latest}
          /\ UNCHANGED <<clock, latest, art, cache, lookup, broken>> /\ changed' = clock /\ clock \in Nat
      BY <2>4 DEF EvidenceInv, EvidenceType, Evidence!StoreSuite, Evidence!Outside
    <3>2. \A a \in {rows'.own} \cup rows'.suites : a <= latest'
      BY <3>1 DEF EvidenceInv, EvidenceType
    <3> QED
      BY <1>9, <3>1, <3>2 DEF EvidenceInv, EvidenceType, Evidence!Absent
  <2>5. ASSUME NEW n \in DOMAIN Names, Evidence!Expire(n) PROVE EvidenceType'
    BY <1>9, <2>5 DEF EvidenceInv, EvidenceType, Evidence!Expire, Evidence!Outside, Evidence!Absent
  <2>6. ASSUME NEW n \in DOMAIN Names, NEW kind \in Kinds, Evidence!Upload(n, kind) PROVE EvidenceType'
    BY <1>9, <2>6 DEF EvidenceInv, EvidenceType, Evidence!Upload, Evidence!Outside, Evidence!Absent,
                EvidenceAssumption
  <2> QED
    BY <2>1, <2>2, <2>3, <2>4, <2>5, <2>6 DEF Evidence!World
<1>4. InTime'
  <2>1. CASE Evidence!Tick
    <3> SUFFICES ASSUME NEW t \in Thread, lookup[t].pc # "idle"
                 PROVE  clock + 1 <= lookup[t].begun + LookupTime
      BY <2>1 DEF EvidenceInv, EvidenceType, InTime, Evidence!Tick
    <3>1. lookup[t] # Evidence!Idle
      BY DEF Evidence!Idle, Evidence!Request
    <3>2. lookup[t].begun \in Nat /\ clock \in Nat /\ LookupTime \in Nat
      BY DEF EvidenceInv, EvidenceType, EvidenceAssumption
    <3> QED
      BY <2>1, <3>1, <3>2 DEF Evidence!Tick
  <2>2. CASE clock' = clock /\ changed' = clock
    BY <1>1, <2>2 DEF EvidenceInv, InTime, EvidenceType
  <2> QED
    BY <2>1, <2>2 DEF Evidence!World, Evidence!Rerun, Evidence!StoreRow, Evidence!StoreSuite,
                      Evidence!Expire, Evidence!Upload, Evidence!Outside
<1>5. RightEntry \subseteq RightEntry'
  BY <1>1, <1>2, EntriesStay DEF EvidenceInv, EvidenceType
<1>6. (cache \in Seq(RightEntry))'
  BY <1>1, <1>5, MoreEntries DEF EvidenceInv
<1>7. \A t \in Thread : Kept(t)'
  BY <1>1, <1>2, RequestStays
<1> QED
  BY <1>3, <1>4, <1>6, <1>7 DEF EvidenceInv, Kept

\* What a request's own step has to show.
LEMMA ServeStep ==
    ASSUME EvidenceAssumption, EvidenceInv, NEW t \in Thread,
           UNCHANGED <<clock, latest, art, rows, changed>>, broken' \in {broken, clock},
           NEW r \in Requests,
           lookup' = [lookup EXCEPT ![t] = r],
           r.pc # "idle" => r.begun <= clock /\ clock <= r.begun + LookupTime,
           r.pc = "download" => r.name \in Evidence!Matches,
           Kept(t)',
           cache \in Seq(RightEntry') => cache' \in Seq(RightEntry')
    PROVE  EvidenceInv'
<1>1. clock \in Nat /\ broken \in Int /\ broken <= clock /\ broken' \in Int /\ broken' <= clock /\ broken <= broken'
  BY DEF EvidenceInv, EvidenceType, InTime
<1>2. RightEntry \subseteq RightEntry'
  BY <1>1, EntriesStay
<1>3. cache' \in Seq(RightEntry')
  BY <1>2, MoreEntries DEF EvidenceInv
<1>4. cache' \in Seq(Entry)
  <2>1. RightEntry' \subseteq Entry
    BY DEF RightEntry, Entry, Doc
  <2> QED
    BY <1>3, <2>1, MoreEntries
<1>5. EvidenceType'
  <2>1. Evidence!Matches' = Evidence!Matches
    BY SameReference
  <2> QED
    BY <1>1, <1>4, <2>1 DEF EvidenceInv, EvidenceType, Evidence!Absent
<1>6. InTime'
  BY <1>1 DEF EvidenceInv, EvidenceType, InTime
<1>7. ASSUME NEW u \in Thread PROVE Kept(u)'
  <2>1. CASE u = t
    BY <2>1
  <2>2. CASE u # t
    <3>1. lookup'[u] = lookup[u]
      BY <2>2 DEF EvidenceInv, EvidenceType
    <3> QED
      BY <3>1, RequestStays
  <2> QED
    BY <2>1, <2>2
<1> QED
  BY <1>3, <1>5, <1>6, <1>7 DEF EvidenceInv, Kept

\* The newest attempt stored is a number.
LEMMA NewestType ==
    ASSUME EvidenceType
    PROVE  Evidence!NewestStored \in Nat
<1>1. \E a \in {rows.own} \cup rows.suites : \A b \in {rows.own} \cup rows.suites : b <= a
  <2>1. {rows.own} \cup rows.suites \subseteq 0..latest /\ latest \in Nat
    BY DEF EvidenceType
  <2> QED
    BY <2>1, GreatestOne
<1> QED
  BY <1>1 DEF Evidence!NewestStored, EvidenceType

LEMMA ReadStep ==
    ASSUME EvidenceAssumption, EvidenceInv, NEW t \in Thread, NEW ask \in Ask[t], Evidence!ReadRows(t, ask)
    PROVE  EvidenceInv'
<1> DEFINE attempt == IF ask = 0 THEN Evidence!NewestStored ELSE ask
           note == rows.own # 0 /\ ~Evidence!RunRowMatches(attempt)
           phase == IF rows.own # 0 \/ attempt \in rows.suites THEN "sha" ELSE "native"
           none == Evidence!Request("answer", clock, 0, TRUE, 0, 0, Evidence!Gap("not_requested"))
           begun == Evidence!Request(phase, clock, attempt, note, 0, 0, Evidence!Gap("none"))
<1>1. attempt \in Int /\ note \in BOOLEAN /\ phase \in {"sha", "native"} /\ clock \in Nat
  <2>1. ask \in Int
    BY DEF EvidenceAssumption
  <2> QED
    BY <2>1, NewestType DEF EvidenceInv, EvidenceType
<1>2. PICK r \in {none, begun} : lookup' = [lookup EXCEPT ![t] = r]
  BY DEF Evidence!ReadRows
<1>3. UNCHANGED <<clock, latest, art, rows, cache, changed, broken>>
  BY DEF Evidence!ReadRows
<1> HIDE DEF attempt, note, phase
<1>4. r \in Requests
  <2>1. Evidence!Gap("not_requested") \in Doc /\ Evidence!Gap("none") \in Doc
    BY DEF Evidence!Gap, Evidence!NativeDoc, Doc, Status
  <2>2. CASE r = none
    BY <1>1, <2>1, <2>2 DEF Evidence!Request
  <2>3. CASE r = begun
    BY <1>1, <2>1, <2>3 DEF Evidence!Request
  <2> QED
    BY <1>2, <2>2, <2>3
<1>5. lookup'[t] = r
  BY <1>2 DEF EvidenceInv, EvidenceType
<1>6. r.begun = clock /\ r.pc \in {"sha", "native", "answer"} /\ (r.pc = "answer" <=> r = none)
      /\ (r = none => r.attempt = 0) /\ (r = begun => r.attempt = attempt /\ r.note = note)
  BY <1>1, <1>2 DEF Evidence!Request
<1>7. Kept(t)'
  <2>1. NoteIsTrue(t)'
    BY <1>2, <1>3, <1>5, <1>6 DEF NoteIsTrue, note, Evidence!RunRowMatches
  <2> QED
    BY <2>1, <1>2, <1>5, <1>6 DEF Kept, OnTheWay, Right, Evidence!Answered
<1>8. LookupTime \in Nat
  BY DEF EvidenceAssumption
<1>9. r.pc # "idle" => r.begun <= clock /\ clock <= r.begun + LookupTime
  BY <1>1, <1>6, <1>8
<1>10. cache \in Seq(RightEntry') => cache' \in Seq(RightEntry')
  BY <1>3
<1> HIDE DEF none, begun
<1> QED
  BY <1>2, <1>3, <1>4, <1>6, <1>7, <1>9, <1>10, ServeStep

\* A value put now.
LEMMA PutIsRight ==
    ASSUME EvidenceAssumption, EvidenceInv, UNCHANGED <<clock, art, changed>>, broken' = broken,
           NEW key \in Int, NEW value \in Doc, NEW ttl \in Int, NEW c \in Seq(RightEntry'),
           key # 0 =>
               /\ ttl = Evidence!TtlOf(value)
               /\ clock > changed + LookupTime =>
                     \/ value = Evidence!Reference
                     \/ value = Evidence!Gap("not_requested") /\ clock <= broken + LookupTime
    PROVE  Evidence!Put(c, key, value, ttl) \in Seq(RightEntry')
<1> DEFINE e == [key |-> key, value |-> value, expires |-> clock + ttl]
<1>1. clock \in Nat /\ e \in Entry
  BY DEF EvidenceInv, EvidenceType, Entry
<1>2. e \in RightEntry'
  <2>1. CASE key = 0
    BY <1>1, <2>1 DEF RightEntry, Entry, Doc
  <2>2. CASE key # 0
    <3>1. PutAt(e) = clock
      BY <1>1, <2>2 DEF PutAt
    <3>2. Evidence!Reference' = Evidence!Reference
      BY SameReference
    <3>3. PutAt(e)' = PutAt(e) /\ e.key = key /\ e.value = value
      BY DEF PutAt, Evidence!TtlOf
    <3> HIDE DEF e
    <3> QED
      BY <1>1, <2>2, <3>1, <3>2, <3>3 DEF RightEntry, Entry, Doc, Evidence!Gap, Evidence!NativeDoc
  <2> QED
    BY <2>1, <2>2
<1> QED
  BY <1>2, PutKeeps

\* What the type invariant says of one request.
LEMMA RequestType ==
    ASSUME EvidenceAssumption, EvidenceInv, NEW t \in Thread, lookup[t].pc # "idle"
    PROVE  /\ lookup[t].begun \in Nat /\ lookup[t].attempt \in Int /\ lookup[t].note \in BOOLEAN
           /\ lookup[t].name \in Nat /\ lookup[t].of \in Nat /\ lookup[t].native \in Doc
           /\ lookup[t].begun <= clock /\ clock <= lookup[t].begun + LookupTime
           /\ clock \in Nat /\ changed \in Nat /\ broken \in Int /\ changed <= clock /\ broken <= clock
           /\ Ttl \in Nat /\ FailureTtl \in Nat /\ FailureTtl > 0 /\ FailureTtl <= Ttl /\ LookupTime \in Nat
           /\ Kept(t)
BY DEF EvidenceInv, EvidenceType, InTime, EvidenceAssumption, Kept

\* An answer, a value on its way to the cache.
LEMMA AnswerType ==
    ASSUME EvidenceAssumption, EvidenceInv, NEW t \in Thread, lookup[t].pc # "idle", NEW doc \in Doc
    PROVE  /\ Evidence!Answer(lookup[t], doc) \in Requests
           /\ Evidence!Found(lookup[t], doc) \in Requests
BY RequestType DEF Evidence!Answer, Evidence!Found, Evidence!Request

\* Results that are right for one request are right in the answer.
LEMMA AnswerStep ==
    ASSUME EvidenceAssumption, EvidenceInv, NEW t \in Thread, lookup[t].pc \notin {"idle", "answer"},
           NEW doc \in Doc, lookup' = [lookup EXCEPT ![t] = Evidence!Answer(lookup[t], doc)],
           UNCHANGED <<clock, latest, art, rows, changed, broken>>,
           cache \in Seq(RightEntry') => cache' \in Seq(RightEntry'),
           lookup[t].attempt # 0 /\ Evidence!Untroubled(t) =>
               /\ Evidence!Settled(t, Ttl) => doc = Evidence!Reference
               /\ Evidence!Settled(t, FailureTtl) /\ Evidence!Reference.status = "available" =>
                     doc.status = "available"
    PROVE  EvidenceInv'
<1> DEFINE r == Evidence!Answer(lookup[t], doc)
<1>1. lookup'[t] = r /\ r.pc = "answer" /\ r.begun = lookup[t].begun /\ r.attempt = lookup[t].attempt
      /\ r.note = lookup[t].note /\ r.native = doc
  BY DEF EvidenceInv, EvidenceType, Evidence!Answer, Evidence!Request
<1>2. Evidence!Reference' = Evidence!Reference
  BY SameReference
<1>3. Kept(t)'
  <2>1. NoteIsTrue(t)'
    BY <1>1, RequestType DEF Kept, NoteIsTrue, Fresh
  <2>2. Right(t)'
    BY <1>1, <1>2 DEF Right, Evidence!Answered, Evidence!Settled, Evidence!Untroubled
  <2> QED
    BY <1>1, <2>1, <2>2 DEF Kept, OnTheWay
<1>4. r.pc # "idle" => r.begun <= clock /\ clock <= r.begun + LookupTime
  BY <1>1, RequestType
<1>5. r \in Requests
  BY AnswerType
<1>6. r.pc # "download"
  BY <1>1
<1> HIDE DEF r
<1> QED
  BY <1>3, <1>4, <1>5, <1>6, ServeStep DEF r

LEMMA HitStep ==
    ASSUME EvidenceAssumption, EvidenceInv, NEW t \in Thread, Evidence!CacheHit(t)
    PROVE  EvidenceInv'
<1>1. PICK i \in Evidence!Live(lookup[t].attempt) :
          lookup' = [lookup EXCEPT ![t] = Evidence!Answer(lookup[t], cache[i].value)]
  BY DEF Evidence!CacheHit
<1>2. lookup[t].pc = "native" /\ UNCHANGED <<clock, latest, art, rows, cache, changed, broken>>
  BY DEF Evidence!CacheHit
<1>3. i \in DOMAIN cache /\ cache[i].key = lookup[t].attempt /\ clock < cache[i].expires
  BY DEF Evidence!Live, Evidence!Holds
<1>4. cache[i] \in RightEntry
  BY <1>3 DEF EvidenceInv
<1> DEFINE e == cache[i]
<1>5. e \in Entry /\ e.value \in Doc /\ e.expires \in Int
  BY <1>4 DEF RightEntry, Entry
<1>6. PutAt(e) \in Int /\ Evidence!TtlOf(e.value) \in {Ttl, FailureTtl}
      /\ PutAt(e) = e.expires - Evidence!TtlOf(e.value)
  BY <1>5, PutTime DEF PutAt
<1>7. lookup[t].attempt # 0 /\ PutAt(e) > changed + LookupTime =>
              \/ e.value = Evidence!Reference
              \/ e.value = Evidence!Gap("not_requested") /\ PutAt(e) <= broken + LookupTime
  BY <1>3, <1>4 DEF RightEntry
<1>8. e.value.status # "available" => Evidence!TtlOf(e.value) = FailureTtl
  BY DEF Evidence!TtlOf
<1>9. Evidence!Gap("not_requested").status # "available"
  BY DEF Evidence!Gap, Evidence!NativeDoc
<1> HIDE DEF e
<1>10. ASSUME lookup[t].attempt # 0, Evidence!Untroubled(t)
       PROVE  /\ Evidence!Settled(t, Ttl) => e.value = Evidence!Reference
              /\ Evidence!Settled(t, FailureTtl) /\ Evidence!Reference.status = "available" =>
                    e.value.status = "available"
  <2>1. lookup[t].begun >= broken + LookupTime + FailureTtl
    BY <1>10 DEF Evidence!Untroubled
  <2>2. clock < e.expires
    BY <1>3 DEF e
  <2> DEFINE b == lookup[t].begun
             x == e.expires
             p == PutAt(e)
  <2>11. /\ b \in Nat /\ clock \in Nat /\ b <= clock /\ changed \in Nat /\ broken \in Int
         /\ Ttl \in Nat /\ FailureTtl \in Nat /\ FailureTtl <= Ttl /\ LookupTime \in Nat
    BY <1>2, RequestType
  <2>12. x \in Int /\ clock < x /\ p \in Int /\ (p = x - Ttl \/ p = x - FailureTtl)
    BY <1>5, <1>6, <2>2
  <2>13. Evidence!TtlOf(e.value) = FailureTtl => p = x - FailureTtl
    BY <1>6
  <2>14. /\ b >= broken + LookupTime + FailureTtl
         /\ Evidence!Settled(t, Ttl) => b >= changed + LookupTime + Ttl
         /\ Evidence!Settled(t, FailureTtl) => b >= changed + LookupTime + FailureTtl
    BY <2>1 DEF Evidence!Settled
  <2> HIDE DEF b, x, p
  <2>3. Evidence!TtlOf(e.value) = FailureTtl => p > broken + LookupTime
    BY <2>11, <2>12, <2>13, <2>14
  <2>4. Evidence!Settled(t, Ttl) => p > changed + LookupTime
    BY <2>11, <2>12, <2>14
  <2>5. Evidence!Settled(t, FailureTtl) /\ Evidence!TtlOf(e.value) = FailureTtl =>
            p > changed + LookupTime
    BY <2>11, <2>12, <2>13, <2>14
  <2>6. broken \in Int /\ LookupTime \in Int
    BY <1>2, RequestType
  <2>7. e.value = Evidence!Gap("not_requested") => Evidence!TtlOf(e.value) = FailureTtl
    BY <1>8, <1>9
  <2>8. PutAt(e) > changed + LookupTime => e.value = Evidence!Reference
    BY <1>6, <1>7, <1>10, <2>3, <2>6, <2>7 DEF p
  <2>9. CASE e.value.status = "available"
    BY <2>4, <2>8, <2>9 DEF p
  <2>10. CASE e.value.status # "available"
    BY <1>8, <2>4, <2>5, <2>8, <2>10 DEF p
  <2> QED
    BY <2>9, <2>10
<1> QED
  BY <1>1, <1>2, <1>5, <1>10, AnswerStep DEF e

LEMMA PutStep ==
    ASSUME EvidenceAssumption, EvidenceInv, NEW t \in Thread, Evidence!PutNative(t)
    PROVE  EvidenceInv'
<1> DEFINE doc == lookup[t].native
<1>1. /\ lookup[t].pc = "put"
      /\ cache' = Evidence!Put(cache, lookup[t].attempt, doc, Evidence!TtlOf(doc))
      /\ lookup' = [lookup EXCEPT ![t] = Evidence!Answer(lookup[t], doc)]
      /\ UNCHANGED <<clock, latest, art, rows, changed, broken>>
  BY DEF Evidence!PutNative
<1>2. Fresh(t) => \/ doc = Evidence!Reference
                  \/ doc = Evidence!Gap("not_requested") /\ lookup[t].begun <= broken
  BY <1>1, RequestType DEF Kept, OnTheWay
<1>3. doc \in Doc /\ lookup[t].attempt \in Int /\ Evidence!TtlOf(doc) \in Int
  BY <1>1, RequestType DEF Evidence!TtlOf
<1> HIDE DEF doc
<1>4. ASSUME cache \in Seq(RightEntry') PROVE cache' \in Seq(RightEntry')
  <2>1. clock > changed + LookupTime =>
            \/ doc = Evidence!Reference
            \/ doc = Evidence!Gap("not_requested") /\ clock <= broken + LookupTime
    BY <1>1, <1>2, RequestType DEF Fresh
  <2> QED
    BY <1>1, <1>3, <1>4, <2>1, PutIsRight
<1>5. lookup[t].attempt # 0 /\ Evidence!Untroubled(t) =>
          /\ Evidence!Settled(t, Ttl) => doc = Evidence!Reference
          /\ Evidence!Settled(t, FailureTtl) /\ Evidence!Reference.status = "available" =>
                doc.status = "available"
  <2>1. Evidence!Settled(t, Ttl) \/ Evidence!Settled(t, FailureTtl) => Fresh(t)
    BY <1>1, RequestType DEF Evidence!Settled, Fresh
  <2>2. Evidence!Untroubled(t) => ~(lookup[t].begun <= broken)
    BY <1>1, RequestType DEF Evidence!Untroubled
  <2> QED
    BY <1>2, <2>1, <2>2
<1> QED
  BY <1>1, <1>3, <1>4, <1>5, AnswerStep

LEMMA ShaStep ==
    ASSUME EvidenceAssumption, EvidenceInv, NEW t \in Thread, NEW known \in BOOLEAN, NEW ok \in BOOLEAN,
           Evidence!HeadSha(t, known, ok)
    PROVE  EvidenceInv'
<1> DEFINE r == [lookup[t] EXCEPT !.pc = "native"]
           doc == Evidence!Gap("not_requested")
           ttl == IF ok THEN Ttl ELSE FailureTtl
<1>1. /\ lookup[t].pc = "sha" /\ lookup' = [lookup EXCEPT ![t] = r]
      /\ cache' \in {cache, Evidence!Put(Evidence!AfterGet(0), 0, doc, ttl)}
      /\ UNCHANGED <<clock, latest, art, rows, changed, broken>>
  BY DEF Evidence!HeadSha, Evidence!ShaKey
<1>2. doc \in Doc /\ ttl \in Int
  BY DEF Evidence!Gap, Evidence!NativeDoc, Doc, Status, EvidenceAssumption
<1> HIDE DEF doc, ttl
<1>3. ASSUME cache \in Seq(RightEntry') PROVE cache' \in Seq(RightEntry')
  <2>1. Evidence!AfterGet(0) \in Seq(RightEntry')
    BY <1>3, GetKeeps
  <2>2. Evidence!Put(Evidence!AfterGet(0), 0, doc, ttl) \in Seq(RightEntry')
    <3>1. ASSUME NEW c \in Seq(RightEntry') PROVE Evidence!Put(c, 0, doc, ttl) \in Seq(RightEntry')
      <4> DEFINE none == 0
      <4>1. none \in Int /\ ~(none # 0)
        OBVIOUS
      <4> HIDE DEF none
      <4>2. Evidence!Put(c, none, doc, ttl) \in Seq(RightEntry')
        BY <1>1, <1>2, <3>1, <4>1, PutIsRight
      <4> QED
        BY <4>2 DEF none
    <3> QED
      BY <2>1, <3>1
  <2> QED
    BY <1>1, <1>3, <2>2
<1>4. /\ r \in Requests
      /\ r.pc = "native" /\ r.begun = lookup[t].begun /\ r.attempt = lookup[t].attempt
      /\ r.note = lookup[t].note /\ lookup'[t] = r
  BY <1>1 DEF EvidenceInv, EvidenceType
<1>5. Kept(t)'
  BY <1>1, <1>4, RequestType DEF Kept, NoteIsTrue, OnTheWay, Right, Fresh, Evidence!Answered
<1>6. r.begun <= clock /\ clock <= r.begun + LookupTime
  BY <1>1, <1>4, RequestType
<1> HIDE DEF r
<1> QED
  BY <1>1, <1>3, <1>4, <1>5, <1>6, ServeStep

\* A lookup that is over.
LEMMA FoundStep ==
    ASSUME EvidenceAssumption, EvidenceInv, NEW t \in Thread, lookup[t].pc \in {"native", "download"},
           NEW doc \in Doc, lookup' = [lookup EXCEPT ![t] = Evidence!Found(lookup[t], doc)],
           UNCHANGED <<clock, latest, art, rows, changed>>, broken' \in {broken, clock},
           cache' \in {cache, Evidence!AfterGet(lookup[t].attempt)},
           Fresh(t) => \/ doc = Evidence!Reference
                       \/ doc = Evidence!Gap("not_requested") /\ broken' = clock
    PROVE  EvidenceInv'
<1> DEFINE r == Evidence!Found(lookup[t], doc)
<1>1. /\ r.pc = "put" /\ r.begun = lookup[t].begun /\ r.attempt = lookup[t].attempt
      /\ r.note = lookup[t].note /\ r.native = doc /\ lookup'[t] = r
  BY DEF EvidenceInv, EvidenceType, Evidence!Found, Evidence!Request
<1>2. Evidence!Reference' = Evidence!Reference
  BY SameReference
<1>3. Kept(t)'
  <2>1. NoteIsTrue(t)'
    BY <1>1, RequestType DEF Kept, NoteIsTrue, Fresh
  <2>2. OnTheWay(t)'
    <3>1. Fresh(t)' <=> Fresh(t)
      BY <1>1 DEF Fresh
    <3>2. broken' = clock => lookup'[t].begun <= broken'
      BY <1>1, RequestType
    <3>3. Evidence!Gap("not_requested")' = Evidence!Gap("not_requested")
      BY DEF Evidence!Gap, Evidence!NativeDoc
    <3>4. lookup'[t].native = doc /\ lookup'[t].pc = "put"
      BY <1>1
    <3> QED
      BY <1>2, <3>1, <3>2, <3>3, <3>4 DEF OnTheWay
  <2> QED
    BY <1>1, <2>1, <2>2 DEF Kept, Right, Evidence!Answered
<1>4. r \in Requests
  BY AnswerType
<1>5. r.begun <= clock /\ clock <= r.begun + LookupTime
  BY <1>1, RequestType
<1>6. cache \in Seq(RightEntry') => cache' \in Seq(RightEntry')
  BY GetKeeps
<1>7. r.pc # "download"
  BY <1>1
<1> HIDE DEF r
<1> QED
  BY <1>3, <1>4, <1>5, <1>6, <1>7, ServeStep DEF r

LEMMA ListStep ==
    ASSUME EvidenceAssumption, EvidenceInv, NEW t \in Thread, Evidence!ListArtifacts(t)
    PROVE  EvidenceInv'
<1> DEFINE n == Evidence!Chosen
           kind == art[n].kind
<1>1. /\ lookup[t].pc = "native" /\ cache' = Evidence!AfterGet(lookup[t].attempt)
      /\ UNCHANGED <<clock, latest, art, rows, changed, broken>>
  BY DEF Evidence!ListArtifacts
<1>2. CASE Evidence!Matches = {}
  <2>1. lookup' = [lookup EXCEPT ![t] = Evidence!Found(lookup[t], Evidence!Reference)]
    BY <1>2 DEF Evidence!ListArtifacts, Evidence!Reference
  <2> QED
    BY <1>1, <2>1, ReferenceType, FoundStep DEF EvidenceInv
<1>3. CASE Evidence!Matches # {} /\ kind \in {"expired", "large"}
  <2>1. Evidence!Reference = Evidence!Gap(Evidence!StatusOf(kind))
    BY <1>3 DEF Evidence!Reference, Evidence!Gap
  <2>2. lookup' = [lookup EXCEPT ![t] = Evidence!Found(lookup[t], Evidence!Reference)]
    BY <1>3, <2>1 DEF Evidence!ListArtifacts
  <2> QED
    BY <1>1, <2>2, ReferenceType, FoundStep DEF EvidenceInv
<1>4. CASE Evidence!Matches # {} /\ kind \notin {"expired", "large"}
  <2> DEFINE r == [lookup[t] EXCEPT !.pc = "download", !.name = n, !.of = art[n].of]
  <2>1. lookup' = [lookup EXCEPT ![t] = r]
    BY <1>4 DEF Evidence!ListArtifacts
  <2>2. n \in Evidence!Matches /\ n \in DOMAIN Names
    BY <1>4, ChosenMatches DEF EvidenceInv, Evidence!Matches
  <2>3. n \in Nat /\ art[n].of \in Nat
    BY <2>2 DEF EvidenceInv, EvidenceType, EvidenceAssumption
  <2> HIDE DEF n
  <2>4. /\ r \in Requests
        /\ r.pc = "download" /\ r.begun = lookup[t].begun /\ r.attempt = lookup[t].attempt
        /\ r.note = lookup[t].note /\ r.name = n /\ r.of = art[n].of /\ lookup'[t] = r
    BY <2>1, <2>3 DEF EvidenceInv, EvidenceType
  <2> HIDE DEF r
  <2>5. Evidence!Matches' = Evidence!Matches /\ Evidence!Chosen' = Evidence!Chosen
    BY <1>1, SameReference
  <2>6. Kept(t)'
    <3>1. NoteIsTrue(t)'
      BY <1>1, <2>4, RequestType DEF Kept, NoteIsTrue, Fresh
    <3>2. OnTheWay(t)'
      BY <1>1, <1>4, <2>4, <2>5 DEF OnTheWay, n
    <3> QED
      BY <2>4, <3>1, <3>2 DEF Kept, Right, Evidence!Answered
  <2>7. r.begun <= clock /\ clock <= r.begun + LookupTime
    BY <1>1, <2>4, RequestType
  <2>8. cache \in Seq(RightEntry') => cache' \in Seq(RightEntry')
    BY <1>1, GetKeeps
  <2> QED
    BY <1>1, <2>1, <2>2, <2>4, <2>6, <2>7, <2>8, ServeStep
<1> QED
  BY <1>2, <1>3, <1>4

LEMMA DownloadStep ==
    ASSUME EvidenceAssumption, EvidenceInv, NEW t \in Thread, Evidence!Download(t)
    PROVE  EvidenceInv'
<1> DEFINE a == art[lookup[t].name]
           found == IF a.of # lookup[t].of \/ a.kind = "expired" THEN Evidence!Gap("not_requested")
                    ELSE Evidence!NativeDoc(Evidence!StatusOf(a.kind), IF a.kind = "live" THEN a.of ELSE 0)
<1>1. /\ lookup[t].pc = "download" /\ lookup' = [lookup EXCEPT ![t] = Evidence!Found(lookup[t], found)]
      /\ UNCHANGED <<clock, latest, art, rows, cache, changed, broken>>
  BY DEF Evidence!Download
<1>2. Fresh(t) => found = Evidence!Reference
  BY <1>1, RequestType DEF Kept, OnTheWay, Evidence!Reference
<1>3. found \in Doc
  <2>1. Evidence!Gap("not_requested") \in Doc
    BY DEF Evidence!Gap, Evidence!NativeDoc, Doc, Status
  <2>2. lookup[t].name \in Evidence!Matches
    BY <1>1 DEF EvidenceInv, EvidenceType
  <2>3. a.kind \in {"live", "large", "invalid", "expired"} /\ a.of \in Nat
    BY <2>2 DEF EvidenceInv, EvidenceType, Evidence!Matches
  <2>4. Evidence!StatusOf(a.kind) \in Status
    BY <2>3 DEF Evidence!StatusOf, Status
  <2> HIDE DEF a
  <2> QED
    BY <2>1, <2>3, <2>4 DEF Evidence!NativeDoc, Doc
<1> HIDE DEF found
<1> QED
  BY <1>1, <1>2, <1>3, FoundStep

LEMMA FailStep ==
    ASSUME EvidenceAssumption, EvidenceInv, NEW t \in Thread, Evidence!LookupFails(t)
    PROVE  EvidenceInv'
<1>1. Evidence!Gap("not_requested") \in Doc
  BY DEF Evidence!Gap, Evidence!NativeDoc, Doc, Status
<1> QED
  BY <1>1, FoundStep DEF Evidence!LookupFails

LEMMA SendStep ==
    ASSUME EvidenceAssumption, EvidenceInv, NEW t \in Thread, Evidence!Send(t) \/ Evidence!DownloadRaises(t)
    PROVE  EvidenceInv'
<1> DEFINE r == Evidence!Idle
<1>1. lookup' = [lookup EXCEPT ![t] = r] /\ UNCHANGED <<clock, latest, art, rows, cache, changed, broken>>
  BY DEF Evidence!Send, Evidence!DownloadRaises
<1>2. r \in Requests
  BY DEF Evidence!Idle, Evidence!Request, Evidence!Gap, Evidence!NativeDoc, Doc, Status
<1>3. r.pc = "idle" /\ lookup'[t] = r
  BY <1>1 DEF Evidence!Idle, Evidence!Request, EvidenceInv, EvidenceType
<1>4. Kept(t)'
  BY <1>3 DEF Kept, NoteIsTrue, OnTheWay, Right, Evidence!Answered
<1> HIDE DEF r
<1> QED
  BY <1>1, <1>2, <1>3, <1>4, ServeStep

LEMMA EvidenceInit ==
    ASSUME EvidenceAssumption, Evidence!Init
    PROVE  EvidenceInv
<1>1. EvidenceType
  <2>1. Evidence!Idle \in Requests
    BY DEF Evidence!Idle, Evidence!Request, Evidence!Gap, Evidence!NativeDoc, Doc, Status
  <2>2. Evidence!Idle.pc = "idle"
    BY DEF Evidence!Idle, Evidence!Request
  <2>3. Ttl \in Nat
    BY DEF EvidenceAssumption
  <2> HIDE DEF Evidence!Idle
  <2> QED
    BY <2>1, <2>2, <2>3 DEF Evidence!Init, EvidenceType, Evidence!Absent
<1>2. \A t \in Thread : lookup[t].pc = "idle"
  BY DEF Evidence!Init, Evidence!Idle, Evidence!Request
<1>3. InTime
  BY <1>2 DEF InTime, Evidence!Init, EvidenceAssumption
<1>4. cache \in Seq(RightEntry)
  BY DEF Evidence!Init
<1> QED
  BY <1>1, <1>2, <1>3, <1>4 DEF EvidenceInv, NoteIsTrue, OnTheWay, Right, Evidence!Answered

LEMMA EvidenceStep ==
    ASSUME EvidenceAssumption, EvidenceInv, Evidence!Next
    PROVE  EvidenceInv'
<1>1. ASSUME NEW t \in Thread, Evidence!Serve(t) PROVE EvidenceInv'
  BY <1>1, ReadStep, ShaStep, HitStep, ListStep, DownloadStep, FailStep, PutStep, SendStep
     DEF Evidence!Serve
<1> QED
  BY <1>1, WorldStep DEF Evidence!Next

\* What is shown of a run follows from the invariant.
LEMMA EvidenceShown ==
    ASSUME EvidenceAssumption, EvidenceInv
    PROVE  Evidence!SettledIsRight /\ Evidence!MixupsExplained
<1>1. Evidence!SettledIsRight
  BY DEF EvidenceInv, Right, Evidence!SettledIsRight
<1>2. Evidence!MixupsExplained
  <2> SUFFICES ASSUME NEW t \in Thread, Evidence!Answered(t), Evidence!Settled(t, Ttl),
                      rows.own = latest, lookup[t].native.of \in {0, latest},
                      lookup[t].native.of \notin {0, lookup[t].attempt}
               PROVE  lookup[t].note
    BY DEF Evidence!MixupsExplained
  <2>1. Fresh(t)
    BY RequestType DEF Evidence!Answered, Evidence!Settled, Fresh
  <2> QED
    BY <2>1 DEF EvidenceInv, NoteIsTrue, Evidence!Answered
<1> QED
  BY <1>1, <1>2

LEMMA EvidenceInvariance == MCSpec => [](part = "evidence" => EvidenceInv)
<1>1. MCInit => (part = "evidence" => EvidenceInv)
  BY EvidenceAssumption, EvidenceInit DEF MCInit
<1>2. (part = "evidence" => EvidenceInv) /\ [MCNext]_allVars => (part = "evidence" => EvidenceInv)'
  <2> SUFFICES ASSUME part' = "evidence", part = "evidence" => EvidenceInv, [MCNext]_allVars
               PROVE  EvidenceInv'
    OBVIOUS
  <2>1. part = "evidence" /\ EvidenceInv
    BY DEF MCNext, allVars
  <2>2. CASE Evidence!Next
    BY <2>1, <2>2, EvidenceAssumption, EvidenceStep
  <2>3. CASE UNCHANGED evidenceVars
    <3>1. UNCHANGED <<clock, latest, art, rows, cache, lookup, changed, broken>>
      BY <2>3 DEF evidenceVars
    <3>2. RightEntry \subseteq RightEntry'
      BY <2>1, <3>1, EvidenceAssumption, EntriesStay DEF EvidenceInv, EvidenceType
    <3>3. (cache \in Seq(RightEntry))'
      BY <2>1, <3>1, <3>2, MoreEntries DEF EvidenceInv
    <3>4. Evidence!Matches' = Evidence!Matches
      BY <3>1, SameReference
    <3>5. EvidenceType' /\ InTime'
      BY <2>1, <3>1, <3>4 DEF EvidenceInv, EvidenceType, InTime, Evidence!Absent
    <3>6. \A t \in Thread : Kept(t)'
      BY <2>1, <3>1, EvidenceAssumption, RequestStays
    <3> QED
      BY <3>3, <3>5, <3>6 DEF EvidenceInv, Kept
  <2> QED
    BY <2>1, <2>2, <2>3 DEF MCNext, allVars
<1> QED
  BY <1>1, <1>2, PTL DEF MCSpec

\* However requests share the cache, what has settled is what the document
\* shows, and a gap that has been closed heals in the short time to live
\* (_ci_observe_native and BoundedCache, for any threads, cache size, times to
\* live and artifact names).
THEOREM SettledShowsRight == MCSpec => []SettledIsRight
<1>1. (part = "evidence" => EvidenceInv) => SettledIsRight
  BY EvidenceAssumption, EvidenceShown DEF SettledIsRight
<1> QED
  BY <1>1, EvidenceInvariance, PTL

\* Results of another attempt than the one asked for say so
\* (get_ci_observe_run_json).
THEOREM MixupsAreExplained == MCSpec => []MixupsExplained
<1>1. (part = "evidence" => EvidenceInv) => MixupsExplained
  BY EvidenceAssumption, EvidenceShown DEF MixupsExplained
<1> QED
  BY <1>1, EvidenceInvariance, PTL
=============================================================================
