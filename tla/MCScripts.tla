------------------------------ MODULE MCScripts ------------------------------
(***************************************************************************)
(* The programs around the exporter, checked in one run: a behaviour is    *)
(* the local stack (CaptureSync), one diagnosis (GeminiDiagnosis), one job *)
(* selection (JobSelection), the trends table over some days (Trends) or   *)
(* the exporter's own count of queued runs (ZombieRuns).  They share no    *)
(* state, and a part that is not at work keeps its initial state.          *)
(* ScriptsProofs states its theorems of the same specification.            *)
(***************************************************************************)
EXTENDS CaptureSync, Sequences, FiniteSets

CONSTANTS
    Response, MaxRetries, FallbackRetries, HasFallback, PricedModels, Threshold,   \* GeminiDiagnosis
    Suite, Text, Usage, Priced,                                                    \* JobSelection
    TrendRun, Artifact, Test, Content, World, MaxArtifacts, Retention, LastDay,    \* Trends
    Run, Rerunnable, MaxAttempt, Grace, Recheck, CacheMax, MaxTime                 \* ZombieRuns

\* GeminiDiagnosis: a text is a sequence of markers, a usage the tokens read
\* and those written, each perhaps unknown.
ASSUME DiagnosisAssumption ==
    /\ \A resp \in Response :
          /\ resp.text \in Seq(STRING)
          /\ resp.usage \in [in : Nat \cup {-1}, out : Nat \cup {-1}]
    /\ Threshold \in Nat
\* Trends: ids grow with the runs; a history tells all about each of them.
ASSUME TrendsAssumption ==
    /\ TrendRun \subseteq Nat /\ IsFiniteSet(TrendRun) /\ IsFiniteSet(Artifact) /\ IsFiniteSet(Test)
    /\ \A w \in World : \A r \in TrendRun : w[r].day \in Nat
    /\ Retention \in Nat /\ LastDay \in Nat
\* ZombieRuns: there is a first attempt of every run.
ASSUME ZombiesAssumption ==
    /\ IsFiniteSet(Run) /\ MaxAttempt \in Nat \ {0}
    /\ Grace \in Nat /\ Recheck \in Nat \ {0} /\ CacheMax \in Nat

VARIABLES
    script,                                                                        \* which of them it is
    dpc, tier, attempts, kept, ledger, attempted, received, answer, written,       \* GeminiDiagnosis
    spc, context, diff, tries, usages, billed, text, comment,                      \* JobSelection
    world, today, rows, art, db, pass,                                             \* Trends
    now, queue, withJobs, recheck, cycle, look                                     \* ZombieRuns
diagnosisVars == <<dpc, tier, attempts, kept, ledger, attempted, received, answer, written>>
selectionVars == <<spc, context, diff, tries, usages, billed, text, comment>>
trendsVars == <<world, today, rows, art, db, pass>>
zombieVars == <<now, queue, withJobs, recheck, cycle, look>>
allVars == <<vars, script, diagnosisVars, selectionVars, trendsVars, zombieVars>>

Diagnosis == INSTANCE GeminiDiagnosis WITH Priced <- PricedModels, pc <- dpc
Selection == INSTANCE JobSelection WITH pc <- spc
Days == INSTANCE Trends WITH Run <- TrendRun
Zombies == INSTANCE ZombieRuns WITH gh <- queue

-----------------------------------------------------------------------------
\* Only a selection at work has a context file of its own, and only the trends
\* table one of several histories.
MCInit ==
    /\ script \in {"sync", "diagnosis", "selection", "trends", "zombies"}
    /\ Init /\ Diagnosis!Init /\ Selection!Init /\ Days!Init /\ Zombies!Init
    /\ script # "selection" =>
         /\ context = [clear |-> [s \in Suite |-> FALSE], exclusive |-> [s \in Suite |-> FALSE],
                       other |-> FALSE, jobs |-> <<>>]
         /\ ~diff
    /\ script # "trends" => world = CHOOSE w \in World : TRUE

MCNext ==
    /\ UNCHANGED script
    /\ \/ script = "sync" /\ Next
          /\ UNCHANGED <<diagnosisVars, selectionVars, trendsVars, zombieVars>>
       \/ script = "diagnosis" /\ Diagnosis!Next
          /\ UNCHANGED <<vars, selectionVars, trendsVars, zombieVars>>
       \/ script = "selection" /\ Selection!Next
          /\ UNCHANGED <<vars, diagnosisVars, trendsVars, zombieVars>>
       \/ script = "trends" /\ Days!Next
          /\ UNCHANGED <<vars, diagnosisVars, selectionVars, zombieVars>>
       \/ script = "zombies" /\ Zombies!Next
          /\ UNCHANGED <<vars, diagnosisVars, selectionVars, trendsVars>>

MCSpec == MCInit /\ [][MCNext]_allVars

\* GeminiDiagnosis: every attempt with both counts is billed, returned or raised.
EveryAttemptBilled == script = "diagnosis" => Diagnosis!EveryAttemptBilled
\* GeminiDiagnosis: the pull request sees only finished diagnoses.
PostedIsFinished == script = "diagnosis" => Diagnosis!PostedIsFinished
\* GeminiDiagnosis: retries and the fallback never lose a better answer.
NothingUsefulDropped == script = "diagnosis" => Diagnosis!NothingUsefulDropped
\* JobSelection: the model can only raise a suite above its floor.
JudgmentOnlyEscalates == script = "selection" => Selection!JudgmentOnlyEscalates
\* JobSelection: the comment tells an unavailable judgment from an unneeded
\* one, and a partial total is marked as one.
ReportIsHonest == script = "selection" => Selection!ReportIsHonest
\* Trends: stored outcomes stay until their day leaves the window.
OutcomesKept == [][script = "trends" => Days!OutcomesKeptStep]_trendsVars
\* Trends: a pass that read everything corrects the days it writes.
CleanPassRepairs == [][script = "trends" => Days!CleanPassRepairsStep]_trendsVars
\* Trends: the compare and the history documents agree.
DocumentsAgree == script = "trends" => Days!DocumentsAgree
\* ZombieRuns: the queued gauge hides no backlog and reports no phantom one.
QueueGaugeHonest == script = "zombies" => Zombies!QueueGaugeHonest

-----------------------------------------------------------------------------
(* The instances checked.                                                  *)

CONSTANTS vmaas, caas

\* A run without a capture, its rerun with one that is refused, another rerun
\* with a good one.
Attempts == {<<1, 1>>, <<1, 2>>, <<1, 3>>}
Kinds == [a \in Attempts |-> IF a[2] = 1 THEN "none" ELSE IF a[2] = 2 THEN "refused" ELSE "good"]
Sizes == [a \in Attempts |-> [s \in {"spans", "logs"} |-> IF Kinds[a] = "good" THEN 1 ELSE 0]]

\* Two runs of one day, or of two days, the second known by suite rows
\* first; a failure wins over the pass in another artifact of the run.
Outcomes(x, y) == [t \in {"t1", "t2"} |-> IF t = "t1" THEN x ELSE y]
Contents == <<<<Outcomes("pass", "skip"), Outcomes("fail", "pass")>>, <<Outcomes("pass", "none"), Outcomes("none", "none")>>>>
SuiteRow == [own |-> FALSE, e2e |-> TRUE, sha |-> FALSE]
Flow == [own |-> TRUE, e2e |-> FALSE, sha |-> TRUE]
Direct == [own |-> TRUE, e2e |-> TRUE, sha |-> TRUE]

Facts(day, sha, stored) == [day |-> day, sha |-> sha, rows |-> stored]
Histories == {<<Facts(0, "s1", {Direct}), Facts(0, "s2", {Direct})>>,
              <<Facts(0, "s1", {Direct}), Facts(1, "s1", {SuiteRow, Flow})>>}

\* What Vertex AI may answer a diagnosis: complete, odd, cut short, blocked.
Whole == <<"category", "root", "chain", "evidence", "confidence">>
Odd == <<"badcategory", "root", "evidence", "badconfidence">>
CutShort == <<"category", "root", "chain">>
Stub == <<"category", "root">>
Ends == ({"STOP"} \X {<<>>, Whole, Odd}) \cup ({"MAX_TOKENS"} \X {<<>>, CutShort, Stub}) \cup ({"BLOCKED"} \X {<<>>, CutShort})
\* Both counts; or none at all, and with an empty text the tokens read alone.
Usages(t) == {[in |-> 3, out |-> 2], [in |-> IF t = <<>> THEN 3 ELSE -1, out |-> -1]}
Responses == UNION {{[text |-> e[2], finish |-> e[1], usage |-> u] : u \in Usages(e[2])} : e \in Ends}

\* What it may answer a selection; a block in the middle is a quotation.
Prose == [kind |-> "prose"]
Block(v, w, c, q) == [kind |-> "block", verdict |-> [s \in Suite |-> IF s = vmaas THEN v ELSE w],
                      confidence |-> c, quoted |-> q]
Quote == Block("regression", "regression", 99, TRUE)
Answers == {<<>>, <<Prose>>, <<Quote, Prose>>,
            <<Quote, Prose, Block("skip", "skip", 90, FALSE)>>,
            <<Block("sanity", "regression", 60, FALSE)>>,
            <<Block("regression", "skip", 500, FALSE)>>}

=============================================================================
