------------------------------- MODULE MCPrs -------------------------------
(***************************************************************************)
(* The documents of CI Observe, checked in one run: a behaviour is the     *)
(* backfill of pull requests (PrBackfill), the life of one pull request    *)
(* whose documents are derived (PrRecords), or one workflow run whose      *)
(* evidence is asked for (RunEvidence).  They share no state, and the ones *)
(* not at work keep their initial state.  PrBackfillProofs states its      *)
(* theorems of the same specifications.                                    *)
(***************************************************************************)
EXTENDS PrBackfill, Sequences

CONSTANTS
    Workflow, Required, E2E, Conclusion, MaxTime, MaxReviews, MaxEntries,   \* PrRecords
    Thread, MaxAttempt, Names, Kinds, CacheSize, Ttl, FailureTtl,
    LookupTime, Ask, LastChange, Horizon                                    \* RunEvidence

VARIABLES
    part,                                                                   \* which of them it is
    moment, reviews, entries, state, endedAt,                               \* PrRecords
    clock, latest, art, rows, cache, lookup, changed, broken                \* RunEvidence
recordVars == <<moment, reviews, entries, state, endedAt>>
evidenceVars == <<clock, latest, art, rows, cache, lookup, changed, broken>>
allVars == <<vars, part, recordVars, evidenceVars>>

\* PrRecords: the job history holds runs of the entry.
ASSUME RecordsAssumption == E2E \subseteq Workflow /\ Required \subseteq Workflow
\* RunEvidence: the time to live of a gap is the short one.
ASSUME EvidenceAssumption ==
    /\ Ttl \in Nat /\ FailureTtl \in 1..Ttl /\ LookupTime \in Nat
    /\ Names \in Seq(STRING) /\ Kinds \subseteq {"live", "large", "invalid"}
    /\ Ask \in [Thread -> SUBSET Int]

Records == INSTANCE PrRecords WITH now <- moment
Evidence == INSTANCE RunEvidence WITH
    MaxEntries <- CacheSize, MaxTime <- Horizon, now <- clock, req <- lookup, failed <- broken

MCInit == part \in {"backfill", "records", "evidence"} /\ Init /\ Records!Init /\ Evidence!Init

MCNext ==
    /\ UNCHANGED part
    /\ \/ part = "backfill" /\ Next /\ UNCHANGED <<recordVars, evidenceVars>>
       \/ part = "records" /\ Records!Next /\ UNCHANGED <<vars, evidenceVars>>
       \/ part = "evidence" /\ Evidence!Next /\ UNCHANGED <<vars, recordVars>>

MCSpec == MCInit /\ [][MCNext]_allVars

\* PrRecords: a measured stage is the time between the moments shown for it,
\* and no time is counted twice.
StagesConsistent == part = "records" => Records!StagesConsistent
\* PrRecords: all attempts of a merged pull request but the last were ejected,
\* and an ejection shown live is still there once it is stored.
AttemptsConsistent == part = "records" => Records!AttemptsConsistent
\* RunEvidence: what has settled is shown, and gaps heal soon.
SettledIsRight == part = "evidence" => Evidence!SettledIsRight
\* RunEvidence: results of another attempt say so.
MixupsExplained == part = "evidence" => Evidence!MixupsExplained

-----------------------------------------------------------------------------
(* The instances checked.                                                  *)

CONSTANTS osac, e2e, lint

OneRepo == [p \in PR |-> osac]
Hourly == [mode |-> "auto", force |-> FALSE, only |-> {}]
ByHand == [mode |-> "auto", force |-> TRUE, only |-> {osac}]
TimerAndHand == {Hourly, ByHand}

\* The first thread asks for the bare run, the second for an invalid id or
\* for the first attempt.  In the one cache entry the head SHA and the results
\* of two attempts compete; GitHub changes while the first lookups are under
\* way.
BareOrAttempt == [t \in Thread |-> IF t = "r1" THEN {0} ELSE {-1, 1}]
OneName == <<"plain">>
=============================================================================
