---------------------------- MODULE JobSelection ----------------------------
(***************************************************************************)
(* select-jobs.py: which end-to-end suites a pull request needs.  The path *)
(* filters of the context file give a verdict per suite; Gemini is asked   *)
(* at most twice for a second opinion, any of its calls may fail before or *)
(* after it was dispatched, and decide merges the two.                     *)
(*                                                                         *)
(* An answer is the sequence of its parts: prose and decision blocks, the  *)
(* latter also quoted from the diff.                                       *)
(***************************************************************************)
EXTENDS Integers, Sequences, SequencesExt

CONSTANTS
    Suite,    \* SUITES
    Text,     \* what the model may write
    Usage,    \* token counts a response may report
    Priced    \* the configured model has a pricing row

Unknown == -1
Nothing == [s \in Suite |-> "none"]     \* no verdict
NoCost == [any |-> FALSE, cost |-> Unknown, tokens |-> Unknown, complete |-> TRUE]

VARIABLES
    pc,        \* "start", "call", "decide", "done"
    context,   \* the context file: clear, exclusive, other, jobs
    diff,      \* PR_DIFF_AVAILABLE
    tries,     \* attempts of call_gemini so far
    usages,    \* _last_usage_metadata, Unknown for None
    billed,    \* what was dispatched to Vertex AI: tokens, or Unknown
    text,      \* call_gemini's answer, <<>> for None
    comment    \* the decision file with its cost line, and the JSON document

vars == <<pc, context, diff, tries, usages, billed, text, comment>>

-----------------------------------------------------------------------------
(* Cost.                                                                   *)

\* compute_cost and aggregate_cost: attempts without usage are left out, and
\* the total says so when others had some.
\* Mutant: a partial total passes for the whole.
AggregateCostSilently(us) ==
    LET known == SelectSeq(us, LAMBDA u : u # Unknown)
        tokens == FoldSeq(LAMBDA u, n : n + u, 0, known)
    IN IF known = <<>> THEN NoCost
       ELSE [any |-> TRUE, cost |-> IF Priced THEN 2 * tokens ELSE Unknown, tokens |-> tokens, complete |-> TRUE]
AggregateCost(us) ==
    LET known == SelectSeq(us, LAMBDA u : u # Unknown)
        tokens == FoldSeq(LAMBDA u, n : n + u, 0, known)
    IN IF known = <<>> THEN NoCost
       ELSE [any |-> TRUE, cost |-> IF Priced THEN 2 * tokens ELSE Unknown, tokens |-> tokens,
             complete |-> Len(known) = Len(us)]

\* format_cost_line: no count at all reads as nothing spent, whether nothing
\* was dispatched or nothing dispatched reported; without a price no amount.
FreeLine == [partial |-> FALSE, cost |-> 0, tokens |-> 0]
FormatCostLine(c) ==
    IF ~c.any THEN FreeLine
    ELSE [partial |-> ~c.complete, cost |-> c.cost, tokens |-> IF c.cost = Unknown THEN Unknown ELSE c.tokens]

-----------------------------------------------------------------------------
(* call_gemini: one attempt, one retry.                                    *)

NeedsAI == context.other \/ \E s \in Suite : context.clear[s]

\* main: without the diff the model is not asked at all.
Start ==
    /\ pc = "start"
    /\ pc' = IF NeedsAI /\ diff THEN "call" ELSE "decide"
    /\ UNCHANGED <<context, diff, tries, usages, billed, text, comment>>

CanTry == pc = "call" /\ tries < 2
AfterTry == IF tries + 1 = 2 THEN "decide" ELSE "call"

\* An answer, with or without usage; an empty one is retried.
Respond(t, u) ==
    /\ CanTry
    /\ tries' = tries + 1
    /\ usages' = Append(usages, u)
    /\ billed' = Append(billed, u)
    /\ text' = t
    /\ pc' = IF t # <<>> THEN "decide" ELSE AfterTry
    /\ UNCHANGED <<context, diff, comment>>

\* The client cannot be made: nothing was dispatched.
LocalFailure ==
    /\ CanTry
    /\ tries' = tries + 1
    /\ pc' = AfterTry
    /\ UNCHANGED <<context, diff, usages, billed, text, comment>>

\* The call raised after it was dispatched: possibly billed, cost unknown.
CallRaises ==
    /\ CanTry
    /\ tries' = tries + 1
    /\ usages' = Append(usages, Unknown)
    /\ billed' = Append(billed, Unknown)
    /\ pc' = AfterTry
    /\ UNCHANGED <<context, diff, text, comment>>

-----------------------------------------------------------------------------
(* The verdicts.                                                           *)

\* parse_gemini_decisions: the last part has to be a block whose confidence
\* is a percentage.
ParseGeminiDecisions(t) ==
    IF t # <<>> /\ Last(t).kind = "block" /\ Last(t).confidence <= 100 THEN Last(t).verdict ELSE Nothing

\* decide, for one suite: a path match is a floor, an allow-list may skip,
\* everything else runs at least the sanity tier.
\* Mutant: the model's word is taken where no path matched.
DecideTrusting(s, verdict) ==
    CASE context.clear[s] -> IF verdict[s] = "regression" THEN "regression" ELSE "sanity"
      [] ~context.clear[s] /\ context.exclusive[s] -> IF verdict[s] \in {"sanity", "regression"} THEN verdict[s] ELSE "skip"
      [] OTHER -> IF verdict[s] = "none" THEN "sanity" ELSE verdict[s]
Decide(s, verdict) ==
    CASE context.clear[s] -> IF verdict[s] = "regression" THEN "regression" ELSE "sanity"
      [] ~context.clear[s] /\ context.exclusive[s] -> IF verdict[s] \in {"sanity", "regression"} THEN verdict[s] ELSE "skip"
      [] OTHER -> IF verdict[s] = "regression" THEN "regression" ELSE "sanity"

Source(s, verdict, asked) ==
    CASE context.clear[s] -> "deterministic"
      [] ~context.clear[s] /\ context.exclusive[s] ->
           IF verdict[s] \in {"sanity", "regression"} THEN "gemini-escalation-over-exclusive-skip"
           ELSE "deterministic-exclusive-skip"
      [] OTHER -> IF verdict[s] = "regression" THEN "gemini-escalation"
                  ELSE IF asked THEN "gemini-inconclusive" ELSE "deterministic-default-sanity"

\* _job_flag and the group tables: a helm-lint row per chart and the
\* installer's, which follows any of them; without data nothing is claimed.
JobRows ==
    IF context.jobs = <<>> THEN [charts |-> "unknown", installer |-> "unknown"]
    ELSE [charts |-> [i \in DOMAIN context.jobs |-> IF context.jobs[i] THEN "run" ELSE "skip"],
          installer |-> IF \E i \in DOMAIN context.jobs : context.jobs[i] THEN "run" ELSE "skip"]

\* main's status: judged, wanted but not to be had, or not needed.
Status(verdict) == IF ~NeedsAI THEN "not_needed" ELSE IF verdict = Nothing THEN "unavailable" ELSE "used"

WriteDecision ==
    /\ pc = "decide"
    /\ LET verdict == ParseGeminiDecisions(text)
       IN comment' = [decision |-> [s \in Suite |-> Decide(s, verdict)],
                      source |-> [s \in Suite |-> Source(s, verdict, NeedsAI)],
                      status |-> Status(verdict),
                      cost |-> AggregateCost(usages),
                      line |-> FormatCostLine(AggregateCost(usages)),
                      jobs |-> JobRows]
    /\ pc' = "done"
    /\ UNCHANGED <<context, diff, tries, usages, billed, text>>

-----------------------------------------------------------------------------
Init ==
    /\ pc = "start"
    /\ context \in [clear : [Suite -> BOOLEAN], exclusive : [Suite -> BOOLEAN],
                    other : BOOLEAN, jobs : {<<>>, <<FALSE, FALSE>>, <<TRUE, FALSE>>}]
    /\ diff \in BOOLEAN
    /\ tries = 0
    /\ usages = <<>>
    /\ billed = <<>>
    /\ text = <<>>
    /\ comment = [status |-> ""]

Next ==
    \/ Start \/ LocalFailure \/ CallRaises \/ WriteDecision
    \/ \E t \in Text, u \in Usage \cup {Unknown} : Respond(t, u)

Spec == Init /\ [][Next]_vars

-----------------------------------------------------------------------------
Written == pc = "done"
Rank(d) == CASE d = "skip" -> 0 [] d = "sanity" -> 1 [] d = "regression" -> 2
FloorOf(s) == IF ~context.clear[s] /\ context.exclusive[s] THEN 0 ELSE 1
Genuine == {t \in Text : t # <<>> /\ Last(t).kind = "block" /\ ~Last(t).quoted}

\* However Gemini answers, fails or is quoted at, it can only raise a suite
\* above what the path filters ask for; without a judgment of its own the
\* filters decide alone; and what it raised it said itself, at the end of its
\* answer (the invariant in decide's docstring, parse_gemini_decisions).
JudgmentOnlyEscalates ==
    Written => \A s \in Suite :
      /\ Rank(comment.decision[s]) >= FloorOf(s)
      /\ comment.status # "used" => Rank(comment.decision[s]) = FloorOf(s)
      /\ Rank(comment.decision[s]) > FloorOf(s) => text \in Genuine

\* The comment never calls a judgment used that did not arrive, nor one
\* unneeded that could not be had: "used" has a dispatched call behind it,
\* and a source names the model only when the run wanted it.  When some
\* dispatched attempt reported its tokens, the JSON document and the cost line
\* give the tokens of all that did, and both are marked partial if another
\* may have been billed without reporting (the comments on dispatched in
\* call_gemini, aggregate_cost).  When none did, the document leaves the cost
\* open, but the line reads as nothing spent, as it does when nothing was
\* dispatched: a line of zero is no claim about what was billed.
ReportIsHonest ==
    Written =>
      /\ comment.status = "used" => billed # <<>>
      /\ (\E s \in Suite : comment.source[s] = "gemini-inconclusive") => comment.status # "not_needed"
      /\ (NeedsAI /\ ~diff) => comment.status = "unavailable" /\ billed = <<>>
      /\ LET known == SelectSeq(billed, LAMBDA u : u # Unknown)
             tokens == FoldSeq(LAMBDA u, n : n + u, 0, known)
         IN IF known = <<>> THEN comment.cost = NoCost /\ comment.line = FreeLine
            ELSE /\ comment.cost.tokens = tokens /\ comment.line.tokens \in {Unknown, tokens}
                 /\ comment.cost.complete <=> Len(known) = Len(billed)
                 /\ comment.line.partial <=> Len(known) # Len(billed)
=============================================================================
