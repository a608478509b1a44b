--------------------------- MODULE GeminiDiagnosis ---------------------------
(***************************************************************************)
(* ai-diagnose-failure.py: one diagnosis of a failed end-to-end run.       *)
(* call_gemini asks a primary model and, when its retries are used up, a   *)
(* fallback model; every call may raise.  main turns what came back, or    *)
(* the exception, into the posted text, the JSON document and the step     *)
(* outputs, each written under a guard of its own, and the workflow        *)
(* decides from them what the pull request sees.                           *)
(*                                                                         *)
(* A text is the sequence of the markers the code looks for.  Usage and    *)
(* cost keep their arithmetic; prices are small integers.                  *)
(***************************************************************************)
EXTENDS Integers, Sequences, SequencesExt

CONSTANTS
    Response,         \* what Vertex AI may answer: text, finish, usage
    MaxRetries,       \* MAX_RETRIES
    FallbackRetries,  \* FALLBACK_MAX_RETRIES
    HasFallback,      \* a fallback model is configured and differs
    Priced,           \* the models with a pricing row
    Threshold         \* tiered_input_threshold_tokens

Unknown == -1
NoUsage == [in |-> Unknown, out |-> Unknown]
NoCost == [cost |-> Unknown, in |-> Unknown, out |-> Unknown]
Models == {"primary", "fallback"}

VARIABLES
    pc,         \* "client", "chat", "send", "main", "publish", "done"
    tier,       \* the model whose retry loop runs
    attempts,   \* its responses, oldest first
    kept,       \* the primary's answer while the fallback is asked
    ledger,     \* per model, the usage_metadata list mutated in place
    attempted,  \* attempted_models, mutated in place
    received,   \* every response ever received, with its model
    answer,     \* what call_gemini returned or raised
    written     \* what main wrote, by output

vars == <<pc, tier, attempts, kept, ledger, attempted, received, answer, written>>

-----------------------------------------------------------------------------
(* Reading a response.                                                     *)

HitMaxTokens(resp) == resp.finish = "MAX_TOKENS"
IsBlocked(resp) == resp.finish = "BLOCKED"
HasText(resp) == resp.text # <<>>

\* _is_incomplete: a block is no reason by itself.
IsIncomplete(resp) == HitMaxTokens(resp) \/ ~HasText(resp)

\* The last attempt with text, else the last one.
Best(as) ==
    LET withText == {i \in DOMAIN as : HasText(as[i])}
    IN IF withText = {} THEN Last(as) ELSE as[CHOOSE i \in withText : \A j \in withText : j <= i]

\* extract_category: only at the very start.
ExtractCategory(text) ==
    IF text # <<>> /\ Head(text) \in {"category", "badcategory"}
      THEN [rest |-> Tail(text), value |-> IF Head(text) = "category" THEN "category" ELSE "UNKNOWN"]
      ELSE [rest |-> text, value |-> "UNKNOWN"]

\* extract_confidence: the last marker, dropped whether or not it makes sense.
ExtractConfidence(text) ==
    LET marks == {i \in DOMAIN text : text[i] \in {"confidence", "badconfidence"}}
        last == CHOOSE i \in marks : \A j \in marks : j <= i
    IN IF marks = {} THEN [rest |-> text, value |-> "none"]
       ELSE [rest |-> RemoveAt(text, last),
             value |-> IF text[last] = "confidence" THEN "confidence" ELSE "none"]

\* split_sections: Root cause comes first and another section follows it.
SplitSections(text) ==
    IF Len(text) >= 2 /\ text[1] = "root" /\ \E i \in 2..Len(text) : text[i] \in {"chain", "evidence"}
      THEN {"root"} \cup (ToSet(text) \cap {"chain", "evidence"})
      ELSE {}

-----------------------------------------------------------------------------
(* Cost.                                                                   *)

\* compute_cost: the whole request is billed at the tier of its input; tokens
\* read are dropped with the tokens written when those are unknown.
Rate(model, in) ==
    LET base == IF model = "primary" THEN 2 ELSE 1 IN IF in > Threshold THEN 2 * base ELSE base
Uncounted(usage) == Unknown \in {usage.in, usage.out}
ComputeCost(usage, model) ==
    IF Uncounted(usage) THEN NoCost
    ELSE [cost |-> IF model \in Priced THEN (usage.in + 6 * usage.out) * Rate(model, usage.in) ELSE Unknown,
          in |-> usage.in, out |-> usage.out]

\* _merge_cost_tuples: an unknown price makes the total unknown, an attempt
\* without usage does not count.
MergeCosts(a, b) ==
    IF a = NoCost THEN b ELSE IF b = NoCost THEN a
    ELSE [cost |-> IF Unknown \in {a.cost, b.cost} THEN Unknown ELSE a.cost + b.cost,
          in |-> a.in + b.in, out |-> a.out + b.out]

AggregateCost(usages, model) ==
    LET total[i \in 0..Len(usages)] ==
          IF i = 0 THEN NoCost ELSE MergeCosts(total[i - 1], ComputeCost(usages[i], model))
    IN  total[Len(usages)]
AggregateCombinedCost ==
    MergeCosts(AggregateCost(ledger["primary"], "primary"), AggregateCost(ledger["fallback"], "fallback"))

-----------------------------------------------------------------------------
(* call_gemini.                                                            *)

\* The client is made before the try: an exception here carries no usage.
MakeClient ==
    /\ pc = "client"
    /\ pc' = "chat"
    /\ UNCHANGED <<tier, attempts, kept, ledger, attempted, received, answer, written>>

\* attempted_models is appended to right before the tier's first call.
MakeChat ==
    /\ pc = "chat"
    /\ pc' = "send"
    /\ attempted' = Append(attempted, tier)
    /\ UNCHANGED <<tier, attempts, kept, ledger, received, answer, written>>

Raised(cost) ==
    [kind |-> "raised", text |-> <<>>, incomplete |-> TRUE, model |-> "none", cost |-> cost,
     category |-> "UNKNOWN", confidence |-> "none"]

\* Any call may raise: what the ledgers hold by then is attached to it.
\* Mutant: the running tier's ledger goes down with its frame.
RaiseLosesTier ==
    /\ pc \in {"client", "chat", "send"}
    /\ pc' = "main"
    /\ answer' = Raised(IF pc = "client" \/ tier = "primary" THEN NoCost
                        ELSE AggregateCost(ledger["primary"], "primary"))
    /\ UNCHANGED <<tier, attempts, kept, ledger, attempted, received, written>>
Raise ==
    /\ pc \in {"client", "chat", "send"}
    /\ pc' = "main"
    /\ answer' = Raised(IF pc = "client" THEN NoCost ELSE AggregateCombinedCost)
    /\ UNCHANGED <<tier, attempts, kept, ledger, attempted, received, written>>

Retries(model) == IF model = "primary" THEN MaxRetries ELSE FallbackRetries

\* _generate_with_retry: a complete answer ends the loop, and so do a block
\* and the last retry, with the best text so far.
LoopEnds(as) == ~IsIncomplete(Last(as)) \/ IsBlocked(Last(as)) \/ Len(as) > Retries(tier)
LoopResult(as) ==
    IF IsIncomplete(Last(as)) THEN [resp |-> Best(as), incomplete |-> TRUE, model |-> tier]
    ELSE [resp |-> Last(as), incomplete |-> FALSE, model |-> tier]

\* The fallback's answer wins when it has text or the primary has none.
\* Mutant: the fallback's answer always wins.
PreferAlways(first, second) == second
Prefer(first, second) == IF HasText(second.resp) \/ ~HasText(first.resp) THEN second ELSE first

\* The text is cleaned of category and confidence; no text, no winning model.
Answered(r, cost) ==
    LET c == ExtractCategory(r.resp.text)
        f == ExtractConfidence(c.rest)
    IN [kind |-> "answered", text |-> f.rest, incomplete |-> r.incomplete,
        model |-> IF HasText(r.resp) THEN r.model ELSE "none", cost |-> cost,
        category |-> c.value, confidence |-> f.value]

\* Every attempt enters the ledger as soon as it is received.
Receive(resp) ==
    /\ pc = "send"
    /\ ledger' = [ledger EXCEPT ![tier] = Append(@, resp.usage)]
    /\ received' = Append(received, [model |-> tier, resp |-> resp])

Retry(resp) ==
    /\ Receive(resp)
    /\ attempts' = Append(attempts, resp)
    /\ ~LoopEnds(attempts')
    /\ UNCHANGED <<pc, tier, kept, attempted, answer, written>>

\* The fallback has a chat and attempts of its own.
FallBack(resp) ==
    LET own == LoopResult(Append(attempts, resp))
    IN /\ Receive(resp)
       /\ LoopEnds(Append(attempts, resp))
       /\ tier = "primary" /\ HasFallback /\ own.incomplete
       /\ kept' = own
       /\ tier' = "fallback"
       /\ attempts' = <<>>
       /\ pc' = "chat"
       /\ UNCHANGED <<attempted, answer, written>>

Return(resp) ==
    LET own == LoopResult(Append(attempts, resp))
    IN /\ Receive(resp)
       /\ LoopEnds(Append(attempts, resp))
       /\ ~(tier = "primary" /\ HasFallback /\ own.incomplete)
       /\ attempts' = Append(attempts, resp)
       /\ answer' = Answered(IF tier = "primary" THEN own ELSE Prefer(kept, own), AggregateCombinedCost')
       /\ pc' = "main"
       /\ UNCHANGED <<tier, kept, attempted, written>>

-----------------------------------------------------------------------------
(* main.                                                                   *)

\* build_diagnosis_body's flag.
\* Mutant: the structure of the text alone decides.
AvailableByShape(a) == SplitSections(a.text) # {}
Available(a) == SplitSections(a.text) # {} /\ ~a.incomplete

DiagnosisJson(a) ==
    [available |-> Available(a), incomplete |-> a.incomplete, cost |-> a.cost, used |-> a.model,
     attempted |-> attempted, root |-> "root" \in SplitSections(a.text), category |-> a.category,
     confidence |-> a.confidence]

\* Each write is guarded by itself: any of them may fail alone, and the JSON
\* document is replaced as a whole or not at all.
WriteOutputs(file, json, outputs) ==
    /\ pc = "main"
    /\ written' = [file |-> IF file THEN "body" ELSE "",
                   json |-> IF json THEN <<DiagnosisJson(answer)>> ELSE <<>>,
                   available |-> outputs /\ Available(answer),
                   cost |-> IF outputs THEN answer.cost ELSE NoCost]
    /\ pc' = "publish"
    /\ UNCHANGED <<tier, attempts, kept, ledger, attempted, received, answer>>

\* "Prepare comment section": the body only when the step said available.
Publish ==
    /\ pc = "publish"
    /\ written' = [written EXCEPT !.file =
                     IF written.file = "body" /\ written.available THEN "diagnosis" ELSE "unavailable"]
    /\ pc' = "done"
    /\ UNCHANGED <<tier, attempts, kept, ledger, attempted, received, answer>>

-----------------------------------------------------------------------------
Init ==
    /\ pc = "client"
    /\ tier = "primary"
    /\ attempts = <<>>
    /\ kept = [resp |-> [text |-> <<>>, finish |-> "STOP", usage |-> NoUsage], incomplete |-> TRUE, model |-> "none"]
    /\ ledger = [m \in Models |-> <<>>]
    /\ attempted = <<>>
    /\ received = <<>>
    /\ answer = Raised(NoCost)
    /\ written = [file |-> "", json |-> <<>>, available |-> FALSE, cost |-> NoCost]

Next ==
    \/ MakeClient \/ MakeChat \/ Raise \/ Publish
    \/ \E resp \in Response : Retry(resp) \/ FallBack(resp) \/ Return(resp)
    \/ \E file, json, outputs \in BOOLEAN : WriteOutputs(file, json, outputs)

Spec == Init /\ [][Next]_vars

-----------------------------------------------------------------------------
Over == pc \in {"main", "publish", "done"}
Metered(list) == {i \in DOMAIN list : ~Uncounted(list[i].resp.usage)}

\* The tokens of all attempts with both counts, the price of each by itself.
Charge(bill, x) ==
    LET u == x.resp.usage
    IN  IF Uncounted(u) THEN bill
        ELSE [in |-> bill.in + u.in, out |-> bill.out + u.out,
              price |-> bill.price + (u.in + 6 * u.out) * Rate(x.model, u.in)]
Bill(list) ==
    LET after[i \in 0..Len(list)] ==
          IF i = 0 THEN [in |-> 0, out |-> 0, price |-> 0] ELSE Charge(after[i - 1], list[i])
    IN  after[Len(list)]

\* The bill is that of the attempts which reported both their counts, all of
\* them, whether the call returned or raised and whichever tier won: each is
\* priced at its own model and tier, and no cost rather than part of it is
\* given when a model has no price (aggregate_cost, _merge_cost_tuples,
\* partial_usage).  An attempt with one count unknown adds nothing, not even
\* the tokens it read (compute_cost).  Every model that answered is among
\* those recorded as attempted.
EveryAttemptBilled ==
    /\ {received[i].model : i \in DOMAIN received} \subseteq ToSet(attempted)
    /\ Over =>
         IF Metered(received) = {} THEN answer.cost = NoCost
         ELSE /\ answer.cost.in = Bill(received).in /\ answer.cost.out = Bill(received).out
              /\ answer.cost.cost =
                   IF \A i \in Metered(received) : received[i].model \in Priced
                     THEN Bill(received).price ELSE Unknown

\* What the pull request shows as a diagnosis is a text that some model
\* finished within its token budget and that names a root cause, whichever
\* outputs could be written (build_diagnosis_body, "Prepare comment section").
PostedIsFinished ==
    written.file = "diagnosis" =>
      \E i \in DOMAIN received :
        LET resp == received[i].resp
        IN /\ resp.finish # "MAX_TOKENS"
           /\ "root" \in ToSet(resp.text)
           /\ ToSet(answer.text) \subseteq ToSet(resp.text)

\* Retries and the second model only ever improve the answer: when any attempt
\* of either tier had text the returned answer has some, and when any attempt
\* was complete so is the answer (the comments in _generate_with_retry and
\* call_gemini on which response is preferred).
NothingUsefulDropped ==
    answer.kind = "answered" =>
      /\ (\E i \in DOMAIN received : HasText(received[i].resp)) => answer.model # "none"
      /\ (\E i \in DOMAIN received : HasText(received[i].resp) /\ ~HitMaxTokens(received[i].resp))
           => ~answer.incomplete
=============================================================================
