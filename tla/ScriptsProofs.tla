--------------------------- MODULE ScriptsProofs ---------------------------
(***************************************************************************)
(* Proofs about the programs of MCScripts, in the specification of the run *)
(* that checks them: the two that ask a model, for any answers, suites,    *)
(* prices and numbers of retries, the table of test outcomes, for any runs *)
(* and artifacts and whatever of them is read, and the exporter's count of *)
(* queued runs, for any runs, re-runs and waiting times.                   *)
(***************************************************************************)
EXTENDS MCScripts, SequencesExt, SequenceTheorems, FiniteSetTheorems, WellFoundedInduction, TLAPS

-----------------------------------------------------------------------------
(* JobSelection.                                                           *)

\* A model that ends its answer with a decision block means it: what it
\* quotes from the diff comes earlier.
SpeaksLast ==
    \A t \in Text : t # <<>> /\ Last(t).kind = "block" /\ Last(t).confidence <= 100 => ~Last(t).quoted

Context == [clear : [Suite -> BOOLEAN], exclusive : [Suite -> BOOLEAN],
            other : BOOLEAN, jobs : {<<>>, <<FALSE, FALSE>>, <<TRUE, FALSE>>}]

Verdict == Selection!ParseGeminiDecisions(text)

\* An answer has a call behind it, a call has a question behind it, and what
\* is written is decided from the answer that is kept.
SelectionInv ==
    /\ context \in Context /\ diff \in BOOLEAN
    /\ text \in Text \cup {<<>>}
    /\ usages = billed
    /\ spc = "call" \/ billed # <<>> => Selection!NeedsAI /\ diff
    /\ text # <<>> => billed # <<>>
    /\ spc = "done" =>
         /\ comment.decision = [s \in Suite |-> Selection!Decide(s, Verdict)]
         /\ comment.source = [s \in Suite |-> Selection!Source(s, Verdict, Selection!NeedsAI)]
         /\ comment.status = Selection!Status(Verdict)
         /\ comment.cost = Selection!AggregateCost(billed)
         /\ comment.line = Selection!FormatCostLine(Selection!AggregateCost(billed))

LEMMA SelectionInit ==
    ASSUME Selection!Init PROVE SelectionInv
BY DEF Selection!Init, SelectionInv, Context

\* What is decided depends on the context file and the kept answer only.
LEMMA SameVerdict ==
    ASSUME UNCHANGED <<context, text>>
    PROVE  /\ Verdict' = Verdict
           /\ Selection!NeedsAI' = Selection!NeedsAI
           /\ Selection!Status(Verdict)' = Selection!Status(Verdict)
           /\ \A s \in Suite : /\ Selection!Decide(s, Verdict)' = Selection!Decide(s, Verdict)
                              /\ Selection!Source(s, Verdict, Selection!NeedsAI)'
                                   = Selection!Source(s, Verdict, Selection!NeedsAI)
<1>1. Verdict' = Verdict
  BY DEF Verdict, Selection!ParseGeminiDecisions
<1>2. Selection!NeedsAI' = Selection!NeedsAI
  BY DEF Selection!NeedsAI
<1>3. Selection!Status(Verdict)' = Selection!Status(Verdict)
  BY <1>1, <1>2 DEF Selection!Status, Selection!Nothing
<1>4. ASSUME NEW s \in Suite PROVE Selection!Decide(s, Verdict)' = Selection!Decide(s, Verdict)
  BY <1>1 DEF Selection!Decide
<1>5. ASSUME NEW s \in Suite
      PROVE  Selection!Source(s, Verdict, Selection!NeedsAI)' = Selection!Source(s, Verdict, Selection!NeedsAI)
  BY <1>1, <1>2 DEF Selection!Source
<1> QED
  BY <1>1, <1>2, <1>3, <1>4, <1>5

LEMMA SelectionStep ==
    ASSUME SelectionInv, [Selection!Next]_(Selection!vars)
    PROVE  SelectionInv'
<1> USE DEF SelectionInv, Verdict
<1>1. CASE Selection!Start
  BY <1>1 DEF Selection!Start, Selection!NeedsAI
<1>2. ASSUME NEW t \in Text, NEW u \in Usage \cup {Selection!Unknown}, Selection!Respond(t, u)
      PROVE  SelectionInv'
  <2>1. billed' # <<>>
    BY <1>2 DEF Selection!Respond
  <2> QED
    BY <2>1, <1>2 DEF Selection!Respond, Selection!CanTry, Selection!AfterTry, Selection!NeedsAI
<1>3. CASE Selection!LocalFailure
  BY <1>3 DEF Selection!LocalFailure, Selection!CanTry, Selection!AfterTry, Selection!NeedsAI
<1>4. CASE Selection!CallRaises
  <2>1. billed' # <<>>
    BY <1>4 DEF Selection!CallRaises
  <2> QED
    BY <2>1, <1>4 DEF Selection!CallRaises, Selection!CanTry, Selection!AfterTry, Selection!NeedsAI
<1>5. CASE Selection!WriteDecision
  <2>1. UNCHANGED <<context, diff, text, billed, usages>> /\ spc' = "done"
    BY <1>5 DEF Selection!WriteDecision
  <2>2. comment' = [decision |-> [s \in Suite |-> Selection!Decide(s, Verdict)],
                    source |-> [s \in Suite |-> Selection!Source(s, Verdict, Selection!NeedsAI)],
                    status |-> Selection!Status(Verdict),
                    cost |-> Selection!AggregateCost(billed),
                    line |-> Selection!FormatCostLine(Selection!AggregateCost(billed)),
                    jobs |-> Selection!JobRows]
    BY <1>5 DEF Selection!WriteDecision
  <2>3. /\ Selection!AggregateCost(billed)' = Selection!AggregateCost(billed)
        /\ Selection!FormatCostLine(Selection!AggregateCost(billed))'
             = Selection!FormatCostLine(Selection!AggregateCost(billed))
    BY <2>1
  <2> QED
    BY <2>1, <2>2, <2>3, SameVerdict
<1>6. CASE UNCHANGED Selection!vars
  <2>1. UNCHANGED <<context, diff, text, billed, usages, spc, comment>>
    BY <1>6 DEF Selection!vars
  <2>3. /\ Selection!AggregateCost(billed)' = Selection!AggregateCost(billed)
        /\ Selection!FormatCostLine(Selection!AggregateCost(billed))'
             = Selection!FormatCostLine(Selection!AggregateCost(billed))
    BY <2>1
  <2> QED
    BY <2>1, <2>3, SameVerdict
<1> QED
  BY <1>1, <1>2, <1>3, <1>4, <1>5, <1>6 DEF Selection!Next

LEMMA SelectionInvariant == MCSpec => []SelectionInv
<1>1. MCInit => SelectionInv
  BY SelectionInit DEF MCInit
<1>2. SelectionInv /\ [MCNext]_allVars => SelectionInv'
  <2>1. [MCNext]_allVars => [Selection!Next]_(Selection!vars)
    BY DEF MCNext, allVars, selectionVars, Selection!vars
  <2> QED
    BY <2>1, SelectionStep
<1> QED
  BY <1>1, <1>2, PTL DEF MCSpec

\* The three verdicts a suite can be given, and what raises one: decide takes
\* a step up from the model only, and never one down from the path filters.
LEMMA DecideEscalates ==
    ASSUME NEW s \in Suite, NEW verdict, context \in Context
    PROVE  /\ Selection!Rank(Selection!Decide(s, verdict)) >= Selection!FloorOf(s)
           /\ verdict = Selection!Nothing
                => Selection!Rank(Selection!Decide(s, verdict)) = Selection!FloorOf(s)
<1>1. context.clear[s] \in BOOLEAN /\ context.exclusive[s] \in BOOLEAN
  BY DEF Context
<1>2. Selection!Rank("skip") = 0 /\ Selection!Rank("sanity") = 1 /\ Selection!Rank("regression") = 2
  BY DEF Selection!Rank
<1>3. verdict = Selection!Nothing => verdict[s] = "none"
  BY DEF Selection!Nothing
<1>4. CASE context.clear[s]
  BY <1>2, <1>3, <1>4 DEF Selection!Decide, Selection!FloorOf
<1>5. CASE ~context.clear[s] /\ context.exclusive[s]
  BY <1>2, <1>3, <1>5 DEF Selection!Decide, Selection!FloorOf
<1>6. CASE ~context.clear[s] /\ ~context.exclusive[s]
  BY <1>2, <1>3, <1>6 DEF Selection!Decide, Selection!FloorOf
<1> QED
  BY <1>1, <1>4, <1>5, <1>6

\* However Gemini answers or fails, it can only raise a suite above what the
\* path filters ask for (decide, parse_gemini_decisions).
THEOREM PathFiltersAreAFloor ==
    ASSUME SpeaksLast PROVE MCSpec => []JudgmentOnlyEscalates
<1>1. ASSUME SelectionInv PROVE Selection!JudgmentOnlyEscalates
  <2> USE <1>1 DEF SelectionInv
  <2> SUFFICES ASSUME spc = "done", NEW s \in Suite
               PROVE  /\ Selection!Rank(comment.decision[s]) >= Selection!FloorOf(s)
                      /\ comment.status # "used" => Selection!Rank(comment.decision[s]) = Selection!FloorOf(s)
                      /\ Selection!Rank(comment.decision[s]) > Selection!FloorOf(s) => text \in Selection!Genuine
    BY DEF Selection!JudgmentOnlyEscalates, Selection!Written
  <2>1. comment.decision[s] = Selection!Decide(s, Verdict)
    OBVIOUS
  <2>2. Selection!Rank(comment.decision[s]) >= Selection!FloorOf(s)
    BY <2>1, DecideEscalates
  <2>3. text = <<>> => Verdict = Selection!Nothing
    BY DEF Verdict, Selection!ParseGeminiDecisions
  <2>4. comment.status # "used" => Verdict = Selection!Nothing
    BY <2>3 DEF Selection!Status
  <2>5. comment.status # "used" => Selection!Rank(comment.decision[s]) = Selection!FloorOf(s)
    BY <2>1, <2>4, DecideEscalates
  <2>6. Verdict # Selection!Nothing => text \in Selection!Genuine
    BY <2>3, SpeaksLast DEF Verdict, Selection!ParseGeminiDecisions, Selection!Genuine, SpeaksLast, Last, Selection!Last
  <2>7. Selection!FloorOf(s) \in Int
    BY DEF Selection!FloorOf
  <2>8. Selection!Rank(comment.decision[s]) > Selection!FloorOf(s) => text \in Selection!Genuine
    BY <2>1, <2>6, <2>7, DecideEscalates
  <2> QED
    BY <2>2, <2>5, <2>8
<1>2. SelectionInv => JudgmentOnlyEscalates
  BY <1>1 DEF JudgmentOnlyEscalates
<1> QED
  BY <1>2, SelectionInvariant, PTL

\* The comment tells a judgment that was used from one that could not be had
\* and one that was not needed; its totals are those of the attempts that
\* reported their tokens, marked partial when others did not (main's status,
\* aggregate_cost, format_cost_line).
THEOREM ReportStaysHonest ==
    MCSpec => []ReportIsHonest
<1>1. ASSUME SelectionInv PROVE Selection!ReportIsHonest
  <2> USE <1>1 DEF SelectionInv
  <2> SUFFICES ASSUME spc = "done" PROVE Selection!ReportIsHonest
    BY DEF Selection!ReportIsHonest, Selection!Written
  <2>1. text = <<>> => Verdict = Selection!Nothing
    BY DEF Verdict, Selection!ParseGeminiDecisions
  <2>2. comment.status = "used" => billed # <<>>
    BY <2>1 DEF Selection!Status
  <2>3. (\E s \in Suite : comment.source[s] = "gemini-inconclusive") => comment.status # "not_needed"
    BY DEF Selection!Source, Selection!Status
  <2>4. (Selection!NeedsAI /\ ~diff) => comment.status = "unavailable" /\ billed = <<>>
    BY <2>1 DEF Selection!Status
  <2> DEFINE known == SelectSeq(billed, LAMBDA u : u # Selection!Unknown)
             tokens == Selection!FoldSeq(LAMBDA u, n : n + u, 0, known)
  <2>5. Selection!AggregateCost(billed) =
          IF known = <<>> THEN Selection!NoCost
          ELSE [any |-> TRUE, cost |-> IF Priced THEN 2 * tokens ELSE Selection!Unknown, tokens |-> tokens,
                complete |-> Len(known) = Len(billed)]
    BY DEF Selection!AggregateCost
  <2>6. IF known = <<>> THEN comment.cost = Selection!NoCost /\ comment.line = Selection!FreeLine
        ELSE /\ comment.cost.tokens = tokens /\ comment.line.tokens \in {Selection!Unknown, tokens}
             /\ comment.cost.complete <=> Len(known) = Len(billed)
             /\ comment.line.partial <=> Len(known) # Len(billed)
    <3>1. /\ comment.cost = Selection!AggregateCost(billed)
          /\ comment.line = Selection!FormatCostLine(comment.cost)
      OBVIOUS
    <3> HIDE DEF known, tokens
    <3> DEFINE price == IF Priced THEN 2 * tokens ELSE Selection!Unknown
               whole == Len(known) = Len(billed)
    <3>2. CASE known = <<>>
      BY <3>1, <3>2, <2>5 DEF Selection!NoCost, Selection!FormatCostLine
    <3>3. CASE known # <<>>
      <4>1. comment.cost = [any |-> TRUE, cost |-> price, tokens |-> tokens, complete |-> whole]
        BY <3>1, <3>3, <2>5
      <4>2. whole \in BOOLEAN
        OBVIOUS
      <4> HIDE DEF price, whole
      <4>3. comment.cost.tokens = tokens /\ comment.cost.complete = whole
        BY <4>1
      <4>4. comment.line = [partial |-> ~whole, cost |-> price,
                            tokens |-> IF price = Selection!Unknown THEN Selection!Unknown ELSE tokens]
        BY <3>1, <4>1 DEF Selection!FormatCostLine
      <4>5. comment.cost.complete <=> whole
        BY <4>2, <4>3
      <4>7. comment.line.partial = ~whole
        BY <4>4
      <4>8. comment.line.partial <=> ~whole
        BY <4>2, <4>7
      <4>6. comment.line.tokens \in {Selection!Unknown, tokens}
        BY <4>4
      <4> QED
        BY <3>3, <4>3, <4>5, <4>6, <4>8 DEF whole
    <3> QED
      BY <3>2, <3>3
  <2> QED
    BY <2>2, <2>3, <2>4, <2>6 DEF Selection!ReportIsHonest
<1>2. SelectionInv => ReportIsHonest
  BY <1>1 DEF ReportIsHonest
<1> QED
  BY <1>2, SelectionInvariant, PTL

-----------------------------------------------------------------------------
(* Functions defined from their value before.                              *)

\* The least of some numbers.
LEMMA SmallestOne ==
    ASSUME NEW S \in SUBSET Nat, S # {}
    PROVE  \E a \in S : \A b \in S : a <= b
<1> DEFINE R == OpToRel(<, Nat)
<1>1. PICK a \in S : \A b \in S : ~(<<b, a>> \in R)
  BY NatLessThanWellFounded, WFMin
<1>2. \A b \in S : a <= b
  <2> SUFFICES ASSUME NEW b \in S PROVE a <= b
    OBVIOUS
  <2>1. <<b, a>> \notin R
    BY <1>1
  <2> QED
    BY <2>1 DEF OpToRel
<1> QED
  BY <1>2

\* A function defined from its value before is defined, and only once.
Folds(n, z, g, f) == f[0] = z /\ \A k \in 1..n : f[k] = g[<<k, f[k - 1]>>]

LEMMA Folding ==
    ASSUME NEW n \in Nat, NEW V, NEW z \in V, NEW g, g \in [(1..n) \X V -> V]
    PROVE  \E f \in [0..n -> V] : Folds(n, z, g, f)
<1> DEFINE Upto(m, f) == /\ f \in [0..m -> V] /\ f[0] = z
                         /\ \A k \in 1..m : f[k] = g[<<k, f[k - 1]>>]
           Bad == {m \in 0..n : ~ \E f : Upto(m, f)}
<1>1. Bad = {}
  <2> SUFFICES ASSUME Bad # {} PROVE FALSE
    OBVIOUS
  <2>1. Bad \subseteq Nat
    OBVIOUS
  <2>2. PICK m \in Bad : \A k \in Bad : m <= k
    BY <2>1, SmallestOne
  <2>3. m # 0
    <3>1. Upto(0, [k \in 0..0 |-> z])
      OBVIOUS
    <3> QED
      BY <2>2, <3>1
  <2>4. m \in 1..n /\ m - 1 \in 0..n /\ m - 1 \notin Bad
    <3>1. m \in 0..n
      BY <2>2
    <3> HIDE DEF Bad
    <3>2. m - 1 \in Bad => m <= m - 1
      BY <2>2
    <3> QED
      BY <2>3, <3>1, <3>2
  <2>5. PICK f : Upto(m - 1, f)
    BY <2>4
  <2> DEFINE v == g[<<m, f[m - 1]>>]
             h == [k \in 0..m |-> IF k = m THEN v ELSE f[k]]
  <2>6. m - 1 \in 0..(m - 1) /\ \A k \in 0..(m - 1) : f[k] \in V
    BY <2>4, <2>5
  <2>7. v \in V
    <3>1. <<m, f[m - 1]>> \in (1..n) \X V
      BY <2>4, <2>6
    <3> QED
      BY <3>1
  <2> HIDE DEF v
  <2>8. h \in [0..m -> V] /\ h[0] = z /\ h[m] = v /\ \A k \in 0..(m - 1) : h[k] = f[k]
    BY <2>4, <2>5, <2>6, <2>7
  <2> HIDE DEF h
  <2>9. \A k \in 1..m : h[k] = g[<<k, h[k - 1]>>]
    <3> TAKE k \in 1..m
    <3>1. CASE k = m
      <4>1. h[k - 1] = f[m - 1]
        BY <2>6, <2>8, <3>1
      <4> QED
        BY <2>8, <3>1, <4>1 DEF v
    <3>2. CASE k # m
      <4>1. k \in 1..(m - 1) /\ k \in 0..(m - 1) /\ k - 1 \in 0..(m - 1)
        BY <2>4, <3>2
      <4> QED
        BY <2>5, <2>8, <4>1
    <3> QED
      BY <3>1, <3>2
  <2> QED
    BY <2>2, <2>8, <2>9
<1>2. n \in 0..n
  OBVIOUS
<1>3. \E f : Upto(n, f)
  BY <1>1, <1>2
<1> QED
  BY <1>3 DEF Folds

\* One agrees with another wherever it agreed before.
Follows(n, f, h) == f[0] = h[0] /\ \A k \in 1..n : f[k - 1] = h[k - 1] => f[k] = h[k]

LEMMA SameFold ==
    ASSUME NEW n \in Nat, NEW f, NEW h, Follows(n, f, h)
    PROVE  \A k \in 0..n : f[k] = h[k]
<1> USE DEF Follows
<1> DEFINE Bad == {k \in 0..n : f[k] # h[k]}
<1> SUFFICES ASSUME Bad # {} PROVE FALSE
  OBVIOUS
<1>1. Bad \subseteq Nat
  OBVIOUS
<1>2. PICK m \in Bad : \A k \in Bad : m <= k
  BY <1>1, SmallestOne
<1>3. m \in 1..n /\ m - 1 \in 0..n
  BY <1>2
<1>4. m - 1 \notin Bad
  <2> HIDE DEF Bad
  <2>1. m - 1 \in Bad => m <= m - 1
    BY <1>2
  <2> QED
    BY <1>3, <2>1
<1> QED
  BY <1>2, <1>3, <1>4

-----------------------------------------------------------------------------
(* GeminiDiagnosis.                                                        *)

Asking == dpc \in {"client", "chat", "send"}

\* The text is what is left of a response that was not cut short.
Finished(shown, resp) ==
    resp.finish # "MAX_TOKENS" /\ Diagnosis!ToSet(shown) \subseteq Diagnosis!ToSet(resp.text)

\* While the models are asked every attempt so far was incomplete, or a loop
\* would have ended with it; what text there was is among the attempts of the
\* running loop or kept from the primary.
AskingInv ==
    Asking =>
      /\ answer.kind = "raised"
      /\ \A j \in DOMAIN attempts : Diagnosis!IsIncomplete(attempts[j])
      /\ \A i \in DOMAIN received :
           /\ Diagnosis!IsIncomplete(received[i].resp)
           /\ Diagnosis!HasText(received[i].resp) =>
                \/ \E j \in DOMAIN attempts : Diagnosis!HasText(attempts[j])
                \/ tier = "fallback" /\ Diagnosis!HasText(kept.resp)

\* A complete answer is the text of one finished response, and only such an
\* answer is announced as available.
AnswerInv ==
    /\ ~answer.incomplete => ~Asking /\ \E i \in DOMAIN received : Finished(answer.text, received[i].resp)
    /\ Asking \/ dpc = "main" => written.file = ""
    /\ dpc = "publish" => written.file \in {"", "body"} /\ (written.available => Diagnosis!Available(answer))
    /\ written.file = "diagnosis" => Diagnosis!Available(answer)

DiagnosisType ==
    /\ tier \in {"primary", "fallback"}
    /\ attempts \in Seq(Response)
    /\ received \in Seq([model : {"primary", "fallback"}, resp : Response])
    /\ tier = "fallback" => kept.incomplete /\ kept.model = "primary"

DiagnosisInv == DiagnosisType /\ AskingInv /\ AnswerInv /\ Diagnosis!NothingUsefulDropped

\* There is a last one among the places of a text, or of a list of attempts.
LEMMA LastPlace ==
    ASSUME NEW n \in Nat, NEW S \in SUBSET (1..n), S # {}
    PROVE  \E i \in S : \A j \in S : j <= i
<1> DEFINE R == OpToRel(<, Nat)
           T == {n - i : i \in S}
<1>1. T \subseteq Nat /\ T # {}
  <2>1. \A i \in S : n - i \in Nat
    OBVIOUS
  <2> QED
    BY <2>1
<1>2. PICK x \in T : \A y \in T : ~(<<y, x>> \in R)
  BY <1>1, NatLessThanWellFounded, WFMin
<1>3. \A y \in T : x <= y
  <2> SUFFICES ASSUME NEW y \in T PROVE x <= y
    OBVIOUS
  <2>1. x \in Nat /\ y \in Nat
    BY <1>1
  <2>2. <<y, x>> \notin R
    BY <1>2
  <2> HIDE DEF T
  <2>3. ~(y < x)
    BY <2>1, <2>2 DEF OpToRel
  <2> QED
    BY <2>1, <2>3
<1>4. PICK i \in S : x = n - i
  OBVIOUS
<1>5. \A j \in S : j <= i
  <2> TAKE j \in S
  <2>1. n - j \in T
    OBVIOUS
  <2> QED
    BY <2>1, <1>3, <1>4
<1> QED
  BY <1>5

\* Cleaning a text of its category and confidence only takes markers away.
LEMMA CleaningTakesAway ==
    ASSUME NEW t \in Seq(STRING)
    PROVE  Diagnosis!ToSet(Diagnosis!ExtractConfidence(Diagnosis!ExtractCategory(t).rest).rest)
             \subseteq Diagnosis!ToSet(t)
<1> DEFINE u == Diagnosis!ExtractCategory(t).rest
           marks == {i \in DOMAIN u : u[i] \in {"confidence", "badconfidence"}}
           last == CHOOSE i \in marks : \A j \in marks : j <= i
<1>1. u \in Seq(STRING) /\ Diagnosis!ToSet(u) \subseteq Diagnosis!ToSet(t)
  <2>1. u = t \/ (t # <<>> /\ u = Tail(t))
    BY DEF Diagnosis!ExtractCategory
  <2> HIDE DEF u
  <2>2. CASE u = t
    BY <2>2
  <2>3. CASE t # <<>> /\ u = Tail(t)
    <3>1. u \in Seq(STRING) /\ Len(u) = Len(t) - 1 /\ \A i \in 1..Len(u) : u[i] = t[i + 1]
      BY <2>3
    <3> QED
      BY <3>1 DEF Diagnosis!ToSet
  <2> QED
    BY <2>1, <2>2, <2>3
<1> HIDE DEF u
<1> SUFFICES Diagnosis!ToSet(Diagnosis!ExtractConfidence(u).rest) \subseteq Diagnosis!ToSet(u)
  BY <1>1 DEF u
<1>2. CASE marks = {}
  <2>1. Diagnosis!ExtractConfidence(u) = [rest |-> u, value |-> "none"]
    BY <1>2 DEF Diagnosis!ExtractConfidence
  <2> QED
    BY <2>1
<1>3. CASE marks # {}
  <2>1. last \in 1..Len(u) /\ Len(u) \in Nat
    <3>1. marks \in SUBSET (1..Len(u)) /\ Len(u) \in Nat
      BY <1>1
    <3>2. \E i \in marks : \A j \in marks : j <= i
      BY <3>1, <1>3, LastPlace
    <3>3. last \in marks
      BY <3>2
    <3> QED
      BY <3>1, <3>3
  <2>2. Diagnosis!ExtractConfidence(u).rest = Diagnosis!RemoveAt(u, last)
    BY <1>3 DEF Diagnosis!ExtractConfidence
  <2> HIDE DEF last
  <2> DEFINE before == SubSeq(u, 1, last - 1)
             after == SubSeq(u, last + 1, Len(u))
  <2>3. before \in Seq(STRING) /\ \A i \in 1..Len(before) : before[i] \in Diagnosis!ToSet(u)
    BY <1>1, <2>1 DEF Diagnosis!ToSet
  <2>4. after \in Seq(STRING) /\ \A i \in 1..Len(after) : after[i] \in Diagnosis!ToSet(u)
    BY <1>1, <2>1 DEF Diagnosis!ToSet
  <2> HIDE DEF before, after
  <2>5. \A i \in 1..Len(before \o after) : (before \o after)[i] \in Diagnosis!ToSet(u)
    BY <2>3, <2>4
  <2>6. Diagnosis!ToSet(before \o after) \subseteq Diagnosis!ToSet(u)
    BY <2>3, <2>4, <2>5 DEF Diagnosis!ToSet
  <2> QED
    BY <2>2, <2>6 DEF Diagnosis!RemoveAt, before, after
<1> QED
  BY <1>2, <1>3

\* A loop of attempts ends with one of them: with the last when it is
\* complete, and otherwise with one that has text if any has.
LEMMA LoopKeepsText ==
    ASSUME NEW seq \in Seq(Response), Len(seq) > 0, NEW own, own = Diagnosis!LoopResult(seq)
    PROVE  /\ own.incomplete \in BOOLEAN
           /\ own.incomplete <=> Diagnosis!IsIncomplete(seq[Len(seq)])
           /\ own.model = tier
           /\ ~own.incomplete => own.resp = seq[Len(seq)]
           /\ (\E j \in DOMAIN seq : Diagnosis!HasText(seq[j])) => Diagnosis!HasText(own.resp)
<1> DEFINE withText == {i \in DOMAIN seq : Diagnosis!HasText(seq[i])}
           pick == CHOOSE i \in withText : \A j \in withText : j <= i
<1>1. /\ Diagnosis!Last(seq) = seq[Len(seq)]
      /\ Len(seq) \in Nat /\ DOMAIN seq = 1..Len(seq) /\ Len(seq) \in DOMAIN seq
  <2>0. Len(seq) \in Nat
    OBVIOUS
  <2>1. DOMAIN seq = 1..Len(seq)
    OBVIOUS
  <2> QED
    BY <2>0, <2>1 DEF Diagnosis!Last
<1>2. withText # {} => Diagnosis!HasText(Diagnosis!Best(seq))
  <2> SUFFICES ASSUME withText # {} PROVE Diagnosis!HasText(Diagnosis!Best(seq))
    OBVIOUS
  <2>1. withText \in SUBSET (1..Len(seq)) /\ Len(seq) \in Nat
    BY <1>1
  <2>2. \E i \in withText : \A j \in withText : j <= i
    BY <2>1, LastPlace
  <2>3. pick \in withText
    BY <2>2
  <2>4. Diagnosis!Best(seq) = seq[pick]
    BY DEF Diagnosis!Best
  <2> QED
    BY <2>3, <2>4
<1>3. CASE Diagnosis!IsIncomplete(seq[Len(seq)])
  <2>1. own = [resp |-> Diagnosis!Best(seq), incomplete |-> TRUE, model |-> tier]
    BY <1>1, <1>3 DEF Diagnosis!LoopResult
  <2>2. (\E j \in DOMAIN seq : Diagnosis!HasText(seq[j])) => Diagnosis!HasText(Diagnosis!Best(seq))
    BY <1>2
  <2>3. own.incomplete = TRUE /\ own.model = tier /\ own.resp = Diagnosis!Best(seq)
    BY <2>1
  <2> HIDE DEF withText, pick
  <2>4. (own.incomplete <=> Diagnosis!IsIncomplete(seq[Len(seq)])) /\ own.incomplete
    BY ONLY <1>3, <2>3
  <2> QED
    BY ONLY <2>2, <2>3, <2>4
<1>4. CASE ~Diagnosis!IsIncomplete(seq[Len(seq)])
  <2>1. own = [resp |-> seq[Len(seq)], incomplete |-> FALSE, model |-> tier]
    BY <1>1, <1>4 DEF Diagnosis!LoopResult
  <2>2. Diagnosis!HasText(seq[Len(seq)])
    BY <1>4 DEF Diagnosis!IsIncomplete
  <2>3. own.incomplete = FALSE /\ own.model = tier /\ own.resp = seq[Len(seq)]
    BY <2>1
  <2>4. (own.incomplete <=> Diagnosis!IsIncomplete(seq[Len(seq)])) /\ ~own.incomplete
    BY ONLY <1>4, <2>3
  <2> QED
    BY ONLY <2>2, <2>3, <2>4
<1> QED
  BY <1>3, <1>4

LEMMA DiagnosisInit ==
    ASSUME Diagnosis!Init PROVE DiagnosisInv
<1>1. answer.kind = "raised" /\ answer.incomplete
  BY DEF Diagnosis!Init, Diagnosis!Raised
<1>2. tier = "primary" /\ attempts = <<>> /\ received = <<>> /\ dpc = "client" /\ written.file = ""
  BY DEF Diagnosis!Init
<1>3. DiagnosisType /\ AskingInv
  <2>1. DiagnosisType
    <3>1. attempts \in Seq(Response)
      BY <1>2, EmptySeq
    <3>2. received \in Seq([model : {"primary", "fallback"}, resp : Response])
      BY <1>2, EmptySeq
    <3> QED
      BY <3>1, <3>2, <1>2 DEF DiagnosisType
  <2>2. DOMAIN attempts = {} /\ DOMAIN received = {}
    <3>1. DOMAIN <<>> = {}
      OBVIOUS
    <3> QED
      BY <3>1, <1>2
  <2>3. AskingInv
    BY <1>1, <2>2 DEF AskingInv
  <2> QED
    BY <2>1, <2>3
<1>4. AnswerInv /\ Diagnosis!NothingUsefulDropped
  BY <1>1, <1>2 DEF AnswerInv, Diagnosis!NothingUsefulDropped, Asking
<1> QED
  BY <1>3, <1>4 DEF DiagnosisInv

\* Making a client or a chat asks nothing yet.
LEMMA DiagnosisPrepares ==
    ASSUME DiagnosisInv, Diagnosis!MakeClient \/ Diagnosis!MakeChat
    PROVE  DiagnosisInv'
<1>1. Asking /\ Asking' /\ UNCHANGED <<tier, attempts, kept, received, answer, written>>
  BY DEF Diagnosis!MakeClient, Diagnosis!MakeChat, Asking
<1>2. DiagnosisType' /\ AskingInv'
  BY <1>1 DEF DiagnosisInv, DiagnosisType, AskingInv
<1>3. AnswerInv'
  BY <1>1 DEF DiagnosisInv, AnswerInv, Asking
<1>4. Diagnosis!NothingUsefulDropped'
  BY <1>1 DEF DiagnosisInv, Diagnosis!NothingUsefulDropped
<1> QED
  BY <1>2, <1>3, <1>4 DEF DiagnosisInv

\* What an exception leaves is no answer.
LEMMA DiagnosisRaises ==
    ASSUME DiagnosisInv, Diagnosis!Raise
    PROVE  DiagnosisInv'
<1>1. /\ Asking /\ ~Asking' /\ dpc' = "main"
      /\ UNCHANGED <<tier, attempts, kept, received, written>>
  BY DEF Diagnosis!Raise, Asking
<1>2. answer'.kind = "raised" /\ answer'.incomplete
  BY DEF Diagnosis!Raise, Diagnosis!Raised
<1>3. DiagnosisType' /\ AskingInv'
  BY <1>1 DEF DiagnosisInv, DiagnosisType, AskingInv
<1>4. AnswerInv'
  BY <1>1, <1>2 DEF DiagnosisInv, AnswerInv
<1>5. Diagnosis!NothingUsefulDropped'
  BY <1>2 DEF Diagnosis!NothingUsefulDropped
<1> QED
  BY <1>3, <1>4, <1>5 DEF DiagnosisInv

\* A response is added to everything received and to the running loop.
LEMMA ReceiveAdds ==
    ASSUME DiagnosisInv, NEW resp \in Response, Diagnosis!Receive(resp)
    PROVE  /\ Asking /\ written.file = ""
           /\ received' \in Seq([model : {"primary", "fallback"}, resp : Response])
           /\ \E i \in DOMAIN received' : received'[i].resp = resp
           /\ \A i \in DOMAIN received' : received'[i].resp = resp \/ (i \in DOMAIN received /\ received'[i] = received[i])
           /\ Append(attempts, resp) \in Seq(Response) /\ Len(Append(attempts, resp)) = Len(attempts) + 1
           /\ Len(attempts) \in Nat /\ Append(attempts, resp)[Len(attempts) + 1] = resp
           /\ DOMAIN attempts = 1..Len(attempts) /\ DOMAIN Append(attempts, resp) = 1..(Len(attempts) + 1)
           /\ \A j \in DOMAIN attempts : Append(attempts, resp)[j] = attempts[j]
<1> DEFINE new == [model |-> tier, resp |-> resp]
<1>1. Asking /\ written.file = ""
  BY DEF Diagnosis!Receive, DiagnosisInv, AnswerInv, Asking
<1>2. /\ received \in Seq([model : {"primary", "fallback"}, resp : Response])
      /\ new \in [model : {"primary", "fallback"}, resp : Response]
      /\ received' = Append(received, new) /\ new.resp = resp
  BY DEF Diagnosis!Receive, DiagnosisInv, DiagnosisType
<1> HIDE DEF new
<1>3. /\ received' \in Seq([model : {"primary", "fallback"}, resp : Response])
      /\ DOMAIN received' = 1..(Len(received) + 1) /\ Len(received) \in Nat /\ DOMAIN received = 1..Len(received)
      /\ received'[Len(received) + 1] = new
      /\ \A i \in DOMAIN received : received'[i] = received[i]
  BY <1>2
<1>4. /\ \E i \in DOMAIN received' : received'[i].resp = resp
      /\ \A i \in DOMAIN received' : received'[i].resp = resp \/ (i \in DOMAIN received /\ received'[i] = received[i])
  BY <1>2, <1>3
<1>5. attempts \in Seq(Response)
  BY DEF DiagnosisInv, DiagnosisType
<1>6. Len(attempts) \in Nat /\ DOMAIN attempts = 1..Len(attempts)
  BY <1>5
<1>7. /\ Append(attempts, resp) \in Seq(Response) /\ Len(Append(attempts, resp)) = Len(attempts) + 1
      /\ Append(attempts, resp)[Len(attempts) + 1] = resp
      /\ DOMAIN Append(attempts, resp) = 1..(Len(attempts) + 1)
      /\ \A j \in DOMAIN attempts : Append(attempts, resp)[j] = attempts[j]
  BY <1>5, <1>6
<1> QED
  BY <1>1, <1>3, <1>4, <1>6, <1>7

\* A retry follows an incomplete attempt.
LEMMA DiagnosisRetries ==
    ASSUME DiagnosisInv, NEW resp \in Response, Diagnosis!Retry(resp)
    PROVE  DiagnosisInv'
<1>1. /\ Diagnosis!Receive(resp) /\ attempts' = Append(attempts, resp)
      /\ UNCHANGED <<dpc, tier, kept, answer, written>>
  BY DEF Diagnosis!Retry
<1>2. Diagnosis!IsIncomplete(resp)
  <2>1. Diagnosis!Last(attempts') = resp
    BY <1>1, ReceiveAdds DEF Diagnosis!Last
  <2> QED
    BY <2>1 DEF Diagnosis!Retry, Diagnosis!LoopEnds
<1>3. Asking /\ Asking'
  BY <1>1, ReceiveAdds DEF Asking
<1>4. DiagnosisType'
  BY <1>1, ReceiveAdds DEF DiagnosisInv, DiagnosisType
<1>5. AskingInv'
  <2>2. /\ Len(attempts) \in Nat /\ attempts'[Len(attempts) + 1] = resp
        /\ DOMAIN attempts = 1..Len(attempts) /\ DOMAIN attempts' = 1..(Len(attempts) + 1)
        /\ \A j \in DOMAIN attempts : attempts'[j] = attempts[j]
    BY <1>1, ReceiveAdds
  <2>3. \A j \in DOMAIN attempts : j \in DOMAIN attempts' /\ attempts'[j] = attempts[j]
    BY <2>2
  <2>4. \E j \in DOMAIN attempts' : attempts'[j] = resp
    BY <2>2
  <2>7. \A j \in DOMAIN attempts' : attempts'[j] = resp \/ (j \in DOMAIN attempts /\ attempts'[j] = attempts[j])
    BY <2>2
  <2>1. \A j \in DOMAIN attempts' : Diagnosis!IsIncomplete(attempts'[j])
    BY <2>7, <1>2, <1>3 DEF DiagnosisInv, AskingInv
  <2> SUFFICES ASSUME NEW i \in DOMAIN received'
               PROVE  /\ Diagnosis!IsIncomplete(received'[i].resp)
                      /\ Diagnosis!HasText(received'[i].resp) =>
                           \/ \E j \in DOMAIN attempts' : Diagnosis!HasText(attempts'[j])
                           \/ tier' = "fallback" /\ Diagnosis!HasText(kept'.resp)
    BY <1>1, <1>3, <2>1 DEF DiagnosisInv, AskingInv
  <2>5. CASE received'[i].resp = resp
    BY <1>2, <2>4, <2>5
  <2>6. CASE i \in DOMAIN received /\ received'[i] = received[i]
    <3>1. /\ Diagnosis!IsIncomplete(received[i].resp)
          /\ Diagnosis!HasText(received[i].resp) =>
               \/ \E j \in DOMAIN attempts : Diagnosis!HasText(attempts[j])
               \/ tier = "fallback" /\ Diagnosis!HasText(kept.resp)
      BY <1>3, <2>6 DEF DiagnosisInv, AskingInv
    <3> QED
      BY <1>1, <2>3, <2>6, <3>1
  <2> QED
    BY <1>1, <2>5, <2>6, ReceiveAdds
<1>6. AnswerInv'
  BY <1>1, <1>3 DEF DiagnosisInv, AnswerInv, Asking
<1>7. Diagnosis!NothingUsefulDropped'
  BY <1>1, <1>3 DEF DiagnosisInv, AskingInv, Diagnosis!NothingUsefulDropped
<1> QED
  BY <1>4, <1>5, <1>6, <1>7 DEF DiagnosisInv

\* What the end of a loop is worth, in terms of the response that ended it.
LEMMA LoopEnded ==
    ASSUME DiagnosisInv, NEW resp \in Response, Diagnosis!Receive(resp),
           NEW own, own = Diagnosis!LoopResult(Append(attempts, resp))
    PROVE  /\ own.incomplete \in BOOLEAN
           /\ own.incomplete <=> Diagnosis!IsIncomplete(resp)
           /\ own.model = tier
           /\ ~own.incomplete => own.resp = resp
           /\ Diagnosis!HasText(resp) => Diagnosis!HasText(own.resp)
           /\ (\E j \in DOMAIN attempts : Diagnosis!HasText(attempts[j])) => Diagnosis!HasText(own.resp)
<1> DEFINE all == Append(attempts, resp)
<1>1. /\ all \in Seq(Response) /\ Len(all) = Len(attempts) + 1 /\ Len(attempts) \in Nat
      /\ all[Len(attempts) + 1] = resp
      /\ DOMAIN attempts = 1..Len(attempts) /\ DOMAIN all = 1..(Len(attempts) + 1)
      /\ \A j \in DOMAIN attempts : all[j] = attempts[j]
  BY ReceiveAdds
<1> HIDE DEF all
<1>2. /\ own.incomplete \in BOOLEAN
      /\ own.incomplete <=> Diagnosis!IsIncomplete(all[Len(all)])
      /\ own.model = tier
      /\ ~own.incomplete => own.resp = all[Len(all)]
      /\ (\E j \in DOMAIN all : Diagnosis!HasText(all[j])) => Diagnosis!HasText(own.resp)
  <2>1. Len(all) > 0 /\ own = Diagnosis!LoopResult(all)
    BY <1>1 DEF all
  <2> QED
    BY <1>1, <2>1, LoopKeepsText
<1>3. all[Len(all)] = resp
  BY <1>1
<1>4. Diagnosis!HasText(resp) => \E j \in DOMAIN all : Diagnosis!HasText(all[j])
  <2>1. Len(attempts) + 1 \in DOMAIN all
    BY <1>1
  <2> QED
    BY <2>1, <1>1
<1>5. (\E j \in DOMAIN attempts : Diagnosis!HasText(attempts[j])) => \E j \in DOMAIN all : Diagnosis!HasText(all[j])
  <2>1. DOMAIN attempts \subseteq DOMAIN all
    BY <1>1
  <2> QED
    BY <2>1, <1>1
<1> QED
  BY <1>2, <1>3, <1>4, <1>5

\* The primary's best answer is kept while the fallback starts its own loop.
LEMMA DiagnosisFallsBack ==
    ASSUME DiagnosisInv, NEW resp \in Response, Diagnosis!FallBack(resp)
    PROVE  DiagnosisInv'
<1> DEFINE own == Diagnosis!LoopResult(Append(attempts, resp))
<1>1. /\ Diagnosis!Receive(resp) /\ own.incomplete /\ kept' = own
      /\ tier = "primary" /\ tier' = "fallback" /\ attempts' = <<>> /\ dpc' = "chat"
      /\ UNCHANGED <<answer, written>>
  BY DEF Diagnosis!FallBack
<1>2. /\ Diagnosis!IsIncomplete(resp) /\ own.model = "primary"
      /\ Diagnosis!HasText(resp) => Diagnosis!HasText(own.resp)
      /\ (\E j \in DOMAIN attempts : Diagnosis!HasText(attempts[j])) => Diagnosis!HasText(own.resp)
  BY <1>1, LoopEnded
<1> HIDE DEF own
<1>3. Asking /\ Asking'
  BY <1>1, ReceiveAdds DEF Asking
<1>4. DiagnosisType'
  <2>1. attempts' \in Seq(Response)
    BY <1>1, EmptySeq
  <2>2. received' \in Seq([model : {"primary", "fallback"}, resp : Response])
    BY <1>1, ReceiveAdds
  <2> QED
    BY <1>1, <1>2, <2>1, <2>2 DEF DiagnosisType
<1>5. AskingInv'
  <2>1. DOMAIN attempts' = {}
    BY <1>1
  <2> SUFFICES ASSUME NEW i \in DOMAIN received'
               PROVE  /\ Diagnosis!IsIncomplete(received'[i].resp)
                      /\ Diagnosis!HasText(received'[i].resp) => Diagnosis!HasText(kept'.resp)
    BY <1>1, <1>3, <2>1 DEF DiagnosisInv, AskingInv
  <2>2. CASE received'[i].resp = resp
    BY <1>1, <1>2, <2>2
  <2>3. CASE i \in DOMAIN received /\ received'[i] = received[i]
    <3>1. /\ Diagnosis!IsIncomplete(received[i].resp)
          /\ Diagnosis!HasText(received[i].resp) => \E j \in DOMAIN attempts : Diagnosis!HasText(attempts[j])
      BY <1>1, <1>3, <2>3 DEF DiagnosisInv, AskingInv
    <3> QED
      BY <1>1, <1>2, <2>3, <3>1
  <2> QED
    BY <1>1, <2>2, <2>3, ReceiveAdds
<1>6. AnswerInv'
  BY <1>1, <1>3 DEF DiagnosisInv, AnswerInv, Asking
<1>7. Diagnosis!NothingUsefulDropped'
  BY <1>1, <1>3 DEF DiagnosisInv, AskingInv, Diagnosis!NothingUsefulDropped
<1> QED
  BY <1>4, <1>5, <1>6, <1>7 DEF DiagnosisInv

\* The answer returned: the loop's own, or the primary's where that alone has
\* text; complete exactly when the response that came last is.
LEMMA DiagnosisReturns ==
    ASSUME DiagnosisInv, NEW resp \in Response, Diagnosis!Return(resp)
    PROVE  DiagnosisInv'
<1> DEFINE own == Diagnosis!LoopResult(Append(attempts, resp))
           best == IF tier = "primary" THEN own ELSE Diagnosis!Prefer(kept, own)
<1>1. /\ Diagnosis!Receive(resp) /\ attempts' = Append(attempts, resp) /\ dpc' = "main"
      /\ answer' = Diagnosis!Answered(best, Diagnosis!AggregateCombinedCost')
      /\ UNCHANGED <<tier, kept, attempted, written>>
  BY DEF Diagnosis!Return
<1>2. /\ own.incomplete \in BOOLEAN
      /\ own.incomplete <=> Diagnosis!IsIncomplete(resp)
      /\ own.model = tier
      /\ ~own.incomplete => own.resp = resp
      /\ Diagnosis!HasText(resp) => Diagnosis!HasText(own.resp)
      /\ (\E j \in DOMAIN attempts : Diagnosis!HasText(attempts[j])) => Diagnosis!HasText(own.resp)
  BY <1>1, LoopEnded
<1> HIDE DEF own
<1>3. /\ Asking /\ ~Asking' /\ written.file = "" /\ written'.file = ""
  BY <1>1, ReceiveAdds DEF Asking
<1>4. tier \in {"primary", "fallback"} /\ (tier = "fallback" => kept.incomplete /\ kept.model = "primary")
  BY DEF DiagnosisInv, DiagnosisType
<1>5. /\ best = own \/ (tier = "fallback" /\ best = kept)
      /\ Diagnosis!HasText(own.resp) => best = own
      /\ tier = "fallback" /\ Diagnosis!HasText(kept.resp) => Diagnosis!HasText(best.resp)
  BY <1>4 DEF Diagnosis!Prefer
<1> HIDE DEF best
<1>6. ~Diagnosis!IsIncomplete(resp) => best = own /\ ~best.incomplete
  BY <1>2, <1>5 DEF Diagnosis!IsIncomplete
<1>7. ~best.incomplete => best.resp = resp /\ ~Diagnosis!IsIncomplete(resp)
  BY <1>2, <1>4, <1>5
<1>8. Diagnosis!HasText(best.resp) => best.model # "none"
  BY <1>2, <1>4, <1>5
<1>9. /\ answer'.incomplete = best.incomplete /\ answer'.kind = "answered"
      /\ Diagnosis!HasText(best.resp) => answer'.model = best.model
      /\ answer'.text = Diagnosis!ExtractConfidence(Diagnosis!ExtractCategory(best.resp.text).rest).rest
  BY <1>1 DEF Diagnosis!Answered
<1>10. DiagnosisType'
  BY <1>1, ReceiveAdds DEF DiagnosisInv, DiagnosisType
<1>11. AskingInv'
  BY <1>3 DEF AskingInv
<1>12. AnswerInv'
  <2> SUFFICES ASSUME ~answer'.incomplete
               PROVE  \E i \in DOMAIN received' : Finished(answer'.text, received'[i].resp)
    BY <1>1, <1>3 DEF AnswerInv
  <2>1. best.resp = resp /\ ~Diagnosis!IsIncomplete(resp)
    BY <1>7, <1>9
  <2>2. resp.finish # "MAX_TOKENS"
    BY <2>1 DEF Diagnosis!IsIncomplete, Diagnosis!HitMaxTokens
  <2>3. Diagnosis!ToSet(answer'.text) \subseteq Diagnosis!ToSet(resp.text)
    <3>1. resp.text \in Seq(STRING)
      BY DiagnosisAssumption
    <3> QED
      BY <2>1, <1>9, <3>1, CleaningTakesAway
  <2>4. Finished(answer'.text, resp)
    BY <2>2, <2>3 DEF Finished
  <2> QED
    <3>1. PICK i \in DOMAIN received' : received'[i].resp = resp
      BY <1>1, ReceiveAdds
    <3> QED
      BY <2>4, <3>1
<1>13. Diagnosis!NothingUsefulDropped'
  <2>1. ASSUME NEW i \in DOMAIN received', Diagnosis!HasText(received'[i].resp)
        PROVE  Diagnosis!HasText(best.resp)
    <3>1. CASE received'[i].resp = resp
      BY <1>2, <1>5, <2>1, <3>1
    <3>2. CASE i \in DOMAIN received /\ received'[i] = received[i]
      <4>1. \/ \E j \in DOMAIN attempts : Diagnosis!HasText(attempts[j])
            \/ tier = "fallback" /\ Diagnosis!HasText(kept.resp)
        BY <1>3, <2>1, <3>2 DEF DiagnosisInv, AskingInv
      <4> QED
        BY <1>2, <1>5, <4>1
    <3> QED
      BY <1>1, <3>1, <3>2, ReceiveAdds
  <2>2. ASSUME NEW i \in DOMAIN received', Diagnosis!HasText(received'[i].resp),
               ~Diagnosis!HitMaxTokens(received'[i].resp)
        PROVE  ~answer'.incomplete
    <3>1. ~Diagnosis!IsIncomplete(received'[i].resp)
      BY <2>2 DEF Diagnosis!IsIncomplete
    <3>2. CASE received'[i].resp = resp
      BY <1>6, <1>9, <3>1, <3>2
    <3>3. CASE i \in DOMAIN received /\ received'[i] = received[i]
      BY <1>3, <3>1, <3>3 DEF DiagnosisInv, AskingInv
    <3> QED
      BY <1>1, <3>2, <3>3, ReceiveAdds
  <2> QED
    BY <2>1, <2>2, <1>8, <1>9 DEF Diagnosis!NothingUsefulDropped
<1> QED
  BY <1>10, <1>11, <1>12, <1>13 DEF DiagnosisInv

\* main and the workflow write what the answer was; availability is decided
\* from it, and the body is shown only with it.
LEMMA DiagnosisWrites ==
    ASSUME DiagnosisInv,
           Diagnosis!Publish \/ \E file, json, outputs \in BOOLEAN : Diagnosis!WriteOutputs(file, json, outputs)
    PROVE  DiagnosisInv'
<1>1. /\ ~Asking /\ ~Asking' /\ dpc' \in {"publish", "done"}
      /\ UNCHANGED <<tier, attempts, kept, received, answer>>
  BY DEF Diagnosis!Publish, Diagnosis!WriteOutputs, Asking
<1>2. DiagnosisType' /\ AskingInv'
  BY <1>1 DEF DiagnosisInv, DiagnosisType, AskingInv
<1>3. Diagnosis!NothingUsefulDropped'
  BY <1>1 DEF DiagnosisInv, Diagnosis!NothingUsefulDropped
<1>4. /\ dpc' = "publish" => written'.file \in {"", "body"} /\ (written'.available => Diagnosis!Available(answer))
      /\ written'.file = "diagnosis" => Diagnosis!Available(answer)
  <2>1. CASE Diagnosis!Publish
    <3>1. dpc = "publish" /\ dpc' = "done"
      BY <2>1 DEF Diagnosis!Publish
    <3>2. written.available => Diagnosis!Available(answer)
      BY <3>1 DEF DiagnosisInv, AnswerInv
    <3>3. written'.file = "diagnosis" => written.available
      BY <2>1 DEF Diagnosis!Publish
    <3> QED
      BY <3>1, <3>2, <3>3
  <2>2. ASSUME NEW file \in BOOLEAN, NEW json \in BOOLEAN, NEW outputs \in BOOLEAN,
               Diagnosis!WriteOutputs(file, json, outputs)
        PROVE  /\ written'.file \in {"", "body"}
               /\ written'.available => Diagnosis!Available(answer)
    BY <2>2 DEF Diagnosis!WriteOutputs
  <2> QED
    BY <2>1, <2>2
<1>5. AnswerInv'
  BY <1>1, <1>4 DEF DiagnosisInv, AnswerInv
<1> QED
  BY <1>2, <1>3, <1>5 DEF DiagnosisInv

LEMMA DiagnosisInvariant ==
    MCSpec => []DiagnosisInv
<1>1. MCInit => DiagnosisInv
  BY DiagnosisInit DEF MCInit
<1>2. DiagnosisInv /\ UNCHANGED diagnosisVars => DiagnosisInv'
  BY DEF diagnosisVars, DiagnosisInv, DiagnosisType, AskingInv, AnswerInv, Asking, Diagnosis!NothingUsefulDropped
<1>3. DiagnosisInv /\ Diagnosis!Next => DiagnosisInv'
  BY DiagnosisPrepares, DiagnosisRaises, DiagnosisRetries, DiagnosisFallsBack, DiagnosisReturns, DiagnosisWrites
     DEF Diagnosis!Next
<1>4. [MCNext]_allVars => Diagnosis!Next \/ UNCHANGED diagnosisVars
  BY DEF MCNext, allVars
<1> QED
  BY <1>1, <1>2, <1>3, <1>4, PTL DEF MCSpec

\* A better answer is never lost to a retry or to the fallback
\* (_generate_with_retry, call_gemini).
THEOREM BestAnswerReturned ==
    MCSpec => []NothingUsefulDropped
<1>1. DiagnosisInv => NothingUsefulDropped
  BY DEF DiagnosisInv, NothingUsefulDropped
<1> QED
  BY <1>1, DiagnosisInvariant, PTL

\* The pull request is shown a diagnosis only if some model finished it and it
\* names a root cause (build_diagnosis_body, "Prepare comment section").
THEOREM OnlyFinishedPosted ==
    MCSpec => []PostedIsFinished
<1>1. ASSUME DiagnosisInv PROVE Diagnosis!PostedIsFinished
  <2> SUFFICES ASSUME written.file = "diagnosis"
               PROVE  \E i \in DOMAIN received :
                        /\ received[i].resp.finish # "MAX_TOKENS"
                        /\ "root" \in Diagnosis!ToSet(received[i].resp.text)
                        /\ Diagnosis!ToSet(answer.text) \subseteq Diagnosis!ToSet(received[i].resp.text)
    BY DEF Diagnosis!PostedIsFinished
  <2>1. ~answer.incomplete /\ Diagnosis!SplitSections(answer.text) # {}
    BY <1>1 DEF DiagnosisInv, AnswerInv, Diagnosis!Available
  <2>2. PICK i \in DOMAIN received : Finished(answer.text, received[i].resp)
    BY <1>1, <2>1 DEF DiagnosisInv, AnswerInv
  <2>3. "root" \in Diagnosis!ToSet(answer.text)
    BY <2>1 DEF Diagnosis!SplitSections, Diagnosis!ToSet
  <2> QED
    BY <2>2, <2>3 DEF Finished
<1>2. DiagnosisInv => PostedIsFinished
  BY <1>1 DEF PostedIsFinished
<1> QED
  BY <1>2, DiagnosisInvariant, PTL

Tokens == [in : Nat \cup {-1}, out : Nat \cup {-1}]
Costs == [cost : Nat \cup {-1}, in : Nat, out : Nat] \cup {Diagnosis!NoCost}

\* What one attempt costs: nothing known without usage, else its tokens, and
\* their price where the model has one.
LEMMA CostOfOne ==
    ASSUME NEW u \in Tokens, NEW m
    PROVE  /\ Diagnosis!Rate(m, u.in) \in Nat
           /\ u \in [in : Nat, out : Nat] =>
                /\ (u.in + 6 * u.out) * Diagnosis!Rate(m, u.in) \in Nat
                /\ ~Diagnosis!Uncounted(u)
                /\ Diagnosis!ComputeCost(u, m) =
                     [cost |-> IF m \in PricedModels THEN (u.in + 6 * u.out) * Diagnosis!Rate(m, u.in) ELSE -1,
                      in |-> u.in, out |-> u.out]
           /\ Diagnosis!Uncounted(u) => Diagnosis!ComputeCost(u, m) = Diagnosis!NoCost
           /\ Diagnosis!ComputeCost(u, m) \in Costs
<1>1. Diagnosis!Rate(m, u.in) \in Nat
  BY DEF Diagnosis!Rate
<1>2. Diagnosis!Uncounted(u) => Diagnosis!ComputeCost(u, m) = Diagnosis!NoCost
  BY DEF Diagnosis!ComputeCost
<1>3. ASSUME u \in [in : Nat, out : Nat]
      PROVE  /\ (u.in + 6 * u.out) * Diagnosis!Rate(m, u.in) \in Nat
             /\ ~Diagnosis!Uncounted(u)
             /\ Diagnosis!ComputeCost(u, m) =
                  [cost |-> IF m \in PricedModels THEN (u.in + 6 * u.out) * Diagnosis!Rate(m, u.in) ELSE -1,
                   in |-> u.in, out |-> u.out]
  <2>1. u.in \in Nat /\ u.out \in Nat
    BY <1>3
  <2>2. ~Diagnosis!Uncounted(u)
    BY <2>1 DEF Diagnosis!Uncounted, Diagnosis!Unknown
  <2>3. (u.in + 6 * u.out) * Diagnosis!Rate(m, u.in) \in Nat
    <3> DEFINE a == u.in + 6 * u.out
               b == Diagnosis!Rate(m, u.in)
    <3>1. a \in Nat /\ b \in Nat
      BY <1>1, <2>1
    <3> HIDE DEF a, b
    <3>2. a * b \in Nat
      BY <3>1
    <3> QED
      BY <3>2 DEF a, b
  <2> QED
    BY <2>2, <2>3 DEF Diagnosis!ComputeCost, Diagnosis!Unknown
<1> DEFINE price == (u.in + 6 * u.out) * Diagnosis!Rate(m, u.in)
<1>4. Diagnosis!ComputeCost(u, m) \in Costs
  <2>1. CASE Diagnosis!Uncounted(u)
    BY <1>2, <2>1 DEF Costs
  <2>2. CASE ~Diagnosis!Uncounted(u)
    <3>0. u \in [in : Nat, out : Nat]
      BY <2>2 DEF Tokens, Diagnosis!Uncounted, Diagnosis!Unknown
    <3>1. price \in Nat /\ u.in \in Nat /\ u.out \in Nat
      BY <1>3, <3>0
    <3>2. Diagnosis!ComputeCost(u, m) = [cost |-> IF m \in PricedModels THEN price ELSE -1,
                                         in |-> u.in, out |-> u.out]
      BY <1>3, <3>0
    <3> HIDE DEF price
    <3> QED
      BY <3>1, <3>2 DEF Costs
  <2> QED
    BY <2>1, <2>2
<1> QED
  BY <1>1, <1>2, <1>3, <1>4

\* Merging costs is adding them up, an unknown price and nothing included.
LEMMA Merging ==
    ASSUME NEW a \in Costs, NEW b \in Costs, NEW c \in Costs
    PROVE  /\ Diagnosis!MergeCosts(a, b) \in Costs
           /\ Diagnosis!MergeCosts(a, Diagnosis!NoCost) = a
           /\ Diagnosis!MergeCosts(Diagnosis!NoCost, a) = a
           /\ Diagnosis!MergeCosts(a, Diagnosis!MergeCosts(b, c))
                = Diagnosis!MergeCosts(Diagnosis!MergeCosts(a, b), c)
<1> DEFINE Known == [cost : Nat \cup {-1}, in : Nat, out : Nat]
           none == Diagnosis!NoCost
<1>1. none \notin Known
  <2>1. none.in = -1
    BY DEF Diagnosis!NoCost, Diagnosis!Unknown
  <2> QED
    BY <2>1
<1>2. /\ a \in Known \/ a = none
      /\ b \in Known \/ b = none
      /\ c \in Known \/ c = none
  BY DEF Costs
<1>3. \A x : Diagnosis!MergeCosts(none, x) = x /\ Diagnosis!MergeCosts(x, none) = x
  BY DEF Diagnosis!MergeCosts
<1> DEFINE Sum(x, y) == [cost |-> IF -1 \in {x.cost, y.cost} THEN -1 ELSE x.cost + y.cost,
                         in |-> x.in + y.in, out |-> x.out + y.out]
<1>4. \A x, y \in Known : Diagnosis!MergeCosts(x, y) = Sum(x, y) /\ Sum(x, y) \in Known
  <2> TAKE x, y \in Known
  <2>1. Diagnosis!MergeCosts(x, y) = Sum(x, y)
    BY <1>1 DEF Diagnosis!MergeCosts, Diagnosis!Unknown
  <2>2. /\ x.cost \in Nat \cup {-1} /\ x.in \in Nat /\ x.out \in Nat
        /\ y.cost \in Nat \cup {-1} /\ y.in \in Nat /\ y.out \in Nat
    OBVIOUS
  <2>3. Sum(x, y) \in Known
    BY <2>2
  <2> QED
    BY <2>1, <2>3
<1>5. Known \subseteq Costs /\ none \in Costs
  BY DEF Costs
<1>6. ASSUME a \in Known, b \in Known, c \in Known
      PROVE  Sum(a, Sum(b, c)) = Sum(Sum(a, b), c)
  <2>1. /\ a.cost \in Nat \cup {-1} /\ a.in \in Nat /\ a.out \in Nat
        /\ b.cost \in Nat \cup {-1} /\ b.in \in Nat /\ b.out \in Nat
        /\ c.cost \in Nat \cup {-1} /\ c.in \in Nat /\ c.out \in Nat
    BY <1>6
  <2> QED
    BY <2>1
<1> HIDE DEF Known, none, Sum
<1>7. Diagnosis!MergeCosts(a, b) \in Costs
  BY <1>2, <1>3, <1>4, <1>5
<1>8. Diagnosis!MergeCosts(a, Diagnosis!MergeCosts(b, c)) = Diagnosis!MergeCosts(Diagnosis!MergeCosts(a, b), c)
  BY <1>2, <1>3, <1>4, <1>6
<1> QED
  BY <1>3, <1>7, <1>8 DEF none

\* A total is built up one attempt at a time.
Totals(us, m, f) ==
    /\ f \in [0..Len(us) -> Costs] /\ f[0] = Diagnosis!NoCost
    /\ \A k \in 1..Len(us) : f[k] = Diagnosis!MergeCosts(f[k - 1], Diagnosis!ComputeCost(us[k], m))

LEMMA TotalIs ==
    ASSUME NEW us \in Seq(Tokens), NEW m
    PROVE  \E f : Totals(us, m, f) /\ Diagnosis!AggregateCost(us, m) = f[Len(us)]
<1> DEFINE n == Len(us)
           g == [p \in (1..n) \X Costs |-> Diagnosis!MergeCosts(p[2], Diagnosis!ComputeCost(us[p[1]], m))]
<1>1. n \in Nat /\ \A k \in 1..n : us[k] \in Tokens
  OBVIOUS
<1>2. Diagnosis!NoCost \in Costs
  BY DEF Costs
<1>3. g \in [(1..n) \X Costs -> Costs]
  <2> SUFFICES ASSUME NEW p \in (1..n) \X Costs
               PROVE  Diagnosis!MergeCosts(p[2], Diagnosis!ComputeCost(us[p[1]], m)) \in Costs
    OBVIOUS
  <2>1. p[1] \in 1..n /\ p[2] \in Costs
    OBVIOUS
  <2>2. us[p[1]] \in Tokens
    BY <1>1, <2>1
  <2>3. Diagnosis!ComputeCost(us[p[1]], m) \in Costs
    BY <2>2, CostOfOne
  <2> QED
    BY <2>1, <2>3, Merging
<1>4. PICK f \in [0..n -> Costs] : f[0] = Diagnosis!NoCost /\ \A k \in 1..n : f[k] = g[<<k, f[k - 1]>>]
  <2>1. n \in Nat
    BY <1>1
  <2> HIDE DEF g, n
  <2>2. \E f \in [0..n -> Costs] : Folds(n, Diagnosis!NoCost, g, f)
    BY <2>1, <1>2, <1>3, Folding
  <2> QED
    BY <2>2 DEF Folds
<1>5. \A k \in 1..n : f[k] = Diagnosis!MergeCosts(f[k - 1], Diagnosis!ComputeCost(us[k], m))
  <2> TAKE k \in 1..n
  <2>1. <<k, f[k - 1]>> \in (1..n) \X Costs
    <3>1. k - 1 \in 0..n
      BY <1>1
    <3> QED
      BY <1>4, <3>1
  <2>2. g[<<k, f[k - 1]>>] = Diagnosis!MergeCosts(f[k - 1], Diagnosis!ComputeCost(us[k], m))
    BY <2>1
  <2> QED
    BY <1>4, <2>2
<1> HIDE DEF g
<1> DEFINE total == CHOOSE h : h = [i \in 0..n |-> IF i = 0 THEN Diagnosis!NoCost
                      ELSE Diagnosis!MergeCosts(h[i - 1], Diagnosis!ComputeCost(us[i], m))]
<1>6. f = [i \in 0..n |-> IF i = 0 THEN Diagnosis!NoCost
             ELSE Diagnosis!MergeCosts(f[i - 1], Diagnosis!ComputeCost(us[i], m))]
  <2>1. \A i \in 0..n : i # 0 => i \in 1..n
    BY <1>1
  <2> QED
    BY <1>4, <1>5, <2>1
<1>7. total = [i \in 0..n |-> IF i = 0 THEN Diagnosis!NoCost
                 ELSE Diagnosis!MergeCosts(total[i - 1], Diagnosis!ComputeCost(us[i], m))]
  BY <1>6
<1>8. Diagnosis!AggregateCost(us, m) = total[n]
  BY DEF Diagnosis!AggregateCost
<1> HIDE DEF total
<1>9. /\ total[0] = f[0]
      /\ \A k \in 1..n : total[k - 1] = f[k - 1] => total[k] = f[k]
  <2>1. 0 \in 0..n /\ \A k \in 1..n : k \in 0..n /\ k # 0
    BY <1>1
  <2>2. total[0] = f[0]
    BY <1>4, <1>7, <2>1
  <2>3. \A k \in 1..n : total[k] = Diagnosis!MergeCosts(total[k - 1], Diagnosis!ComputeCost(us[k], m))
    BY <1>7, <2>1
  <2> QED
    BY <1>5, <2>2, <2>3
<1>10. total[n] = f[n]
  <2>1. n \in Nat /\ n \in 0..n
    BY <1>1
  <2> HIDE DEF n
  <2>3. n \in Nat
    BY <2>1
  <2>4. Follows(n, total, f)
    BY <1>9 DEF Follows
  <2>2. \A k \in 0..n : total[k] = f[k]
    BY ONLY <2>3, <2>4, SameFold
  <2> QED
    BY <2>1, <2>2
<1>11. Totals(us, m, f)
  BY <1>4, <1>5 DEF Totals
<1> QED
  BY <1>8, <1>10, <1>11

LEMMA TotalAppend ==
    ASSUME NEW us \in Seq(Tokens), NEW u \in Tokens, NEW m
    PROVE  /\ Append(us, u) \in Seq(Tokens)
           /\ Diagnosis!AggregateCost(us, m) \in Costs
           /\ Diagnosis!AggregateCost(Append(us, u), m)
                = Diagnosis!MergeCosts(Diagnosis!AggregateCost(us, m), Diagnosis!ComputeCost(u, m))
<1> DEFINE n == Len(us)
           vs == Append(us, u)
<1>1. /\ n \in Nat /\ vs \in Seq(Tokens) /\ Len(vs) = n + 1 /\ vs[n + 1] = u
      /\ \A k \in 1..n : vs[k] = us[k]
  OBVIOUS
<1>2. PICK f : Totals(us, m, f) /\ Diagnosis!AggregateCost(us, m) = f[n]
  BY TotalIs
<1> HIDE DEF vs
<1>3. PICK h : Totals(vs, m, h) /\ Diagnosis!AggregateCost(vs, m) = h[n + 1]
  <2>1. \E h : Totals(vs, m, h) /\ Diagnosis!AggregateCost(vs, m) = h[Len(vs)]
    BY <1>1, TotalIs
  <2> QED
    BY <1>1, <2>1
<1> HIDE DEF n
<1>4. /\ \A k \in 1..n : k \in 1..(n + 1)
      /\ n \in 0..n /\ n + 1 \in 1..(n + 1) /\ (n + 1) - 1 = n
  BY <1>1
<1>5. Follows(n, h, f)
  BY <1>1, <1>2, <1>3, <1>4 DEF Totals, Follows, n
<1>6. h[n] = f[n]
  <2>1. \A k \in 0..n : h[k] = f[k]
    BY <1>1, <1>5, SameFold
  <2> QED
    BY <1>4, <2>1
<1>7. h[n + 1] = Diagnosis!MergeCosts(h[n], Diagnosis!ComputeCost(u, m))
  BY <1>1, <1>3, <1>4 DEF Totals
<1>8. f[n] \in Costs
  BY <1>2, <1>4 DEF Totals, n
<1> QED
  BY <1>1, <1>2, <1>3, <1>6, <1>7, <1>8 DEF vs

LEMMA NothingAggregated ==
    ASSUME NEW m PROVE Diagnosis!AggregateCost(<<>>, m) = Diagnosis!NoCost
<1>1. <<>> \in Seq(Tokens) /\ Len(<<>>) = 0
  BY EmptySeq
<1>2. PICK f : Totals(<<>>, m, f) /\ Diagnosis!AggregateCost(<<>>, m) = f[0]
  <2>1. \E f : Totals(<<>>, m, f) /\ Diagnosis!AggregateCost(<<>>, m) = f[Len(<<>>)]
    BY <1>1, TotalIs
  <2> QED
    BY <1>1, <2>1
<1> QED
  BY <1>2 DEF Totals

Bills == [in : Nat, out : Nat, price : Nat]
Attempt == [model : {"primary", "fallback"}, resp : Response]
NothingDue == [in |-> 0, out |-> 0, price |-> 0]

LEMMA UsageOf ==
    ASSUME NEW x \in Attempt
    PROVE  x.resp \in Response /\ x.resp.usage \in Tokens /\ x.model \in {"primary", "fallback"}
<1>1. x.resp \in Response /\ x.model \in {"primary", "fallback"}
  BY DEF Attempt
<1> QED
  BY <1>1, DiagnosisAssumption DEF Tokens

LEMMA ChargeIs ==
    ASSUME NEW b \in Bills, NEW x \in Attempt
    PROVE  Diagnosis!Charge(b, x) \in Bills
<1> DEFINE u == x.resp.usage
           price == (u.in + 6 * u.out) * Diagnosis!Rate(x.model, u.in)
<1>1. u \in Tokens
  BY UsageOf
<1>2. CASE Diagnosis!Uncounted(u)
  BY <1>2 DEF Diagnosis!Charge
<1>3. CASE ~Diagnosis!Uncounted(u)
  <2>1. u \in [in : Nat, out : Nat]
    BY <1>1, <1>3 DEF Tokens, Diagnosis!Uncounted, Diagnosis!Unknown
  <2>2. price \in Nat
    BY <1>1, <2>1, CostOfOne
  <2>3. Diagnosis!Charge(b, x) = [in |-> b.in + u.in, out |-> b.out + u.out, price |-> b.price + price]
    BY <1>3 DEF Diagnosis!Charge
  <2> HIDE DEF u, price
  <2>4. u.in \in Nat /\ u.out \in Nat /\ b.in \in Nat /\ b.out \in Nat /\ b.price \in Nat
    BY <2>1 DEF Bills
  <2> QED
    BY <2>2, <2>3, <2>4 DEF Bills
<1> QED
  BY <1>2, <1>3

Charges(list, f) ==
    /\ f \in [0..Len(list) -> Bills] /\ f[0] = NothingDue
    /\ \A k \in 1..Len(list) : f[k] = Diagnosis!Charge(f[k - 1], list[k])

LEMMA BillIs ==
    ASSUME NEW list \in Seq(Attempt)
    PROVE  \E f : Charges(list, f) /\ Diagnosis!Bill(list) = f[Len(list)]
<1> DEFINE n == Len(list)
           g == [p \in (1..n) \X Bills |-> Diagnosis!Charge(p[2], list[p[1]])]
<1>1. n \in Nat /\ \A k \in 1..n : list[k] \in Attempt
  OBVIOUS
<1>2. NothingDue \in Bills
  BY DEF NothingDue, Bills
<1>3. g \in [(1..n) \X Bills -> Bills]
  <2> SUFFICES ASSUME NEW p \in (1..n) \X Bills PROVE Diagnosis!Charge(p[2], list[p[1]]) \in Bills
    OBVIOUS
  <2>1. list[p[1]] \in Attempt /\ p[2] \in Bills
    BY <1>1
  <2> QED
    BY <2>1, ChargeIs
<1>4. PICK f \in [0..n -> Bills] : f[0] = NothingDue /\ \A k \in 1..n : f[k] = g[<<k, f[k - 1]>>]
  <2>1. n \in Nat
    BY <1>1
  <2> HIDE DEF g, n
  <2>2. \E f \in [0..n -> Bills] : Folds(n, NothingDue, g, f)
    BY <2>1, <1>2, <1>3, Folding
  <2> QED
    BY <2>2 DEF Folds
<1>5. \A k \in 1..n : f[k] = Diagnosis!Charge(f[k - 1], list[k])
  <2> TAKE k \in 1..n
  <2>1. <<k, f[k - 1]>> \in (1..n) \X Bills
    <3>1. k - 1 \in 0..n
      BY <1>1
    <3> QED
      BY <1>4, <3>1
  <2>2. g[<<k, f[k - 1]>>] = Diagnosis!Charge(f[k - 1], list[k])
    BY <2>1
  <2> QED
    BY <1>4, <2>2
<1> HIDE DEF g
<1> DEFINE after == CHOOSE h : h = [i \in 0..n |-> IF i = 0 THEN [in |-> 0, out |-> 0, price |-> 0]
                                                   ELSE Diagnosis!Charge(h[i - 1], list[i])]
<1>6. f = [i \in 0..n |-> IF i = 0 THEN [in |-> 0, out |-> 0, price |-> 0] ELSE Diagnosis!Charge(f[i - 1], list[i])]
  <2>1. \A i \in 0..n : i # 0 => i \in 1..n
    BY <1>1
  <2> QED
    BY <1>4, <1>5, <2>1 DEF NothingDue
<1>7. after = [i \in 0..n |-> IF i = 0 THEN [in |-> 0, out |-> 0, price |-> 0]
                              ELSE Diagnosis!Charge(after[i - 1], list[i])]
  BY <1>6
<1>8. Diagnosis!Bill(list) = after[n]
  BY DEF Diagnosis!Bill
<1> HIDE DEF after
<1>9. Follows(n, after, f)
  <2>1. 0 \in 0..n /\ \A k \in 1..n : k \in 0..n /\ k # 0
    BY <1>1
  <2>2. after[0] = f[0]
    BY <1>4, <1>7, <2>1 DEF NothingDue
  <2>3. \A k \in 1..n : after[k] = Diagnosis!Charge(after[k - 1], list[k])
    BY <1>7, <2>1
  <2> QED
    BY <1>5, <2>2, <2>3 DEF Follows
<1>10. after[n] = f[n]
  <2>1. n \in Nat /\ n \in 0..n
    BY <1>1
  <2> HIDE DEF n
  <2>2. n \in Nat
    BY <2>1
  <2>3. \A k \in 0..n : after[k] = f[k]
    BY ONLY <2>2, <1>9, SameFold
  <2> QED
    BY <2>1, <2>3
<1>11. Charges(list, f)
  BY <1>4, <1>5 DEF Charges
<1> QED
  BY <1>8, <1>10, <1>11

LEMMA BillAppend ==
    ASSUME NEW list \in Seq(Attempt), NEW x \in Attempt
    PROVE  /\ Diagnosis!Bill(list) \in Bills
           /\ Diagnosis!Bill(Append(list, x)) = Diagnosis!Charge(Diagnosis!Bill(list), x)
<1> DEFINE n == Len(list)
           more == Append(list, x)
<1>1. /\ n \in Nat /\ more \in Seq(Attempt) /\ Len(more) = n + 1 /\ more[n + 1] = x
      /\ \A k \in 1..n : more[k] = list[k]
  OBVIOUS
<1>2. PICK f : Charges(list, f) /\ Diagnosis!Bill(list) = f[n]
  BY BillIs
<1> HIDE DEF more
<1>3. PICK h : Charges(more, h) /\ Diagnosis!Bill(more) = h[n + 1]
  <2>1. \E h : Charges(more, h) /\ Diagnosis!Bill(more) = h[Len(more)]
    BY <1>1, BillIs
  <2> QED
    BY <1>1, <2>1
<1> HIDE DEF n
<1>4. /\ \A k \in 1..n : k \in 1..(n + 1)
      /\ n \in 0..n /\ n + 1 \in 1..(n + 1) /\ (n + 1) - 1 = n
  BY <1>1
<1>5. Follows(n, h, f)
  BY <1>1, <1>2, <1>3, <1>4 DEF Charges, Follows, n
<1>6. h[n] = f[n]
  <2>1. \A k \in 0..n : h[k] = f[k]
    BY <1>1, <1>5, SameFold
  <2> QED
    BY <1>4, <2>1
<1>7. h[n + 1] = Diagnosis!Charge(h[n], x)
  BY <1>1, <1>3, <1>4 DEF Charges
<1>8. f[n] \in Bills
  BY <1>2, <1>4 DEF Charges, n
<1> QED
  BY <1>1, <1>2, <1>3, <1>6, <1>7, <1>8 DEF more

LEMMA NothingBilled == Diagnosis!Bill(<<>>) = NothingDue
<1>1. <<>> \in Seq(Attempt) /\ Len(<<>>) = 0
  BY EmptySeq
<1>2. PICK f : Charges(<<>>, f) /\ Diagnosis!Bill(<<>>) = f[0]
  <2>1. \E f : Charges(<<>>, f) /\ Diagnosis!Bill(<<>>) = f[Len(<<>>)]
    BY <1>1, BillIs
  <2> QED
    BY <1>1, <2>1
<1> QED
  BY <1>2 DEF Charges

\* What a list of attempts is worth: nothing known where none has usage.
Worth(list) ==
    IF Diagnosis!Metered(list) = {} THEN Diagnosis!NoCost
    ELSE [cost |-> IF \A i \in Diagnosis!Metered(list) : list[i].model \in PricedModels
                     THEN Diagnosis!Bill(list).price ELSE -1,
          in |-> Diagnosis!Bill(list).in, out |-> Diagnosis!Bill(list).out]

LEMMA NothingMetered ==
    ASSUME NEW list \in Seq(Attempt), Diagnosis!Metered(list) = {}
    PROVE  Diagnosis!Bill(list) = NothingDue
<1> DEFINE n == Len(list)
           h == [k \in 0..n |-> NothingDue]
<1>1. PICK f : Charges(list, f) /\ Diagnosis!Bill(list) = f[n]
  BY BillIs
<1>2. n \in Nat /\ n \in 0..n /\ DOMAIN list = 1..n
  OBVIOUS
<1>3. \A k \in 1..n : Diagnosis!Uncounted(list[k].resp.usage)
  BY <1>2 DEF Diagnosis!Metered
<1>4. Follows(n, f, h)
  <2>1. f[0] = NothingDue /\ h[0] = NothingDue
    BY <1>1, <1>2 DEF Charges
  <2>2. ASSUME NEW k \in 1..n, f[k - 1] = h[k - 1] PROVE f[k] = h[k]
    <3>1. k - 1 \in 0..n /\ k \in 0..n
      BY <1>2
    <3>2. f[k] = Diagnosis!Charge(f[k - 1], list[k])
      BY <1>1 DEF Charges
    <3>3. f[k] = f[k - 1]
      BY <1>3, <3>2 DEF Diagnosis!Charge
    <3> QED
      BY <2>2, <3>1, <3>3
  <2> QED
    BY <2>1, <2>2 DEF Follows
<1>5. f[n] = h[n]
  <2> HIDE DEF h, n
  <2>1. \A k \in 0..n : f[k] = h[k]
    BY <1>2, <1>4, SameFold
  <2> QED
    BY <1>2, <2>1
<1> QED
  BY <1>1, <1>2, <1>5

LEMMA WorthIs ==
    ASSUME NEW list \in Seq(Attempt) PROVE Worth(list) \in Costs
<1>1. Diagnosis!Bill(list) \in Bills
  <2>1. PICK f : Charges(list, f) /\ Diagnosis!Bill(list) = f[Len(list)]
    BY BillIs
  <2>2. Len(list) \in 0..Len(list)
    OBVIOUS
  <2> QED
    BY <2>1, <2>2 DEF Charges
<1> QED
  BY <1>1 DEF Worth, Bills, Costs

LEMMA WorthAppend ==
    ASSUME NEW list \in Seq(Attempt), NEW x \in Attempt
    PROVE  Worth(Append(list, x)) = Diagnosis!MergeCosts(Worth(list), Diagnosis!ComputeCost(x.resp.usage, x.model))
<1> DEFINE n == Len(list)
           more == Append(list, x)
           u == x.resp.usage
           m == x.model
           M == Diagnosis!Metered(list)
           M2 == Diagnosis!Metered(more)
           b == Diagnosis!Bill(list)
           b2 == Diagnosis!Bill(more)
           price == (u.in + 6 * u.out) * Diagnosis!Rate(m, u.in)
           none == Diagnosis!NoCost
<1>1. /\ n \in Nat /\ more[n + 1] = x /\ \A k \in 1..n : more[k] = list[k]
      /\ DOMAIN list = 1..n /\ DOMAIN more = 1..(n + 1)
  OBVIOUS
<1>2. u \in Tokens
  BY UsageOf
<1>3. b \in Bills /\ b2 = Diagnosis!Charge(b, x)
  BY BillAppend
<1>4. Worth(list) \in Costs /\ Diagnosis!ComputeCost(u, m) \in Costs
  BY <1>2, WorthIs, CostOfOne
<1> HIDE DEF more
<1>5. /\ M \subseteq 1..n /\ M2 \subseteq 1..(n + 1)
      /\ \A k \in 1..n : k \in M2 <=> k \in M
      /\ n + 1 \in M2 <=> ~Diagnosis!Uncounted(u)
  BY <1>1 DEF Diagnosis!Metered
<1>6. CASE Diagnosis!Uncounted(u)
  <2>1. M2 = M
    <3> HIDE DEF M, M2, u
    <3>1. \A k \in 1..(n + 1) : k \in 1..n \/ k = n + 1
      BY <1>1
    <3>2. M2 \subseteq M
      BY <1>5, <1>6, <3>1
    <3>3. M \subseteq M2
      BY <1>5
    <3> QED
      BY <3>2, <3>3
  <2>2. b2 = b
    BY <1>3, <1>6 DEF Diagnosis!Charge
  <2>3. \A i \in M : more[i].model = list[i].model
    BY <1>1, <1>5
  <2>4. Worth(more) = Worth(list)
    <3> HIDE DEF b, b2, M, M2
    <3>1. (\A i \in M2 : more[i].model \in PricedModels) <=> (\A i \in M : list[i].model \in PricedModels)
      BY <2>1, <2>3
    <3> QED
      BY <2>1, <2>2, <3>1 DEF Worth, b, b2, M, M2
  <2>5. Diagnosis!ComputeCost(u, m) = Diagnosis!NoCost
    BY <1>2, <1>6, CostOfOne
  <2>6. Diagnosis!MergeCosts(Worth(list), Diagnosis!NoCost) = Worth(list)
    BY <1>4, Merging
  <2> QED
    BY <2>4, <2>5, <2>6 DEF more
<1>7. CASE ~Diagnosis!Uncounted(u)
  <2>1. u \in [in : Nat, out : Nat]
    BY <1>2, <1>7 DEF Tokens, Diagnosis!Uncounted, Diagnosis!Unknown
  <2>2. /\ price \in Nat
        /\ Diagnosis!ComputeCost(u, m) = [cost |-> IF m \in PricedModels THEN price ELSE -1, in |-> u.in, out |-> u.out]
    BY <1>2, <2>1, CostOfOne
  <2>3. b2 = [in |-> b.in + u.in, out |-> b.out + u.out, price |-> b.price + price]
    BY <1>3, <1>7 DEF Diagnosis!Charge
  <2>4. u.in \in Nat /\ u.out \in Nat /\ b.in \in Nat /\ b.out \in Nat /\ b.price \in Nat
    BY <2>1, <1>3 DEF Bills
  <2> DEFINE own == m \in PricedModels
             whole == \A i \in M : list[i].model \in PricedModels
  <2>5. (\A i \in M2 : more[i].model \in PricedModels) <=> whole /\ own
    <3>1. \A i \in M2 : i \in M \/ i = n + 1
      BY <1>1, <1>5
    <3>2. n + 1 \in M2 /\ M \subseteq M2
      BY <1>1, <1>5, <1>7
    <3>3. more[n + 1].model = m /\ \A i \in M : more[i].model = list[i].model
      BY <1>1, <1>5
    <3> HIDE DEF M, M2, m
    <3> QED
      BY <3>1, <3>2, <3>3
  <2>6. M2 # {}
    BY <1>5, <1>7
  <2>7. Worth(more) = [cost |-> IF whole /\ own THEN b.price + price ELSE -1, in |-> b.in + u.in, out |-> b.out + u.out]
    <3>1. b2.price = b.price + price /\ b2.in = b.in + u.in /\ b2.out = b.out + u.out
      BY <2>3
    <3> HIDE DEF b, b2, whole, own, price, u
    <3> QED
      BY <2>5, <2>6, <3>1 DEF Worth, b2
  <2>8. CASE M = {}
    <3>1. Worth(list) = none /\ b = NothingDue /\ whole
      BY <2>8, NothingMetered DEF Worth
    <3>2. Diagnosis!MergeCosts(none, Diagnosis!ComputeCost(u, m)) = Diagnosis!ComputeCost(u, m)
      BY <1>4, Merging
    <3>3. b.in = 0 /\ b.out = 0 /\ b.price = 0
      BY <3>1 DEF NothingDue
    <3> HIDE DEF b, whole, own, price, u, none
    <3>4. Worth(more) = [cost |-> IF own THEN price ELSE -1, in |-> u.in, out |-> u.out]
      BY <2>2, <2>4, <2>7, <3>1, <3>3
    <3> QED
      BY <2>2, <3>1, <3>2, <3>4 DEF own, more, u
  <2>9. CASE M # {}
    <3>1. Worth(list) = [cost |-> IF whole THEN b.price ELSE -1, in |-> b.in, out |-> b.out]
      BY <2>9 DEF Worth
    <3> DEFINE c == IF whole THEN b.price ELSE -1
               d == IF own THEN price ELSE -1
    <3> HIDE DEF b, u, whole, own, price
    <3>2. Diagnosis!MergeCosts([cost |-> c, in |-> b.in, out |-> b.out], [cost |-> d, in |-> u.in, out |-> u.out])
            = [cost |-> IF -1 \in {c, d} THEN -1 ELSE c + d, in |-> b.in + u.in, out |-> b.out + u.out]
      <4> DEFINE x1 == [cost |-> c, in |-> b.in, out |-> b.out]
                 x2 == [cost |-> d, in |-> u.in, out |-> u.out]
      <4>1. x1.in # -1 /\ x2.in # -1
        BY <2>4
      <4>2. x1 # Diagnosis!NoCost /\ x2 # Diagnosis!NoCost
        BY <4>1 DEF Diagnosis!NoCost, Diagnosis!Unknown
      <4> HIDE DEF c, d
      <4> QED
        BY <4>2 DEF Diagnosis!MergeCosts, Diagnosis!Unknown
    <3>3. (IF -1 \in {c, d} THEN -1 ELSE c + d) = IF whole /\ own THEN b.price + price ELSE -1
      BY <2>2, <2>4
    <3> HIDE DEF c, d
    <3> QED
      BY <2>2, <2>7, <3>1, <3>2, <3>3 DEF more, u, own, c, d
  <2> QED
    BY <2>8, <2>9
<1> QED
  BY <1>6, <1>7

\* The ledgers of the two models together hold every attempt received.
LedgerInv ==
    /\ tier \in {"primary", "fallback"}
    /\ received \in Seq(Attempt)
    /\ ledger \in [{"primary", "fallback"} -> Seq(Tokens)]
    /\ attempted \in Seq({"primary", "fallback"})
    /\ tier = "primary" => ledger["fallback"] = <<>>
    /\ dpc = "client" => received = <<>>
    /\ dpc = "send" => tier \in Diagnosis!ToSet(attempted)
    /\ \A i \in DOMAIN received : received[i].model \in Diagnosis!ToSet(attempted)
    /\ Diagnosis!AggregateCombinedCost = Worth(received)
    /\ ~Asking => answer.cost = Worth(received)

LEMMA LedgerInit ==
    ASSUME Diagnosis!Init PROVE LedgerInv
<1>1. /\ tier = "primary" /\ received = <<>> /\ attempted = <<>> /\ dpc = "client"
      /\ ledger = [m \in {"primary", "fallback"} |-> <<>>]
  BY DEF Diagnosis!Init, Diagnosis!Models
<1>2. <<>> \in Seq(Attempt) /\ <<>> \in Seq(Tokens) /\ <<>> \in Seq({"primary", "fallback"}) /\ DOMAIN <<>> = {}
  BY EmptySeq
<1>3. Diagnosis!AggregateCombinedCost = Diagnosis!NoCost
  <2>1. Diagnosis!AggregateCombinedCost
          = Diagnosis!MergeCosts(Diagnosis!AggregateCost(<<>>, "primary"), Diagnosis!AggregateCost(<<>>, "fallback"))
    BY <1>1 DEF Diagnosis!AggregateCombinedCost
  <2>2. Diagnosis!MergeCosts(Diagnosis!NoCost, Diagnosis!NoCost) = Diagnosis!NoCost
    BY DEF Diagnosis!MergeCosts
  <2> QED
    BY <2>1, <2>2, NothingAggregated
<1>4. Worth(received) = Diagnosis!NoCost
  <2>1. Diagnosis!Metered(received) = {}
    BY <1>1, <1>2 DEF Diagnosis!Metered
  <2> QED
    BY <2>1 DEF Worth
<1>5. ledger \in [{"primary", "fallback"} -> Seq(Tokens)] /\ ledger["fallback"] = <<>>
  BY <1>1, <1>2
<1>6. Asking
  BY <1>1 DEF Asking
<1> QED
  BY <1>1, <1>2, <1>3, <1>4, <1>5, <1>6 DEF LedgerInv

\* A response enters the running model's ledger with everything received.
LEMMA ReceiveBills ==
    ASSUME LedgerInv, NEW resp \in Response, Diagnosis!Receive(resp), UNCHANGED attempted
    PROVE  /\ received' \in Seq(Attempt)
           /\ ledger' \in [{"primary", "fallback"} -> Seq(Tokens)]
           /\ \A i \in DOMAIN received' : received'[i].model \in Diagnosis!ToSet(attempted)
           /\ tier = "primary" => ledger'["fallback"] = <<>>
           /\ Diagnosis!AggregateCombinedCost' = Worth(received')
<1> DEFINE x == [model |-> tier, resp |-> resp]
           u == resp.usage
           was(m) == Diagnosis!AggregateCost(ledger[m], m)
           is(m) == Diagnosis!AggregateCost(ledger'[m], m)
           cost == Diagnosis!ComputeCost(u, tier)
<1>1. /\ dpc = "send" /\ received' = Append(received, x) /\ ledger' = [ledger EXCEPT ![tier] = Append(@, u)]
  BY DEF Diagnosis!Receive
<1>2. /\ x \in Attempt /\ x.model = tier /\ x.resp.usage = u
      /\ received \in Seq(Attempt) /\ tier \in {"primary", "fallback"}
      /\ ledger \in [{"primary", "fallback"} -> Seq(Tokens)]
  BY DEF LedgerInv, Attempt
<1>3. u \in Tokens
  BY <1>2, UsageOf
<1> HIDE DEF x, u
<1>4. received' \in Seq(Attempt)
  BY <1>1, <1>2
<1>5. \A i \in DOMAIN received' : received'[i] = x \/ (i \in DOMAIN received /\ received'[i] = received[i])
  BY <1>1, <1>2
<1>6. \A i \in DOMAIN received' : received'[i].model \in Diagnosis!ToSet(attempted)
  BY <1>1, <1>2, <1>5 DEF LedgerInv
<1>7. /\ ledger[tier] \in Seq(Tokens) /\ ledger["primary"] \in Seq(Tokens) /\ ledger["fallback"] \in Seq(Tokens)
  BY <1>2
<1>8. /\ Append(ledger[tier], u) \in Seq(Tokens)
      /\ was(tier) \in Costs
      /\ Diagnosis!AggregateCost(Append(ledger[tier], u), tier) = Diagnosis!MergeCosts(was(tier), cost)
  BY <1>3, <1>7, TotalAppend
<1>9. /\ ledger' \in [{"primary", "fallback"} -> Seq(Tokens)]
      /\ ledger'[tier] = Append(ledger[tier], u)
      /\ \A m \in {"primary", "fallback"} : m # tier => ledger'[m] = ledger[m]
  BY <1>1, <1>2, <1>8
<1>10. tier = "primary" => ledger'["fallback"] = <<>>
  BY <1>9 DEF LedgerInv
<1>11. Worth(received') = Diagnosis!MergeCosts(Worth(received), cost)
  BY <1>1, <1>2, WorthAppend
<1>12. cost \in Costs /\ was("primary") \in Costs /\ was("fallback") \in Costs
  BY <1>3, <1>7, CostOfOne, TotalAppend
<1>13. Worth(received) = Diagnosis!MergeCosts(was("primary"), was("fallback"))
  BY DEF LedgerInv, Diagnosis!AggregateCombinedCost
<1>14. Diagnosis!AggregateCombinedCost' = Diagnosis!MergeCosts(is("primary"), is("fallback"))
  BY DEF Diagnosis!AggregateCombinedCost
<1> HIDE DEF cost
<1>15. CASE tier = "primary"
  <2>1. is("primary") = Diagnosis!MergeCosts(was("primary"), cost) /\ is("fallback") = Diagnosis!NoCost
    BY <1>8, <1>9, <1>10, <1>15, NothingAggregated
  <2>2. was("fallback") = Diagnosis!NoCost
    BY <1>15, NothingAggregated DEF LedgerInv
  <2> DEFINE a == was("primary")
  <2>3. Diagnosis!AggregateCombinedCost' = Diagnosis!MergeCosts(Diagnosis!MergeCosts(a, cost), Diagnosis!NoCost)
    BY <1>14, <2>1
  <2>4. Worth(received) = Diagnosis!MergeCosts(a, Diagnosis!NoCost)
    BY <1>13, <2>2
  <2>5. a \in Costs
    BY <1>12
  <2> HIDE DEF a
  <2>6. Worth(received) = a /\ Diagnosis!MergeCosts(a, cost) \in Costs
    BY <1>12, <2>4, <2>5, Merging
  <2>7. Diagnosis!MergeCosts(Diagnosis!MergeCosts(a, cost), Diagnosis!NoCost) = Diagnosis!MergeCosts(a, cost)
    BY <2>6, Merging
  <2> QED
    BY <1>4, <1>6, <1>9, <1>10, <1>11, <2>3, <2>6, <2>7
<1>16. CASE tier = "fallback"
  <2>1. is("fallback") = Diagnosis!MergeCosts(was("fallback"), cost) /\ is("primary") = was("primary")
    BY <1>8, <1>9, <1>16
  <2> DEFINE a == was("primary")
             b == was("fallback")
  <2>2. Diagnosis!AggregateCombinedCost' = Diagnosis!MergeCosts(a, Diagnosis!MergeCosts(b, cost))
    BY <1>14, <2>1
  <2>3. Worth(received) = Diagnosis!MergeCosts(a, b) /\ a \in Costs /\ b \in Costs
    BY <1>12, <1>13
  <2> HIDE DEF a, b
  <2>4. Diagnosis!MergeCosts(a, Diagnosis!MergeCosts(b, cost)) = Diagnosis!MergeCosts(Diagnosis!MergeCosts(a, b), cost)
    BY <1>12, <2>3, Merging
  <2> QED
    BY <1>4, <1>6, <1>9, <1>10, <1>11, <2>2, <2>3, <2>4
<1> QED
  BY <1>2, <1>15, <1>16

LEMMA LedgerStep ==
    ASSUME LedgerInv, Diagnosis!Next PROVE LedgerInv'
<1>1. CASE Diagnosis!MakeClient
  <2>1. dpc' = "chat" /\ UNCHANGED <<tier, received, ledger, attempted, answer>> /\ Asking
    BY <1>1 DEF Diagnosis!MakeClient, Asking
  <2>2. Asking'
    BY <2>1 DEF Asking
  <2> QED
    BY <2>1, <2>2 DEF LedgerInv, Diagnosis!AggregateCombinedCost
<1>2. CASE Diagnosis!MakeChat
  <2>1. dpc' = "send" /\ UNCHANGED <<tier, received, ledger, answer>> /\ attempted' = Append(attempted, tier)
    BY <1>2 DEF Diagnosis!MakeChat
  <2>2. Asking'
    BY <2>1 DEF Asking
  <2>3. attempted \in Seq({"primary", "fallback"}) /\ tier \in {"primary", "fallback"}
    BY DEF LedgerInv
  <2>4. /\ attempted' \in Seq({"primary", "fallback"})
        /\ tier \in Diagnosis!ToSet(attempted') /\ Diagnosis!ToSet(attempted) \subseteq Diagnosis!ToSet(attempted')
    <3>1. /\ DOMAIN attempted' = 1..(Len(attempted) + 1) /\ Len(attempted) \in Nat
          /\ attempted'[Len(attempted) + 1] = tier /\ attempted' \in Seq({"primary", "fallback"})
          /\ DOMAIN attempted = 1..Len(attempted)
          /\ \A i \in 1..Len(attempted) : attempted'[i] = attempted[i]
      BY <2>1, <2>3
    <3>2. Len(attempted) + 1 \in DOMAIN attempted' /\ DOMAIN attempted \subseteq DOMAIN attempted'
      BY <3>1
    <3> QED
      BY <3>1, <3>2 DEF Diagnosis!ToSet
  <2>5. \A i \in DOMAIN received' : received'[i].model \in Diagnosis!ToSet(attempted')
    BY <2>1, <2>4 DEF LedgerInv
  <2> QED
    BY <2>1, <2>2, <2>4, <2>5 DEF LedgerInv, Diagnosis!AggregateCombinedCost
<1>3. CASE Diagnosis!Raise
  <2>1. /\ dpc' = "main" /\ UNCHANGED <<tier, received, ledger, attempted>>
        /\ answer'.cost = IF dpc = "client" THEN Diagnosis!NoCost ELSE Diagnosis!AggregateCombinedCost
    BY <1>3 DEF Diagnosis!Raise, Diagnosis!Raised
  <2>2. answer'.cost = Worth(received)
    <3>1. CASE dpc = "client"
      <4>1. Diagnosis!Metered(received) = {}
        <5>1. received = <<>> /\ DOMAIN <<>> = {}
          BY <3>1 DEF LedgerInv
        <5> QED
          BY <5>1 DEF Diagnosis!Metered
      <4> QED
        BY <2>1, <3>1, <4>1 DEF Worth
    <3> QED
      BY <2>1, <3>1 DEF LedgerInv
  <2> QED
    BY <2>1, <2>2 DEF LedgerInv, Diagnosis!AggregateCombinedCost
<1>4. ASSUME NEW resp \in Response, Diagnosis!Retry(resp) PROVE LedgerInv'
  <2>1. Diagnosis!Receive(resp) /\ UNCHANGED <<dpc, tier, attempted, answer>> /\ dpc = "send"
    BY <1>4 DEF Diagnosis!Retry, Diagnosis!Receive
  <2>2. Asking'
    BY <2>1 DEF Asking
  <2> QED
    BY <2>1, <2>2, ReceiveBills DEF LedgerInv
<1>5. ASSUME NEW resp \in Response, Diagnosis!FallBack(resp) PROVE LedgerInv'
  <2>1. Diagnosis!Receive(resp) /\ tier' = "fallback" /\ dpc' = "chat" /\ UNCHANGED <<attempted, answer>>
    BY <1>5 DEF Diagnosis!FallBack
  <2>2. Asking'
    BY <2>1 DEF Asking
  <2> QED
    BY <2>1, <2>2, ReceiveBills DEF LedgerInv
<1>6. ASSUME NEW resp \in Response, Diagnosis!Return(resp) PROVE LedgerInv'
  <2>1. /\ Diagnosis!Receive(resp) /\ dpc' = "main" /\ UNCHANGED <<tier, attempted>>
        /\ answer'.cost = Diagnosis!AggregateCombinedCost'
    BY <1>6 DEF Diagnosis!Return, Diagnosis!Answered
  <2> QED
    BY <2>1, ReceiveBills DEF LedgerInv
<1>7. ASSUME Diagnosis!Publish \/ \E file, json, outputs \in BOOLEAN : Diagnosis!WriteOutputs(file, json, outputs)
      PROVE  LedgerInv'
  <2>1. ~Asking /\ dpc' \in {"publish", "done"} /\ UNCHANGED <<tier, received, ledger, attempted, answer>>
    BY <1>7 DEF Diagnosis!Publish, Diagnosis!WriteOutputs, Asking
  <2> QED
    BY <2>1 DEF LedgerInv, Diagnosis!AggregateCombinedCost
<1> QED
  BY <1>1, <1>2, <1>3, <1>4, <1>5, <1>6, <1>7 DEF Diagnosis!Next

\* Every attempt that reported both its counts is in the total, returned or
\* raised, at the price of the model that answered (compute_cost,
\* _merge_cost_tuples, partial_usage).
THEOREM AttemptsAreBilled == MCSpec => []EveryAttemptBilled
<1>1. MCInit => LedgerInv
  BY LedgerInit DEF MCInit
<1>2. LedgerInv /\ UNCHANGED diagnosisVars => LedgerInv'
  BY DEF diagnosisVars, LedgerInv, Asking, Diagnosis!AggregateCombinedCost
<1>3. LedgerInv /\ Diagnosis!Next => LedgerInv'
  BY LedgerStep
<1>4. [MCNext]_allVars => Diagnosis!Next \/ UNCHANGED diagnosisVars
  BY DEF MCNext, allVars
<1>5. ASSUME LedgerInv PROVE Diagnosis!EveryAttemptBilled
  <2>1. {received[i].model : i \in DOMAIN received} \subseteq Diagnosis!ToSet(attempted)
    BY <1>5 DEF LedgerInv
  <2>2. ASSUME Diagnosis!Over PROVE answer.cost = Worth(received)
    BY <1>5, <2>2 DEF LedgerInv, Diagnosis!Over, Asking
  <2>3. Diagnosis!Metered(received) = {} => Worth(received) = Diagnosis!NoCost
    BY DEF Worth
  <2>4. Diagnosis!Metered(received) # {} =>
          /\ Worth(received).in = Diagnosis!Bill(received).in
          /\ Worth(received).out = Diagnosis!Bill(received).out
          /\ Worth(received).cost =
               IF \A i \in Diagnosis!Metered(received) : received[i].model \in PricedModels
                 THEN Diagnosis!Bill(received).price ELSE Diagnosis!Unknown
    BY DEF Worth, Diagnosis!Unknown
  <2> QED
    BY <2>1, <2>2, <2>3, <2>4 DEF Diagnosis!EveryAttemptBilled
<1>6. LedgerInv => EveryAttemptBilled
  BY <1>5 DEF EveryAttemptBilled
<1> QED
  BY <1>1, <1>2, <1>3, <1>4, <1>6, PTL DEF MCSpec

-----------------------------------------------------------------------------
(* Trends.                                                                 *)

\* A test outcome of this run was uploaded.
Evidenced(r) ==
    \E a \in Artifact : art[r][a] # "absent" /\ \E t \in Test : Content[r][a][t] \in {"pass", "fail"}
\* The exporter lists the run for as long as its artifacts live.
Remembered(r) == today < Days!DayOf(r) + Retention => \E x \in rows[r] : x.e2e

\* What is stored of a day comes from the runs of that day, whose artifacts
\* and rows are still there inside the window.
StoredInv ==
    /\ \A x \in db.runs : x.day = Days!DayOf(x.run)
    /\ \A p \in db.days :
          /\ p.parsed = Cardinality(p.ids) /\ p.ids \subseteq TrendRun
          /\ \A r \in p.ids : Days!DayOf(r) = p.day /\ Evidenced(r) /\ Remembered(r)

\* A pass knows the runs of the days it lists, and one that read everything
\* so far has parsed again what was parsed before.
PassInv ==
    pass.pc # "idle" =>
      /\ pass = [pc |-> pass.pc, runs |-> pass.runs, today |-> pass.today, force |-> pass.force,
                 clean |-> pass.clean, got |-> pass.got, left |-> pass.left]
      /\ pass.pc \in {"fetch", "write"} /\ pass.today \in Nat
      /\ pass.left \subseteq DOMAIN pass.got /\ (pass.left = {} <=> pass.pc = "write")
      /\ pass.got = [r \in DOMAIN pass.got |-> pass.got[r]]
      /\ \A c \in pass.runs : /\ c.run \in TrendRun /\ c.run \in DOMAIN pass.got
                              /\ c.day = Days!DayOf(c.run) /\ Remembered(c.run)
      /\ \A r \in DOMAIN pass.got :
            /\ r \in TrendRun /\ pass.got[r] \subseteq [test : Test, passed : BOOLEAN]
            /\ pass.got[r] # {} => Evidenced(r)
      /\ pass.clean =>
            \A p \in db.days : \A c \in pass.runs : p.day = c.day /\ p.day > pass.today - Retention =>
              \A r \in p.ids : /\ \E k \in pass.runs : k.run = r
                               /\ r \in pass.left \/ pass.got[r] # {}

TrendsType ==
    /\ world \in World /\ today \in Nat /\ DOMAIN rows = TrendRun
    /\ art \in [TrendRun -> [Artifact -> {"absent", "live", "expired"}]]

TrendsInv == TrendsType /\ StoredInv /\ PassInv


LEMMA TrendsStart ==
    ASSUME Days!Init PROVE TrendsInv
<1>1. world \in World /\ today = 0 /\ db.runs = {} /\ db.days = {} /\ pass.pc = "idle"
  BY DEF Days!Init, Days!Empty, Days!Idle
<1>2. art \in [TrendRun -> [Artifact -> {"absent", "live", "expired"}]] /\ DOMAIN rows = TrendRun
  BY DEF Days!Init
<1> QED
  BY <1>1, <1>2 DEF TrendsInv, TrendsType, StoredInv, PassInv

\* What was uploaded stays known, and so do the rows of the runs inside the
\* window.
LEMMA EvidenceStays ==
    ASSUME TrendsType', world' = world, db' = db, pass' = pass, TrendsInv,
           \A r \in TrendRun : (Evidenced(r) => Evidenced(r)') /\ (Remembered(r) => Remembered(r)')
    PROVE  TrendsInv'
<1>1. \A r : Days!DayOf(r)' = Days!DayOf(r)
  BY DEF Days!DayOf
<1>2. StoredInv'
  BY <1>1 DEF TrendsInv, StoredInv
<1>3. PassInv'
  <2> SUFFICES ASSUME pass.pc # "idle" PROVE PassInv'
    BY DEF PassInv
  <2>1. PassInv /\ pass.pc # "idle"
    BY DEF TrendsInv
  <2>2. \A c \in pass.runs : /\ c.run \in TrendRun /\ c.run \in DOMAIN pass.got
                             /\ c.day = Days!DayOf(c.run)' /\ Remembered(c.run)'
    BY <2>1, <1>1 DEF PassInv
  <2>3. \A r \in DOMAIN pass.got :
           /\ r \in TrendRun /\ pass.got[r] \subseteq [test : Test, passed : BOOLEAN]
           /\ pass.got[r] # {} => Evidenced(r)'
    BY <2>1 DEF PassInv
  <2> QED
    BY <2>1, <2>2, <2>3 DEF PassInv
<1> QED
  BY <1>2, <1>3 DEF TrendsInv

\* The clock, GitHub and the exporter.
LEMMA WorldMoves ==
    ASSUME TrendsInv, UNCHANGED world,
           \/ Days!Tick
           \/ \E r \in TrendRun, a \in Artifact : Days!Upload(r, a) \/ Days!Expire(r, a)
           \/ \E r \in TrendRun : Days!PruneRows(r) \/ \E x \in world[r].rows : Days!StoreRow(r, x)
    PROVE  TrendsInv'
<1>1. TrendsType /\ Retention \in Nat /\ \A r \in TrendRun : Days!DayOf(r) \in Nat
  BY TrendsAssumption DEF TrendsInv, TrendsType, Days!DayOf
<1>2. CASE Days!Tick
  <2>1. today' = today + 1 /\ UNCHANGED <<rows, art, db, pass>>
    BY <1>2 DEF Days!Tick
  <2>2. TrendsType'
    BY <1>1, <2>1 DEF TrendsType
  <2>3. ASSUME NEW r \in TrendRun PROVE (Evidenced(r) => Evidenced(r)') /\ (Remembered(r) => Remembered(r)')
    <3>1. Evidenced(r)' = Evidenced(r)
      BY <2>1 DEF Evidenced
    <3>2. today' < Days!DayOf(r)' + Retention => today < Days!DayOf(r) + Retention
      BY <1>1, <2>1 DEF TrendsType, Days!DayOf
    <3> QED
      BY <2>1, <3>1, <3>2 DEF Remembered
  <2> QED
    BY <2>1, <2>2, <2>3, EvidenceStays
<1>3. ASSUME NEW r \in TrendRun, NEW a \in Artifact, Days!Upload(r, a) \/ Days!Expire(r, a)
      PROVE  TrendsInv'
  <2>1. /\ UNCHANGED <<today, rows, db, pass>>
        /\ \E v \in {"live", "expired"} : art' = [art EXCEPT ![r][a] = v]
    BY <1>3 DEF Days!Upload, Days!Expire
  <2>2. PICK v \in {"live", "expired"} : art' = [art EXCEPT ![r][a] = v]
    BY <2>1
  <2>3. TrendsType'
    BY <1>1, <2>1, <2>2 DEF TrendsType
  <2>4. \A s \in TrendRun, b \in Artifact : art[s][b] # "absent" => art'[s][b] # "absent"
    BY <1>1, <2>2 DEF TrendsType
  <2>5. \A s \in TrendRun : Evidenced(s) => Evidenced(s)'
    BY <2>4 DEF Evidenced
  <2>6. \A s \in TrendRun : Remembered(s)' = Remembered(s)
    BY <2>1 DEF Remembered, Days!DayOf
  <2> QED
    BY <2>1, <2>3, <2>5, <2>6, EvidenceStays
<1>4. ASSUME NEW r \in TrendRun, Days!PruneRows(r) \/ \E x \in world[r].rows : Days!StoreRow(r, x)
      PROVE  TrendsInv'
  <2>1. UNCHANGED <<today, art, db, pass>> /\ DOMAIN rows' = DOMAIN rows
        /\ \A s \in TrendRun : rows[s] \subseteq rows'[s] \/ today >= Days!DayOf(s) + Retention
    <3>1. CASE Days!PruneRows(r)
      <4>1. /\ UNCHANGED <<today, art, db, pass>> /\ today >= Days!DayOf(r) + Retention
            /\ rows' = [rows EXCEPT ![r] = {}]
        BY <3>1 DEF Days!PruneRows
      <4> QED
        BY <4>1
    <3>2. ASSUME NEW x, Days!StoreRow(r, x)
          PROVE  /\ UNCHANGED <<today, art, db, pass>> /\ DOMAIN rows' = DOMAIN rows
                 /\ \A s \in TrendRun : rows[s] \subseteq rows'[s]
      <4>1. UNCHANGED <<today, art, db, pass>> /\ rows' = [rows EXCEPT ![r] = @ \cup {x}]
        BY <3>2 DEF Days!StoreRow
      <4> QED
        BY <1>1, <4>1 DEF TrendsType
    <3> QED
      BY <1>4, <3>1, <3>2
  <2>2. TrendsType'
    BY <1>1, <2>1 DEF TrendsType
  <2>3. ASSUME NEW s \in TrendRun PROVE (Evidenced(s) => Evidenced(s)') /\ (Remembered(s) => Remembered(s)')
    <3>1. Evidenced(s)' = Evidenced(s)
      BY <2>1 DEF Evidenced
    <3>2. CASE rows[s] \subseteq rows'[s]
      BY <2>1, <3>1, <3>2 DEF Remembered, Days!DayOf
    <3>3. CASE today >= Days!DayOf(s) + Retention
      <4>1. ~(today < Days!DayOf(s) + Retention)
        BY <1>1, <3>3 DEF TrendsType
      <4> QED
        BY <2>1, <3>1, <4>1 DEF Remembered, Days!DayOf
    <3> QED
      BY <2>1, <3>2, <3>3
  <2> QED
    BY <2>1, <2>2, <2>3, EvidenceStays
<1> QED
  BY <1>2, <1>3, <1>4

\* A pass lists every run with rows of the days it covers.
LEMMA PassStarts ==
    ASSUME TrendsInv, UNCHANGED world, NEW covered, NEW force, Days!Start(covered, force)
    PROVE  TrendsInv'
<1> DEFINE runs == Days!CandidateRuns(covered)
           ids == {c.run : c \in runs}
<1>1. /\ pass = Days!Idle /\ UNCHANGED <<today, rows, art>>
      /\ db' = Days!Pruned(db, today - Retention)
      /\ pass' = IF runs = {} THEN Days!Idle
                 ELSE [pc |-> "fetch", runs |-> runs, today |-> today, force |-> force, clean |-> TRUE,
                       got |-> [r \in ids |-> {}], left |-> ids]
  BY DEF Days!Start
<1>2. TrendsType' /\ today \in Nat /\ Retention \in Nat /\ \A r \in TrendRun : Days!DayOf(r) \in Nat
  BY <1>1, TrendsAssumption DEF TrendsInv, TrendsType, Days!DayOf
<1>3. /\ \A r : Days!DayOf(r)' = Days!DayOf(r)
      /\ \A r : Evidenced(r)' = Evidenced(r) /\ Remembered(r)' = Remembered(r)
  BY <1>1 DEF Days!DayOf, Evidenced, Remembered
<1>4. db'.runs \subseteq db.runs /\ db'.days \subseteq db.days
  BY <1>1 DEF Days!Pruned
<1>5. StoredInv'
  BY <1>3, <1>4 DEF TrendsInv, StoredInv
<1>6. \A c \in runs : /\ c.run \in TrendRun /\ c.day = Days!DayOf(c.run) /\ c.day \in covered
                      /\ \E x \in rows[c.run] : x.e2e
  BY DEF Days!CandidateRuns
<1>7. \A r \in TrendRun : Days!DayOf(r) \in covered /\ (\E x \in rows[r] : x.e2e) => \E c \in runs : c.run = r
  <2> SUFFICES ASSUME NEW r \in TrendRun, Days!DayOf(r) \in covered, \E x \in rows[r] : x.e2e
               PROVE  \E c \in runs : c.run = r
    OBVIOUS
  <2> DEFINE k == [run |-> r, day |-> Days!DayOf(r), sha |-> Days!SourceSha(r), label |-> Days!Label(r)]
  <2>1. k \in runs
    BY DEF Days!CandidateRuns
  <2>2. k.run = r
    OBVIOUS
  <2> HIDE DEF k, runs
  <2> QED
    BY <2>1, <2>2
<1> HIDE DEF runs
<1>8. PassInv'
  <2> SUFFICES ASSUME pass'.pc # "idle" PROVE PassInv'
    BY DEF PassInv
  <2>1. /\ runs # {} /\ pass'.pc = "fetch" /\ pass'.runs = runs /\ pass'.today = today /\ pass'.clean = TRUE
        /\ pass'.got = [r \in ids |-> {}] /\ pass'.left = ids
        /\ pass' = [pc |-> "fetch", runs |-> runs, today |-> today, force |-> force, clean |-> TRUE,
                    got |-> [r \in ids |-> {}], left |-> ids]
    BY <1>1 DEF Days!Idle
  <2>2. /\ pass' = [pc |-> pass'.pc, runs |-> pass'.runs, today |-> pass'.today, force |-> pass'.force,
                    clean |-> pass'.clean, got |-> pass'.got, left |-> pass'.left]
        /\ pass'.got = [r \in DOMAIN pass'.got |-> pass'.got[r]]
    BY <2>1
  <2>3. /\ pass'.pc \in {"fetch", "write"} /\ pass'.today \in Nat
        /\ pass'.left \subseteq DOMAIN pass'.got /\ (pass'.left = {} <=> pass'.pc = "write")
    BY <1>2, <2>1
  <2>4. \A c \in pass'.runs : /\ c.run \in TrendRun /\ c.run \in DOMAIN pass'.got
                              /\ c.day = Days!DayOf(c.run)' /\ Remembered(c.run)'
    BY <1>3, <1>6, <2>1 DEF Remembered
  <2>5. \A r \in DOMAIN pass'.got :
            /\ r \in TrendRun /\ pass'.got[r] \subseteq [test : Test, passed : BOOLEAN]
            /\ pass'.got[r] # {} => Evidenced(r)'
    BY <1>6, <2>1
  <2>6. ASSUME NEW p \in db'.days, NEW c \in runs, p.day = c.day, p.day > today - Retention, NEW r \in p.ids
        PROVE  (\E k \in runs : k.run = r) /\ r \in ids
    <3>1. r \in TrendRun /\ Days!DayOf(r) = p.day /\ Remembered(r)
      BY <1>4, <2>6 DEF TrendsInv, StoredInv
    <3>2. today < Days!DayOf(r) + Retention
      BY <1>2, <2>6, <3>1
    <3>3. \E k \in runs : k.run = r
      BY <1>6, <1>7, <2>6, <3>1, <3>2 DEF Remembered
    <3> QED
      BY <3>3
  <2> HIDE DEF ids
  <2> QED
    BY <2>1, <2>2, <2>3, <2>4, <2>5, <2>6 DEF PassInv
<1> QED
  BY <1>2, <1>5, <1>8 DEF TrendsInv


\* A run that was parsed before is parsed again when everything is read.
LEMMA PassFetches ==
    ASSUME TrendsInv, UNCHANGED world, NEW r \in TrendRun, NEW read \in SUBSET Artifact, Days!Fetch(r, read)
    PROVE  TrendsInv'
<1> DEFINE parsed == Days!Parse(r, read)
           whole == read = {a \in Artifact : art[r][a] # "absent"}
<1>1. /\ pass.pc = "fetch" /\ r = Days!Min(pass.left) /\ UNCHANGED <<today, rows, art, db>>
      /\ \A a \in read : art[r][a] = "live"
      /\ pass' = [pass EXCEPT !.got[r] = parsed, !.left = @ \ {r}, !.clean = @ /\ whole,
                              !.pc = IF pass.left = {r} THEN "write" ELSE "fetch"]
  BY DEF Days!Fetch
<1>2. PassInv /\ StoredInv /\ TrendsType
  BY DEF TrendsInv
<1>3. r \in pass.left /\ r \in DOMAIN pass.got
  <2>1. pass.left # {} /\ pass.left \in SUBSET Nat /\ pass.left \subseteq DOMAIN pass.got
    BY <1>1, <1>2, TrendsAssumption DEF PassInv
  <2>2. \E x \in pass.left : \A y \in pass.left : x <= y
    BY <2>1, SmallestOne
  <2> QED
    BY <1>1, <2>1, <2>2 DEF Days!Min
<1>4. /\ pass'.got = [pass.got EXCEPT ![r] = parsed] /\ pass'.left = pass.left \ {r}
      /\ pass'.clean = (pass.clean /\ whole) /\ pass'.runs = pass.runs /\ pass'.today = pass.today
      /\ pass'.pc = IF pass.left = {r} THEN "write" ELSE "fetch"
      /\ pass' = [pc |-> pass'.pc, runs |-> pass'.runs, today |-> pass'.today, force |-> pass'.force,
                  clean |-> pass'.clean, got |-> pass'.got, left |-> pass'.left]
  <2>1. pass = [pc |-> pass.pc, runs |-> pass.runs, today |-> pass.today, force |-> pass.force,
                clean |-> pass.clean, got |-> pass.got, left |-> pass.left]
    BY <1>1, <1>2 DEF PassInv
  <2> HIDE DEF parsed, whole
  <2> QED
    BY <1>1, <2>1
<1>5. /\ DOMAIN pass'.got = DOMAIN pass.got /\ pass'.got[r] = parsed
      /\ \A s \in DOMAIN pass.got : s # r => pass'.got[s] = pass.got[s]
      /\ pass'.got = [s \in DOMAIN pass'.got |-> pass'.got[s]]
  BY <1>3, <1>4
<1>6. /\ \A s : Days!DayOf(s)' = Days!DayOf(s)
      /\ \A s : Evidenced(s)' = Evidenced(s) /\ Remembered(s)' = Remembered(s)
  BY <1>1 DEF Days!DayOf, Evidenced, Remembered
<1>7. TrendsType' /\ StoredInv'
  BY <1>1, <1>2, <1>6 DEF TrendsType, StoredInv
<1>8. parsed \subseteq [test : Test, passed : BOOLEAN]
  <2> SUFFICES ASSUME NEW x \in parsed PROVE x \in [test : Test, passed : BOOLEAN]
    OBVIOUS
  <2>1. PICK t \in Test : x = [test |-> t, passed |-> \A a \in read : Content[r][a][t] # "fail"]
    BY DEF Days!Parse
  <2> DEFINE p == \A a \in read : Content[r][a][t] # "fail"
  <2>2. p \in BOOLEAN
    OBVIOUS
  <2>3. x = [test |-> t, passed |-> p]
    BY <2>1
  <2> HIDE DEF p
  <2> QED
    BY <2>2, <2>3
<1>9. parsed # {} => Evidenced(r)
  <2> SUFFICES ASSUME parsed # {} PROVE Evidenced(r)
    OBVIOUS
  <2>1. PICK t \in Test : \E a \in read : Content[r][a][t] \in {"pass", "fail"}
    BY DEF Days!Parse
  <2>2. PICK a \in read : Content[r][a][t] \in {"pass", "fail"}
    BY <2>1
  <2>3. art[r][a] # "absent" /\ a \in Artifact
    BY <1>1
  <2> QED
    BY <2>2, <2>3 DEF Evidenced
<1>10. whole /\ Evidenced(r) => parsed # {}
  <2> SUFFICES ASSUME whole, Evidenced(r) PROVE parsed # {}
    OBVIOUS
  <2>1. PICK a \in Artifact, t \in Test : art[r][a] # "absent" /\ Content[r][a][t] \in {"pass", "fail"}
    BY DEF Evidenced
  <2>2. a \in read
    BY <2>1
  <2>3. [test |-> t, passed |-> \A b \in read : Content[r][b][t] # "fail"] \in parsed
    BY <2>1, <2>2 DEF Days!Parse
  <2> QED
    BY <2>3
<1> HIDE DEF parsed, whole
<1>11. PassInv'
  <2>1. /\ pass'.pc \in {"fetch", "write"} /\ pass'.today \in Nat
        /\ pass'.left \subseteq DOMAIN pass'.got /\ (pass'.left = {} <=> pass'.pc = "write")
    BY <1>1, <1>2, <1>3, <1>4, <1>5 DEF PassInv
  <2>2. \A c \in pass'.runs : /\ c.run \in TrendRun /\ c.run \in DOMAIN pass'.got
                              /\ c.day = Days!DayOf(c.run)' /\ Remembered(c.run)'
    BY <1>1, <1>2, <1>4, <1>5, <1>6 DEF PassInv
  <2>3. \A s \in DOMAIN pass'.got :
            /\ s \in TrendRun /\ pass'.got[s] \subseteq [test : Test, passed : BOOLEAN]
            /\ pass'.got[s] # {} => Evidenced(s)'
    BY <1>1, <1>2, <1>5, <1>6, <1>8, <1>9 DEF PassInv
  <2>4. ASSUME pass'.clean, NEW p \in db'.days, NEW c \in pass'.runs,
               p.day = c.day, p.day > pass'.today - Retention, NEW s \in p.ids
        PROVE  (\E k \in pass'.runs : k.run = s) /\ (s \in pass'.left \/ pass'.got[s] # {})
    <3>1. pass.clean /\ whole
      BY <1>4, <2>4
    <3>2. (\E k \in pass.runs : k.run = s) /\ (s \in pass.left \/ pass.got[s] # {})
      BY <1>1, <1>2, <1>4, <2>4, <3>1 DEF PassInv
    <3>3. s \in DOMAIN pass.got /\ Evidenced(s)
      BY <1>1, <1>2, <2>4, <3>2 DEF PassInv, StoredInv
    <3>4. CASE s = r
      BY <1>4, <1>5, <1>10, <3>1, <3>2, <3>3, <3>4
    <3>5. CASE s # r
      BY <1>4, <1>5, <3>2, <3>3, <3>5
    <3> QED
      BY <3>4, <3>5
  <2> QED
    BY <1>4, <1>5, <2>1, <2>2, <2>3, <2>4 DEF PassInv
<1> QED
  BY <1>7, <1>11 DEF TrendsInv

\* The day written has the runs this pass has parsed.
LEMMA DayIsWritten ==
    ASSUME TrendsInv, UNCHANGED world, NEW d \in 0..LastDay, Days!WriteDay(d)
    PROVE  TrendsInv'
<1>1. /\ pass.pc = "write" /\ UNCHANGED <<today, rows, art>>
      /\ db' = db \/ db' = Days!DayWritten(d)
  BY DEF Days!WriteDay
<1> DEFINE rest == {c \in pass.runs : c.day # d}
           ids == Days!ParsedIds(d)
           entry == [day |-> d, listed |-> Cardinality(Days!DayRuns(d)), parsed |-> Cardinality(ids), ids |-> ids]
<1>2. pass' = IF rest = {} THEN Days!Idle ELSE [pass EXCEPT !.runs = rest]
  BY DEF Days!WriteDay
<1>3. PassInv /\ StoredInv /\ TrendsType
  BY DEF TrendsInv
<1>4. /\ \A s : Days!DayOf(s)' = Days!DayOf(s)
      /\ \A s : Evidenced(s)' = Evidenced(s) /\ Remembered(s)' = Remembered(s)
  BY <1>1 DEF Days!DayOf, Evidenced, Remembered
<1>5. TrendsType'
  BY <1>1, <1>3 DEF TrendsType
<1>6. \A r \in ids : /\ r \in TrendRun /\ Days!DayOf(r) = d /\ Evidenced(r) /\ Remembered(r)
  <2> SUFFICES ASSUME NEW r \in ids
               PROVE  r \in TrendRun /\ Days!DayOf(r) = d /\ Evidenced(r) /\ Remembered(r)
    OBVIOUS
  <2>1. PICK c \in pass.runs : c.day = d /\ c.run = r /\ pass.got[r] # {}
    BY DEF Days!ParsedIds, Days!DayRuns
  <2> QED
    BY <1>1, <1>3, <2>1 DEF PassInv
<1>7. \A x \in Days!TestRunRows(Days!DayRuns(d), pass.got) : x.day = Days!DayOf(x.run)
  <2> SUFFICES ASSUME NEW x \in Days!TestRunRows(Days!DayRuns(d), pass.got) PROVE x.day = Days!DayOf(x.run)
    OBVIOUS
  <2>1. PICK c \in pass.runs : x.day = c.day /\ x.run = c.run
    <3>1. PICK c \in Days!DayRuns(d) : \E k \in pass.got[c.run] :
             x = [day |-> c.day, label |-> c.label, sha |-> c.sha, run |-> c.run,
                  test |-> k.test, passed |-> k.passed]
      BY DEF Days!TestRunRows
    <3>2. x.day = c.day /\ x.run = c.run
      BY <3>1
    <3>3. c \in pass.runs
      BY DEF Days!DayRuns
    <3> QED
      BY <3>2, <3>3
  <2> QED
    BY <1>1, <1>3, <2>1 DEF PassInv
<1>8. /\ \A x \in db'.runs : x \in db.runs \/ x \in Days!TestRunRows(Days!DayRuns(d), pass.got)
      /\ \A p \in db'.days : p \in db.days \/ p = entry
  <2>1. CASE db' = db
    BY <2>1
  <2>2. CASE db' = Days!DayWritten(d)
    BY <2>2 DEF Days!DayWritten, Days!Cardinality, Cardinality
  <2> QED
    BY <1>1, <2>1, <2>2
<1>9. entry.day = d /\ entry.ids = ids /\ entry.parsed = Cardinality(ids)
  OBVIOUS
<1> HIDE DEF ids, entry
<1>10. StoredInv'
  <2>1. \A x \in db'.runs : x.day = Days!DayOf(x.run)
    BY <1>3, <1>7, <1>8 DEF StoredInv
  <2>2. \A p \in db'.days :
          /\ p.parsed = Cardinality(p.ids) /\ p.ids \subseteq TrendRun
          /\ \A r \in p.ids : Days!DayOf(r) = p.day /\ Evidenced(r) /\ Remembered(r)
    <3> SUFFICES ASSUME NEW p \in db'.days
                 PROVE  /\ p.parsed = Cardinality(p.ids) /\ p.ids \subseteq TrendRun
                        /\ \A r \in p.ids : Days!DayOf(r) = p.day /\ Evidenced(r) /\ Remembered(r)
      OBVIOUS
    <3>1. CASE p \in db.days
      BY <1>3, <3>1 DEF StoredInv
    <3>2. CASE p = entry
      BY <1>6, <1>9, <3>2
    <3> QED
      BY <1>8, <3>1, <3>2
  <2> QED
    BY <1>4, <2>1, <2>2 DEF StoredInv
<1>11. PassInv'
  <2> SUFFICES ASSUME pass'.pc # "idle" PROVE PassInv'
    BY DEF PassInv
  <2>1. pass' = [pass EXCEPT !.runs = rest]
    BY <1>2 DEF Days!Idle
  <2>2. pass = [pc |-> pass.pc, runs |-> pass.runs, today |-> pass.today, force |-> pass.force,
                clean |-> pass.clean, got |-> pass.got, left |-> pass.left]
    BY <1>1, <1>3 DEF PassInv
  <2> HIDE DEF rest
  <2>3. /\ pass'.runs = rest /\ pass'.pc = pass.pc /\ pass'.today = pass.today /\ pass'.clean = pass.clean
        /\ pass'.got = pass.got /\ pass'.left = pass.left
        /\ pass' = [pc |-> pass'.pc, runs |-> pass'.runs, today |-> pass'.today, force |-> pass'.force,
                    clean |-> pass'.clean, got |-> pass'.got, left |-> pass'.left]
    BY <2>1, <2>2
  <2>4. \A c \in rest : c \in pass.runs /\ c.day # d
    BY DEF rest
  <2>5. \A c \in rest : /\ c.run \in TrendRun /\ c.run \in DOMAIN pass.got
                        /\ c.day = Days!DayOf(c.run)' /\ Remembered(c.run)'
    BY <1>1, <1>3, <1>4, <2>4 DEF PassInv
  <2>6. \A r \in DOMAIN pass.got :
            /\ r \in TrendRun /\ pass.got[r] \subseteq [test : Test, passed : BOOLEAN]
            /\ pass.got[r] # {} => Evidenced(r)'
    BY <1>1, <1>3, <1>4 DEF PassInv
  <2>7. ASSUME pass.clean, NEW p \in db'.days, NEW c \in rest, p.day = c.day, p.day > pass.today - Retention,
               NEW r \in p.ids
        PROVE  (\E k \in rest : k.run = r) /\ (r \in pass.left \/ pass.got[r] # {})
    <3>1. p \in db.days
      BY <1>8, <1>9, <2>4, <2>7
    <3>2. (\E k \in pass.runs : k.run = r) /\ (r \in pass.left \/ pass.got[r] # {})
      BY <1>1, <1>3, <2>4, <2>7, <3>1 DEF PassInv
    <3>3. PICK k \in pass.runs : k.run = r
      BY <3>2
    <3>4. k.day = p.day
      BY <1>1, <1>3, <2>7, <3>1, <3>3 DEF PassInv, StoredInv
    <3>5. k \in rest
      BY <2>4, <2>7, <3>4 DEF rest
    <3> QED
      BY <3>2, <3>3, <3>5
  <2>8. /\ pass.pc \in {"fetch", "write"} /\ pass.today \in Nat
        /\ pass.left \subseteq DOMAIN pass.got /\ (pass.left = {} <=> pass.pc = "write")
        /\ pass.got = [r \in DOMAIN pass.got |-> pass.got[r]]
    BY <1>1, <1>3 DEF PassInv
  <2> QED
    BY <2>3, <2>5, <2>6, <2>7, <2>8 DEF PassInv
<1> QED
  BY <1>5, <1>10, <1>11 DEF TrendsInv

LEMMA TrendsStep ==
    ASSUME TrendsInv, Days!Next PROVE TrendsInv'
<1>1. UNCHANGED world
  BY DEF Days!Next
<1>2. CASE Days!Crash
  <2>1. pass'.pc = "idle" /\ UNCHANGED <<today, rows, art, db>>
    BY <1>2 DEF Days!Crash, Days!Idle
  <2>2. StoredInv'
    BY <1>1, <2>1 DEF TrendsInv, StoredInv, Evidenced, Remembered, Days!DayOf
  <2> QED
    BY <1>1, <2>1, <2>2 DEF TrendsInv, TrendsType, PassInv
<1> QED
  BY <1>1, <1>2, WorldMoves, PassStarts, PassFetches, DayIsWritten DEF Days!Next

LEMMA TrendsInvariant == MCSpec => []TrendsInv
<1>1. MCInit => TrendsInv
  BY TrendsStart DEF MCInit
<1>2. TrendsInv /\ UNCHANGED trendsVars => TrendsInv'
  BY DEF trendsVars, TrendsInv, TrendsType, StoredInv, PassInv, Evidenced, Remembered, Days!DayOf
<1>3. TrendsInv /\ Days!Next => TrendsInv'
  BY TrendsStep
<1>4. [MCNext]_allVars => Days!Next \/ UNCHANGED trendsVars
  BY DEF MCNext, allVars
<1> QED
  BY <1>1, <1>2, <1>3, <1>4, PTL DEF MCSpec

\* Outcomes in the window are dropped by nothing but a forced pass, whatever
\* expires, fails or crashes (main, write_day).
THEOREM OutcomesStay == MCSpec => OutcomesKept
<1>1. ASSUME Days!Next PROVE Days!OutcomesKeptStep
  <2> SUFFICES ASSUME NEW p \in db.days, p.day >= today - Retention
               PROVE  \/ \E q \in db'.days : q.day = p.day /\ p.ids \subseteq q.ids
                      \/ pass.pc = "write" /\ pass.force
    BY DEF Days!OutcomesKeptStep
  <2>1. CASE p \in db'.days
    BY <2>1
  <2>2. ASSUME NEW covered, NEW force, Days!Start(covered, force) PROVE p \in db'.days
    BY <2>2 DEF Days!Start, Days!Pruned
  <2>3. ASSUME NEW d \in 0..LastDay, Days!WriteDay(d)
        PROVE  \/ \E q \in db'.days : q.day = p.day /\ p.ids \subseteq q.ids
               \/ pass.force
    <3>1. pass.pc = "write" /\ db' = IF Days!KeepsStored(d) THEN db ELSE Days!DayWritten(d)
      BY <2>3 DEF Days!WriteDay
    <3>2. CASE Days!KeepsStored(d) \/ p.day # d
      BY <3>1, <3>2 DEF Days!DayWritten
    <3>3. CASE ~Days!KeepsStored(d) /\ p.day = d /\ ~pass.force
      <4> DEFINE q == [day |-> d, listed |-> Days!Cardinality(Days!DayRuns(d)),
                       parsed |-> Days!Cardinality(Days!ParsedIds(d)), ids |-> Days!ParsedIds(d)]
      <4>1. q \in db'.days
        BY <3>1, <3>3 DEF Days!DayWritten
      <4>2. p.ids \subseteq Days!ParsedIds(d)
        BY <3>3 DEF Days!KeepsStored, Days!DayIsSuperset
      <4>3. q.day = d /\ q.ids = Days!ParsedIds(d)
        OBVIOUS
      <4> HIDE DEF q
      <4> QED
        BY <3>3, <4>1, <4>2, <4>3
    <3> QED
      BY <3>2, <3>3
  <2>4. CASE db' = db
    BY <2>1, <2>4
  <2> QED
    BY <1>1, <2>2, <2>3, <2>4
       DEF Days!Next, Days!Tick, Days!Upload, Days!Expire, Days!PruneRows, Days!StoreRow, Days!Fetch, Days!Crash,
           Days!WriteDay
<1>2. [MCNext]_allVars => [script = "trends" => Days!OutcomesKeptStep]_trendsVars
  BY <1>1 DEF MCNext, allVars
<1> QED
  BY <1>2, PTL DEF MCSpec, OutcomesKept

\* A pass that read everything is never refused a day well inside the window,
\* and writes there what it parsed (main, the two guards).
THEOREM CleanPassesRepair == MCSpec => CleanPassRepairs
<1>1. ASSUME TrendsInv PROVE Days!CleanPassRepairsStep
  <2> SUFFICES ASSUME NEW d \in 0..LastDay, Days!WriteDay(d), pass.clean, d > pass.today - Retention,
                      NEW c \in Days!DayRuns(d)
               PROVE  {[test |-> x.test, passed |-> x.passed] : x \in {y \in db'.runs : y.run = c.run}}
                        = pass.got[c.run]
    BY DEF Days!CleanPassRepairsStep
  <2>1. pass.pc = "write" /\ db' = IF Days!KeepsStored(d) THEN db ELSE Days!DayWritten(d)
    BY DEF Days!WriteDay
  <2>2. PassInv /\ StoredInv
    BY <1>1 DEF TrendsInv
  <2> DEFINE ids == Days!ParsedIds(d)
  <2>3. c \in pass.runs /\ c.day = d
    BY DEF Days!DayRuns
  <2>4. IsFiniteSet(ids)
    <3>1. ids \subseteq TrendRun
      BY <2>1, <2>2 DEF Days!ParsedIds, Days!DayRuns, PassInv
    <3> QED
      BY <3>1, FS_Subset, TrendsAssumption
  <2>5. ASSUME NEW p \in db.days, p.day = d
        PROVE  Days!DayIsSuperset(p.ids, ids) /\ ~(p.parsed > Days!Cardinality(ids))
    <3>1. p.ids \subseteq ids
      <4> SUFFICES ASSUME NEW r \in p.ids PROVE r \in ids
        OBVIOUS
      <4>1. PICK k \in pass.runs : k.run = r /\ pass.got[r] # {}
        BY <2>1, <2>2, <2>3, <2>5 DEF PassInv
      <4>2. k.day = d
        BY <2>1, <2>2, <2>5, <4>1 DEF PassInv, StoredInv
      <4> QED
        BY <4>1, <4>2 DEF Days!ParsedIds, Days!DayRuns
    <3>2. /\ IsFiniteSet(p.ids) /\ Cardinality(p.ids) <= Cardinality(ids)
          /\ Cardinality(p.ids) \in Nat /\ Cardinality(ids) \in Nat
      <4> HIDE DEF ids
      <4> QED
        BY <2>4, <3>1, FS_Subset, FS_CardinalityType
    <3>3. p.parsed = Cardinality(p.ids) /\ Days!Cardinality(ids) = Cardinality(ids)
      BY <2>2 DEF StoredInv, Days!Cardinality, Cardinality
    <3> QED
      BY <3>1, <3>2, <3>3 DEF Days!DayIsSuperset
  <2>6. ~Days!KeepsStored(d)
    BY <2>5 DEF Days!KeepsStored
  <2> DEFINE fresh == Days!TestRunRows(Days!DayRuns(d), pass.got)
             row(k, o) == [day |-> k.day, label |-> k.label, sha |-> k.sha, run |-> k.run,
                           test |-> o.test, passed |-> o.passed]
             outcome(x) == [test |-> x.test, passed |-> x.passed]
  <2>7. db'.runs = {x \in db.runs : x.day # d} \cup fresh
    BY <2>1, <2>6 DEF Days!DayWritten
  <2>8. Days!DayOf(c.run) = d /\ c.run \in DOMAIN pass.got
    BY <2>1, <2>2, <2>3 DEF PassInv
  <2>9. pass.got[c.run] \subseteq [test : Test, passed : BOOLEAN]
    BY <2>1, <2>2, <2>8 DEF PassInv
  <2>10. \A x \in fresh : \E k \in Days!DayRuns(d) : \E o \in pass.got[k.run] : x = row(k, o)
    BY DEF Days!TestRunRows
  <2>11. \A o \in pass.got[c.run] : row(c, o) \in fresh
    BY DEF Days!TestRunRows
  <2>12. \A k, o : /\ row(k, o).run = k.run
                   /\ row(k, o).test = o.test /\ row(k, o).passed = o.passed
    OBVIOUS
  <2>13. \A o \in pass.got[c.run] : [test |-> o.test, passed |-> o.passed] = o
    BY <2>9
  <2> HIDE DEF fresh, row
  <2>14. ASSUME NEW x \in db'.runs, x.run = c.run
         PROVE  [test |-> x.test, passed |-> x.passed] \in pass.got[c.run]
    <3>1. x \in fresh
      BY <2>2, <2>7, <2>8, <2>14 DEF StoredInv
    <3>2. PICK k \in Days!DayRuns(d) : \E o \in pass.got[k.run] : x = row(k, o)
      BY <2>10, <3>1
    <3>3. PICK o \in pass.got[k.run] : x = row(k, o)
      BY <3>2
    <3>4. k.run = c.run /\ x.test = o.test /\ x.passed = o.passed
      BY <2>12, <2>14, <3>3
    <3> QED
      BY <2>13, <3>3, <3>4
  <2>15. ASSUME NEW o \in pass.got[c.run]
         PROVE  \E x \in db'.runs : x.run = c.run /\ o = [test |-> x.test, passed |-> x.passed]
    <3>1. row(c, o) \in db'.runs
      BY <2>7, <2>11
    <3>2. row(c, o).run = c.run /\ row(c, o).test = o.test /\ row(c, o).passed = o.passed
      BY <2>12
    <3> QED
      BY <2>13, <3>1, <3>2
  <2> QED
    BY <2>14, <2>15
<1>2. TrendsInv /\ [MCNext]_allVars => [script = "trends" => Days!CleanPassRepairsStep]_trendsVars
  BY <1>1
<1> QED
  BY <1>2, TrendsInvariant, PTL DEF MCSpec, CleanPassRepairs

LEMMA ImageIsFinite ==
    ASSUME NEW S, IsFiniteSet(S), NEW f
    PROVE  IsFiniteSet({f[x] : x \in S})
<1> DEFINE T == {f[x] : x \in S}
           h == [x \in S |-> f[x]]
<1>1. h \in Surjection(S, T)
  BY DEF Surjection
<1> QED
  BY <1>1, FS_Surjection

\* What a row counts, as a set of what it counts.
Counted(S, P, count) ==
    /\ IsFiniteSet(S)
    /\ \A x \in S : IsFiniteSet(P[x]) /\ x[count] = Cardinality(P[x])
    /\ \A x, y \in S : x # y => P[x] \cap P[y] = {}

\* Two functions on the subsets of S agree on the empty set, and on a set where
\* they agree on the set without one of its elements.
Shrinks(S, f, h) ==
    /\ f[{}] = h[{}]
    /\ \A s \in SUBSET S : s # {} => \E x \in s : f[s \ {x}] = h[s \ {x}] => f[s] = h[s]

LEMMA SameShrink ==
    ASSUME NEW S, IsFiniteSet(S), NEW f, NEW h, Shrinks(S, f, h)
    PROVE  f[S] = h[S]
<1> DEFINE Bad == {s \in SUBSET S : f[s] # h[s]}
           BadSizes == {Cardinality(s) : s \in Bad}
<1> SUFFICES ASSUME Bad # {} PROVE FALSE
  OBVIOUS
<1>1. \A s \in SUBSET S : IsFiniteSet(s) /\ Cardinality(s) \in Nat
  BY FS_Subset, FS_CardinalityType
<1>2. BadSizes \in SUBSET Nat /\ BadSizes # {}
  BY <1>1
<1>3. PICK n \in BadSizes : \A m \in BadSizes : n <= m
  <2> HIDE DEF BadSizes
  <2> QED
    BY <1>2, SmallestOne
<1>4. PICK s \in Bad : n = Cardinality(s)
  BY <1>3
<1>5. s \in SUBSET S /\ f[s] # h[s] /\ s # {}
  BY <1>4 DEF Shrinks
<1>6. PICK x \in s : f[s \ {x}] = h[s \ {x}] => f[s] = h[s]
  BY <1>5 DEF Shrinks
<1>7. s \ {x} \in Bad
  BY <1>5, <1>6
<1>8. Cardinality(s \ {x}) = Cardinality(s) - 1
  BY <1>1, <1>5, FS_RemoveElement
<1>9. n <= Cardinality(s \ {x})
  BY <1>3, <1>7
<1> QED
  BY <1>1, <1>4, <1>5, <1>8, <1>9

\* A sum of counts of disjoint sets counts their union.
LEMMA SumOfCounts ==
    ASSUME NEW S, NEW P, NEW count, Counted(S, P, count)
    PROVE  Days!SumOf(S, count) = Cardinality(UNION {P[x] : x \in S})
<1> DEFINE Unfolds(i, s) == IF s = {} THEN 0 ELSE (CHOOSE x \in s : TRUE)[count] + i[s \ {CHOOSE x \in s : TRUE}]
           Iter == CHOOSE i : i = [s \in SUBSET S |-> Unfolds(i, s)]
           g == [s \in SUBSET S |-> Cardinality(UNION {P[x] : x \in s})]
<1>1. Days!SumOf(S, count) = Iter[S]
  BY DEF Days!SumOf, Days!MapThenSumSet, Days!MapThenFoldSet
<1>2. \A s \in SUBSET S : IsFiniteSet(UNION {P[x] : x \in s})
  <2> TAKE s \in SUBSET S
  <2>1. IsFiniteSet(s)
    BY FS_Subset DEF Counted
  <2>2. IsFiniteSet({P[x] : x \in s})
    BY <2>1, ImageIsFinite
  <2>3. \A p \in {P[x] : x \in s} : IsFiniteSet(p)
    BY DEF Counted
  <2> QED
    BY <2>2, <2>3, FS_UNION
<1>3. \A s \in SUBSET S : \A x \in s :
        Cardinality(UNION {P[y] : y \in s}) = x[count] + Cardinality(UNION {P[y] : y \in s \ {x}})
  <2> TAKE s \in SUBSET S
  <2> TAKE x \in s
  <2> DEFINE A == P[x]
             B == UNION {P[y] : y \in s \ {x}}
  <2>1. UNION {P[y] : y \in s} = A \cup B
    OBVIOUS
  <2>2. A \cap B = {}
    BY DEF Counted
  <2>3. IsFiniteSet(A) /\ IsFiniteSet(B) /\ x[count] = Cardinality(A)
    BY <1>2 DEF Counted
  <2> HIDE DEF A, B
  <2>4. Cardinality(A \cup B) = Cardinality(A) + Cardinality(B) - Cardinality(A \cap B)
    BY <2>3, FS_Union
  <2>5. Cardinality(A) \in Nat /\ Cardinality(B) \in Nat /\ Cardinality(A \cap B) = 0
    BY <2>2, <2>3, FS_CardinalityType, FS_EmptySet
  <2>6. Cardinality(A \cup B) = x[count] + Cardinality(B)
    BY <2>3, <2>4, <2>5
  <2> QED
    BY <2>1, <2>6 DEF B
<1>4. g = [s \in SUBSET S |-> Unfolds(g, s)]
  <2> SUFFICES ASSUME NEW s \in SUBSET S PROVE g[s] = Unfolds(g, s)
    OBVIOUS
  <2>1. CASE s = {}
    <3>1. UNION {P[x] : x \in s} = {}
      BY <2>1
    <3> QED
      BY <2>1, <3>1, FS_EmptySet
  <2>2. CASE s # {}
    <3>1. PICK x : x = (CHOOSE z \in s : TRUE)
      OBVIOUS
    <3>2. x \in s /\ s \ {x} \in SUBSET S
      BY <2>2, <3>1
    <3>3. g[s] = x[count] + g[s \ {x}]
      BY <1>3, <3>2
    <3> HIDE DEF g
    <3> QED
      BY <2>2, <3>1, <3>3
  <2> QED
    BY <2>1, <2>2
<1> HIDE DEF g
<1>5. Iter = [s \in SUBSET S |-> Unfolds(Iter, s)]
  BY <1>4
<1> HIDE DEF Iter
<1>6. Shrinks(S, Iter, g)
  <2>1. Iter[{}] = g[{}]
    BY <1>4, <1>5
  <2>2. ASSUME NEW s \in SUBSET S, s # {}
        PROVE  \E x \in s : Iter[s \ {x}] = g[s \ {x}] => Iter[s] = g[s]
    <3>1. PICK x : x = (CHOOSE z \in s : TRUE)
      OBVIOUS
    <3>2. x \in s
      BY <2>2, <3>1
    <3>3. Iter[s] = Unfolds(Iter, s) /\ g[s] = Unfolds(g, s)
      BY <1>4, <1>5
    <3>4. Iter[s] = x[count] + Iter[s \ {x}] /\ g[s] = x[count] + g[s \ {x}]
      BY <2>2, <3>1, <3>3
    <3> QED
      BY <3>2, <3>4
  <2> QED
    BY <2>1, <2>2 DEF Shrinks
<1>7. Iter[S] = g[S]
  BY <1>6, SameShrink DEF Counted
<1> QED
  BY <1>1, <1>7 DEF g

\* The rollup rows are the counts of the stored rows they stand for.
StoredUnder(k, stored) == {y \in stored : Days!Key(y) = k}
RolledUp(rollup, stored) ==
    /\ IsFiniteSet(rollup) /\ IsFiniteSet(stored)
    /\ \A x, z \in rollup : x.key = z.key => x = z
    /\ \A y \in stored : y.passed \in BOOLEAN /\ \E x \in rollup : x.key = Days!Key(y)
    /\ \A x \in rollup :
          /\ \E y \in stored : x.key = Days!Key(y)
          /\ x.runs = Cardinality(StoredUnder(x.key, stored))
          /\ x.passes = Cardinality(StoredUnder(x.key, {y \in stored : y.passed}))
          /\ x.failures = Cardinality(StoredUnder(x.key, {y \in stored : ~y.passed}))

\* Whole keys may leave.
LEMMA RolledPart ==
    ASSUME NEW rollup, NEW stored, RolledUp(rollup, stored), NEW X \in SUBSET rollup, NEW Y \in SUBSET stored,
           \A x \in rollup, y \in stored : x.key = Days!Key(y) => (x \in X <=> y \in Y)
    PROVE  RolledUp(X, Y)
<1>1. IsFiniteSet(X) /\ IsFiniteSet(Y)
  BY FS_Subset DEF RolledUp
<1>2. \A x \in X : /\ StoredUnder(x.key, Y) = StoredUnder(x.key, stored)
                   /\ StoredUnder(x.key, {y \in Y : y.passed}) = StoredUnder(x.key, {y \in stored : y.passed})
                   /\ StoredUnder(x.key, {y \in Y : ~y.passed}) = StoredUnder(x.key, {y \in stored : ~y.passed})
  BY DEF StoredUnder
<1>3. \A y \in Y : y.passed \in BOOLEAN /\ \E x \in X : x.key = Days!Key(y)
  BY DEF RolledUp
<1>4. \A x \in X : \E y \in Y : x.key = Days!Key(y)
  BY DEF RolledUp
<1>5. \A x, z \in X : x.key = z.key => x = z
  BY DEF RolledUp
<1>6. \A x \in X : /\ x.runs = Cardinality(StoredUnder(x.key, Y))
                   /\ x.passes = Cardinality(StoredUnder(x.key, {y \in Y : y.passed}))
                   /\ x.failures = Cardinality(StoredUnder(x.key, {y \in Y : ~y.passed}))
  BY <1>2 DEF RolledUp
<1> QED
  BY <1>1, <1>3, <1>4, <1>5, <1>6 DEF RolledUp

\* Other keys may join.
LEMMA RolledJoin ==
    ASSUME NEW A, NEW B, NEW R, NEW Q, RolledUp(A, R), RolledUp(B, Q), \A x \in A, z \in B : x.key # z.key
    PROVE  RolledUp(A \cup B, R \cup Q)
<1>1. IsFiniteSet(A \cup B) /\ IsFiniteSet(R \cup Q)
  BY FS_Union DEF RolledUp
<1>2. ASSUME NEW x \in A \cup B
      PROVE  /\ \E y \in R \cup Q : x.key = Days!Key(y)
             /\ x.runs = Cardinality(StoredUnder(x.key, R \cup Q))
             /\ x.passes = Cardinality(StoredUnder(x.key, {y \in R \cup Q : y.passed}))
             /\ x.failures = Cardinality(StoredUnder(x.key, {y \in R \cup Q : ~y.passed}))
  <2>1. CASE x \in A
    <3>1. \A y \in Q : Days!Key(y) # x.key
      BY <2>1 DEF RolledUp
    <3>2. /\ StoredUnder(x.key, R \cup Q) = StoredUnder(x.key, R)
          /\ StoredUnder(x.key, {y \in R \cup Q : y.passed}) = StoredUnder(x.key, {y \in R : y.passed})
          /\ StoredUnder(x.key, {y \in R \cup Q : ~y.passed}) = StoredUnder(x.key, {y \in R : ~y.passed})
      BY <3>1 DEF StoredUnder
    <3> QED
      BY <2>1, <3>2 DEF RolledUp
  <2>2. CASE x \in B
    <3>1. \A y \in R : Days!Key(y) # x.key
      BY <2>2 DEF RolledUp
    <3>2. /\ StoredUnder(x.key, R \cup Q) = StoredUnder(x.key, Q)
          /\ StoredUnder(x.key, {y \in R \cup Q : y.passed}) = StoredUnder(x.key, {y \in Q : y.passed})
          /\ StoredUnder(x.key, {y \in R \cup Q : ~y.passed}) = StoredUnder(x.key, {y \in Q : ~y.passed})
      BY <3>1 DEF StoredUnder
    <3> QED
      BY <2>2, <3>2 DEF RolledUp
  <2> QED
    BY <2>1, <2>2
<1>3. \A x, z \in A \cup B : x.key = z.key => x = z
  BY DEF RolledUp
<1>4. \A y \in R \cup Q : y.passed \in BOOLEAN /\ \E x \in A \cup B : x.key = Days!Key(y)
  BY DEF RolledUp
<1> QED
  BY <1>1, <1>2, <1>3, <1>4 DEF RolledUp

\* rollup_rows counts the rows of test_run_rows.
LEMMA RolledRows ==
    ASSUME NEW runs, NEW got, IsFiniteSet(Days!TestRunRows(runs, got)),
           \A y \in Days!TestRunRows(runs, got) : y.passed \in BOOLEAN
    PROVE  RolledUp(Days!RollupRows(runs, got), Days!TestRunRows(runs, got))
<1> DEFINE all == Days!TestRunRows(runs, got)
           keys == {Days!Key(y) : y \in all}
           row(k) == [key |-> k, runs |-> Cardinality(StoredUnder(k, all)),
                      passes |-> Cardinality(StoredUnder(k, {y \in all : y.passed})),
                      failures |-> Cardinality(StoredUnder(k, {y \in all : ~y.passed}))]
           f == [y \in all |-> row(Days!Key(y))]
<1> HIDE DEF all
<1>1. Days!RollupRows(runs, got) = {row(k) : k \in keys}
  BY DEF all, Days!RollupRows, StoredUnder, Days!Cardinality, Cardinality
<1>2. \A k : /\ row(k).key = k /\ row(k).runs = Cardinality(StoredUnder(k, all))
             /\ row(k).passes = Cardinality(StoredUnder(k, {y \in all : y.passed}))
             /\ row(k).failures = Cardinality(StoredUnder(k, {y \in all : ~y.passed}))
  OBVIOUS
<1> HIDE DEF row
<1>3. IsFiniteSet({row(k) : k \in keys})
  <2>1. IsFiniteSet({f[y] : y \in all})
    <3> HIDE DEF f
    <3> QED
      BY ImageIsFinite DEF all
  <2>2. {f[y] : y \in all} = {row(k) : k \in keys}
    OBVIOUS
  <2> QED
    BY <2>1, <2>2
<1>4. \A x \in {row(k) : k \in keys} : x = row(x.key) /\ \E y \in all : x.key = Days!Key(y)
  BY <1>2
<1>5. \A y \in all : y.passed \in BOOLEAN /\ \E x \in {row(k) : k \in keys} : x.key = Days!Key(y)
  BY <1>2 DEF all
<1>6. IsFiniteSet(all)
  BY DEF all
<1> HIDE DEF keys
<1>7. RolledUp({row(k) : k \in keys}, all)
  <2> DEFINE X == {row(k) : k \in keys}
  <2> HIDE DEF X
  <2>1. \A x \in X : /\ x.runs = Cardinality(StoredUnder(x.key, all))
                     /\ x.passes = Cardinality(StoredUnder(x.key, {y \in all : y.passed}))
                     /\ x.failures = Cardinality(StoredUnder(x.key, {y \in all : ~y.passed}))
    BY <1>2, <1>4 DEF X
  <2>2. RolledUp(X, all)
    BY <1>3, <1>4, <1>5, <1>6, <2>1 DEF X, RolledUp
  <2> QED
    BY <2>2 DEF X
<1> QED
  BY <1>1, <1>7 DEF all

\* A column of some rollup rows counts stored rows.
Tallies(mine, part, count) == \A x \in mine : x[count] = Cardinality(StoredUnder(x.key, part))

\* A sum over rollup rows is the number of stored rows with their keys.
LEMMA SumOfRollup ==
    ASSUME NEW rollup, NEW stored, RolledUp(rollup, stored), NEW mine \in SUBSET rollup,
           NEW part \in SUBSET stored, NEW count, Tallies(mine, part, count)
    PROVE  Days!SumOf(mine, count) = Cardinality({y \in part : \E x \in mine : x.key = Days!Key(y)})
<1> DEFINE P == [x \in mine |-> StoredUnder(x.key, part)]
<1>1. Counted(mine, P, count)
  <2>1. IsFiniteSet(mine) /\ IsFiniteSet(part)
    BY FS_Subset DEF RolledUp
  <2>2. \A x \in mine : IsFiniteSet(StoredUnder(x.key, part))
    BY <2>1, FS_Subset DEF StoredUnder
  <2>3. \A x, z \in mine : x # z => P[x] \cap P[z] = {}
    BY DEF StoredUnder, RolledUp
  <2> QED
    BY <2>1, <2>2, <2>3 DEF Counted, Tallies
<1>2. UNION {P[x] : x \in mine} = {y \in part : \E x \in mine : x.key = Days!Key(y)}
  BY DEF StoredUnder
<1> HIDE DEF P
<1> QED
  BY <1>1, <1>2, SumOfCounts

\* The tables agree, and a pass lists finitely many runs.
RollupInv == RolledUp(db.rollup, db.runs) /\ (pass.pc # "idle" => IsFiniteSet(pass.runs))

LEMMA RollupStart == ASSUME Days!Init PROVE RollupInv
<1>1. db.rollup = {} /\ db.runs = {} /\ pass.pc = "idle"
  BY DEF Days!Init, Days!Empty, Days!Idle
<1> QED
  BY <1>1, FS_EmptySet DEF RollupInv, RolledUp

LEMMA CandidatesAreFinite == ASSUME NEW covered PROVE IsFiniteSet(Days!CandidateRuns(covered))
<1> DEFINE ids == {q \in TrendRun : Days!DayOf(q) \in covered /\ \E x \in rows[q] : x.e2e}
           f == [r \in ids |-> [run |-> r, day |-> Days!DayOf(r), sha |-> Days!SourceSha(r), label |-> Days!Label(r)]]
<1>1. IsFiniteSet(ids)
  BY FS_Subset, TrendsAssumption
<1>2. Days!CandidateRuns(covered) = {f[r] : r \in ids}
  BY DEF Days!CandidateRuns
<1> HIDE DEF f, ids
<1> QED
  BY <1>1, <1>2, ImageIsFinite

\* What a pass has read of some of its runs.
LEMMA RowsAreFinite ==
    ASSUME TrendsInv, RollupInv, pass.pc # "idle", NEW runs \in SUBSET pass.runs
    PROVE  /\ IsFiniteSet(Days!TestRunRows(runs, pass.got))
           /\ \A y \in Days!TestRunRows(runs, pass.got) : y.passed \in BOOLEAN
<1> DEFINE row(c, k) == [day |-> c.day, label |-> c.label, sha |-> c.sha, run |-> c.run,
                         test |-> k.test, passed |-> k.passed]
           of(c) == {row(c, k) : k \in pass.got[c.run]}
<1>1. IsFiniteSet([test : Test, passed : BOOLEAN])
  <2> DEFINE good == [t \in Test |-> [test |-> t, passed |-> TRUE]]
             bad == [t \in Test |-> [test |-> t, passed |-> FALSE]]
  <2>1. [test : Test, passed : BOOLEAN] \subseteq {good[t] : t \in Test} \cup {bad[t] : t \in Test}
    OBVIOUS
  <2> HIDE DEF good, bad
  <2>2. IsFiniteSet({good[t] : t \in Test}) /\ IsFiniteSet({bad[t] : t \in Test})
    BY ImageIsFinite, TrendsAssumption
  <2>3. IsFiniteSet({good[t] : t \in Test} \cup {bad[t] : t \in Test})
    BY <2>2, FS_Union
  <2> QED
    BY <2>1, <2>3, FS_Subset
<1>2. \A c \in runs : pass.got[c.run] \subseteq [test : Test, passed : BOOLEAN]
  BY DEF TrendsInv, PassInv
<1>3. IsFiniteSet(runs)
  BY FS_Subset DEF RollupInv
<1>4. \A c \in runs : IsFiniteSet(of(c))
  <2> TAKE c \in runs
  <2> DEFINE S == pass.got[c.run]
             f == [k \in S |-> row(c, k)]
  <2>1. IsFiniteSet(S)
    BY <1>1, <1>2, FS_Subset
  <2>2. IsFiniteSet({f[k] : k \in S})
    <3> HIDE DEF f, S
    <3> QED
      BY <2>1, ImageIsFinite
  <2>3. of(c) = {f[k] : k \in S}
    OBVIOUS
  <2> QED
    BY <2>2, <2>3
<1>5. Days!TestRunRows(runs, pass.got) = UNION {of(c) : c \in runs}
  BY DEF Days!TestRunRows
<1>6. IsFiniteSet(UNION {of(c) : c \in runs})
  <2> DEFINE g == [c \in runs |-> of(c)]
  <2>1. {g[c] : c \in runs} = {of(c) : c \in runs}
    OBVIOUS
  <2> HIDE DEF of
  <2>2. IsFiniteSet({g[c] : c \in runs})
    <3> HIDE DEF g
    <3> QED
      BY <1>3, ImageIsFinite
  <2> QED
    BY <1>4, <2>1, <2>2, FS_UNION
<1>7. \A c \in runs : \A y \in of(c) : y.passed \in BOOLEAN
  <2> SUFFICES ASSUME NEW c \in runs, NEW k \in pass.got[c.run] PROVE row(c, k).passed \in BOOLEAN
    OBVIOUS
  <2>1. k.passed \in BOOLEAN
    BY <1>2
  <2> QED
    BY <2>1
<1> HIDE DEF of
<1> QED
  BY <1>5, <1>6, <1>7

LEMMA RollupStep ==
    ASSUME TrendsInv, RollupInv, Days!Next PROVE RollupInv'
<1>1. \A y : Days!Key(y).day = y.day
  BY DEF Days!Key
<1>2. ASSUME NEW covered, NEW force, Days!Start(covered, force) PROVE RollupInv'
  <2> DEFINE cutoff == today - Retention
  <2>1. /\ db'.rollup = {x \in db.rollup : x.key.day >= cutoff} /\ db'.runs = {x \in db.runs : x.day >= cutoff}
    BY <1>2 DEF Days!Start, Days!Pruned
  <2>2. pass'.pc # "idle" => pass'.runs = Days!CandidateRuns(covered)
    BY <1>2 DEF Days!Start, Days!Idle
  <2>3. \A x \in db.rollup, y \in db.runs : x.key = Days!Key(y) => (x \in db'.rollup <=> y \in db'.runs)
    BY <1>1, <2>1
  <2>4. RolledUp(db'.rollup, db'.runs)
    BY <2>1, <2>3, RolledPart DEF RollupInv
  <2> QED
    BY <2>2, <2>4, CandidatesAreFinite DEF RollupInv
<1>3. ASSUME NEW d \in 0..LastDay, Days!WriteDay(d) PROVE RollupInv'
  <2> DEFINE runs == Days!DayRuns(d)
             fresh == Days!TestRunRows(runs, pass.got)
             X == {x \in db.rollup : x.key.day # d}
             Y == {y \in db.runs : y.day # d}
  <2>1. pass.pc = "write" /\ db' = IF Days!KeepsStored(d) THEN db ELSE Days!DayWritten(d)
    BY <1>3 DEF Days!WriteDay
  <2>2. pass'.pc # "idle" => IsFiniteSet(pass'.runs)
    <3> DEFINE rest == {c \in pass.runs : c.day # d}
    <3>1. pass' = IF rest = {} THEN Days!Idle ELSE [pass EXCEPT !.runs = rest]
      BY <1>3 DEF Days!WriteDay
    <3>2. pass = [pc |-> pass.pc, runs |-> pass.runs, today |-> pass.today, force |-> pass.force,
                  clean |-> pass.clean, got |-> pass.got, left |-> pass.left]
      BY <2>1 DEF TrendsInv, PassInv
    <3>3. IsFiniteSet(rest)
      BY <2>1, FS_Subset DEF RollupInv
    <3> HIDE DEF rest
    <3>4. pass'.pc # "idle" => pass'.runs = rest
      BY <3>1, <3>2 DEF Days!Idle
    <3> QED
      BY <3>3, <3>4
  <2>3. RolledUp(X, Y)
    <3>1. \A x \in db.rollup, y \in db.runs : x.key = Days!Key(y) => (x \in X <=> y \in Y)
      BY <1>1
    <3> HIDE DEF X, Y
    <3>2. X \in SUBSET db.rollup /\ Y \in SUBSET db.runs
      BY DEF X, Y
    <3> QED
      BY <3>1, <3>2, RolledPart DEF RollupInv
  <2>4. RolledUp(Days!RollupRows(runs, pass.got), fresh)
    <3>1. runs \in SUBSET pass.runs
      BY DEF Days!DayRuns
    <3> HIDE DEF runs
    <3> QED
      BY <2>1, <3>1, RowsAreFinite, RolledRows
  <2>5. \A y \in fresh : y.day = d
    BY DEF Days!TestRunRows, Days!DayRuns
  <2>6. \A x \in X, z \in Days!RollupRows(runs, pass.got) : x.key # z.key
    <3> HIDE DEF fresh, runs
    <3>1. \A z \in Days!RollupRows(runs, pass.got) : \E y \in fresh : z.key = Days!Key(y)
      BY <2>4 DEF RolledUp
    <3>2. \A z \in Days!RollupRows(runs, pass.got) : z.key.day = d
      BY <1>1, <2>5, <3>1
    <3> QED
      BY <3>2
  <2>7. \/ db' = db
        \/ db'.rollup = X \cup Days!RollupRows(runs, pass.got) /\ db'.runs = Y \cup fresh
    BY <2>1 DEF Days!DayWritten
  <2> HIDE DEF X, Y, fresh, runs
  <2>8. RolledUp(X \cup Days!RollupRows(runs, pass.got), Y \cup fresh)
    BY <2>3, <2>4, <2>6, RolledJoin
  <2> QED
    BY <2>2, <2>7, <2>8 DEF RollupInv
<1>4. ASSUME NEW r \in TrendRun, NEW read \in SUBSET Artifact, Days!Fetch(r, read) PROVE RollupInv'
  <2>1. /\ pass.pc = "fetch" /\ db' = db
        /\ pass' = [pass EXCEPT !.got[r] = Days!Parse(r, read), !.left = @ \ {r},
                                !.clean = @ /\ read = {a \in Artifact : art[r][a] # "absent"},
                                !.pc = IF pass.left = {r} THEN "write" ELSE "fetch"]
    BY <1>4 DEF Days!Fetch
  <2>2. pass'.runs = pass.runs
    <3>1. pass = [pc |-> pass.pc, runs |-> pass.runs, today |-> pass.today, force |-> pass.force,
                  clean |-> pass.clean, got |-> pass.got, left |-> pass.left]
      BY <2>1 DEF TrendsInv, PassInv
    <3> QED
      BY <2>1, <3>1
  <2> QED
    BY <2>1, <2>2 DEF RollupInv
<1>5. CASE Days!Crash
  BY <1>5 DEF Days!Crash, Days!Idle, RollupInv
<1>6. CASE db' = db /\ pass' = pass
  BY <1>6 DEF RollupInv
<1>7. CASE Days!Tick
  BY <1>6, <1>7 DEF Days!Tick
<1>8. ASSUME NEW r \in TrendRun, \/ \E a \in Artifact : Days!Upload(r, a) \/ Days!Expire(r, a)
                                 \/ Days!PruneRows(r) \/ \E x \in world[r].rows : Days!StoreRow(r, x)
      PROVE  RollupInv'
  BY <1>6, <1>8 DEF Days!Upload, Days!Expire, Days!PruneRows, Days!StoreRow
<1> QED
  BY <1>2, <1>3, <1>4, <1>5, <1>7, <1>8 DEF Days!Next

LEMMA RollupInvariant == MCSpec => []RollupInv
<1>1. MCInit => RollupInv
  BY RollupStart DEF MCInit
<1>2. RollupInv /\ UNCHANGED trendsVars => RollupInv'
  BY DEF trendsVars, RollupInv
<1>3. TrendsInv /\ RollupInv /\ Days!Next => RollupInv'
  BY RollupStep
<1>4. [MCNext]_allVars => Days!Next \/ UNCHANGED trendsVars
  BY DEF MCNext, allVars
<1> QED
  BY <1>1, <1>2, <1>3, <1>4, TrendsInvariant, PTL DEF MCSpec

\* The history of a test counts its recent runs.
LEMMA HistoryCounts ==
    ASSUME RollupInv, NEW t, NEW from
    PROVE  LET h == Days!TestHistory(t, from)
           IN  h.runs = Cardinality(h.recent) /\ h.passes + h.failures = h.runs
<1> DEFINE mine == {x \in db.rollup : x.key.test = t /\ x.key.day >= from}
           recent == {y \in db.runs : y.test = t /\ y.day >= from}
           good == {y \in recent : y.passed}
           bad == {y \in recent : ~y.passed}
           h == Days!TestHistory(t, from)
<1>1. /\ h.runs = Days!SumOf(mine, "runs") /\ h.passes = Days!SumOf(mine, "passes")
      /\ h.failures = Days!SumOf(mine, "failures") /\ h.recent = recent
  BY DEF Days!TestHistory
<1>2. RolledUp(db.rollup, db.runs) /\ \A y : Days!Key(y).day = y.day /\ Days!Key(y).test = y.test
  BY DEF RollupInv, Days!Key
<1>3. \A y \in db.runs : (\E x \in mine : x.key = Days!Key(y)) <=> y \in recent
  BY <1>2 DEF RolledUp
<1>4. mine \in SUBSET db.rollup
  OBVIOUS
<1> HIDE DEF mine
<1>5. Days!SumOf(mine, "runs") = Cardinality(recent)
  <2>1. Tallies(mine, db.runs, "runs")
    BY <1>2, <1>4 DEF RolledUp, Tallies
  <2>2. {y \in db.runs : \E x \in mine : x.key = Days!Key(y)} = recent
    BY <1>3
  <2> QED
    BY <1>2, <1>4, <2>1, <2>2, SumOfRollup
<1>6. Days!SumOf(mine, "passes") = Cardinality(good)
  <2> DEFINE part == {y \in db.runs : y.passed}
  <2>1. Tallies(mine, part, "passes")
    BY <1>2, <1>4 DEF RolledUp, Tallies
  <2>2. {y \in part : \E x \in mine : x.key = Days!Key(y)} = good
    BY <1>3
  <2>3. part \in SUBSET db.runs
    OBVIOUS
  <2> HIDE DEF part
  <2>4. Days!SumOf(mine, "passes") = Cardinality({y \in part : \E x \in mine : x.key = Days!Key(y)})
    BY <1>2, <1>4, <2>1, <2>3, SumOfRollup
  <2> QED
    BY <2>2, <2>4
<1>7. Days!SumOf(mine, "failures") = Cardinality(bad)
  <2> DEFINE part == {y \in db.runs : ~y.passed}
  <2>1. Tallies(mine, part, "failures")
    BY <1>2, <1>4 DEF RolledUp, Tallies
  <2>2. {y \in part : \E x \in mine : x.key = Days!Key(y)} = bad
    BY <1>3
  <2>3. part \in SUBSET db.runs
    OBVIOUS
  <2> HIDE DEF part
  <2>4. Days!SumOf(mine, "failures") = Cardinality({y \in part : \E x \in mine : x.key = Days!Key(y)})
    BY <1>2, <1>4, <2>1, <2>3, SumOfRollup
  <2> QED
    BY <2>2, <2>4
<1>8. recent = good \cup bad /\ good \cap bad = {}
  BY <1>2 DEF RolledUp
<1>9. Cardinality(recent) = Cardinality(good) + Cardinality(bad)
  <2>1. IsFiniteSet(good) /\ IsFiniteSet(bad)
    BY <1>2, FS_Subset DEF RolledUp
  <2> HIDE DEF good, bad, recent
  <2>2. Cardinality(good \cup bad) = Cardinality(good) + Cardinality(bad) - Cardinality(good \cap bad)
    BY <2>1, FS_Union
  <2>3. Cardinality(good \cap bad) = 0 /\ Cardinality(good) \in Nat /\ Cardinality(bad) \in Nat
    BY <1>8, <2>1, FS_EmptySet, FS_CardinalityType
  <2> QED
    BY <1>8, <2>2, <2>3
<1> HIDE DEF good, bad, recent, h
<1> QED
  BY <1>1, <1>5, <1>6, <1>7, <1>9 DEF h

\* What compare takes from one revision.
Mine(sha, from) == {x \in db.rollup : x.key.sha = sha /\ x.key.day >= from}
Failing(sha, id, from) ==
    {y \in db.runs : y.sha = sha /\ y.label = id[1] /\ y.test = id[2] /\ y.day >= from /\ ~y.passed}

LEMMA ShaCounts ==
    ASSUME RollupInv, NEW sha, NEW from
    PROVE  /\ DOMAIN Days!ShaTotals(sha, from) = {<<x.key.label, x.key.test>> : x \in Mine(sha, from)}
           /\ \A id \in DOMAIN Days!ShaTotals(sha, from) :
                Days!ShaTotals(sha, from)[id].failures = Cardinality(Failing(sha, id, from))
<1> DEFINE mine == Mine(sha, from)
           of(id) == {x \in mine : x.key.label = id[1] /\ x.key.test = id[2]}
           ids == {<<x.key.label, x.key.test>> : x \in mine}
           part == {y \in db.runs : ~y.passed}
<1>1. Days!ShaTotals(sha, from) = [id \in ids |->
          [runs |-> Days!SumOf(of(id), "runs"), failures |-> Days!SumOf(of(id), "failures")]]
  BY DEF Days!ShaTotals, Mine
<1> HIDE DEF ids
<1>2. RolledUp(db.rollup, db.runs) /\ \A y : /\ Days!Key(y).day = y.day /\ Days!Key(y).test = y.test
                                             /\ Days!Key(y).sha = y.sha /\ Days!Key(y).label = y.label
  BY DEF RollupInv, Days!Key
<1>3. ASSUME NEW id \in ids PROVE Days!SumOf(of(id), "failures") = Cardinality(Failing(sha, id, from))
  <2>1. of(id) \in SUBSET db.rollup /\ part \in SUBSET db.runs
    BY DEF Mine
  <2>2. Tallies(of(id), part, "failures")
    BY <1>2, <2>1 DEF RolledUp, Tallies
  <2>3. {y \in part : \E x \in of(id) : x.key = Days!Key(y)} = Failing(sha, id, from)
    BY <1>2 DEF RolledUp, Mine, Failing
  <2> HIDE DEF of, part
  <2>4. Days!SumOf(of(id), "failures") = Cardinality({y \in part : \E x \in of(id) : x.key = Days!Key(y)})
    BY <1>2, <2>1, <2>2, SumOfRollup
  <2> QED
    BY <2>3, <2>4
<1> HIDE DEF of, mine
<1>4. \A id \in ids : Days!ShaTotals(sha, from)[id].failures = Days!SumOf(of(id), "failures")
  BY <1>1
<1> QED
  BY <1>1, <1>3, <1>4 DEF ids, mine

\* compare counts the failed runs of both revisions, and calls new or gone
\* only a test with no run on the other side.
LEMMA CompareCounts ==
    ASSUME RollupInv, NEW b, NEW s, NEW from
    PROVE  LET doc == Days!CompareDocument(b, s, from)
           IN  /\ \A id \in DOMAIN doc.both :
                     doc.both[id] = Cardinality(Failing(s, id, from)) - Cardinality(Failing(b, id, from))
               /\ \A id \in doc.onlyBase : ~\E y \in db.runs : y.sha = s /\ y.label = id[1]
                                              /\ y.test = id[2] /\ y.day >= from
<1> DEFINE doc == Days!CompareDocument(b, s, from)
           tb == Days!ShaTotals(b, from)
           ts == Days!ShaTotals(s, from)
<1>1. /\ doc.both = [id \in DOMAIN tb \cap DOMAIN ts |-> ts[id].failures - tb[id].failures]
      /\ doc.onlyBase = DOMAIN tb \ DOMAIN ts
  BY DEF Days!CompareDocument
<1>2. /\ \A id \in DOMAIN tb : tb[id].failures = Cardinality(Failing(b, id, from))
      /\ \A id \in DOMAIN ts : ts[id].failures = Cardinality(Failing(s, id, from))
      /\ DOMAIN tb = {<<x.key.label, x.key.test>> : x \in Mine(b, from)}
      /\ DOMAIN ts = {<<x.key.label, x.key.test>> : x \in Mine(s, from)}
  BY ShaCounts
<1> HIDE DEF doc, tb, ts
<1>3. \A id \in DOMAIN doc.both :
         doc.both[id] = Cardinality(Failing(s, id, from)) - Cardinality(Failing(b, id, from))
  BY <1>1, <1>2
<1>4. ASSUME NEW id \in doc.onlyBase,
             NEW y \in db.runs, y.sha = s, y.label = id[1], y.test = id[2], y.day >= from
      PROVE  FALSE
  <2>1. PICK x \in db.rollup : x.key = Days!Key(y)
    BY DEF RollupInv, RolledUp
  <2>2. x \in Mine(s, from) /\ <<x.key.label, x.key.test>> = <<id[1], id[2]>>
    BY <1>4, <2>1 DEF Mine, Days!Key
  <2>3. PICK z \in Mine(b, from) : id = <<z.key.label, z.key.test>>
    BY <1>1, <1>2
  <2>4. id = <<id[1], id[2]>>
    BY <2>3
  <2> QED
    BY <1>1, <1>2, <2>2, <2>4
<1> QED
  BY <1>3, <1>4 DEF doc

\* Compare and history answer what the stored runs say.
THEOREM DocumentsAreRight == MCSpec => []DocumentsAgree
<1>1. RollupInv => Days!DocumentsAgree
  <2> SUFFICES ASSUME RollupInv, NEW from \in 0..LastDay
               PROVE  /\ \A t \in Test : LET h == Days!TestHistory(t, from)
                            IN  h.runs = Cardinality(h.recent) /\ h.passes + h.failures = h.runs
                      /\ \A b, s \in {Days!ShaOf(r) : r \in TrendRun} :
                            LET doc == Days!CompareDocument(b, s, from)
                            IN  /\ \A id \in DOMAIN doc.both : doc.both[id] =
                                     Cardinality(Failing(s, id, from)) - Cardinality(Failing(b, id, from))
                                /\ \A id \in doc.onlyBase : ~\E x \in db.runs : x.sha = s /\ x.label = id[1]
                                     /\ x.test = id[2] /\ x.day >= from
    BY DEF Days!DocumentsAgree, Failing, Days!Cardinality, Cardinality
  <2>1. \A t \in Test : LET h == Days!TestHistory(t, from)
                        IN  h.runs = Cardinality(h.recent) /\ h.passes + h.failures = h.runs
    BY HistoryCounts
  <2> QED
    BY <2>1, CompareCounts
<1> QED
  BY <1>1, RollupInvariant, PTL DEF DocumentsAgree

-----------------------------------------------------------------------------
(* ZombieRuns.                                                             *)

\* The attempts there have been.
Begun == {k \in Zombies!Key : k[2] <= Zombies!Attempt(k[1])}
Item == [key : Zombies!Key, started : Nat]

QueueType ==
    /\ now \in Nat
    /\ queue \in [Run -> [queued : BOOLEAN, started : Nat, jobs : Seq(Nat \cup {Zombies!Never})]]
    /\ \A r \in Run : Zombies!Attempt(r) \in 1..MaxAttempt
    /\ withJobs \subseteq Zombies!Key
    /\ recheck \in [Zombies!Key -> Nat]
    /\ look \in [Zombies!Key -> {"never", "jobs", "none", "kept"}]
    /\ cycle \in [pc : {"idle", "list", "classify", "publish"}, start : Nat, q : Nat, steady : SUBSET Run,
                  todo : SUBSET Item, zombies : Nat, complete : BOOLEAN, clean : BOOLEAN]

\* An attempt filed under its jobs has some; one to be checked again was found
\* empty after the grace period, and its jobs came later.
CachesInv ==
    /\ \A k \in withJobs : k \in Begun /\ Zombies!JobsAt(k) # Zombies!Never
    /\ \A k \in Zombies!Key : recheck[k] # 0 =>
         /\ k \in Begun /\ recheck[k] <= now + Recheck /\ look[k] \in {"none", "kept"}
         /\ k = Zombies!KeyOf(k[1]) => now - queue[k[1]].started >= Grace
         /\ look[k] = "none" /\ Zombies!JobsAt(k) # Zombies!Never => recheck[k] <= Zombies!JobsAt(k) + Recheck

\* What is left of the listing: one item a run, of its attempt then.
ItemsInv ==
    /\ cycle.start <= now /\ cycle.steady \subseteq Zombies!Queued
    /\ cycle.pc # "classify" => cycle.todo = {}
    /\ \A i, j \in cycle.todo : i.key[1] = j.key[1] => i = j
    /\ \A i \in cycle.todo :
         /\ i.key \in Begun
         /\ i.key = Zombies!KeyOf(i.key[1]) => i.started = queue[i.key[1]].started
         /\ i.key[1] \in cycle.steady => i.key = Zombies!KeyOf(i.key[1])
         /\ recheck[i.key] # 0 => now - i.started >= Grace

\* Why a run may be called a zombie.
Empty(r) ==
    LET k == Zombies!KeyOf(r)
    IN  /\ now - queue[r].started >= Grace
        /\ look[k] \in {"none", "kept"}
        /\ look[k] = "none" /\ Zombies!JobsAt(k) # Zombies!Never => cycle.start < Zombies!JobsAt(k) + Recheck

Due(r) == \E i \in cycle.todo : i.key[1] = r

\* C are the counted runs, Z those called zombies.
Tally(C, Z) ==
    /\ Cardinality(C) = cycle.q /\ cycle.steady \subseteq C
    /\ Cardinality(Z) = cycle.zombies
    /\ \A r \in Z \cap cycle.steady : Empty(r)
    /\ \A r \in Z : ~Due(r)
    /\ cycle.pc = "list" => Z = {} /\ \A r \in Zombies!Queued \ C : queue[r].started >= cycle.start
    /\ \A i \in cycle.todo : i.key[1] \in C \/ i.started >= cycle.start
    /\ Z \subseteq C \/ now - cycle.start >= Grace
    /\ cycle.pc = "classify" /\ cycle.complete /\ cycle.clean =>
         \A r \in cycle.steady : Zombies!Dead(r) => r \in Z \/ Due(r)

TallyInv ==
    /\ cycle.q = 0 => cycle.steady = {}
    /\ cycle.q # 0 => \E C, Z \in SUBSET Run : Tally(C, Z)
    /\ cycle.q # 0 => cycle.pc \in {"list", "classify"}

ZombiesInv == QueueType /\ CachesInv /\ ItemsInv /\ TallyInv

\* GitHub moves: a run not queued may get a new attempt, and an attempt
\* without jobs may get some.
GitHubMoves ==
    /\ UNCHANGED <<now, withJobs, recheck, look>>
    /\ Begun \subseteq Begun'
    /\ \A r \in Run :
         \/ Zombies!KeyOf(r)' = Zombies!KeyOf(r) /\ queue'[r].started = queue[r].started
         \/ r \notin Zombies!Queued /\ Zombies!KeyOf(r)' \notin Begun /\ queue'[r].started = now
    /\ \A r \in Zombies!Queued' \ Zombies!Queued : queue'[r].started = now
    /\ \A k \in Begun :
         Zombies!JobsAt(k)' # Zombies!JobsAt(k) => Zombies!JobsAt(k) = Zombies!Never /\ Zombies!JobsAt(k)' = now
    /\ cycle'.steady \subseteq cycle.steady /\ cycle'.steady \subseteq Zombies!Queued'
    /\ cycle'.pc = cycle.pc /\ cycle'.start = cycle.start /\ cycle'.q = cycle.q /\ cycle'.todo = cycle.todo
    /\ cycle'.zombies = cycle.zombies /\ cycle'.complete = cycle.complete /\ cycle'.clean = cycle.clean

LEMMA KeyOfBegun ==
    ASSUME QueueType, NEW r \in Run
    PROVE  Zombies!KeyOf(r) \in Begun /\ Zombies!KeyOf(r)[1] = r /\ Zombies!KeyOf(r)[2] = Zombies!Attempt(r)
BY DEF QueueType, Begun, Zombies!KeyOf, Zombies!Key

LEMMA JobsAppearMoves ==
    ASSUME QueueType, ItemsInv, NEW r \in Run, Zombies!JobsAppear(r)
    PROVE  QueueType' /\ GitHubMoves
<1> DEFINE n == Zombies!Attempt(r)
           new == [queue[r] EXCEPT !.jobs = [queue[r].jobs EXCEPT ![n] = now]]
<1>1. /\ queue' = [queue EXCEPT ![r] = new]
      /\ UNCHANGED <<now, withJobs, recheck, cycle, look>>
      /\ r \in Zombies!Queued /\ queue[r].jobs[n] = Zombies!Never
  BY DEF Zombies!JobsAppear, Zombies!JobsAt, Zombies!KeyOf
<1>2. n \in 1..Len(queue[r].jobs) /\ now \in Nat /\ queue[r].jobs \in Seq(Nat \cup {Zombies!Never})
  BY DEF QueueType, Zombies!Attempt
<1>3. /\ new.queued = queue[r].queued /\ new.started = queue[r].started
      /\ new.jobs \in Seq(Nat \cup {Zombies!Never}) /\ Len(new.jobs) = Len(queue[r].jobs)
      /\ \A a \in 1..Len(queue[r].jobs) : new.jobs[a] = IF a = n THEN now ELSE queue[r].jobs[a]
      /\ new \in [queued : BOOLEAN, started : Nat, jobs : Seq(Nat \cup {Zombies!Never})]
  <2> DEFINE jobs == [queue[r].jobs EXCEPT ![n] = now]
  <2>1. /\ jobs \in Seq(Nat \cup {Zombies!Never}) /\ Len(jobs) = Len(queue[r].jobs)
        /\ \A a \in 1..Len(queue[r].jobs) : jobs[a] = IF a = n THEN now ELSE queue[r].jobs[a]
    BY <1>2
  <2> HIDE DEF jobs
  <2>2. queue[r] \in [queued : BOOLEAN, started : Nat, jobs : Seq(Nat \cup {Zombies!Never})]
    BY DEF QueueType
  <2> QED
    BY <2>1, <2>2 DEF jobs
<1> HIDE DEF new
<1>4. /\ queue' \in [Run -> [queued : BOOLEAN, started : Nat, jobs : Seq(Nat \cup {Zombies!Never})]]
      /\ \A s \in Run : /\ queue'[s].queued = queue[s].queued /\ queue'[s].started = queue[s].started
                        /\ Len(queue'[s].jobs) = Len(queue[s].jobs)
      /\ \A s \in Run : s # r => queue'[s] = queue[s]
      /\ queue'[r] = new
  BY <1>1, <1>3 DEF QueueType
<1>5. /\ \A s \in Run : Zombies!Attempt(s)' = Zombies!Attempt(s) /\ Zombies!KeyOf(s)' = Zombies!KeyOf(s)
      /\ Begun' = Begun /\ Zombies!Queued' = Zombies!Queued
  BY <1>4 DEF Zombies!Attempt, Zombies!KeyOf, Begun, Zombies!Queued, Zombies!Key
<1>6. QueueType'
  BY <1>1, <1>4, <1>5 DEF QueueType
<1>7. ASSUME NEW k \in Begun, Zombies!JobsAt(k)' # Zombies!JobsAt(k)
      PROVE  Zombies!JobsAt(k) = Zombies!Never /\ Zombies!JobsAt(k)' = now
  <2>1. k[1] \in Run /\ k[2] \in 1..Len(queue[k[1]].jobs)
    BY DEF Begun, Zombies!Key, Zombies!Attempt
  <2>2. k[1] = r
    BY <1>7, <1>4, <2>1 DEF Zombies!JobsAt
  <2> QED
    BY <1>1, <1>3, <1>4, <1>7, <2>1, <2>2 DEF Zombies!JobsAt
<1> QED
  BY <1>1, <1>4, <1>5, <1>6, <1>7 DEF GitHubMoves, ItemsInv

LEMMA LeavesMoves ==
    ASSUME QueueType, ItemsInv, NEW r \in Run, Zombies!Leaves(r)
    PROVE  QueueType' /\ GitHubMoves
<1> DEFINE new == [queue[r] EXCEPT !.queued = FALSE]
<1>1. /\ queue' = [queue EXCEPT ![r] = new]
      /\ cycle' = [cycle EXCEPT !.steady = @ \ {r}]
      /\ UNCHANGED <<now, withJobs, recheck, look>>
  BY DEF Zombies!Leaves
<1>2. queue[r] \in [queued : BOOLEAN, started : Nat, jobs : Seq(Nat \cup {Zombies!Never})]
  BY DEF QueueType
<1>3. /\ new \in [queued : BOOLEAN, started : Nat, jobs : Seq(Nat \cup {Zombies!Never})]
      /\ ~new.queued /\ new.started = queue[r].started /\ new.jobs = queue[r].jobs
  BY <1>2
<1> HIDE DEF new
<1>4. /\ queue' \in [Run -> [queued : BOOLEAN, started : Nat, jobs : Seq(Nat \cup {Zombies!Never})]]
      /\ \A s \in Run : queue'[s].started = queue[s].started /\ queue'[s].jobs = queue[s].jobs
      /\ \A s \in Run : queue'[s].queued <=> queue[s].queued /\ s # r
  BY <1>1, <1>3 DEF QueueType
<1>5. /\ \A s \in Run : Zombies!Attempt(s)' = Zombies!Attempt(s) /\ Zombies!KeyOf(s)' = Zombies!KeyOf(s)
      /\ Begun' = Begun /\ Zombies!Queued' = Zombies!Queued \ {r}
  BY <1>4 DEF Zombies!Attempt, Zombies!KeyOf, Begun, Zombies!Queued, Zombies!Key
<1>6. \A k \in Begun : Zombies!JobsAt(k)' = Zombies!JobsAt(k)
  BY <1>4 DEF Begun, Zombies!Key, Zombies!JobsAt
<1>7. /\ cycle'.steady = cycle.steady \ {r}
      /\ cycle'.pc = cycle.pc /\ cycle'.start = cycle.start /\ cycle'.q = cycle.q /\ cycle'.todo = cycle.todo
      /\ cycle'.zombies = cycle.zombies /\ cycle'.complete = cycle.complete /\ cycle'.clean = cycle.clean
  BY <1>1 DEF QueueType
<1>8. QueueType'
  <2>1. cycle' \in [pc : {"idle", "list", "classify", "publish"}, start : Nat, q : Nat, steady : SUBSET Run,
                    todo : SUBSET Item, zombies : Nat, complete : BOOLEAN, clean : BOOLEAN]
    BY <1>1 DEF QueueType
  <2>2. \A s \in Run : Zombies!Attempt(s)' \in 1..MaxAttempt
    BY <1>5 DEF QueueType
  <2>3. Zombies!Key' = Zombies!Key /\ Item' = Item
    BY DEF Zombies!Key, Item
  <2> HIDE DEF Item
  <2> QED
    BY <1>1, <1>4, <2>1, <2>2, <2>3 DEF QueueType
<1> QED
  BY <1>1, <1>4, <1>5, <1>6, <1>7, <1>8 DEF GitHubMoves, ItemsInv

LEMMA RerunMoves ==
    ASSUME QueueType, ItemsInv, NEW r \in Run, Zombies!Rerun(r)
    PROVE  QueueType' /\ GitHubMoves
<1> DEFINE n == Zombies!Attempt(r)
           jobs == Append(queue[r].jobs, Zombies!Never)
           new == [queued |-> TRUE, started |-> now, jobs |-> jobs]
<1>1. /\ queue' = [queue EXCEPT ![r] = new]
      /\ UNCHANGED <<now, withJobs, recheck, cycle, look>>
      /\ r \notin Zombies!Queued /\ n < MaxAttempt
  BY DEF Zombies!Rerun
<1>2. queue[r].jobs \in Seq(Nat \cup {Zombies!Never}) /\ n \in 1..MaxAttempt /\ n = Len(queue[r].jobs) /\ now \in Nat
  BY DEF QueueType, Zombies!Attempt
<1>3. /\ jobs \in Seq(Nat \cup {Zombies!Never}) /\ Len(jobs) = n + 1
      /\ \A a \in 1..n : jobs[a] = queue[r].jobs[a]
  BY <1>2
<1> HIDE DEF jobs
<1>4. /\ queue' \in [Run -> [queued : BOOLEAN, started : Nat, jobs : Seq(Nat \cup {Zombies!Never})]]
      /\ \A s \in Run : s # r => queue'[s] = queue[s]
      /\ queue'[r].queued /\ queue'[r].started = now /\ queue'[r].jobs = jobs
  BY <1>1, <1>2, <1>3 DEF QueueType
<1>5. /\ \A s \in Run : Zombies!Attempt(s)' = IF s = r THEN n + 1 ELSE Zombies!Attempt(s)
      /\ \A s \in Run : s # r => Zombies!KeyOf(s)' = Zombies!KeyOf(s)
      /\ Zombies!KeyOf(r)' = <<r, n + 1>>
      /\ Zombies!Queued' = Zombies!Queued \cup {r}
  BY <1>3, <1>4 DEF Zombies!Attempt, Zombies!KeyOf, Zombies!Queued
<1>6. Begun \subseteq Begun' /\ <<r, n + 1>> \notin Begun
  <2>1. \A s \in Run : Zombies!Attempt(s) \in Nat
    BY DEF QueueType, Zombies!Attempt
  <2>2. \A k \in Zombies!Key : k[1] \in Run /\ k[2] \in Nat
    BY DEF Zombies!Key
  <2>3. Zombies!Key' = Zombies!Key
    BY DEF Zombies!Key
  <2> QED
    BY <1>2, <1>5, <2>1, <2>2, <2>3 DEF Begun
<1>7. \A k \in Begun : Zombies!JobsAt(k)' = Zombies!JobsAt(k)
  <2> TAKE k \in Begun
  <2>1. k[1] \in Run /\ k[2] \in 1..Zombies!Attempt(k[1])
    BY DEF Begun, Zombies!Key
  <2>2. CASE k[1] = r
    <3>1. queue'[k[1]].jobs[k[2]] = queue[k[1]].jobs[k[2]]
      BY <1>3, <1>4, <2>1, <2>2
    <3> QED
      BY <3>1 DEF Zombies!JobsAt
  <2>3. CASE k[1] # r
    BY <1>4, <2>1, <2>3 DEF Zombies!JobsAt
  <2> QED
    BY <2>2, <2>3
<1>8. QueueType'
  <2>1. Zombies!Key' = Zombies!Key /\ Item' = Item
    BY DEF Zombies!Key, Item
  <2>2. \A s \in Run : Zombies!Attempt(s)' \in 1..MaxAttempt
    <3>1. n + 1 \in 1..MaxAttempt
      <4>1. n \in 1..MaxAttempt /\ n < MaxAttempt /\ MaxAttempt \in Nat
        BY <1>1, <1>2, ZombiesAssumption
      <4> HIDE DEF n
      <4> QED
        BY <4>1
    <3>2. \A s \in Run : Zombies!Attempt(s) \in 1..MaxAttempt
      BY DEF QueueType
    <3> HIDE DEF n
    <3> QED
      BY <1>5, <3>1, <3>2
  <2> QED
    BY <1>1, <1>4, <2>1, <2>2 DEF QueueType
<1> QED
  BY <1>1, <1>4, <1>5, <1>6, <1>7, <1>8 DEF GitHubMoves, ItemsInv

\* Runs that leave, are re-run or get jobs change no reason to wait, nor one to
\* be called a zombie.
LEMMA GitHubMovesKeep ==
    ASSUME ZombiesInv, QueueType', GitHubMoves
    PROVE  ZombiesInv'
<1> USE ZombiesAssumption
<1>1. \A r \in Zombies!Queued : /\ Zombies!KeyOf(r)' = Zombies!KeyOf(r)
                                /\ queue'[r].started = queue[r].started
  BY DEF GitHubMoves, Zombies!Queued
<1>2. \A r \in Run : /\ Zombies!KeyOf(r) \in Begun
                     /\ Zombies!KeyOf(r)' \in Begun => /\ Zombies!KeyOf(r)' = Zombies!KeyOf(r)
                                                       /\ queue'[r].started = queue[r].started
  BY KeyOfBegun DEF GitHubMoves, ZombiesInv
<1>3. Begun \subseteq Zombies!Key /\ \A k \in Zombies!Key : k[1] \in Run
  BY DEF Begun, Zombies!Key
<1>4. now \in Nat /\ cycle.start \in Nat /\ \A k \in Zombies!Key : recheck[k] \in Nat
  BY DEF ZombiesInv, QueueType
<1>5. \A k \in Begun : Zombies!JobsAt(k)' # Zombies!JobsAt(k) =>
        Zombies!JobsAt(k) = Zombies!Never /\ Zombies!JobsAt(k)' = now /\ now # Zombies!Never
  BY <1>4 DEF GitHubMoves, Zombies!Never
<1>6. CachesInv'
  <2>1. ASSUME NEW k \in withJobs PROVE k \in Begun' /\ Zombies!JobsAt(k)' # Zombies!Never
    BY <1>5 DEF GitHubMoves, ZombiesInv, CachesInv
  <2>2. ASSUME NEW k \in Zombies!Key, recheck[k] # 0
        PROVE  /\ k \in Begun' /\ recheck[k] <= now + Recheck /\ look[k] \in {"none", "kept"}
               /\ k = Zombies!KeyOf(k[1])' => now - queue'[k[1]].started >= Grace
               /\ look[k] = "none" /\ Zombies!JobsAt(k)' # Zombies!Never => recheck[k] <= Zombies!JobsAt(k)' + Recheck
    <3>1. k \in Begun /\ recheck[k] <= now + Recheck /\ look[k] \in {"none", "kept"}
      BY <2>2 DEF ZombiesInv, CachesInv
    <3>2. k = Zombies!KeyOf(k[1])' => now - queue'[k[1]].started >= Grace
      BY <1>2, <1>3, <2>2, <3>1 DEF ZombiesInv, CachesInv
    <3>3. look[k] = "none" /\ Zombies!JobsAt(k)' # Zombies!Never => recheck[k] <= Zombies!JobsAt(k)' + Recheck
      BY <1>5, <2>2, <3>1 DEF ZombiesInv, CachesInv
    <3> QED
      BY <3>1, <3>2, <3>3 DEF GitHubMoves
  <2> QED
    BY <2>1, <2>2 DEF CachesInv, GitHubMoves, Zombies!Key
<1>7. ItemsInv'
  <2>1. ASSUME NEW i \in cycle.todo
        PROVE  /\ i.key \in Begun'
               /\ i.key = Zombies!KeyOf(i.key[1])' => i.started = queue'[i.key[1]].started
               /\ i.key[1] \in cycle'.steady => i.key = Zombies!KeyOf(i.key[1])'
               /\ recheck[i.key] # 0 => now - i.started >= Grace
    <3>1. i.key \in Begun /\ i.key[1] \in Run
      BY <1>3 DEF ZombiesInv, ItemsInv
    <3>2. i.key = Zombies!KeyOf(i.key[1])' => i.started = queue'[i.key[1]].started
      BY <1>2, <3>1 DEF ZombiesInv, ItemsInv
    <3>3. i.key[1] \in cycle'.steady => i.key = Zombies!KeyOf(i.key[1])'
      BY <1>1 DEF ZombiesInv, ItemsInv, GitHubMoves
    <3> QED
      BY <3>1, <3>2, <3>3 DEF ZombiesInv, ItemsInv, GitHubMoves
  <2> QED
    BY <2>1 DEF ZombiesInv, ItemsInv, GitHubMoves
<1>8. TallyInv'
  <2> SUFFICES ASSUME cycle.q # 0 PROVE \E C, Z \in SUBSET Run : Tally(C, Z)'
    BY DEF ZombiesInv, TallyInv, GitHubMoves
  <2>1. PICK C, Z \in SUBSET Run : Tally(C, Z)
    BY DEF ZombiesInv, TallyInv
  <2>2. \A r \in cycle'.steady : r \in cycle.steady /\ r \in Zombies!Queued /\ r \in Run
    BY DEF GitHubMoves, ZombiesInv, ItemsInv, QueueType
  <2>3. \A r \in Z \cap cycle'.steady : Empty(r)'
    <3> TAKE r \in Z \cap cycle'.steady
    <3>1. Empty(r)
      BY <2>1, <2>2 DEF Tally
    <3>2. Zombies!JobsAt(Zombies!KeyOf(r))' = Zombies!JobsAt(Zombies!KeyOf(r))
            \/ (Zombies!JobsAt(Zombies!KeyOf(r))' = now /\ cycle.start <= now)
      <4>1. Zombies!KeyOf(r) \in Begun /\ Zombies!KeyOf(r)' = Zombies!KeyOf(r)
        BY <1>1, <1>2, <2>2
      <4>2. cycle.start <= now
        BY DEF ZombiesInv, ItemsInv
      <4>3. Zombies!JobsAt(Zombies!KeyOf(r))' = queue'[Zombies!KeyOf(r)[1]].jobs[Zombies!KeyOf(r)[2]]
        BY <4>1 DEF Zombies!JobsAt
      <4>4. \A k \in Begun : Zombies!JobsAt(k)' = queue'[k[1]].jobs[k[2]]
        BY DEF Zombies!JobsAt
      <4> QED
        BY <1>5, <4>1, <4>2, <4>3, <4>4
    <3> QED
      BY <1>1, <1>4, <2>2, <3>1, <3>2 DEF Empty, GitHubMoves
  <2>4. \A r \in cycle'.steady : Zombies!Dead(r)' => Zombies!Dead(r)
    <3> TAKE r \in cycle'.steady
    <3>1. Zombies!KeyOf(r) \in Begun /\ Zombies!KeyOf(r)' = Zombies!KeyOf(r)
      BY <1>1, <1>2, <2>2
    <3>2. Zombies!JobsAt(Zombies!KeyOf(r))' = queue'[Zombies!KeyOf(r)[1]].jobs[Zombies!KeyOf(r)[2]]
      BY <3>1 DEF Zombies!JobsAt
    <3>3. \A k \in Begun : Zombies!JobsAt(k)' = queue'[k[1]].jobs[k[2]]
      BY DEF Zombies!JobsAt
    <3>4. Zombies!JobsAt(Zombies!KeyOf(r))' = Zombies!Never => Zombies!JobsAt(Zombies!KeyOf(r)) = Zombies!Never
      BY <1>5, <3>1, <3>2, <3>3
    <3> QED
      BY <1>1, <2>2, <3>4 DEF Zombies!Dead, GitHubMoves
  <2>5. cycle.pc = "list" => \A r \in Zombies!Queued' \ C : queue'[r].started >= cycle.start
    <3> SUFFICES ASSUME cycle.pc = "list", NEW r \in Zombies!Queued' \ C
                 PROVE  queue'[r].started >= cycle.start
      OBVIOUS
    <3>1. CASE r \in Zombies!Queued
      BY <1>1, <2>1, <3>1 DEF Tally
    <3>2. CASE r \notin Zombies!Queued
      BY <3>2 DEF GitHubMoves, ZombiesInv, ItemsInv
    <3> QED
      BY <3>1, <3>2
  <2>6. Tally(C, Z)'
    <3>1. \A r \in Run : Due(r)' <=> Due(r)
      BY DEF Due, GitHubMoves
    <3> QED
      BY <2>1, <2>2, <2>3, <2>4, <2>5, <3>1 DEF Tally, GitHubMoves
  <2> QED
    BY <2>6
<1> QED
  BY <1>6, <1>7, <1>8 DEF ZombiesInv

\* An item of the listing is done with, and its run is called a zombie or not.
ItemDone(i, zombie) ==
    LET k == i.key
    IN  /\ i \in cycle.todo /\ zombie \in BOOLEAN
        /\ cycle'.todo = cycle.todo \ {i} /\ cycle'.zombies = cycle.zombies + (IF zombie THEN 1 ELSE 0)
        /\ cycle'.pc = cycle.pc /\ cycle'.start = cycle.start /\ cycle'.q = cycle.q
        /\ cycle'.steady = cycle.steady /\ cycle'.complete = cycle.complete
        /\ UNCHANGED <<now, queue>>
        /\ \A j \in Zombies!Key : j # k => look'[j] = look[j] /\ recheck'[j] \in {0, recheck[j]}
        /\ zombie => /\ now - i.started >= Grace
                     /\ look'[k] \in {"none", "kept"}
                     /\ look'[k] = "none" /\ Zombies!JobsAt(k) # Zombies!Never =>
                          cycle.start < Zombies!JobsAt(k) + Recheck
        /\ cycle'.clean /\ Zombies!JobsAt(k) = Zombies!Never /\ now - i.started >= Grace => zombie
        /\ cycle'.clean => cycle.clean

\* The tally goes on: what is called a zombie is no waiting run.
LEMMA ItemDoneTally ==
    ASSUME ZombiesInv, NEW i, NEW zombie, ItemDone(i, zombie)
    PROVE  ItemsInv' /\ TallyInv'
<1> USE ZombiesAssumption
<1> DEFINE k == i.key
           r == i.key[1]
<1>1. /\ i \in Item /\ k \in Zombies!Key /\ r \in Run /\ k \in Begun /\ i.started \in Nat
      /\ now \in Nat /\ cycle.start \in Nat /\ cycle.start <= now /\ cycle.zombies \in Nat
      /\ \A j \in Zombies!Key : recheck[j] \in Nat
      /\ cycle.todo \subseteq Item /\ cycle.steady \subseteq Run
  BY DEF ItemDone, ZombiesInv, QueueType, ItemsInv, Item, Zombies!Key
<1>2. /\ \A s \in Run : Zombies!KeyOf(s)' = Zombies!KeyOf(s) /\ Zombies!Attempt(s)' = Zombies!Attempt(s)
      /\ Begun' = Begun /\ Zombies!Queued' = Zombies!Queued
      /\ \A j : Zombies!JobsAt(j)' = Zombies!JobsAt(j)
  BY DEF ItemDone, Zombies!KeyOf, Zombies!Attempt, Zombies!Queued, Begun, Zombies!JobsAt, Zombies!Key
<1>3. \A j \in cycle'.todo : j \in cycle.todo /\ j.key[1] # r /\ j.key # k /\ j \in Item /\ j.key \in Zombies!Key
  BY <1>1 DEF ItemDone, ZombiesInv, ItemsInv, Item
<1>4. ItemsInv'
  <2>1. ASSUME NEW j \in cycle'.todo, recheck'[j.key] # 0 PROVE now - j.started >= Grace
    <3>1. recheck[j.key] # 0
      BY <1>3, <2>1 DEF ItemDone
    <3> QED
      BY <1>3, <3>1 DEF ZombiesInv, ItemsInv
  <2>2. ASSUME NEW j \in cycle'.todo
        PROVE  /\ j.key \in Begun'
               /\ j.key = Zombies!KeyOf(j.key[1])' => j.started = queue'[j.key[1]].started
               /\ j.key[1] \in cycle'.steady => j.key = Zombies!KeyOf(j.key[1])'
    <3>1. j.key[1] \in Run
      BY <1>3 DEF Zombies!Key
    <3> QED
      BY <1>2, <1>3, <3>1 DEF ZombiesInv, ItemsInv, ItemDone
  <2> QED
    BY <1>2, <1>3, <2>1, <2>2 DEF ItemDone, ZombiesInv, ItemsInv
<1>5. TallyInv'
  <2> SUFFICES ASSUME cycle.q # 0 PROVE \E C, Z \in SUBSET Run : Tally(C, Z)'
    BY DEF ZombiesInv, TallyInv, ItemDone
  <2>1. PICK C, Z \in SUBSET Run : Tally(C, Z)
    BY DEF ZombiesInv, TallyInv
  <2> DEFINE W == IF zombie THEN Z \cup {r} ELSE Z
  <2>2. W \in SUBSET Run /\ Cardinality(W) = cycle'.zombies
    <3>1. r \notin Z
      BY <2>1 DEF Tally, ItemDone, Due
    <3>2. IsFiniteSet(Z)
      BY FS_Subset
    <3>3. Cardinality(Z \cup {r}) = Cardinality(Z) + 1
      BY <3>1, <3>2, FS_AddElement
    <3>4. Cardinality(Z) = cycle.zombies
      BY <2>1 DEF Tally
    <3> QED
      BY <1>1, <3>3, <3>4 DEF ItemDone
  <2>3. ASSUME NEW s \in W \cap cycle.steady PROVE Empty(s)'
    <3>1. s \in Run /\ Zombies!KeyOf(s) \in Zombies!Key /\ Zombies!KeyOf(s)[1] = s
      BY <1>1, KeyOfBegun DEF ZombiesInv, Begun
    <3>2. CASE s = r /\ zombie
      <4>1. k = Zombies!KeyOf(s) /\ i.started = queue[s].started
        BY <2>3, <3>2 DEF ZombiesInv, ItemsInv, ItemDone
      <4> QED
        BY <1>2, <3>1, <3>2, <4>1 DEF Empty, ItemDone
    <3>3. CASE s \in Z /\ s # r
      <4>1. Empty(s)
        BY <2>1, <2>3, <3>3 DEF Tally
      <4>2. Zombies!KeyOf(s) # k
        BY <3>1, <3>3
      <4> QED
        BY <1>2, <3>1, <4>1, <4>2 DEF Empty, ItemDone
    <3>4. r \notin Z
      BY <2>1 DEF Tally, ItemDone, Due
    <3> QED
      BY <2>3, <3>2, <3>3, <3>4
  <2>4. \A s \in W : ~Due(s)'
    BY <1>3, <2>1 DEF Due, Tally, ItemDone
  <2>5. cycle.pc = "classify"
    BY DEF ZombiesInv, ItemsInv, ItemDone
  <2>6. W \subseteq C \/ now - cycle.start >= Grace
    <3>1. r \in C \/ i.started >= cycle.start
      BY <2>1 DEF Tally, ItemDone
    <3>2. zombie => now - i.started >= Grace
      BY DEF ItemDone
    <3>3. Z \subseteq C \/ now - cycle.start >= Grace
      BY <2>1 DEF Tally
    <3>4. zombie /\ i.started >= cycle.start => now - cycle.start >= Grace
      BY <1>1, <3>2
    <3> QED
      BY <3>1, <3>3, <3>4
  <2>7. ASSUME cycle.complete, cycle'.clean, NEW s \in cycle.steady, Zombies!Dead(s)'
        PROVE  s \in W \/ Due(s)'
    <3>1. s \in Run /\ Zombies!Dead(s)
      BY <1>1, <1>2, <2>7 DEF Zombies!Dead, ItemDone
    <3>2. s \in Z \/ Due(s)
      BY <2>1, <2>5, <2>7, <3>1 DEF Tally, ItemDone
    <3>3. CASE s = r /\ s \notin Z
      <4>1. k = Zombies!KeyOf(s) /\ i.started = queue[s].started
        BY <2>7, <3>3 DEF ZombiesInv, ItemsInv, ItemDone
      <4>2. now - i.started >= Grace /\ Zombies!JobsAt(k) = Zombies!Never
        <5>1. cycle.start - queue[s].started >= Grace /\ Zombies!JobsAt(Zombies!KeyOf(s)) = Zombies!Never
          BY <3>1 DEF Zombies!Dead
        <5> QED
          BY <1>1, <4>1, <5>1
      <4> QED
        BY <2>7, <3>3, <4>2 DEF ItemDone
    <3>4. CASE s # r /\ Due(s)
      BY <3>4 DEF Due, ItemDone
    <3> QED
      BY <3>2, <3>3, <3>4
  <2>8. \A j \in cycle'.todo : j.key[1] \in C \/ j.started >= cycle.start
    BY <1>3, <2>1 DEF Tally
  <2>9. Tally(C, W)'
    <3> HIDE DEF W
    <3>1. Cardinality(C) = cycle.q /\ cycle.steady \subseteq C
      BY <2>1 DEF Tally
    <3> QED
      BY <2>2, <2>3, <2>4, <2>5, <2>6, <2>7, <2>8, <3>1 DEF Tally, ItemDone
  <2> QED
    BY <2>2, <2>9
<1> QED
  BY <1>4, <1>5

\* What Marked does to the cycle.
LEMMA MarkedCycle ==
    ASSUME QueueType, NEW i \in cycle.todo, NEW zombie \in BOOLEAN, NEW ok \in BOOLEAN, Zombies!Marked(i, zombie, ok)
    PROVE  /\ cycle' \in [pc : {"idle", "list", "classify", "publish"}, start : Nat, q : Nat, steady : SUBSET Run,
                          todo : SUBSET Item, zombies : Nat, complete : BOOLEAN, clean : BOOLEAN]
           /\ cycle'.todo = cycle.todo \ {i} /\ cycle'.zombies = cycle.zombies + (IF zombie THEN 1 ELSE 0)
           /\ cycle'.pc = cycle.pc /\ cycle'.start = cycle.start /\ cycle'.q = cycle.q
           /\ cycle'.steady = cycle.steady /\ cycle'.complete = cycle.complete
           /\ cycle'.clean = (cycle.clean /\ ok)
<1> DEFINE R == [pc : {"idle", "list", "classify", "publish"}, start : Nat, q : Nat, steady : SUBSET Run,
                 todo : SUBSET Item, zombies : Nat, complete : BOOLEAN, clean : BOOLEAN]
           t == cycle.todo \ {i}
           z == cycle.zombies + (IF zombie THEN 1 ELSE 0)
           c == cycle.clean /\ ok
<1>1. cycle \in R
  BY DEF QueueType
<1>2. t \in SUBSET Item /\ z \in Nat /\ c \in BOOLEAN
  BY <1>1
<1>3. cycle' = [cycle EXCEPT !.todo = t, !.zombies = z, !.clean = c]
  BY DEF Zombies!Marked
<1> HIDE DEF t, z, c
<1>4. cycle' \in R /\ cycle'.todo = t /\ cycle'.zombies = z /\ cycle'.clean = c
      /\ cycle'.pc = cycle.pc /\ cycle'.start = cycle.start /\ cycle'.q = cycle.q
      /\ cycle'.steady = cycle.steady /\ cycle'.complete = cycle.complete
  BY <1>1, <1>2, <1>3
<1> QED
  BY <1>4 DEF t, z, c

\* The facts about the item at work that all three answers start from.
LEMMA ListedItem ==
    ASSUME ZombiesInv, NEW i \in cycle.todo
    PROVE  /\ i.key \in Zombies!Key /\ i.key \in Begun /\ i.key[1] \in Run /\ i.started \in Nat
           /\ now \in Nat /\ cycle.start \in Nat /\ cycle.start <= now
           /\ i.key = Zombies!KeyOf(i.key[1]) => i.started = queue[i.key[1]].started
           /\ recheck[i.key] # 0 =>
                /\ now - i.started >= Grace /\ look[i.key] \in {"none", "kept"}
                /\ look[i.key] = "none" /\ Zombies!JobsAt(i.key) # Zombies!Never =>
                     recheck[i.key] <= Zombies!JobsAt(i.key) + Recheck
           /\ i.key \in withJobs => Zombies!JobsAt(i.key) # Zombies!Never
           /\ recheck[i.key] \in Nat
           /\ Zombies!JobsAt(i.key) # Zombies!Never => Zombies!JobsAt(i.key) \in Nat
<1>1. i \in Item /\ i.key \in Zombies!Key /\ i.key[1] \in Run
  BY DEF ZombiesInv, QueueType, Item, Zombies!Key
<1>2. i.key \in Begun
  BY DEF ZombiesInv, ItemsInv
<1>3. Zombies!JobsAt(i.key) # Zombies!Never => Zombies!JobsAt(i.key) \in Nat
  BY <1>1, <1>2 DEF Begun, Zombies!Key, Zombies!JobsAt, Zombies!Attempt, ZombiesInv, QueueType
<1> QED
  BY <1>1, <1>2, <1>3 DEF ZombiesInv, QueueType, ItemsInv, CachesInv, Item

\* Nothing about GitHub changes while an item is classified.
LEMMA SameQueue ==
    ASSUME UNCHANGED queue
    PROVE  /\ \A k : Zombies!JobsAt(k)' = Zombies!JobsAt(k)
           /\ \A r : Zombies!KeyOf(r)' = Zombies!KeyOf(r) /\ Zombies!Attempt(r)' = Zombies!Attempt(r)
           /\ Begun' = Begun
BY DEF Zombies!JobsAt, Zombies!KeyOf, Zombies!Attempt, Begun

LEMMA QueueTypeKept ==
    ASSUME QueueType, UNCHANGED queue, now' \in Nat, withJobs' \subseteq Zombies!Key,
           recheck' \in [Zombies!Key -> Nat],
           look' \in [Zombies!Key -> {"never", "jobs", "none", "kept"}],
           cycle' \in [pc : {"idle", "list", "classify", "publish"}, start : Nat, q : Nat, steady : SUBSET Run,
                       todo : SUBSET Item, zombies : Nat, complete : BOOLEAN, clean : BOOLEAN]
    PROVE  QueueType'
<1>1. Zombies!Key' = Zombies!Key /\ Item' = Item
  BY DEF Zombies!Key, Item
<1>2. \A r \in Run : Zombies!Attempt(r)' \in 1..MaxAttempt
  BY SameQueue DEF QueueType
<1>3. queue' \in [Run -> [queued : BOOLEAN, started : Nat, jobs : Seq(Nat \cup {Zombies!Never})]]
  BY DEF QueueType
<1> HIDE DEF Item
<1> QED
  BY <1>1, <1>2, <1>3 DEF QueueType

LEMMA RecallKeeps ==
    ASSUME ZombiesInv, NEW i \in cycle.todo, Zombies!Recall(i)
    PROVE  ZombiesInv'
<1> USE ZombiesAssumption
<1> DEFINE k == i.key
           zombie == k \notin withJobs /\ now < recheck[k]
<1>1. zombie \in BOOLEAN /\ UNCHANGED <<now, queue, withJobs, recheck, look>>
      /\ Zombies!Settled(i) /\ Zombies!Marked(i, zombie, TRUE)
  BY DEF Zombies!Recall
<1>2. QueueType
  BY DEF ZombiesInv
<1> HIDE DEF zombie
<1>3. /\ cycle' \in [pc : {"idle", "list", "classify", "publish"}, start : Nat, q : Nat, steady : SUBSET Run,
                     todo : SUBSET Item, zombies : Nat, complete : BOOLEAN, clean : BOOLEAN]
      /\ cycle'.todo = cycle.todo \ {i} /\ cycle'.zombies = cycle.zombies + (IF zombie THEN 1 ELSE 0)
      /\ cycle'.pc = cycle.pc /\ cycle'.start = cycle.start /\ cycle'.q = cycle.q
      /\ cycle'.steady = cycle.steady /\ cycle'.complete = cycle.complete
      /\ cycle'.clean = (cycle.clean /\ TRUE)
  BY <1>1, <1>2, MarkedCycle
<1>4. QueueType' /\ CachesInv'
  <2>1. QueueType'
    BY <1>1, <1>2, <1>3, QueueTypeKept DEF QueueType
  <2>2. Zombies!Key' = Zombies!Key
    BY DEF Zombies!Key
  <2>3. CachesInv'
    BY <1>1, <2>2, SameQueue DEF ZombiesInv, CachesInv
  <2> QED
    BY <2>1, <2>3
<1>5. zombie => /\ now - i.started >= Grace /\ look[k] \in {"none", "kept"}
                /\ look[k] = "none" /\ Zombies!JobsAt(k) # Zombies!Never => cycle.start < Zombies!JobsAt(k) + Recheck
  BY ListedItem DEF zombie
<1>6. Zombies!JobsAt(k) = Zombies!Never /\ now - i.started >= Grace => zombie
  BY <1>1, ListedItem DEF zombie, Zombies!Settled
<1>7. ItemDone(i, zombie)
  BY <1>1, <1>3, <1>5, <1>6 DEF ItemDone
<1> QED
  BY <1>4, <1>7, ItemDoneTally DEF ZombiesInv

LEMMA LookKeeps ==
    ASSUME ZombiesInv, NEW i \in cycle.todo, Zombies!Look(i)
    PROVE  ZombiesInv'
<1> USE ZombiesAssumption
<1> DEFINE k == i.key
           found == Zombies!JobsAt(k) # Zombies!Never
           zombie == ~found
<1>1. /\ UNCHANGED <<now, queue>>
      /\ ~Zombies!Settled(i) /\ Zombies!Marked(i, zombie, TRUE)
      /\ look' = [look EXCEPT ![k] = IF found THEN "jobs" ELSE "none"]
      /\ IF found THEN Zombies!FoundJobs(k) ELSE Zombies!FoundNone(k)
  BY DEF Zombies!Look
<1>2. QueueType /\ zombie \in BOOLEAN
  BY DEF ZombiesInv
<1>3. /\ cycle' \in [pc : {"idle", "list", "classify", "publish"}, start : Nat, q : Nat, steady : SUBSET Run,
                     todo : SUBSET Item, zombies : Nat, complete : BOOLEAN, clean : BOOLEAN]
      /\ cycle'.todo = cycle.todo \ {i} /\ cycle'.zombies = cycle.zombies + (IF zombie THEN 1 ELSE 0)
      /\ cycle'.pc = cycle.pc /\ cycle'.start = cycle.start /\ cycle'.q = cycle.q
      /\ cycle'.steady = cycle.steady /\ cycle'.complete = cycle.complete
      /\ cycle'.clean = (cycle.clean /\ TRUE)
  <2> HIDE DEF zombie
  <2> QED
    BY <1>1, <1>2, MarkedCycle
<1>4. /\ k \in Zombies!Key /\ k \in Begun /\ now \in Nat /\ i.started \in Nat
      /\ now - i.started >= Grace /\ cycle.start <= now
      /\ k = Zombies!KeyOf(k[1]) => i.started = queue[k[1]].started
  BY <1>1, ListedItem DEF Zombies!Settled
<1>5. /\ recheck' \in [Zombies!Key -> Nat]
      /\ \A j \in Zombies!Key : j # k => recheck'[j] \in {0, recheck[j]}
      /\ recheck'[k] = IF found THEN 0 ELSE now + Recheck
  <2>1. CASE found
    <3>1. recheck' = [recheck EXCEPT ![k] = 0]
      BY <1>1, <2>1 DEF Zombies!FoundJobs
    <3> HIDE DEF found
    <3> QED
      BY <1>2, <1>4, <2>1, <3>1 DEF QueueType
  <2>2. CASE ~found
    <3> DEFINE base == IF Zombies!Cardinality(Zombies!Held) > CacheMax THEN [h \in Zombies!Key |-> 0] ELSE recheck
    <3>1. base \in [Zombies!Key -> Nat] /\ \A j \in Zombies!Key : base[j] \in {0, recheck[j]}
      BY <1>2 DEF QueueType
    <3>2. recheck' = [base EXCEPT ![k] = now + Recheck]
      BY <1>1, <2>2 DEF Zombies!FoundNone
    <3> HIDE DEF base
    <3> QED
      BY <1>4, <2>2, <3>1, <3>2
  <2> QED
    BY <2>1, <2>2
<1>6. withJobs' \subseteq withJobs \cup {k} /\ (k \in withJobs' => found \/ k \in withJobs)
  BY <1>1 DEF Zombies!FoundJobs, Zombies!FoundNone
<1>7. /\ look' \in [Zombies!Key -> {"never", "jobs", "none", "kept"}]
      /\ look'[k] = (IF found THEN "jobs" ELSE "none")
      /\ \A j \in Zombies!Key : j # k => look'[j] = look[j]
  BY <1>1, <1>2, <1>4 DEF QueueType
<1>8. QueueType'
  <2>1. withJobs' \subseteq Zombies!Key
    BY <1>2, <1>4, <1>6 DEF QueueType
  <2> HIDE DEF found, zombie
  <2> QED
    BY <1>1, <1>2, <1>3, <1>4, <1>5, <1>7, <2>1, QueueTypeKept
<1>9. CachesInv'
  <2>1. ASSUME NEW j \in withJobs' PROVE j \in Begun /\ Zombies!JobsAt(j) # Zombies!Never
    BY <1>4, <1>6, <2>1 DEF ZombiesInv, CachesInv
  <2>2. ASSUME NEW j \in Zombies!Key, recheck'[j] # 0, j # k
        PROVE  /\ j \in Begun /\ recheck'[j] <= now + Recheck /\ look'[j] \in {"none", "kept"}
               /\ j = Zombies!KeyOf(j[1]) => now - queue[j[1]].started >= Grace
               /\ look'[j] = "none" /\ Zombies!JobsAt(j) # Zombies!Never => recheck'[j] <= Zombies!JobsAt(j) + Recheck
    BY <1>5, <1>7, <2>2 DEF ZombiesInv, CachesInv
  <2>3. recheck'[k] # 0 => ~found /\ recheck'[k] = now + Recheck /\ look'[k] = "none"
    BY <1>5, <1>7
  <2>4. Zombies!Key' = Zombies!Key /\ k = Zombies!KeyOf(k[1]) => now - queue[k[1]].started >= Grace
    BY <1>4 DEF Zombies!Key
  <2> QED
    BY <1>1, <1>4, <2>1, <2>2, <2>3, <2>4, SameQueue DEF CachesInv, Zombies!Key
<1>10. ItemDone(i, zombie)
  BY <1>1, <1>2, <1>3, <1>4, <1>5, <1>7 DEF ItemDone
<1> QED
  BY <1>8, <1>9, <1>10, ItemDoneTally DEF ZombiesInv

LEMMA LookFailsKeeps ==
    ASSUME ZombiesInv, NEW i \in cycle.todo, Zombies!LookFails(i)
    PROVE  ZombiesInv'
<1> USE ZombiesAssumption
<1> DEFINE k == i.key
           known == recheck[k] # 0
<1>1. /\ UNCHANGED <<now, queue, withJobs>>
      /\ ~Zombies!Settled(i) /\ Zombies!Marked(i, known, FALSE)
      /\ look' = [look EXCEPT ![k] = IF known /\ @ = "none" THEN "kept" ELSE @]
      /\ recheck' = IF known THEN [recheck EXCEPT ![k] = now + Recheck] ELSE recheck
  BY DEF Zombies!LookFails
<1>2. QueueType /\ known \in BOOLEAN
  BY DEF ZombiesInv
<1>3. /\ cycle' \in [pc : {"idle", "list", "classify", "publish"}, start : Nat, q : Nat, steady : SUBSET Run,
                     todo : SUBSET Item, zombies : Nat, complete : BOOLEAN, clean : BOOLEAN]
      /\ cycle'.todo = cycle.todo \ {i} /\ cycle'.zombies = cycle.zombies + (IF known THEN 1 ELSE 0)
      /\ cycle'.pc = cycle.pc /\ cycle'.start = cycle.start /\ cycle'.q = cycle.q
      /\ cycle'.steady = cycle.steady /\ cycle'.complete = cycle.complete
      /\ cycle'.clean = (cycle.clean /\ FALSE)
  <2> HIDE DEF known
  <2> QED
    BY <1>1, <1>2, MarkedCycle
<1>4. /\ k \in Zombies!Key /\ k \in Begun /\ now \in Nat /\ i.started \in Nat
      /\ now - i.started >= Grace
      /\ k = Zombies!KeyOf(k[1]) => i.started = queue[k[1]].started
      /\ known => look[k] \in {"none", "kept"}
  BY <1>1, ListedItem DEF Zombies!Settled
<1>5. /\ recheck' \in [Zombies!Key -> Nat]
      /\ \A j \in Zombies!Key : j # k => recheck'[j] = recheck[j]
      /\ recheck'[k] = IF known THEN now + Recheck ELSE 0
  BY <1>1, <1>2, <1>4 DEF QueueType
<1>7. /\ look' \in [Zombies!Key -> {"never", "jobs", "none", "kept"}]
      /\ known => look'[k] = "kept"
      /\ \A j \in Zombies!Key : j # k => look'[j] = look[j]
  BY <1>1, <1>2, <1>4 DEF QueueType
<1>8. QueueType'
  <2>1. withJobs' \subseteq Zombies!Key
    BY <1>1, <1>2 DEF QueueType
  <2> QED
    BY <1>1, <1>2, <1>3, <1>4, <1>5, <1>7, <2>1, QueueTypeKept
<1>9. CachesInv'
  <2>2. ASSUME NEW j \in Zombies!Key, recheck'[j] # 0, j # k
        PROVE  /\ j \in Begun /\ recheck'[j] <= now + Recheck /\ look'[j] \in {"none", "kept"}
               /\ j = Zombies!KeyOf(j[1]) => now - queue[j[1]].started >= Grace
               /\ look'[j] = "none" /\ Zombies!JobsAt(j) # Zombies!Never => recheck'[j] <= Zombies!JobsAt(j) + Recheck
    BY <1>5, <1>7, <2>2 DEF ZombiesInv, CachesInv
  <2>3. recheck'[k] # 0 => recheck'[k] = now + Recheck /\ look'[k] = "kept"
    BY <1>5, <1>7
  <2>4. Zombies!Key' = Zombies!Key /\ k = Zombies!KeyOf(k[1]) => now - queue[k[1]].started >= Grace
    BY <1>4 DEF Zombies!Key
  <2>5. \A j \in withJobs' : j \in Begun /\ Zombies!JobsAt(j) # Zombies!Never
    BY <1>1 DEF ZombiesInv, CachesInv
  <2> QED
    BY <1>1, <1>4, <2>2, <2>3, <2>4, <2>5, SameQueue DEF CachesInv, Zombies!Key
<1>10. ItemDone(i, known)
  BY <1>1, <1>2, <1>3, <1>4, <1>5, <1>7 DEF ItemDone
<1> QED
  BY <1>8, <1>9, <1>10, ItemDoneTally DEF ZombiesInv

LEMMA CountQueued == \A S : Zombies!Cardinality(S) = Cardinality(S)
BY DEF Zombies!Cardinality, Cardinality

LEMMA ZombiesStart == Zombies!Init => ZombiesInv
<1> SUFFICES ASSUME Zombies!Init PROVE ZombiesInv
  OBVIOUS
<1>1. \A r \in Run : queue[r].jobs = <<Zombies!Never>> /\ queue[r].queued /\ queue[r].started = 0
  BY DEF Zombies!Init
<1>2. \A r \in Run : Zombies!Attempt(r) = 1
  <2>1. Len(<<Zombies!Never>>) = 1
    OBVIOUS
  <2> QED
    BY <1>1, <2>1 DEF Zombies!Attempt
<1>3. QueueType
  BY <1>1, <1>2, ZombiesAssumption DEF Zombies!Init, QueueType, Zombies!Idle
<1> QED
  BY <1>3 DEF Zombies!Init, ZombiesInv, CachesInv, ItemsInv, TallyInv, Zombies!Idle, Zombies!Queued

\* A step that only sets the cycle.
CycleSet ==
    /\ UNCHANGED <<now, queue, look>>
    /\ cycle' \in [pc : {"idle", "list", "classify", "publish"}, start : Nat, q : Nat, steady : SUBSET Run,
                   todo : SUBSET Item, zombies : Nat, complete : BOOLEAN, clean : BOOLEAN]
    /\ \/ UNCHANGED <<withJobs, recheck>>
       \/ withJobs' = {} /\ recheck' = [k \in Zombies!Key |-> 0]

LEMMA CycleSetKeeps ==
    ASSUME ZombiesInv, CycleSet
    PROVE  /\ QueueType' /\ CachesInv'
           /\ Zombies!Queued' = Zombies!Queued
           /\ \A r \in Run : Zombies!Dead(r)' <=> cycle'.start - queue[r].started >= Grace
                                                /\ Zombies!JobsAt(Zombies!KeyOf(r)) = Zombies!Never
<1>1. QueueType'
  <2>1. now' \in Nat /\ withJobs' \subseteq Zombies!Key
        /\ look' \in [Zombies!Key -> {"never", "jobs", "none", "kept"}] /\ recheck' \in [Zombies!Key -> Nat]
    BY DEF CycleSet, ZombiesInv, QueueType
  <2> QED
    BY <2>1, QueueTypeKept DEF CycleSet, ZombiesInv
<1>2. Zombies!Key' = Zombies!Key
  BY DEF Zombies!Key
<1>3. CachesInv'
  BY <1>2, SameQueue DEF CycleSet, ZombiesInv, CachesInv
<1>4. Zombies!Queued' = Zombies!Queued
  BY DEF CycleSet, Zombies!Queued
<1>5. \A r \in Run : Zombies!Dead(r)' <=> cycle'.start - queue[r].started >= Grace
                                          /\ Zombies!JobsAt(Zombies!KeyOf(r)) = Zombies!Never
  BY DEF CycleSet, Zombies!Dead, Zombies!JobsAt, Zombies!KeyOf, Zombies!Attempt
<1> QED
  BY <1>1, <1>3, <1>4, <1>5

LEMMA CountRunsKeeps ==
    ASSUME ZombiesInv, NEW ok \in BOOLEAN, NEW busy \in BOOLEAN, Zombies!CountRuns(ok, busy)
    PROVE  ZombiesInv'
<1> DEFINE q == IF ok THEN Zombies!Cardinality(Zombies!Queued) ELSE 0
           pc == IF q > 0 \/ busy THEN "list" ELSE "publish"
           steady == IF ok THEN Zombies!Queued ELSE {}
<1>1. /\ cycle' = [Zombies!Idle EXCEPT !.pc = pc, !.start = now, !.q = q, !.clean = ok, !.steady = steady]
      /\ UNCHANGED <<now, queue, withJobs, recheck, look>>
  BY DEF Zombies!CountRuns
<1>2. Zombies!Queued \subseteq Run /\ IsFiniteSet(Zombies!Queued)
  BY ZombiesAssumption, FS_Subset DEF Zombies!Queued
<1>3. q \in Nat /\ steady \subseteq Run /\ now \in Nat /\ pc \in {"list", "publish"}
      /\ (q = 0 => steady = {}) /\ (q # 0 => steady = Zombies!Queued /\ pc = "list" /\ q = Cardinality(Zombies!Queued))
  BY <1>2, CountQueued, FS_CardinalityType, FS_EmptySet DEF ZombiesInv, QueueType
<1> HIDE DEF q, pc, steady
<1>4. /\ cycle'.pc = pc /\ cycle'.start = now /\ cycle'.q = q /\ cycle'.clean = ok /\ cycle'.steady = steady
      /\ cycle'.todo = {} /\ cycle'.zombies = 0
      /\ cycle' \in [pc : {"idle", "list", "classify", "publish"}, start : Nat, q : Nat, steady : SUBSET Run,
                     todo : SUBSET Item, zombies : Nat, complete : BOOLEAN, clean : BOOLEAN]
  BY <1>1, <1>3 DEF Zombies!Idle
<1>5. QueueType' /\ CachesInv' /\ Zombies!Queued' = Zombies!Queued
  BY <1>1, <1>4, CycleSetKeeps DEF CycleSet
<1>6. ItemsInv'
  BY <1>1, <1>3, <1>4, <1>5 DEF ItemsInv, steady
<1>7. TallyInv'
  <2>1. CASE q = 0
    BY <1>3, <1>4, <2>1 DEF TallyInv
  <2>2. CASE q # 0
    <3>1. Tally(Zombies!Queued, {})'
      BY <1>3, <1>4, <1>5, <2>2, FS_EmptySet DEF Tally, Due
    <3>2. \E C, Z \in SUBSET Run : Tally(C, Z)'
      BY <1>2, <1>5, <3>1
    <3> QED
      BY <1>3, <1>4, <2>2, <3>2 DEF TallyInv
  <2> QED
    BY <2>1, <2>2
<1> QED
  BY <1>5, <1>6, <1>7 DEF ZombiesInv

LEMMA ListRunsKeeps ==
    ASSUME ZombiesInv, Zombies!ListRuns
    PROVE  ZombiesInv'
<1> DEFINE listed == {[key |-> Zombies!KeyOf(r), started |-> queue[r].started] : r \in Zombies!Queued}
<1>1. /\ cycle' = [cycle EXCEPT !.pc = "classify", !.todo = listed] /\ cycle.pc = "list"
      /\ UNCHANGED <<now, queue, withJobs, recheck, look>>
  BY DEF Zombies!ListRuns
<1>2. \A r \in Zombies!Queued : /\ r \in Run /\ Zombies!KeyOf(r) \in Begun /\ Zombies!KeyOf(r)[1] = r
                                /\ queue[r].started \in Nat /\ Zombies!KeyOf(r) \in Zombies!Key
  BY KeyOfBegun DEF ZombiesInv, QueueType, Zombies!Queued, Begun
<1>3. listed \in SUBSET Item
  BY <1>2 DEF Item
<1>4. \A i \in listed : i.key[1] \in Zombies!Queued /\ i.key = Zombies!KeyOf(i.key[1]) /\ i.key \in Begun
                        /\ i.started = queue[i.key[1]].started /\ i.key \in Zombies!Key
  BY <1>2
<1>5. \A i, j \in listed : i.key[1] = j.key[1] => i = j
  BY <1>2
<1>6. \A r \in Zombies!Queued : \E i \in listed : i.key[1] = r
  <2> TAKE r \in Zombies!Queued
  <2> WITNESS [key |-> Zombies!KeyOf(r), started |-> queue[r].started] \in listed
  <2> QED
    BY <1>2
<1> HIDE DEF listed
<1>7. /\ cycle'.pc = "classify" /\ cycle'.start = cycle.start /\ cycle'.q = cycle.q /\ cycle'.steady = cycle.steady
      /\ cycle'.todo = listed /\ cycle'.zombies = cycle.zombies
      /\ cycle' \in [pc : {"idle", "list", "classify", "publish"}, start : Nat, q : Nat, steady : SUBSET Run,
                     todo : SUBSET Item, zombies : Nat, complete : BOOLEAN, clean : BOOLEAN]
  BY <1>1, <1>3 DEF ZombiesInv, QueueType
<1>8. QueueType' /\ CachesInv' /\ Zombies!Queued' = Zombies!Queued
  BY <1>1, <1>7, CycleSetKeeps DEF CycleSet
<1>9. ItemsInv'
  <2>1. ASSUME NEW i \in listed
        PROVE  /\ i.key \in Begun' /\ i.key = Zombies!KeyOf(i.key[1])'
               /\ i.started = queue'[i.key[1]].started
               /\ recheck'[i.key] # 0 => now - i.started >= Grace
    <3>1. i.key = Zombies!KeyOf(i.key[1])' /\ i.key \in Begun'
      BY <1>1, <1>4, SameQueue
    <3>2. recheck[i.key] # 0 => now - queue[i.key[1]].started >= Grace
      BY <1>4 DEF ZombiesInv, CachesInv
    <3> QED
      BY <1>1, <1>4, <3>1, <3>2
  <2> QED
    BY <1>1, <1>5, <1>7, <1>8, <2>1 DEF ItemsInv, ZombiesInv
<1>10. TallyInv'
  <2> SUFFICES ASSUME cycle.q # 0 PROVE \E C, Z \in SUBSET Run : Tally(C, Z)'
    BY <1>1, <1>7 DEF ZombiesInv, TallyInv
  <2>1. PICK C, Z \in SUBSET Run : Tally(C, Z)
    BY DEF ZombiesInv, TallyInv
  <2>2. Z = {} /\ \A r \in Zombies!Queued \ C : queue[r].started >= cycle.start
    BY <1>1, <2>1 DEF Tally
  <2>3. \A r \in cycle.steady : Due(r)'
    BY <1>6, <1>7 DEF Due, ZombiesInv, ItemsInv
  <2>4. Tally(C, Z)'
    BY <1>1, <1>4, <1>7, <2>1, <2>2, <2>3 DEF Tally
  <2> QED
    BY <2>4
<1> QED
  BY <1>8, <1>9, <1>10 DEF ZombiesInv

LEMMA ListingFailsKeeps ==
    ASSUME ZombiesInv, Zombies!ListingFails
    PROVE  ZombiesInv'
<1>1. /\ cycle' = [cycle EXCEPT !.pc = "classify", !.todo = {}, !.complete = FALSE]
      /\ UNCHANGED <<now, queue, withJobs, recheck, look>>
  BY DEF Zombies!ListingFails
<1>2. /\ cycle'.pc = "classify" /\ cycle'.start = cycle.start /\ cycle'.q = cycle.q /\ cycle'.steady = cycle.steady
      /\ cycle'.todo = {} /\ cycle'.zombies = cycle.zombies /\ ~cycle'.complete
      /\ cycle' \in [pc : {"idle", "list", "classify", "publish"}, start : Nat, q : Nat, steady : SUBSET Run,
                     todo : SUBSET Item, zombies : Nat, complete : BOOLEAN, clean : BOOLEAN]
  BY <1>1 DEF ZombiesInv, QueueType
<1>3. QueueType' /\ CachesInv' /\ Zombies!Queued' = Zombies!Queued
  BY <1>1, <1>2, CycleSetKeeps DEF CycleSet
<1>4. ItemsInv'
  BY <1>1, <1>2, <1>3 DEF ItemsInv, ZombiesInv
<1>5. TallyInv'
  <2> SUFFICES ASSUME cycle.q # 0 PROVE \E C, Z \in SUBSET Run : Tally(C, Z)'
    BY <1>1, <1>2 DEF ZombiesInv, TallyInv
  <2>1. PICK C, Z \in SUBSET Run : Tally(C, Z)
    BY DEF ZombiesInv, TallyInv
  <2>2. \A r \in Z \cap cycle.steady : Empty(r)'
    <3> TAKE r \in Z \cap cycle.steady
    <3>1. Empty(r)
      BY <2>1 DEF Tally
    <3> QED
      BY <1>1, <1>2, <3>1, SameQueue DEF Empty
  <2>3. Tally(C, Z)'
    BY <1>1, <1>2, <2>1, <2>2 DEF Tally, Due
  <2> QED
    BY <2>3
<1> QED
  BY <1>3, <1>4, <1>5 DEF ZombiesInv

\* The cycle ends, or the process is started again.
LEMMA CycleEnds ==
    ASSUME ZombiesInv, Zombies!Publish \/ Zombies!Restart
    PROVE  ZombiesInv'
<1>1. cycle' = Zombies!Idle /\ CycleSet
  <2>1. Zombies!Idle \in [pc : {"idle", "list", "classify", "publish"}, start : Nat, q : Nat, steady : SUBSET Run,
                          todo : SUBSET Item, zombies : Nat, complete : BOOLEAN, clean : BOOLEAN]
    BY DEF Zombies!Idle
  <2>2. CASE Zombies!Publish
    BY <2>1, <2>2 DEF Zombies!Publish, CycleSet
  <2>3. CASE Zombies!Restart
    BY <2>1, <2>3 DEF Zombies!Restart, CycleSet
  <2> QED
    BY <2>2, <2>3
<1>2. cycle'.q = 0 /\ cycle'.steady = {} /\ cycle'.todo = {} /\ cycle'.start = 0 /\ cycle'.pc = "idle"
  BY <1>1 DEF Zombies!Idle
<1>3. QueueType' /\ CachesInv'
  BY <1>1, CycleSetKeeps
<1> QED
  BY <1>1, <1>2, <1>3 DEF ZombiesInv, ItemsInv, TallyInv, CycleSet, QueueType

LEMMA TickKeeps ==
    ASSUME ZombiesInv, Zombies!Tick
    PROVE  ZombiesInv'
<1>1. now' = now + 1 /\ now \in Nat /\ UNCHANGED <<queue, withJobs, recheck, cycle, look>>
  BY DEF Zombies!Tick, ZombiesInv, QueueType
<1>2. QueueType'
  BY <1>1, QueueTypeKept DEF ZombiesInv, QueueType
<1>3. Zombies!Key' = Zombies!Key /\ Zombies!Queued' = Zombies!Queued
  BY <1>1 DEF Zombies!Key, Zombies!Queued
<1>4. \A r \in Run : queue[r].started \in Nat
  BY DEF ZombiesInv, QueueType
<1>5. \A k \in Zombies!Key : k[1] \in Run /\ recheck[k] \in Nat
  BY DEF Zombies!Key, ZombiesInv, QueueType
<1>6. CachesInv'
  BY <1>1, <1>3, <1>4, <1>5, SameQueue, ZombiesAssumption DEF ZombiesInv, CachesInv
<1>7. ItemsInv'
  BY <1>1, <1>3, SameQueue, ZombiesAssumption DEF ZombiesInv, ItemsInv, QueueType, Item
<1>8. TallyInv'
  <2> SUFFICES ASSUME cycle.q # 0 PROVE \E C, Z \in SUBSET Run : Tally(C, Z)'
    BY <1>1 DEF ZombiesInv, TallyInv
  <2>1. PICK C, Z \in SUBSET Run : Tally(C, Z)
    BY DEF ZombiesInv, TallyInv
  <2>2. \A r \in Z \cap cycle.steady : Empty(r)'
    <3> TAKE r \in Z \cap cycle.steady
    <3>1. Empty(r)
      BY <2>1 DEF Tally
    <3>2. now' - queue[r].started >= Grace
      BY <1>1, <1>4, <3>1, ZombiesAssumption DEF Empty
    <3> QED
      BY <1>1, <3>1, <3>2, SameQueue DEF Empty
  <2>3. \A r : Zombies!Dead(r)' <=> Zombies!Dead(r)
    BY <1>1, SameQueue DEF Zombies!Dead
  <2>4. now - cycle.start >= Grace => now' - cycle.start >= Grace
    BY <1>1, ZombiesAssumption DEF ZombiesInv, QueueType
  <2>5. Tally(C, Z)'
    BY <1>1, <1>3, <2>1, <2>2, <2>3, <2>4 DEF Tally, Due
  <2> QED
    BY <2>5
<1> QED
  BY <1>2, <1>6, <1>7, <1>8 DEF ZombiesInv

LEMMA ZombiesStep ==
    ASSUME ZombiesInv, [Zombies!Next]_zombieVars
    PROVE  ZombiesInv'
<1>1. CASE UNCHANGED zombieVars
  <2>1. UNCHANGED <<now, queue, withJobs, recheck, cycle, look>>
    BY <1>1 DEF zombieVars
  <2>2. CycleSet
    BY <2>1 DEF CycleSet, ZombiesInv, QueueType
  <2>3. QueueType' /\ CachesInv' /\ Zombies!Queued' = Zombies!Queued
    BY <2>2, CycleSetKeeps
  <2>4. ItemsInv'
    BY <2>1, <2>3, SameQueue DEF ZombiesInv, ItemsInv
  <2>5. \A C, Z \in SUBSET Run : Tally(C, Z) => Tally(C, Z)'
    <3> TAKE C, Z \in SUBSET Run
    <3>1. \A r : (Zombies!Dead(r)' <=> Zombies!Dead(r)) /\ (Due(r)' <=> Due(r)) /\ (Empty(r)' <=> Empty(r))
      BY <2>1, SameQueue DEF Zombies!Dead, Due, Empty
    <3> QED
      BY <2>1, <2>3, <3>1 DEF Tally
  <2> QED
    BY <2>1, <2>3, <2>4, <2>5 DEF ZombiesInv, TallyInv
<1>2. ASSUME NEW r \in Run, Zombies!JobsAppear(r) \/ Zombies!Leaves(r) \/ Zombies!Rerun(r)
      PROVE  ZombiesInv'
  BY <1>2, JobsAppearMoves, LeavesMoves, RerunMoves, GitHubMovesKeep DEF ZombiesInv
<1>3. ASSUME NEW i \in cycle.todo, Zombies!Recall(i) \/ Zombies!Look(i) \/ Zombies!LookFails(i)
      PROVE  ZombiesInv'
  BY <1>3, RecallKeeps, LookKeeps, LookFailsKeeps
<1> QED
  BY <1>1, <1>2, <1>3, TickKeeps, ListRunsKeeps, ListingFailsKeeps, CycleEnds, CountRunsKeeps DEF Zombies!Next

LEMMA ZombiesInvariant == MCSpec => []ZombiesInv
<1>1. MCInit => ZombiesInv
  BY ZombiesStart DEF MCInit
<1>2. [MCNext]_allVars => [Zombies!Next]_zombieVars
  BY DEF MCNext, allVars
<1> QED
  BY <1>1, <1>2, ZombiesStep, PTL DEF MCSpec

\* In a cycle shorter than the grace period the queued gauge is no smaller than
\* the number of runs that were queued throughout and wait for a runner, and
\* after a cycle without a failed call the zombie gauge is no smaller than the
\* number of those that never got jobs, for any runs and re-runs (collect,
\* _is_zombie_run).
THEOREM QueueGaugeIsHonest == MCSpec => []QueueGaugeHonest
<1>1. ASSUME ZombiesInv, Zombies!Publishing
      PROVE  /\ now - cycle.start < Grace =>
                  Zombies!QueuedGauge >= Zombies!Cardinality({r \in cycle.steady : Zombies!Waiting(r)})
             /\ cycle.clean /\ cycle.complete =>
                  Zombies!ZombieGauge >= Zombies!Cardinality({r \in cycle.steady : Zombies!Dead(r)})
  <2> DEFINE waiting == {r \in cycle.steady : Zombies!Waiting(r)}
             dead == {r \in cycle.steady : Zombies!Dead(r)}
  <2>1. /\ cycle.q \in Nat /\ cycle.zombies \in Nat /\ cycle.steady \subseteq Run /\ cycle.todo = {}
        /\ IsFiniteSet(Run) /\ cycle.complete \in BOOLEAN
    BY <1>1, ZombiesAssumption DEF ZombiesInv, QueueType, Zombies!Publishing
  <2>2. \A x, y \in Nat : Zombies!Min({x, y}) = IF x <= y THEN x ELSE y
    <3> TAKE x, y \in Nat
    <3> DEFINE m == IF x <= y THEN x ELSE y
    <3>1. m \in {x, y} /\ \A z \in {x, y} : m <= z /\ z \in Nat
      OBVIOUS
    <3>2. \A n \in {x, y} : (\A z \in {x, y} : n <= z) => n = m
      OBVIOUS
    <3> HIDE DEF m
    <3> QED
      BY <3>1, <3>2 DEF Zombies!Min
  <2>3. CASE cycle.q = 0
    <3>1. cycle.steady = {}
      BY <1>1, <2>3 DEF ZombiesInv, TallyInv
    <3>2. Zombies!QueuedGauge = 0 /\ Zombies!ZombieGauge = 0
      BY <2>1, <2>2, <2>3 DEF Zombies!QueuedGauge, Zombies!ZombieGauge, Zombies!Subtracted
    <3>3. waiting = {} /\ dead = {}
      BY <3>1
    <3> HIDE DEF waiting, dead
    <3> QED
      BY <3>2, <3>3, CountQueued, FS_EmptySet DEF waiting, dead
  <2>4. CASE cycle.q # 0
    <3>1. PICK C, Z \in SUBSET Run : Tally(C, Z)
      BY <1>1, <2>4 DEF ZombiesInv, TallyInv
    <3>2. cycle.pc = "classify"
      BY <1>1, <2>4 DEF Zombies!Publishing, ZombiesInv, TallyInv
    <3>3. waiting \cap Z = {}
      <4>1. ASSUME NEW r \in cycle.steady, Empty(r) PROVE ~Zombies!Waiting(r)
        <5>1. r \in Run /\ Zombies!KeyOf(r) \in Begun /\ queue[r].started \in Nat /\ now \in Nat
              /\ cycle.start \in Nat
          BY <1>1, <2>1, KeyOfBegun DEF ZombiesInv, QueueType
        <5>2. Zombies!JobsAt(Zombies!KeyOf(r)) # Zombies!Never => Zombies!JobsAt(Zombies!KeyOf(r)) \in Nat
          BY <1>1, <5>1 DEF ZombiesInv, QueueType, Begun, Zombies!Key, Zombies!JobsAt, Zombies!Attempt
        <5> QED
          BY <4>1, <5>1, <5>2, ZombiesAssumption DEF Empty, Zombies!Waiting
      <4> QED
        BY <3>1, <4>1 DEF Tally
    <3>4. cycle.clean /\ cycle.complete => dead \subseteq Z
      BY <2>1, <3>1, <3>2 DEF Tally, Due
    <3>5. waiting \subseteq C /\ dead \subseteq C
      BY <3>1 DEF Tally
    <3> HIDE DEF waiting, dead
    <3>6. /\ IsFiniteSet(C) /\ IsFiniteSet(Z)
          /\ Cardinality(C) = cycle.q /\ Cardinality(Z) = cycle.zombies
      BY <2>1, <3>1, FS_Subset DEF Tally
    <3>7. /\ IsFiniteSet(waiting) /\ Cardinality(waiting) \in Nat /\ Cardinality(waiting) <= cycle.q
          /\ Cardinality(dead) \in Nat /\ Cardinality(dead) <= cycle.q
          /\ cycle.clean /\ cycle.complete => Cardinality(dead) <= cycle.zombies
      BY <3>4, <3>5, <3>6, FS_Subset, FS_CardinalityType
    <3>8. now - cycle.start < Grace => Cardinality(waiting) + cycle.zombies <= cycle.q
      <4> SUFFICES ASSUME now - cycle.start < Grace PROVE Cardinality(waiting) + cycle.zombies <= cycle.q
        OBVIOUS
      <4>1. Z \subseteq C
        BY <1>1, <3>1, ZombiesAssumption DEF Tally, ZombiesInv, QueueType
      <4>2. Cardinality(waiting \cup Z) = Cardinality(waiting) + Cardinality(Z)
        <5>1. Cardinality(waiting \cap Z) = 0
          BY <3>3, FS_EmptySet
        <5>2. Cardinality(waiting \cup Z) = Cardinality(waiting) + Cardinality(Z) - Cardinality(waiting \cap Z)
          BY <3>6, <3>7, FS_Union, Zenon
        <5> QED
          BY <2>1, <3>6, <3>7, <5>1, <5>2
      <4>3. Cardinality(waiting \cup Z) <= Cardinality(C)
        BY <3>5, <3>6, <4>1, FS_Subset
      <4> QED
        BY <3>6, <4>2, <4>3
    <3>9. /\ Zombies!Cardinality(waiting) = Cardinality(waiting)
          /\ Zombies!Cardinality(dead) = Cardinality(dead)
      BY CountQueued
    <3>10. Zombies!Subtracted = IF cycle.complete
                                THEN IF cycle.zombies <= cycle.q THEN cycle.zombies ELSE cycle.q ELSE 0
      BY <2>1, <2>2 DEF Zombies!Subtracted
    <3>11. /\ now - cycle.start < Grace => Zombies!QueuedGauge >= Cardinality(waiting)
           /\ cycle.clean /\ cycle.complete => Zombies!ZombieGauge >= Cardinality(dead)
      BY <2>1, <3>7, <3>8, <3>10 DEF Zombies!QueuedGauge, Zombies!ZombieGauge
    <3> QED
      BY <3>9, <3>11 DEF waiting, dead
  <2> QED
    BY <2>3, <2>4
<1>2. ZombiesInv => QueueGaugeHonest
  BY <1>1 DEF QueueGaugeHonest, Zombies!QueueGaugeHonest
<1> QED
  BY <1>2, ZombiesInvariant, PTL
=============================================================================
