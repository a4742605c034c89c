------------------------ MODULE AgentPipelineProofs ------------------------
(***************************************************************************)
(* That the chain of agents decides by the thresholds, and that no         *)
(* document gains by looking worse, for every answer of the model: any     *)
(* amounts and any list of prices.                                         *)
(*                                                                         *)
(* Computed says what state_data holds at each stage: the results of the   *)
(* agents that have run, as functions of the answer.  What they mean for   *)
(* the document is the lemma Judged, where the arithmetic is.              *)
(***************************************************************************)
EXTENDS AgentPipeline, TLAPS

Extracted == InvoiceAgent(answer, textHas350)

Keys == {"invoice_extraction", "validation_result", "supplier_risk",
         "pricing_comparison", "recommendation_result"}

Computed ==
    /\ answer \in Answers /\ textHas350 \in BOOLEAN
    /\ DOMAIN data = Keys
    /\ stage \in {"invoice", "validation", "supplier", "pricing", "recommendation",
                  "decided"}
    /\ stage # "invoice" => data.invoice_extraction = Extracted
    /\ stage \notin {"invoice", "validation"} =>
          data.validation_result \in ValidationAgent(Extracted)
    /\ stage \notin {"invoice", "validation", "supplier"} =>
          data.supplier_risk = SupplierAgent(Extracted)
    /\ stage \in {"recommendation", "decided"} =>
          data.pricing_comparison = PricingAgent(Extracted)
    /\ Decided => data.recommendation_result = RecommendationAgent(data)

LEMMA ComputedInductive == Computed /\ [Next]_vars => Computed'
<1> SUFFICES ASSUME Computed, [Next]_vars PROVE Computed'
  OBVIOUS
<1>1. CASE UNCHANGED vars
  BY <1>1 DEF vars, Computed, Extracted, Decided
<1>2. ASSUME NEW from, NEW to, NEW key \in Keys, NEW result,
             Run(from, to, key, result)
      PROVE  /\ stage = from /\ stage' = to
             /\ answer' = answer /\ textHas350' = textHas350
             /\ Extracted' = Extracted
             /\ DOMAIN data' = Keys
             /\ data'[key] = result
             /\ \A k \in Keys \ {key} : data'[k] = data[k]
  BY <1>2 DEF Run, Computed, Extracted
<1>3. CASE Run("invoice", "validation", "invoice_extraction", Extracted)
  <2>1. /\ stage = "invoice" /\ stage' = "validation"
        /\ answer' = answer /\ textHas350' = textHas350 /\ Extracted' = Extracted
        /\ DOMAIN data' = Keys
        /\ data'["invoice_extraction"] = Extracted
    BY <1>2, <1>3 DEF Keys
  <2> QED BY <2>1 DEF Computed, Decided
<1>4. CASE \E v \in ValidationAgent(data.invoice_extraction) :
               Run("validation", "supplier", "validation_result", v)
  <2>1. PICK v \in ValidationAgent(data.invoice_extraction) :
            Run("validation", "supplier", "validation_result", v)
    BY <1>4
  <2>2. /\ stage = "validation" /\ stage' = "supplier"
        /\ answer' = answer /\ textHas350' = textHas350 /\ Extracted' = Extracted
        /\ DOMAIN data' = Keys
        /\ data'["validation_result"] = v
        /\ data'["invoice_extraction"] = data["invoice_extraction"]
    BY <1>2, <2>1 DEF Keys
  <2>3. v \in ValidationAgent(Extracted)
    BY <2>2 DEF Computed
  <2> QED BY <2>2, <2>3 DEF Computed, Decided
<1>5. CASE Run("supplier", "pricing", "supplier_risk",
               SupplierAgent(data.invoice_extraction))
  <2>1. /\ stage = "supplier" /\ stage' = "pricing"
        /\ answer' = answer /\ textHas350' = textHas350 /\ Extracted' = Extracted
        /\ DOMAIN data' = Keys
        /\ data'["supplier_risk"] = SupplierAgent(data.invoice_extraction)
        /\ data'["invoice_extraction"] = data["invoice_extraction"]
        /\ data'["validation_result"] = data["validation_result"]
    BY <1>2, <1>5 DEF Keys
  <2> QED BY <2>1 DEF Computed, Decided
<1>6. CASE Run("pricing", "recommendation", "pricing_comparison",
               PricingAgent(data.invoice_extraction))
  <2>1. /\ stage = "pricing" /\ stage' = "recommendation"
        /\ answer' = answer /\ textHas350' = textHas350 /\ Extracted' = Extracted
        /\ DOMAIN data' = Keys
        /\ data'["pricing_comparison"] = PricingAgent(data.invoice_extraction)
        /\ data'["invoice_extraction"] = data["invoice_extraction"]
        /\ data'["validation_result"] = data["validation_result"]
        /\ data'["supplier_risk"] = data["supplier_risk"]
    BY <1>2, <1>6 DEF Keys
  <2> QED BY <2>1 DEF Computed, Decided
<1>7. CASE Run("recommendation", "decided", "recommendation_result",
               RecommendationAgent(data))
  <2>1. /\ stage = "recommendation" /\ stage' = "decided"
        /\ answer' = answer /\ textHas350' = textHas350 /\ Extracted' = Extracted
        /\ DOMAIN data' = Keys
        /\ data'["recommendation_result"] = RecommendationAgent(data)
        /\ \A k \in Keys \ {"recommendation_result"} : data'[k] = data[k]
    BY <1>2, <1>7 DEF Keys
  <2>2. /\ data'["invoice_extraction"] = data["invoice_extraction"]
        /\ data'["validation_result"] = data["validation_result"]
        /\ data'["supplier_risk"] = data["supplier_risk"]
        /\ data'["pricing_comparison"] = data["pricing_comparison"]
    BY <2>1 DEF Keys
  <2>3. RecommendationAgent(data)' = RecommendationAgent(data)
    BY <2>2 DEF RecommendationAgent
  <2> QED BY <2>1, <2>2, <2>3 DEF Computed, Decided
<1> QED BY <1>1, <1>3, <1>4, <1>5, <1>6, <1>7 DEF Next, Extracted

-----------------------------------------------------------------------------
\* An extraction is the answer with its total made up for.
LEMMA ExtractionFields ==
    ASSUME NEW a \in Answers, NEW h \in BOOLEAN
    PROVE  LET x == InvoiceAgent(a, h)
           IN  /\ x.invoice_number = a.invoice_number
               /\ x.supplier_name = a.supplier_name
               /\ x.tax_blocked = a.tax_blocked
               /\ x.subtotal = a.subtotal /\ a.subtotal \in Int
               /\ x.vat_amount = a.vat_amount /\ a.vat_amount \in Int
               /\ x.total_amount = PayableTotal(a, h) /\ PayableTotal(a, h) \in Int
               /\ x.unit_prices = a.unit_prices /\ a.unit_prices \in Seq(Int)
<1>1. PICK Prices : Prices = Seq(Int)
  OBVIOUS
<1>2. a \in [ran: {TRUE}, invoice_number: {a.invoice_number},
             supplier_name: SupplierNames, tax_blocked: BOOLEAN, subtotal: Int,
             vat_amount: Int, total_amount: Int, unit_prices: Prices]
  BY <1>1, AnswersAssumption, Zenon DEF ExtractionType
<1>3. /\ a.subtotal \in Int /\ a.vat_amount \in Int /\ a.total_amount \in Int
      /\ a.unit_prices \in Prices
      /\ DOMAIN a = {"ran", "invoice_number", "supplier_name", "tax_blocked", "subtotal",
             "vat_amount", "total_amount", "unit_prices"}
  BY <1>2
<1>4. CASE a.total_amount = 0 /\ h
  <2>1. InvoiceAgent(a, h) = [a EXCEPT !.total_amount = 35000]
    BY <1>4 DEF InvoiceAgent
  <2>2. PayableTotal(a, h) = 35000
    BY <1>4 DEF PayableTotal
  <2> QED BY <1>1, <1>3, <2>1, <2>2
<1>5. CASE ~(a.total_amount = 0 /\ h)
  <2>1. InvoiceAgent(a, h) = a
    BY <1>5 DEF InvoiceAgent
  <2>2. PayableTotal(a, h) = a.total_amount
    BY <1>5 DEF PayableTotal
  <2> QED BY <1>1, <1>3, <2>1, <2>2
<1> QED BY <1>4, <1>5

LEMMA PriceBound ==
    ASSUME NEW p \in Int
    PROVE  (p > 0 /\ PctChange(p) > 1500) <=> 100 * p > 115 * 10000
  BY DEF PctChange, AverageUnitPrice

\* What the verdict on the arithmetic says of the gap.
LEMMA MathBound ==
    ASSUME NEW a \in Answers, NEW h \in BOOLEAN
    PROVE  LET verdicts == MathVerdicts(InvoiceAgent(a, h))
           IN  /\ verdicts \subseteq BOOLEAN
               /\ Gap(a, h) < 5 => verdicts = {TRUE}
               /\ Gap(a, h) > 5 => verdicts = {FALSE}
               /\ Gap(a, h) \in Int
<1> DEFINE s == a.subtotal + a.vat_amount
           t == PayableTotal(a, h)
<1>1. s \in Int /\ t \in Int
  BY ExtractionFields
<1>2. MathVerdicts(InvoiceAgent(a, h)) = Within(s, t, 5)
  BY ExtractionFields DEF MathVerdicts
<1>3. Gap(a, h) = IF s - t < 0 THEN 0 - (s - t) ELSE s - t
  BY <1>1, ExtractionFields DEF Gap
<1> HIDE DEF s, t
<1>4. Gap(a, h) = AbsDiff(s, t) /\ AbsDiff(s, t) \in Int
  BY <1>1, <1>3 DEF AbsDiff
<1>5. Within(s, t, 5) = IF AbsDiff(s, t) = 5 THEN BOOLEAN ELSE {AbsDiff(s, t) < 5}
  BY DEF Within
<1>6. /\ AbsDiff(s, t) < 5 => Within(s, t, 5) = {TRUE}
      /\ AbsDiff(s, t) > 5 => Within(s, t, 5) = {FALSE}
  <2>1. AbsDiff(s, t) < 5 => (AbsDiff(s, t) < 5) = TRUE /\ AbsDiff(s, t) # 5
    BY <1>4
  <2>2. AbsDiff(s, t) > 5 => (AbsDiff(s, t) < 5) = FALSE /\ AbsDiff(s, t) # 5
    BY <1>4
  <2> QED BY <1>5, <2>1, <2>2
<1>7. Within(s, t, 5) \subseteq BOOLEAN
  <2>1. (AbsDiff(s, t) < 5) \in BOOLEAN
    BY <1>4
  <2> QED BY <1>5, <2>1
<1> QED BY <1>2, <1>4, <1>6, <1>7

\* What the agents' results say of the document.
LEMMA Judged ==
    ASSUME NEW a \in Answers, NEW h \in BOOLEAN
    PROVE  LET x == InvoiceAgent(a, h)
           IN  /\ SupplierAgent(x).risk_level = "HIGH" <=> SuspectSupplier(a)
               /\ PricingAgent(x).anomalies # {} <=> Overpriced(a)
               /\ \A v \in ValidationAgent(x) :
                     /\ v.is_valid => Complete(a, h) /\ Gap(a, h) <= 5
                     /\ Complete(a, h) /\ Gap(a, h) < 5 => v.is_valid
<1> DEFINE x == InvoiceAgent(a, h)
<1>1. SupplierAgent(x).risk_level = "HIGH" <=> SuspectSupplier(a)
  BY ExtractionFields DEF SupplierAgent, SearchSupplier, SuspectSupplier
<1>2. PricingAgent(x).anomalies # {} <=> Overpriced(a)
  <2>1. x.unit_prices = a.unit_prices /\ \A k \in DOMAIN a.unit_prices : a.unit_prices[k] \in Int
    BY ExtractionFields
  <2>2. PricingAgent(x).anomalies # {} <=>
          \E k \in DOMAIN a.unit_prices :
              a.unit_prices[k] > 0 /\ PctChange(a.unit_prices[k]) > 1500
    BY <2>1 DEF PricingAgent
  <2> QED BY <2>1, <2>2, PriceBound DEF Overpriced
<1>3. MissingFields(x) = {} <=> Complete(a, h)
  BY ExtractionFields DEF MissingFields, Complete, Missing
<1>4. ASSUME NEW v \in ValidationAgent(x)
      PROVE  /\ v.is_valid => Complete(a, h) /\ Gap(a, h) <= 5
             /\ Complete(a, h) /\ Gap(a, h) < 5 => v.is_valid
  <2>1. PICK math \in MathVerdicts(x) : v.is_valid = (MissingFields(x) = {} /\ math)
    BY <1>4 DEF ValidationAgent
  <2>2. /\ MathVerdicts(x) \subseteq BOOLEAN /\ Gap(a, h) \in Int
        /\ Gap(a, h) < 5 => MathVerdicts(x) = {TRUE}
        /\ Gap(a, h) > 5 => MathVerdicts(x) = {FALSE}
    BY MathBound
  <2>3. CASE math
    <3>1. ~(Gap(a, h) > 5)
      BY <2>2, <2>3
    <3>2. v.is_valid <=> Complete(a, h)
      BY <1>3, <2>1, <2>3, Zenon
    <3> QED BY <2>2, <3>1, <3>2
  <2>4. CASE ~math
    <3>1. ~(Gap(a, h) < 5)
      BY <2>2, <2>4
    <3>2. ~v.is_valid
      BY <2>1, <2>4, Zenon
    <3> QED BY <3>1, <3>2
  <2> QED BY <2>3, <2>4
<1> QED BY <1>1, <1>2, <1>4

\* What the agent of the recommendation makes of three results.
Verdict(valid, issues) ==
    IF ~valid THEN "REJECT" ELSE IF issues THEN "NEEDS_HUMAN" ELSE "APPROVE"

LEMMA DecisionComputed ==
    ASSUME Computed, Decided
    PROVE  \E v \in ValidationAgent(Extracted) :
              Decision = Verdict(v.is_valid, SuspectSupplier(answer) \/ Overpriced(answer))
<1>1. /\ answer \in Answers /\ textHas350 \in BOOLEAN
      /\ data.validation_result \in ValidationAgent(Extracted)
      /\ data.supplier_risk = SupplierAgent(Extracted)
      /\ data.pricing_comparison = PricingAgent(Extracted)
      /\ data.recommendation_result = RecommendationAgent(data)
  BY DEF Computed, Decided
<1>2. /\ SupplierAgent(Extracted).risk_level = "HIGH" <=> SuspectSupplier(answer)
      /\ PricingAgent(Extracted).anomalies # {} <=> Overpriced(answer)
  BY <1>1, Judged DEF Extracted
<1>3. Decision = Verdict(data.validation_result.is_valid,
                         SuspectSupplier(answer) \/ Overpriced(answer))
  BY <1>1, <1>2 DEF Decision, RecommendationAgent, Verdict
<1> QED BY <1>1, <1>3

LEMMA ComputedMeetsThresholds == Computed => DecisionMeetsThresholds
<1> SUFFICES ASSUME Computed, Decided PROVE DecisionMeetsThresholds
  BY DEF DecisionMeetsThresholds
<1> DEFINE complete == Complete(answer, textHas350)
           gap == Gap(answer, textHas350)
           issues == SuspectSupplier(answer) \/ Overpriced(answer)
<1>1. PICK v \in ValidationAgent(Extracted) : Decision = Verdict(v.is_valid, issues)
  BY DecisionComputed
<1>2. /\ v.is_valid => complete /\ gap <= 5
      /\ complete /\ gap < 5 => v.is_valid
  BY <1>1, Judged DEF Computed, Extracted
<1>3. gap \in Int
  BY MathBound DEF Computed
<1> HIDE DEF complete, gap, issues
<1>4. ~complete \/ gap > 5 => Decision = "REJECT"
  BY <1>1, <1>2, <1>3 DEF Verdict
<1>5. complete /\ gap < 5 => Decision = IF issues THEN "NEEDS_HUMAN" ELSE "APPROVE"
  BY <1>1, <1>2, <1>3 DEF Verdict
<1>6. Decision \in {"REJECT", IF issues THEN "NEEDS_HUMAN" ELSE "APPROVE"}
  BY <1>1 DEF Verdict
<1>7. CASE ~complete \/ gap > 5
  <2>1. ~(complete /\ gap < 5) /\ ~(complete /\ gap = 5)
    BY <1>3, <1>7
  <2> QED BY <1>4, <1>7, <2>1 DEF DecisionMeetsThresholds, complete, gap, issues
<1>8. CASE complete /\ gap < 5
  <2>1. ~(~complete \/ gap > 5) /\ ~(complete /\ gap = 5)
    BY <1>3, <1>8
  <2> QED BY <1>5, <1>8, <2>1 DEF DecisionMeetsThresholds, complete, gap, issues
<1>9. CASE complete /\ gap = 5
  <2>1. ~(~complete \/ gap > 5) /\ ~(complete /\ gap < 5)
    BY <1>3, <1>9
  <2> QED BY <1>6, <1>9, <2>1 DEF DecisionMeetsThresholds, complete, gap, issues
<1> QED BY <1>3, <1>7, <1>8, <1>9

\* A document that may be approved passes every check.
LEMMA ApprovedIsClean ==
    ASSUME NEW b \in Answers, NEW h \in BOOLEAN, "APPROVE" \in Decisions(b, h)
    PROVE  Complete(b, h) /\ Gap(b, h) <= 5 /\ ~SuspectSupplier(b) /\ ~Overpriced(b)
<1> DEFINE x == InvoiceAgent(b, h)
           d(v) == [invoice_extraction |-> x, validation_result |-> v,
                    supplier_risk |-> SupplierAgent(x),
                    pricing_comparison |-> PricingAgent(x),
                    recommendation_result |-> NoRecommendation]
<1>1. PICK v \in ValidationAgent(x) : RecommendationAgent(d(v)).action = "APPROVE"
  BY DEF Decisions
<1>2. /\ d(v).validation_result = v /\ d(v).supplier_risk = SupplierAgent(x)
      /\ d(v).pricing_comparison = PricingAgent(x)
  OBVIOUS
<1> HIDE DEF d
<1>3. /\ v.is_valid /\ SupplierAgent(x).risk_level # "HIGH"
      /\ PricingAgent(x).anomalies = {}
  BY <1>1, <1>2 DEF RecommendationAgent
<1> QED BY <1>1, <1>3, Judged

\* What makes a document suspect makes a worse one suspect.
LEMMA WorseIsNoBetter ==
    ASSUME NEW a \in Answers, NEW b \in Answers, NEW h \in BOOLEAN,
           Worse(a, b), ~SuspectSupplier(b), ~Overpriced(b)
    PROVE  /\ Complete(b, h) => Complete(a, h)
           /\ Gap(a, h) = Gap(b, h)
           /\ ~SuspectSupplier(a) /\ ~Overpriced(a)
<1>1. /\ a.invoice_number = b.invoice_number /\ a.subtotal = b.subtotal
      /\ a.vat_amount = b.vat_amount /\ a.total_amount = b.total_amount
      /\ a.supplier_name = b.supplier_name
      /\ a.tax_blocked => b.tax_blocked
  BY DEF Worse, SuspectSupplier
<1>2. PayableTotal(a, h) = PayableTotal(b, h)
  BY <1>1 DEF PayableTotal
<1>3. Gap(a, h) = Gap(b, h) /\ (Complete(b, h) => Complete(a, h))
  BY <1>1, <1>2 DEF Gap, Complete
<1>4. ~SuspectSupplier(a)
  BY <1>1 DEF SuspectSupplier
<1>5. ~Overpriced(a)
  <2>1. a.unit_prices \in Seq(Int) /\ b.unit_prices \in Seq(Int)
    BY ExtractionFields
  <2>2. ASSUME NEW k \in DOMAIN a.unit_prices PROVE ~(100 * a.unit_prices[k] > 115 * 10000)
    <3>1. k \in DOMAIN b.unit_prices /\ a.unit_prices[k] <= b.unit_prices[k]
      BY <2>1 DEF Worse
    <3>2. ~(100 * b.unit_prices[k] > 115 * 10000)
      BY <3>1 DEF Overpriced
    <3>3. a.unit_prices[k] \in Int /\ b.unit_prices[k] \in Int
      BY <2>1, <3>1
    <3> QED BY <3>1, <3>2, <3>3
  <2> QED BY <2>2 DEF Overpriced
<1> QED BY <1>3, <1>4, <1>5

LEMMA ComputedNeverHelps == Computed => SuspicionNeverHelps
<1> SUFFICES ASSUME Computed, Decided, Decision # "APPROVE", NEW b \in Answers,
                    Worse(answer, b), Gap(answer, textHas350) # 5,
                    "APPROVE" \in Decisions(b, textHas350)
             PROVE  FALSE
  BY DEF SuspicionNeverHelps
<1>1. answer \in Answers /\ textHas350 \in BOOLEAN
  BY DEF Computed
<1>2. /\ Complete(b, textHas350) /\ Gap(b, textHas350) <= 5
      /\ ~SuspectSupplier(b) /\ ~Overpriced(b)
  BY <1>1, ApprovedIsClean
<1>3. /\ Complete(answer, textHas350) /\ Gap(answer, textHas350) = Gap(b, textHas350)
      /\ ~SuspectSupplier(answer) /\ ~Overpriced(answer)
  BY <1>1, <1>2, WorseIsNoBetter
<1>4. Gap(answer, textHas350) < 5
  <2>1. Gap(answer, textHas350) \in Int
    BY <1>1, MathBound
  <2>2. Gap(answer, textHas350) <= 5 /\ Gap(answer, textHas350) # 5
    BY <1>2, <1>3
  <2> QED BY <2>1, <2>2
<1>5. PICK v \in ValidationAgent(Extracted) :
          Decision = Verdict(v.is_valid, SuspectSupplier(answer) \/ Overpriced(answer))
  BY DecisionComputed
<1>6. v.is_valid
  BY <1>1, <1>3, <1>4, <1>5, Judged DEF Extracted
<1> QED BY <1>3, <1>5, <1>6 DEF Verdict

LEMMA ComputedAlways == Spec => []Computed
<1>1. Init => Computed
  BY DEF Init, Computed, NoData, Keys, Decided
<1> QED BY <1>1, ComputedInductive, PTL DEF Spec

(***************************************************************************)
(* Whatever amounts and however many items the model extracts, what the    *)
(* five agents decide on each other's results is what the code's           *)
(* thresholds, read off the document alone, say of it.                     *)
(***************************************************************************)
THEOREM DecisionsMeetThresholds == Spec => []DecisionMeetsThresholds
  BY ComputedAlways, ComputedMeetsThresholds, PTL

(***************************************************************************)
(* No document that was not approved is approved for a riskier supplier,   *)
(* dearer items or more items.                                             *)
(***************************************************************************)
THEOREM SuspicionHelpsNobody == Spec => []SuspicionNeverHelps
  BY ComputedAlways, ComputedNeverHelps, PTL
=============================================================================
