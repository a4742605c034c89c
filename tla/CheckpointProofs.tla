-------------------------- MODULE CheckpointProofs --------------------------
(***************************************************************************)
(* The types of what a checkpoint holds: what the model extracts, what     *)
(* each agent adds to the state data, and what is posted from it.  Both    *)
(* engines, on the in-memory bus and on Redis, rest on these lemmas.       *)
(***************************************************************************)
EXTENDS Checkpoints, TLAPS

LEMMA NoDataTyped == NoData \in StateData
  BY DEF NoData, StateData, NoExtraction, NoValidation, NoSupplierRisk, NoPricing,
         NoRecommendation, RiskLevels, RecommendationActions, SupplierIds

\* An extraction has the fields of the schema, the fixed-up total included.
LEMMA ExtractionTyped ==
  ASSUME NEW x \in Extractions
  PROVE  /\ x.ran /\ x.supplier_name \in SupplierNames
         /\ x.subtotal \in Int /\ x.vat_amount \in Int /\ x.total_amount \in Int
         /\ x.unit_prices \in Seq(Int)
<1>1. PICK a \in Answers, has350 \in BOOLEAN : x = InvoiceAgent(a, has350)
  BY DEF Extractions
<1>2. PICK Prices : Prices = Seq(Int)
  OBVIOUS
<1>3. a \in [ran: {TRUE}, invoice_number: {a.invoice_number},
             supplier_name: SupplierNames, tax_blocked: BOOLEAN, subtotal: Int,
             vat_amount: Int, total_amount: Int, unit_prices: Prices]
  BY <1>2, AnswersAssumption, Zenon DEF ExtractionType
<1>4. x = a \/ x = [a EXCEPT !.total_amount = 35000]
  BY <1>1 DEF InvoiceAgent
<1>5. /\ a.subtotal \in Int /\ a.vat_amount \in Int /\ a.total_amount \in Int
      /\ a.unit_prices \in Prices /\ a.supplier_name \in SupplierNames
      /\ DOMAIN a = {"ran", "invoice_number", "supplier_name", "tax_blocked", "subtotal",
             "vat_amount", "total_amount", "unit_prices"}
  BY <1>3
<1>6. a.ran
  BY <1>3, Zenon
<1>7. /\ x.subtotal \in Int /\ x.vat_amount \in Int /\ x.total_amount \in Int
      /\ x.unit_prices \in Prices /\ x.supplier_name \in SupplierNames
  BY <1>4, <1>5
<1>8. x.ran = a.ran
  BY <1>4, <1>5
<1> QED BY <1>2, <1>6, <1>7, <1>8, Zenon

\* The fields the agents compute with, present or absent.
LEMMA FieldsTyped ==
  ASSUME NEW d \in StateData
  PROVE  LET x == d.invoice_extraction
         IN  /\ x.subtotal \in Int /\ x.vat_amount \in Int /\ x.total_amount \in Int
             /\ x.unit_prices \in Seq(Int)
<1> DEFINE x == d.invoice_extraction
<1>1. x \in Extractions \cup {NoExtraction}
  BY DEF StateData
<1>2. CASE x \in Extractions
  BY <1>2, ExtractionTyped
<1>3. CASE x = NoExtraction
  BY <1>3 DEF NoExtraction
<1> QED BY <1>1, <1>2, <1>3

\* A verdict on two amounts is a Boolean.
LEMMA WithinTyped ==
  ASSUME NEW a \in Int, NEW b \in Int, NEW limit \in Int
  PROVE  Within(a, b, limit) \subseteq BOOLEAN
<1>1. (AbsDiff(a, b) < limit) \in BOOLEAN
  BY DEF AbsDiff
<1> QED BY <1>1 DEF Within

LEMMA PctChangeTyped ==
  ASSUME NEW p \in Int
  PROVE  PctChange(p) \in Int
  BY DEF PctChange, AverageUnitPrice

\* What each agent writes has the type of its key.
LEMMA AgentsTyped ==
  ASSUME NEW d \in StateData
  PROVE  LET x == d.invoice_extraction
         IN  /\ \A v \in ValidationAgent(x) : [d EXCEPT !.validation_result = v] \in StateData
             /\ [d EXCEPT !.supplier_risk = SupplierAgent(x)] \in StateData
             /\ [d EXCEPT !.pricing_comparison = PricingAgent(x)] \in StateData
             /\ [d EXCEPT !.recommendation_result = RecommendationAgent(d)] \in StateData
<1> DEFINE x == d.invoice_extraction
<1>1. ASSUME NEW v \in ValidationAgent(x)
      PROVE  v \in [ran: BOOLEAN, is_valid: BOOLEAN, math_correct: BOOLEAN,
                    vat_correct: BOOLEAN, is_duplicate: BOOLEAN]
  <2>1. MathVerdicts(x) \subseteq BOOLEAN /\ VatVerdicts(x) \subseteq BOOLEAN
    BY FieldsTyped, WithinTyped DEF MathVerdicts, VatVerdicts
  <2>2. PICK math \in BOOLEAN, vat \in BOOLEAN :
            v = [ran |-> TRUE, is_valid |-> MissingFields(x) = {} /\ math,
                 math_correct |-> math, vat_correct |-> vat, is_duplicate |-> FALSE]
    BY <1>1, <2>1 DEF ValidationAgent
  <2>3. (MissingFields(x) = {} /\ math) \in BOOLEAN
    OBVIOUS
  <2> QED BY <2>2, <2>3
<1>2. SupplierAgent(x) \in [ran: BOOLEAN, risk_level: RiskLevels,
                            supplier_id: SupplierIds]
  BY DEF SupplierAgent, SearchSupplier, RiskLevels, SupplierIds
<1>3. PricingAgent(x) \in [ran: BOOLEAN, anomalies: SUBSET Int]
  <2>1. \A k \in DOMAIN x.unit_prices : PctChange(x.unit_prices[k]) \in Int
    BY FieldsTyped, PctChangeTyped
  <2> QED BY <2>1 DEF PricingAgent
<1>4. RecommendationAgent(d) \in [ran: BOOLEAN, action: RecommendationActions]
  BY DEF RecommendationAgent, RecommendationActions
<1> QED BY <1>1, <1>2, <1>3, <1>4 DEF StateData

\* What is posted has the types of the connector's input.
LEMMA PostingTyped ==
  ASSUME NEW d \in StateData
  PROVE  PostingOf(d) \in Posting
<1>1. d.supplier_risk.supplier_id \in SupplierIds
  BY DEF StateData
<1>2. d.invoice_extraction.total_amount \in Int
  BY FieldsTyped
<1> QED BY <1>1, <1>2 DEF PostingOf, Posting

-----------------------------------------------------------------------------
(* What the results in a checkpoint say of the invoice.                    *)

\* How far the agents have got, by the results that are the agents' own.
Extracted(d) == d.invoice_extraction \in Extractions
Validated(d) ==
    Extracted(d) /\ d.validation_result \in ValidationAgent(d.invoice_extraction)
Checked(d) == Validated(d) /\ d.supplier_risk = SupplierAgent(d.invoice_extraction)
Priced(d) == Checked(d) /\ d.pricing_comparison = PricingAgent(d.invoice_extraction)
Judged(d) ==
    /\ Priced(d)
    /\ \E v \in ValidationAgent(d.invoice_extraction) :
          d.recommendation_result = RecommendationAgent([d EXCEPT !.validation_result = v])

\* What the checkpoint holds when an event is handled.
Reached(event, d) ==
    /\ event = "InvoiceParsed" => Extracted(d)
    /\ event = "InvoiceValidated" => Validated(d)
    /\ event = "SupplierChecked" => Checked(d)
    /\ event = "PricingCompleted" => Priced(d)
    /\ event = "RecommendationCreated" => Judged(d)

\* The percentage bound, as a bound on the price.
LEMMA PriceBound ==
  ASSUME NEW p \in Int, ~(p > 0 /\ PctChange(p) > 1500)
  PROVE  p <= 11500
  BY DEF PctChange, AverageUnitPrice

\* A gap that may count as correct is at most five cents.
LEMMA MathBound ==
  ASSUME NEW x, x.subtotal \in Int, x.vat_amount \in Int, x.total_amount \in Int
  PROVE  /\ MathVerdicts(x) \subseteq BOOLEAN
         /\ TRUE \in MathVerdicts(x) =>
               x.subtotal + x.vat_amount - x.total_amount \in -5 .. 5
<1>1. ASSUME NEW s \in Int, NEW v \in Int, NEW t \in Int
      PROVE  /\ Within(s + v, t, 5) \subseteq BOOLEAN
             /\ TRUE \in Within(s + v, t, 5) => s + v - t \in -5 .. 5
  <2>1. Within(s + v, t, 5) \subseteq BOOLEAN
    BY WithinTyped
  <2>2. TRUE \in Within(s + v, t, 5) => AbsDiff(s + v, t) = 5 \/ AbsDiff(s + v, t) < 5
    BY DEF Within
  <2>3. AbsDiff(s + v, t) <= 5 => s + v - t \in -5 .. 5
    <3>1. CASE s + v >= t
      BY <3>1 DEF AbsDiff
    <3>2. CASE ~(s + v >= t)
      BY <3>2 DEF AbsDiff
    <3> QED BY <3>1, <3>2
  <2>4. AbsDiff(s + v, t) \in Int
    BY DEF AbsDiff
  <2>5. TRUE \in Within(s + v, t, 5) => AbsDiff(s + v, t) <= 5
    BY <2>2, <2>4
  <2> QED BY <2>1, <2>3, <2>5
<1> QED BY <1>1, Zenon DEF MathVerdicts

\* What an approval says of the results it was made from.
LEMMA ApprovalMeans ==
  ASSUME NEW d, RecommendationAgent(d).action = "APPROVE"
  PROVE  /\ d.validation_result.is_valid
         /\ d.supplier_risk.risk_level # "HIGH"
         /\ d.pricing_comparison.anomalies = {}
<1>1. d.validation_result.is_valid
  BY DEF RecommendationAgent
<1>2. d.supplier_risk.risk_level # "HIGH"
  BY DEF RecommendationAgent
<1>3. d.pricing_comparison.anomalies = {}
  BY DEF RecommendationAgent
<1> QED BY <1>1, <1>2, <1>3

LEMMA ValidMeans ==
  ASSUME NEW x, MathVerdicts(x) \subseteq BOOLEAN,
         NEW v \in ValidationAgent(x), v.is_valid
  PROVE  v.ran /\ MissingFields(x) = {} /\ TRUE \in MathVerdicts(x)
<1>1. PICK math \in MathVerdicts(x), vat \in VatVerdicts(x) :
          v = [ran |-> TRUE, is_valid |-> MissingFields(x) = {} /\ math,
               math_correct |-> math, vat_correct |-> vat, is_duplicate |-> FALSE]
  BY DEF ValidationAgent
<1>2. v.ran /\ MissingFields(x) = {} /\ math
  BY <1>1
<1>3. math = TRUE
  BY <1>2
<1> QED BY <1>2, <1>3

LEMMA LowRiskMeans ==
  ASSUME NEW x, SupplierAgent(x).risk_level # "HIGH"
  PROVE  ~x.tax_blocked /\ x.supplier_name # "risky"
<1>1. ~x.tax_blocked
  BY DEF SupplierAgent, SearchSupplier
<1>2. x.supplier_name # "risky"
  BY DEF SupplierAgent, SearchSupplier
<1> QED BY <1>1, <1>2

LEMMA AgentsRan ==
  ASSUME NEW x
  PROVE  /\ SupplierAgent(x).ran /\ PricingAgent(x).ran
         /\ \A v \in ValidationAgent(x) : v.ran
  BY DEF SupplierAgent, PricingAgent, ValidationAgent

\* A result added by an agent, and those before it left as they were.
With(d, key, r) == [d EXCEPT ![key] = r]

LEMMA AddedResult ==
  ASSUME NEW d \in StateData, NEW r
  PROVE  /\ LET e == With(d, "validation_result", r)
            IN  /\ e.invoice_extraction = d.invoice_extraction
                /\ e.validation_result = r
                /\ e.supplier_risk = d.supplier_risk
                /\ e.pricing_comparison = d.pricing_comparison
                /\ e.recommendation_result = d.recommendation_result
         /\ LET e == With(d, "supplier_risk", r)
            IN  /\ e.invoice_extraction = d.invoice_extraction
                /\ e.validation_result = d.validation_result
                /\ e.supplier_risk = r
         /\ LET e == With(d, "pricing_comparison", r)
            IN  /\ e.invoice_extraction = d.invoice_extraction
                /\ e.validation_result = d.validation_result
                /\ e.supplier_risk = d.supplier_risk
                /\ e.pricing_comparison = r
         /\ LET e == With(d, "recommendation_result", r)
            IN  /\ e.invoice_extraction = d.invoice_extraction
                /\ e.validation_result = d.validation_result
                /\ e.supplier_risk = d.supplier_risk
                /\ e.pricing_comparison = d.pricing_comparison
                /\ e.recommendation_result = r
  BY DEF StateData, With

\* What the agents' own results say of an invoice they approve.
LEMMA ApprovedIsClean ==
  ASSUME NEW d \in StateData, Judged(d), d.recommendation_result.action = "APPROVE"
  PROVE  /\ Clean(d.invoice_extraction)
         /\ d.validation_result.ran /\ d.supplier_risk.ran /\ d.pricing_comparison.ran
<1> PICK x, w : x = d.invoice_extraction /\ w = d.validation_result
  OBVIOUS
<1>1. /\ x \in Extractions /\ w \in ValidationAgent(x)
      /\ d.supplier_risk = SupplierAgent(x) /\ d.pricing_comparison = PricingAgent(x)
  BY DEF Judged, Priced, Checked, Validated, Extracted
<1>2. PICK v \in ValidationAgent(x) :
          d.recommendation_result = RecommendationAgent(With(d, "validation_result", v))
  BY DEF Judged, With
<1>3. /\ v.is_valid /\ SupplierAgent(x).risk_level # "HIGH"
      /\ PricingAgent(x).anomalies = {}
  <2>1. PICK e : e = With(d, "validation_result", v)
    OBVIOUS
  <2>2. /\ e.validation_result = v
        /\ e.supplier_risk = d.supplier_risk
        /\ e.pricing_comparison = d.pricing_comparison
    BY <2>1, AddedResult
  <2>3. RecommendationAgent(e).action = "APPROVE"
    BY <1>2, <2>1
  <2> QED BY <1>1, <2>2, <2>3, ApprovalMeans
<1>4. x.subtotal \in Int /\ x.vat_amount \in Int /\ x.total_amount \in Int
  BY FieldsTyped
<1>5. MissingFields(x) = {} /\ TRUE \in MathVerdicts(x)
  BY <1>3, <1>4, MathBound, ValidMeans
<1>6. w.ran
  BY <1>1, AgentsRan
<1>7. x.subtotal + x.vat_amount - x.total_amount \in -5 .. 5
  BY <1>4, <1>5, MathBound
<1>8. /\ x.invoice_number # Missing /\ x.supplier_name # Missing
      /\ x.total_amount # 0
  BY <1>5 DEF MissingFields
<1>9. ~x.tax_blocked /\ x.supplier_name # "risky"
  BY <1>3, LowRiskMeans
<1>10. x.ran /\ x.supplier_name = "plain"
  BY <1>1, <1>8, <1>9, ExtractionTyped DEF SupplierNames
<1>11. ASSUME NEW k \in DOMAIN x.unit_prices
       PROVE  x.unit_prices[k] <= 11500
  <2>1. x.unit_prices[k] \in Int
    BY FieldsTyped
  <2>2. ~(x.unit_prices[k] > 0 /\ PctChange(x.unit_prices[k]) > 1500)
    BY <1>3 DEF PricingAgent
  <2> QED BY <2>1, <2>2, PriceBound
<1>12. Clean(x)
  BY <1>7, <1>8, <1>9, <1>10, <1>11 DEF Clean
<1> QED BY <1>1, <1>6, <1>12, AgentsRan

\* What an agent adds takes the invoice one stage further, and no stage is lost
\* when an agent runs again: only the validation may come out differently.
LEMMA ValidationAdds ==
  ASSUME NEW d \in StateData, Extracted(d),
         NEW r \in ValidationAgent(d.invoice_extraction),
         NEW e, e = With(d, "validation_result", r)
  PROVE  Validated(e) /\ \A event : Reached(event, d) => Reached(event, e)
<1>1. /\ e.invoice_extraction = d.invoice_extraction /\ e.validation_result = r
      /\ e.supplier_risk = d.supplier_risk
      /\ e.pricing_comparison = d.pricing_comparison
      /\ e.recommendation_result = d.recommendation_result
  BY AddedResult
<1>2. \A v : [e EXCEPT !.validation_result = v] = [d EXCEPT !.validation_result = v]
  BY DEF With, StateData
<1>3. Validated(e) /\ Extracted(e)
  BY <1>1 DEF Validated, Extracted
<1>4. Checked(d) => Checked(e)
  BY <1>1, <1>3 DEF Checked
<1>5. Priced(d) => Priced(e)
  BY <1>1, <1>4 DEF Priced
<1>6. Judged(d) => Judged(e)
  BY <1>1, <1>2, <1>5 DEF Judged
<1> QED BY <1>3, <1>4, <1>5, <1>6 DEF Reached

LEMMA SupplierAdds ==
  ASSUME NEW d \in StateData, Validated(d),
         NEW e, e = With(d, "supplier_risk", SupplierAgent(d.invoice_extraction))
  PROVE  Checked(e) /\ \A event : Reached(event, d) => Reached(event, e)
<1>1. /\ e.invoice_extraction = d.invoice_extraction
      /\ e.validation_result = d.validation_result
      /\ e.supplier_risk = SupplierAgent(d.invoice_extraction)
  BY AddedResult
<1>2. Checked(e)
  BY <1>1 DEF Checked, Validated, Extracted
<1>3. Checked(d) => e = d
  BY DEF Checked, With, StateData
<1> QED BY <1>2, <1>3 DEF Reached, Judged, Priced, Checked, Validated

LEMMA PricingAdds ==
  ASSUME NEW d \in StateData, Checked(d),
         NEW e, e = With(d, "pricing_comparison", PricingAgent(d.invoice_extraction))
  PROVE  Priced(e) /\ \A event : Reached(event, d) => Reached(event, e)
<1>1. /\ e.invoice_extraction = d.invoice_extraction
      /\ e.validation_result = d.validation_result
      /\ e.supplier_risk = d.supplier_risk
      /\ e.pricing_comparison = PricingAgent(d.invoice_extraction)
  BY AddedResult
<1>2. Priced(e)
  BY <1>1 DEF Priced, Checked, Validated, Extracted
<1>3. Priced(d) => e = d
  BY DEF Priced, With, StateData
<1> QED BY <1>2, <1>3 DEF Reached, Judged, Priced, Checked, Validated

LEMMA RecommendationAdds ==
  ASSUME NEW d \in StateData, Priced(d),
         NEW e, e = With(d, "recommendation_result", RecommendationAgent(d))
  PROVE  Judged(e) /\ \A event : Reached(event, d) => Reached(event, e)
<1>1. /\ e.invoice_extraction = d.invoice_extraction
      /\ e.validation_result = d.validation_result
      /\ e.supplier_risk = d.supplier_risk
      /\ e.pricing_comparison = d.pricing_comparison
      /\ e.recommendation_result = RecommendationAgent(d)
  BY AddedResult
<1>2. Priced(e)
  BY <1>1 DEF Priced, Checked, Validated, Extracted
<1>3. PICK v : v = d.validation_result /\ v \in ValidationAgent(d.invoice_extraction)
  BY DEF Priced, Checked, Validated
<1>4. RecommendationAgent([e EXCEPT !.validation_result = v]) = RecommendationAgent(d)
  <2>1. PICK f : f = [e EXCEPT !.validation_result = v]
    OBVIOUS
  <2>2. /\ f.validation_result = d.validation_result
        /\ f.supplier_risk = d.supplier_risk
        /\ f.pricing_comparison = d.pricing_comparison
    BY <1>3, <2>1 DEF With, StateData
  <2> QED BY <2>1, <2>2, Zenon DEF RecommendationAgent
<1>5. Judged(e)
  BY <1>1, <1>2, <1>3, <1>4 DEF Judged
<1> QED BY <1>2, <1>5 DEF Reached, Judged, Priced, Checked, Validated
=============================================================================
