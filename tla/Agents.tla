------------------------------- MODULE Agents -------------------------------
(***************************************************************************)
(* The five agents of src/src/agents/impl and the tools they call, as      *)
(* operators on the state_data dictionary a workflow checkpoint carries.   *)
(* Each agent reads the results of the agents before it with               *)
(* dict.get(key, default) and adds its own; `ran' says whether the key is  *)
(* there, and the other fields of an absent result hold the defaults its   *)
(* readers supply, so that a missing result reads as the code reads it.    *)
(*                                                                         *)
(* Amounts are integers in cents.  The code computes in binary floating    *)
(* point: where a comparison sits exactly on its bound the rounding can    *)
(* fall either way, and the verdict is left open there.  Scores,           *)
(* confidences and explanations decide nothing and are left out.           *)
(***************************************************************************)
EXTENDS Integers, Sequences, FiniteSets

\* The value of a field the language model left null.
Missing == "missing"

\* What a supplier name is to the lookup: absent, ordinary, or containing RISKY.
SupplierNames == {Missing, "plain", "risky"}

\* The default of an absent lookup, and the two suppliers the mock lookup knows.
SupplierIds == {"sup-001", "sup-risky-001", "sup-clean-002"}

RiskLevels == {"LOW", "HIGH"}
RecommendationActions == {"APPROVE", "REJECT", "NEEDS_HUMAN"}

\* The extraction schema: one answer of the language model.
ExtractionType(Numbers) ==
    [ran: {TRUE}, invoice_number: Numbers, supplier_name: SupplierNames,
     tax_blocked: BOOLEAN, subtotal: Int, vat_amount: Int, total_amount: Int,
     unit_prices: Seq(Int)]

-----------------------------------------------------------------------------
(* Absent results, with the defaults their readers supply.                 *)

NoExtraction ==
    [ran |-> FALSE, invoice_number |-> Missing, supplier_name |-> Missing,
     tax_blocked |-> FALSE, subtotal |-> 0, vat_amount |-> 0,
     total_amount |-> 0, unit_prices |-> <<>>]

NoValidation ==
    [ran |-> FALSE, is_valid |-> TRUE, math_correct |-> TRUE,
     vat_correct |-> TRUE, is_duplicate |-> FALSE]

NoSupplierRisk ==
    [ran |-> FALSE, supplier_id |-> "sup-001", risk_level |-> "LOW"]

NoPricing == [ran |-> FALSE, anomalies |-> {}]

NoRecommendation == [ran |-> FALSE, action |-> "NEEDS_HUMAN"]

\* The empty state_data dictionary.
NoData ==
    [invoice_extraction |-> NoExtraction,
     validation_result |-> NoValidation,
     supplier_risk |-> NoSupplierRisk,
     pricing_comparison |-> NoPricing,
     recommendation_result |-> NoRecommendation]

-----------------------------------------------------------------------------
(* Tools.                                                                  *)

AbsDiff(a, b) == IF a >= b THEN a - b ELSE b - a

\* |a - b| < limit, open where the floating-point difference is on the limit.
Within(a, b, limit) ==
    IF AbsDiff(a, b) = limit THEN BOOLEAN ELSE {AbsDiff(a, b) < limit}

\* calculate_vat: subtotal + VAT against the claimed total, to 5 cents.
MathVerdicts(x) == Within(x.subtotal + x.vat_amount, x.total_amount, 5)

\* calculate_vat: the claimed VAT against 20% of the subtotal, rounded to
\* cents, to one unit of currency.
VatVerdicts(x) == Within((2 * x.subtotal + 5) \div 10, x.vat_amount, 100)

\* search_supplier: the mock lookup knows only two suppliers.
SearchSupplier(x) ==
    IF x.tax_blocked \/ x.supplier_name = "risky"
    THEN [supplier_id |-> "sup-risky-001", risk_level |-> "HIGH"]
    ELSE [supplier_id |-> "sup-clean-002", risk_level |-> "LOW"]

\* search_previous_purchases: the historical average of every item.
AverageUnitPrice == 10000

\* Percentage over the average, in hundredths of a percent.
PctChange(price) == ((price - AverageUnitPrice) * 10000) \div AverageUnitPrice

-----------------------------------------------------------------------------
(* Agents.                                                                 *)

\* InvoiceAgent.run on an answer of the model: a zero total is replaced by
\* 350.00 when the document's text contains "350".
InvoiceAgent(answer, textHas350) ==
    IF answer.total_amount = 0 /\ textHas350
    THEN [answer EXCEPT !.total_amount = 35000]
    ELSE answer

\* The mandatory fields an extraction lacks (an empty or zero field is missing).
MissingFields(x) ==
    {f \in {"invoice_number", "supplier_name", "total_amount"} :
        x[f] = IF f = "total_amount" THEN 0 ELSE Missing}

ValidationAgent(x) ==
    {[ran |-> TRUE, is_valid |-> MissingFields(x) = {} /\ math,
      math_correct |-> math, vat_correct |-> vat, is_duplicate |-> FALSE] :
        math \in MathVerdicts(x), vat \in VatVerdicts(x)}

SupplierAgent(x) ==
    [ran |-> TRUE, supplier_id |-> SearchSupplier(x).supplier_id,
     risk_level |-> SearchSupplier(x).risk_level]

\* Faulty variant: an increase of exactly 15% is an anomaly.
PricingAgentAtLimit(x) ==
    [ran |-> TRUE,
     anomalies |-> {PctChange(x.unit_prices[k]) :
                       k \in {j \in DOMAIN x.unit_prices :
                                 PctChange(x.unit_prices[j]) >= 1500}}]

\* The price of an item counts only when it is positive; the anomalies are
\* kept as the set of their percentage changes.
PricingAgent(x) ==
    [ran |-> TRUE,
     anomalies |->
        {PctChange(x.unit_prices[k]) :
            k \in {j \in DOMAIN x.unit_prices :
                      /\ x.unit_prices[j] > 0
                      /\ PctChange(x.unit_prices[j]) > 1500}}]

\* Faulty variant: exactly one flagged issue goes to a human.
RecommendationOnOneIssue(d) ==
    [ran |-> TRUE,
     action |->
        IF ~d.validation_result.is_valid THEN "REJECT"
        ELSE IF (d.supplier_risk.risk_level = "HIGH")
                 # (d.pricing_comparison.anomalies # {})
        THEN "NEEDS_HUMAN"
        ELSE "APPROVE"]

RecommendationAgent(d) ==
    [ran |-> TRUE,
     action |->
        IF ~d.validation_result.is_valid THEN "REJECT"
        ELSE IF \/ d.supplier_risk.risk_level = "HIGH"
                \/ d.pricing_comparison.anomalies # {}
        THEN "NEEDS_HUMAN"
        ELSE "APPROVE"]

=============================================================================
