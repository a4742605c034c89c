---------------------------- MODULE AgentPipeline ----------------------------
(***************************************************************************)
(* One document through the five agents, in the order in which the         *)
(* workflow's handlers call them (register_subscribers), each on the       *)
(* state_data the one before it left.  The workflow around them - events,  *)
(* checkpoints, failures - is the subject of WorkflowEngine; here the      *)
(* subject is what the agents decide, over many documents.                 *)
(***************************************************************************)
EXTENDS Agents

CONSTANT Answers    \* what the language model may extract from the document

ASSUME AnswersAssumption ==
    \A a \in Answers : a \in ExtractionType({a.invoice_number})

VARIABLES answer,       \* the model's answer
          textHas350,   \* the document's text contains "350"
          stage,        \* the agent to run next
          data          \* AgentState.data

vars == <<answer, textHas350, stage, data>>

Init == /\ answer \in Answers
        /\ textHas350 \in BOOLEAN
        /\ stage = "invoice"
        /\ data = NoData

\* The agent named `from' leaves its result under `key', then `to' runs.
Run(from, to, key, result) ==
    /\ stage = from
    /\ stage' = to
    /\ data' = [data EXCEPT ![key] = result]
    /\ UNCHANGED <<answer, textHas350>>

Next ==
    \/ Run("invoice", "validation", "invoice_extraction",
           InvoiceAgent(answer, textHas350))
    \/ \E v \in ValidationAgent(data.invoice_extraction) :
            Run("validation", "supplier", "validation_result", v)
    \/ Run("supplier", "pricing", "supplier_risk",
           SupplierAgent(data.invoice_extraction))
    \/ Run("pricing", "recommendation", "pricing_comparison",
           PricingAgent(data.invoice_extraction))
    \/ Run("recommendation", "decided", "recommendation_result",
           RecommendationAgent(data))

Spec == Init /\ [][Next]_vars

-----------------------------------------------------------------------------
Decided == stage = "decided"
Decision == data.recommendation_result.action

(***************************************************************************)
(* A reference for the decision, written on the document alone.            *)
(***************************************************************************)
PayableTotal(a, has350) ==
    IF a.total_amount # 0 THEN a.total_amount ELSE IF has350 THEN 35000 ELSE 0

\* The invoice names its number, its supplier and a total.
Complete(a, has350) ==
    /\ a.invoice_number # Missing
    /\ a.supplier_name # Missing
    /\ PayableTotal(a, has350) # 0

\* How far subtotal plus VAT is from the total.
Gap(a, has350) ==
    LET g == a.subtotal + a.vat_amount - PayableTotal(a, has350)
    IN  IF g < 0 THEN 0 - g ELSE g

SuspectSupplier(a) == a.tax_blocked \/ a.supplier_name = "risky"

\* Some unit price is more than 15% over 100.00.
Overpriced(a) == \E k \in DOMAIN a.unit_prices : 100 * a.unit_prices[k] > 115 * 10000

(***************************************************************************)
(* The five agents together, each with its results stored for the next, a  *)
(* total made up for, defaults and rounding, implement the thresholds of   *)
(* the code, which are here read off the document alone.  An invoice that  *)
(* is incomplete, or more than five cents out, is rejected whatever else   *)
(* is wrong with it (validation_agent.py:49, recommendation_agent.py:46);  *)
(* of the others, one from a supplier the lookup calls HIGH, or with a     *)
(* price more than 15% over the average (pricing_agent.py:46), goes to a   *)
(* human (recommendation_agent.py:50), and what is left is approved.  At a *)
(* gap of exactly five cents the rounding decides.                         *)
(*                                                                         *)
(* These are not the thresholds of the decision matrix in the agent's      *)
(* prompt (templates.py:52-55): that one rejects HIGH risk, and sends a    *)
(* variance from 10% on to a human.  The agent never sends the prompt.     *)
(***************************************************************************)
DecisionMeetsThresholds ==
    Decided =>
        LET complete == Complete(answer, textHas350)
            gap      == Gap(answer, textHas350)
            issues   == SuspectSupplier(answer) \/ Overpriced(answer)
        IN  CASE ~complete \/ gap > 5 -> Decision = "REJECT"
              [] complete /\ gap < 5  -> Decision = IF issues THEN "NEEDS_HUMAN"
                                                              ELSE "APPROVE"
              [] complete /\ gap = 5  -> Decision \in
                     {"REJECT", IF issues THEN "NEEDS_HUMAN" ELSE "APPROVE"}

\* b is the same document as a with higher prices or a more suspect supplier.
Worse(a, b) ==
    /\ \A f \in {"invoice_number", "subtotal", "vat_amount", "total_amount"} :
          a[f] = b[f]
    /\ a.tax_blocked => b.tax_blocked
    /\ a.supplier_name = b.supplier_name \/ b.supplier_name = "risky"
    /\ Len(a.unit_prices) <= Len(b.unit_prices)
    /\ \A k \in DOMAIN a.unit_prices : a.unit_prices[k] <= b.unit_prices[k]

\* What the chain may decide on an answer, computed in one go.
Decisions(a, has350) ==
    LET x == InvoiceAgent(a, has350)
    IN  {RecommendationAgent(
            [invoice_extraction |-> x, validation_result |-> v,
             supplier_risk |-> SupplierAgent(x),
             pricing_comparison |-> PricingAgent(x),
             recommendation_result |-> NoRecommendation]).action :
                v \in ValidationAgent(x)}

(***************************************************************************)
(* Making a document more suspect never gets it paid: if a document was    *)
(* not approved, the same document with a riskier supplier, dearer items   *)
(* or more items is not approved either.  (On the five-cent bound the same *)
(* document may be decided either way, so nothing is claimed there.)       *)
(***************************************************************************)
SuspicionNeverHelps ==
    Decided /\ Decision # "APPROVE" =>
        \A b \in Answers :
            Worse(answer, b) /\ Gap(answer, textHas350) # 5
                => "APPROVE" \notin Decisions(b, textHas350)
=============================================================================
