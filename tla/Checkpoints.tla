---------------------------- MODULE Checkpoints ----------------------------
(***************************************************************************)
(* The checkpoint a workflow engine keeps of an invoice                    *)
(* (WorkflowCheckpoint in src/src/workflows/workflow_engine.py), the events *)
(* its handlers subscribe to, and what _finalize_and_post_erp sends to the *)
(* ERP connector: what WorkflowEngine and RedisWorker have in common,      *)
(* whichever event bus runs the handlers.                                  *)
(***************************************************************************)
EXTENDS Agents

CONSTANT Answers   \* what the language model may extract

ASSUME AnswersAssumption ==
    \A a \in Answers : a \in ExtractionType({a.invoice_number})

\* The events that have a handler.
Events == {"InvoiceUploaded", "InvoiceParsed", "InvoiceValidated",
           "SupplierChecked", "PricingCompleted", "RecommendationCreated",
           "HumanApproved"}

\* Statuses of a checkpoint; NONE is the absence of one.
Statuses == {"NONE", "PARSED", "VALIDATED", "SUPPLIER_CHECKED",
             "PRICING_COMPLETED", "RECOMMENDATION_PENDING",
             "AWAITING_HUMAN_APPROVAL", "COMPLETED", "REJECTED", "FAILED"}

\* A status at which the pipeline has nothing left to do.
Settled == {"AWAITING_HUMAN_APPROVAL", "COMPLETED", "REJECTED", "FAILED"}

NoCheckpoint == [status |-> "NONE", state_data |-> NoData]

Extractions ==
    {InvoiceAgent(a, has350) : a \in Answers, has350 \in BOOLEAN}

StateData ==
    [invoice_extraction: Extractions \cup {NoExtraction},
     validation_result: [ran: BOOLEAN, is_valid: BOOLEAN, math_correct: BOOLEAN,
                         vat_correct: BOOLEAN, is_duplicate: BOOLEAN],
     supplier_risk: [ran: BOOLEAN, risk_level: RiskLevels,
                     supplier_id: SupplierIds],
     pricing_comparison: [ran: BOOLEAN, anomalies: SUBSET Int],
     recommendation_result: [ran: BOOLEAN, action: RecommendationActions]]

Checkpoint == [status: Statuses, state_data: StateData]

\* One posting as the ERP system sees it.
Posting == [amount: Int, supplier_id: SupplierIds]

\* What _finalize_and_post_erp posts, defaults included.
PostingOf(data) ==
    [amount |-> IF data.invoice_extraction.ran
                THEN data.invoice_extraction.total_amount ELSE 35000,
     supplier_id |-> data.supplier_risk.supplier_id]

\* What an invoice must be for money to leave without a human.
Clean(x) ==
    /\ x.ran
    /\ x.invoice_number # Missing
    /\ x.supplier_name = "plain"
    /\ ~x.tax_blocked
    /\ x.total_amount # 0
    /\ x.subtotal + x.vat_amount - x.total_amount \in -5 .. 5
    /\ \A k \in DOMAIN x.unit_prices : x.unit_prices[k] <= 11500
=============================================================================
