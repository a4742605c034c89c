-------------------------- MODULE MCWorkflowEngine --------------------------
(***************************************************************************)
(* Instances of the workflow engine for TLC.  The three documents are the  *)
(* three ways a recommendation goes: a clean invoice, one that is complete *)
(* but from a flagged supplier, and one whose numbers do not add up.       *)
(***************************************************************************)
EXTENDS WorkflowProperties, TLC

CONSTANTS i1, i2, r1, r2, none

MCDocument(supplier, total) ==
    [ran |-> TRUE, invoice_number |-> "INV-1", supplier_name |-> supplier,
     tax_blocked |-> FALSE, subtotal |-> 30000, vat_amount |-> 6000,
     total_amount |-> total, unit_prices |-> <<11500>>]

MCAnswers ==
    {MCDocument("plain", 36000), MCDocument("risky", 36000),
     MCDocument("plain", 40000)}

\* Documents that are all approved.
MCCleanAnswers == {MCDocument("plain", 36000)}

\* Requests to the approval endpoint differ in nothing but their name.
MCSymmetry == Permutations({r1, r2})
=============================================================================
