--------------------------- MODULE MCRedisWorker ---------------------------
(***************************************************************************)
(* Instances of the Redis worker for TLC: an invoice that is approved at   *)
(* once, one that waits for a human and one whose numbers do not add up.   *)
(***************************************************************************)
EXTENDS RedisWorker

CONSTANT i1

MCDocument(supplier, total) ==
    [ran |-> TRUE, invoice_number |-> "INV-1", supplier_name |-> supplier,
     tax_blocked |-> FALSE, subtotal |-> 30000, vat_amount |-> 6000,
     total_amount |-> total, unit_prices |-> <<11500>>]

MCAnswers ==
    {MCDocument("plain", 36000), MCDocument("risky", 36000),
     MCDocument("plain", 40000)}

\* The first two streams of the chain and the decisions; the chain goes on by
\* local dispatch.
MCConsumers == {"InvoiceUploaded", "InvoiceParsed", "HumanApproved"}

\* The streams at both ends of the chain: a recommendation is taken from its
\* stream and by local dispatch.
MCEnds == {"InvoiceUploaded", "RecommendationCreated", "HumanApproved"}

\* One clean answer and one for each reason to stop an automatic posting: a
\* supplier at risk, numbers that do not add up, and a total within the
\* validator's tolerance.
MCDoubtful ==
    {MCDocument("plain", 36000), MCDocument("risky", 36000),
     MCDocument("plain", 40000), MCDocument("plain", 36005)}

\* Streams along the chain: agents in the middle of it run from their streams
\* and by local dispatch, one behind the other.
MCChain == {"InvoiceUploaded", "InvoiceParsed", "SupplierChecked", "HumanApproved"}
=============================================================================
