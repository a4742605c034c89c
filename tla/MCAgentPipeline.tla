--------------------------- MODULE MCAgentPipeline ---------------------------
(***************************************************************************)
(* Documents for TLC: every combination of present and missing fields,     *)
(* totals on, just inside and just outside the five-cent bound, a VAT one  *)
(* unit off and ten units off (the sample document of the handler), and    *)
(* unit prices on and around the 15% bound and far beyond.                 *)
(***************************************************************************)
EXTENDS AgentPipeline

MCPrices == {<<>>, <<11500>>, <<11501>>, <<10000, 25001>>, <<-5, 11500, 12000>>}

MCAnswers ==
    [ran: {TRUE}, invoice_number: {Missing, "INV-1"},
     supplier_name: SupplierNames, tax_blocked: BOOLEAN,
     subtotal: {29083, 30000}, vat_amount: {5000, 5917},
     total_amount: {0, 34994, 34995, 35000, 35004, 35917},
     unit_prices: MCPrices]
=============================================================================
