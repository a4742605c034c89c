---------------------------- MODULE MCExtraction ----------------------------
(***************************************************************************)
(* The retry settings of the repository, and enough failing writes to      *)
(* exhaust the dispatches of the event bus.                                *)
(***************************************************************************)
EXTENDS Extraction
=============================================================================
