----------------------------- MODULE MCClamdScan -----------------------------
(***************************************************************************)
(* Scans for TLC: a file of five chunks and a terminator against a socket  *)
(* that takes two messages, so that the writer is paused and resumed.      *)
(***************************************************************************)
EXTENDS ClamdScan
=============================================================================
