------------------------------ MODULE MCOutbox ------------------------------
(***************************************************************************)
(* Instances of the outbox for TLC.                                        *)
(***************************************************************************)
EXTENDS Outbox

CONSTANTS u1, u2, p1, p2, f1, none
=============================================================================
