-------------------------- MODULE InvoiceLifecycle --------------------------
(***************************************************************************)
(* What the workflow promises for each invoice while nothing fails: it is  *)
(* processed to a decision; an invoice is paid at most once, and from the  *)
(* payment on nothing but its completion can happen to it; completion is   *)
(* final.  A rejected or failed invoice may still be decided by a human:   *)
(* the code lets it be.                                                    *)
(***************************************************************************)
EXTENDS Naturals

CONSTANT Invoices

VARIABLES phase,    \* where each invoice stands
          paid      \* how often it has been posted to the ERP system

lvars == <<phase, paid>>

Phases == {"absent", "processing", "awaiting", "rejected", "failed",
           "completed"}

LInit == /\ phase = [i \in Invoices |-> "absent"]
         /\ paid = [i \in Invoices |-> 0]

\* An unpaid invoice moves from one of the phases `from' to `to'.
Move(i, from, to) ==
    /\ phase[i] \in from
    /\ paid[i] = 0
    /\ phase' = [phase EXCEPT ![i] = to]
    /\ UNCHANGED paid

Accept(i) == Move(i, {"absent"}, "processing")
Fail(i) == Move(i, {"absent"}, "failed")
Pause(i) == Move(i, {"processing"}, "awaiting")
Reject(i) == Move(i, {"processing", "awaiting", "rejected", "failed"}, "rejected")

Pay(i) ==
    /\ phase[i] \in {"processing", "awaiting", "rejected", "failed"}
    /\ paid[i] = 0
    /\ paid' = [paid EXCEPT ![i] = 1]
    /\ UNCHANGED phase

Complete(i) ==
    /\ phase[i] # "completed"
    /\ paid[i] = 1
    /\ phase' = [phase EXCEPT ![i] = "completed"]
    /\ UNCHANGED paid

LNext == \E i \in Invoices :
            Accept(i) \/ Fail(i) \/ Pause(i) \/ Reject(i) \/ Pay(i) \/ Complete(i)

\* An invoice in processing is decided, a paid one completed; a human may
\* take forever.
Decide(i) == phase[i] = "processing" /\ (Pause(i) \/ Reject(i) \/ Pay(i))

LSafe == LInit /\ [][LNext]_lvars

LSpec == /\ LSafe
         /\ \A i \in Invoices : WF_lvars(Decide(i)) /\ WF_lvars(Complete(i))
=============================================================================
