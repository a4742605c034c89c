--------------------------- MODULE PaymentPromise ---------------------------
(***************************************************************************)
(* What the workflow engine promises of the money it pays out, on either   *)
(* event bus: one life of the process pays an invoice at most once, and    *)
(* only an invoice that has been paid is recorded as completed.  The       *)
(* record may be overwritten, by a handler that runs again, but a payment  *)
(* is never undone.                                                        *)
(***************************************************************************)
EXTENDS Naturals

CONSTANT Invoices

VARIABLES
    paid,       \* how often each invoice has been paid
    current,    \* the invoices paid in this life of the process
    recorded,   \* the invoices the store calls completed
    life        \* which life of the process this is

pvars == <<paid, current, recorded, life>>

PInit ==
    /\ paid = [i \in Invoices |-> 0]
    /\ current = {}
    /\ recorded = {}
    /\ life = 0

\* The payment may be recorded in the same step.
Pay(i) ==
    /\ i \notin current
    /\ paid' = [paid EXCEPT ![i] = @ + 1]
    /\ current' = current \cup {i}
    /\ recorded' \in {recorded, recorded \cup {i}}
    /\ UNCHANGED life

Record(i) ==
    /\ paid[i] > 0
    /\ recorded' = recorded \cup {i}
    /\ UNCHANGED <<paid, current, life>>

Revoke(i) ==
    /\ recorded' = recorded \ {i}
    /\ UNCHANGED <<paid, current, life>>

\* The process dies and begins anew: only so does what it knows of its payments
\* go away.
Restart ==
    /\ life' = life + 1
    /\ current' = {}
    /\ UNCHANGED <<paid, recorded>>

PNext ==
    \/ \E i \in Invoices : Pay(i) \/ Record(i) \/ Revoke(i)
    \/ Restart

SafePayments == PInit /\ [][PNext]_pvars
=============================================================================
