---------------------------- MODULE EventDelivery ----------------------------
(***************************************************************************)
(* What the outbox promises of each event: once it is committed with its   *)
(* invoice it is delivered to the event bus, and nothing that was not      *)
(* committed ever is.  Delivery is at least once: a repeated delivery is   *)
(* not a change here.                                                      *)
(***************************************************************************)
CONSTANT Events

VARIABLES committed, delivered    \* sets of events

dvars == <<committed, delivered>>

DInit == committed = {} /\ delivered = {}

CommitEvent(e) ==
    /\ e \notin committed
    /\ committed' = committed \cup {e}
    /\ UNCHANGED delivered

DeliverEvent(e) ==
    /\ e \in committed \ delivered
    /\ delivered' = delivered \cup {e}
    /\ UNCHANGED committed

DNext == \E e \in Events : CommitEvent(e) \/ DeliverEvent(e)

DSafe == DInit /\ [][DNext]_dvars

DSpec == DSafe /\ \A e \in Events : WF_dvars(DeliverEvent(e))
=============================================================================
