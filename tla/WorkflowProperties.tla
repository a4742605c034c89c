------------------------- MODULE WorkflowProperties -------------------------
(***************************************************************************)
(* The correctness properties of WorkflowEngine.                           *)
(***************************************************************************)
EXTENDS WorkflowEngine

TypeOK ==
    /\ mem \in [Invoices -> Checkpoint]
    /\ disk \in [Invoices -> Checkpoint]
    /\ task \in [Tasks -> Task]
    /\ posted \in SUBSET Invoices
    /\ erp \in [Invoices -> Seq(Posting)]
    /\ faults \in 0 .. MaxFaults
    /\ crashes \in 0 .. MaxCrashes

\* A request that has begun and not ended.
Live(t) == task[t].at \in Busy \cup {"llm", "sleep"}

-----------------------------------------------------------------------------
(* Safety.                                                                 *)

(***************************************************************************)
(* A checkpoint that says COMPLETED, in memory or on disk, is backed by a  *)
(* posting: no crash, failed write or retry of _finalize_and_post_erp      *)
(* records a payment that was not made.                                    *)
(***************************************************************************)
CompletedIsPosted ==
    \A i \in Invoices :
        "COMPLETED" \in {mem[i].status, disk[i].status} => erp[i] # <<>>

(***************************************************************************)
(* However retries and approvals interleave, one life of the process posts *)
(* an invoice at most once; only a crash can add another posting, because  *)
(* the connector's registry is process memory.                             *)
(***************************************************************************)
PostedOncePerRun ==
    \A i \in Invoices : Len(erp[i]) <= crashes + 1

(***************************************************************************)
(* An upload posts to the ERP by itself only an invoice that is clean on   *)
(* the extraction its checkpoint holds at that moment, and that every      *)
(* agent has looked at - although the agents run from a checkpoint that    *)
(* approvals and retries may have rewritten in between, and read absent    *)
(* results as good ones.                                                   *)
(***************************************************************************)
AutoPostIsClean ==
    \A i \in Invoices :
        task[i].at = "post" =>
            /\ Clean(StateDataOf(i).invoice_extraction)
            /\ StateDataOf(i).validation_result.ran
            /\ StateDataOf(i).supplier_risk.ran
            /\ StateDataOf(i).pricing_comparison.ran

(***************************************************************************)
(* Every handler of the chain, _finalize_and_post_erp and                  *)
(* handle_human_approved find the checkpoint they are about, also when a   *)
(* retry runs them again: the early return `if not checkpoint', which      *)
(* would drop an event without a trace, is never taken on this bus.        *)
(***************************************************************************)
NoSilentDrop ==
    \A t \in Tasks :
        \/ task[t].at \in {"run", "post", "seal"}
        \/ task[t].at = "sleep" /\ task[t].event # "InvoiceUploaded"
        => mem[task[t].invoice].status # "NONE"

(***************************************************************************)
(* Memory runs ahead of the store only while some request about the        *)
(* invoice is still going or is dead-lettered - or when memory says        *)
(* COMPLETED: handle_human_approved takes that for a duplicate and returns *)
(* without writing it (see SaveIsDurable).  A memory emptied by an         *)
(* unreadable store is behind it.                                          *)
(***************************************************************************)
DivergenceIsPending ==
    \A i \in Invoices :
        \/ mem[i] = disk[i]
        \/ mem[i].status \in {"NONE", "COMPLETED"}
        \/ \E t \in Tasks :
              task[t].invoice = i /\ (Live(t) \/ task[t].at = "dead")

(***************************************************************************)
(* No step posts an invoice that memory calls COMPLETED.  The chain does   *)
(* not look at the status before it posts, and a task may be asleep while  *)
(* another completes the invoice: it is the registry that protects it.     *)
(***************************************************************************)
CompletedNeverReposts ==
    [][\A i \in Invoices : mem[i].status = "COMPLETED" => erp'[i] = erp[i]]_vars

\* Events that may yet follow in the chain, and the longest way through the places
\* of one attempt.
EventsLeft ==
    [InvoiceUploaded |-> 5, InvoiceParsed |-> 4, InvoiceValidated |-> 3,
     SupplierChecked |-> 2, PricingCompleted |-> 1,
     RecommendationCreated |-> 0, HumanApproved |-> 0]

PlacesLeft ==
    [new |-> 5, llm |-> 4, run |-> 4, except |-> 3, post |-> 3, seal |-> 2,
     sleep |-> 1, dead |-> 1, done |-> 0, lost |-> 0]

\* Steps a task in state r may take at most: every event has all attempts.
StepsLeft(r) ==
    6 * (EventsLeft[r.event] * (MaxRetries + 1) + MaxRetries - r.attempt)
        + PlacesLeft[r.at]

(***************************************************************************)
(* A request never runs in circles: whatever changes it, another event, a  *)
(* retry or a crash, uses up one of a number of steps that is fixed by     *)
(* MaxRetries - although every publication in the chain starts with a      *)
(* retry budget of its own, and a retry begins the handler anew.           *)
(***************************************************************************)
EveryStepCounts ==
    [][\A t \in Tasks :
          task'[t] # task[t] =>
              StepsLeft(task'[t]) \in 0 .. StepsLeft(task[t]) - 1]_vars

-----------------------------------------------------------------------------
(* Liveness, under FairSpec.                                               *)

(***************************************************************************)
(* An upload that has begun ends: its chain returns leaving the invoice    *)
(* decided, waiting for a human or FAILED, or its event is dead-lettered,  *)
(* or it is lost in a crash.  Retries are bounded, and no handler leaves   *)
(* the invoice between two stages.                                         *)
(***************************************************************************)
UploadSettles ==
    \A i \in Invoices :
        task[i].at = "llm" ~>
            \/ task[i].at = "done" /\ mem[i].status \in Settled
            \/ task[i].at \in {"dead", "lost"}

(***************************************************************************)
(* An accepted approval request ends with the decision carried out, unless *)
(* it is dead-lettered or lost: the invoice is COMPLETED after APPROVE,    *)
(* and decided one way or the other after anything else.                   *)
(***************************************************************************)
DecisionSettles ==
    \A r \in Approvals :
        task[r].at = "run" ~>
            \/ /\ task[r].at = "done"
               /\ mem[task[r].invoice].status \in
                     IF task[r].action = "APPROVE" THEN {"COMPLETED"}
                                                   ELSE {"COMPLETED", "REJECTED"}
            \/ task[r].at \in {"dead", "lost"}

-----------------------------------------------------------------------------
(* Refinement: while no write fails and the process lives, the engine      *)
(* implements InvoiceLifecycle.                                            *)

PhaseOf(status) ==
    CASE status = "NONE" -> "absent"
      [] status = "AWAITING_HUMAN_APPROVAL" -> "awaiting"
      [] status = "REJECTED" -> "rejected"
      [] status = "FAILED" -> "failed"
      [] status = "COMPLETED" -> "completed"
      [] OTHER -> "processing"

Lifecycle == INSTANCE InvoiceLifecycle WITH
    phase <- [i \in Invoices |-> PhaseOf(disk[i].status)],
    paid <- [i \in Invoices |-> Len(erp[i])]

(***************************************************************************)
(* The stored status and the ERP's postings move as InvoiceLifecycle says, *)
(* whatever order uploads and approvals come in, its liveness included.    *)
(***************************************************************************)
ImplementsLifecycle == Lifecycle!LSpec

-----------------------------------------------------------------------------
(* Refinement: whatever fails, the engine implements PaymentPromise.       *)

Payments == INSTANCE PaymentPromise WITH
    paid <- [i \in Invoices |-> Len(erp[i])],
    current <- posted,
    recorded <- {i \in Invoices : disk[i].status = "COMPLETED"},
    life <- crashes

(***************************************************************************)
(* _finalize_and_post_erp and its retries, decisions submitted again,      *)
(* failed writes and crashes move the ERP's postings and the stored status *)
(* only as PaymentPromise allows.                                          *)
(***************************************************************************)
ImplementsPayments == Payments!SafePayments

-----------------------------------------------------------------------------
(* What the repository's text says of the engine, and the code does not    *)
(* do.                                                                     *)

(***************************************************************************)
(* save_checkpoint: "Save a checkpoint in memory and persist it            *)
(* transactionally to SQLite" (workflow_engine.py:114).  Once nothing is   *)
(* pending about an invoice, its checkpoint in memory is the stored one.   *)
(***************************************************************************)
SaveIsDurable ==
    \A i \in Invoices :
        \/ mem[i] = disk[i]
        \/ \E t \in Tasks :
              task[t].invoice = i /\ (Live(t) \/ task[t].at = "dead")
=============================================================================
