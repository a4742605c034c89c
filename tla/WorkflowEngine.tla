--------------------------- MODULE WorkflowEngine ---------------------------
(***************************************************************************)
(* The workflow engine of src/src/workflows/workflow_engine.py on the      *)
(* in-memory event bus of src/src/events/event_bus.py: one process, one    *)
(* asyncio event loop, checkpoints in memory and in SQLite, and the ERP    *)
(* connector of src/src/tools/impl.py.                                     *)
(*                                                                         *)
(* InMemoryEventBus.publish awaits each handler in turn, and a handler's   *)
(* last act is to publish the next event, so an upload request runs the    *)
(* whole chain of handlers as one coroutine; an approval request runs      *)
(* another.  Each is a task here.  What a handler that failed does to its  *)
(* callers is nothing - publish never raises, and no handler does anything *)
(* after publishing - so a task is its current event and attempt, with no  *)
(* stack.  A task hands the loop to another only where the code really     *)
(* suspends: while the language model is asked, and in the sleep before a  *)
(* retry.  Everything else happens in one go unless the process dies, and  *)
(* is split into steps only so that it can die between them.               *)
(***************************************************************************)
EXTENDS Checkpoints

CONSTANTS
    Invoices,     \* invoices that may be uploaded, each under an id of its own
    Approvals,    \* requests to the approval endpoint
    NoInvoice,    \* the invoice of a request not yet made
    MaxRetries,   \* settings.EVENT_MAX_RETRIES
    MaxFaults,    \* bound on failed writes and reads of the checkpoint store
    MaxCrashes    \* bound on crashes of the process

ASSUME ConstantsAssumption ==
    /\ Invoices \cap Approvals = {}
    /\ NoInvoice \notin Invoices
    /\ MaxRetries \in Nat
    /\ MaxFaults \in Nat
    /\ MaxCrashes \in Nat

VARIABLES
    mem,      \* self.checkpoints
    disk,     \* the table workflow_checkpoints
    task,     \* the coroutine of each request
    posted,   \* ERPConnectorTool._posted_invoices
    erp,      \* what the ERP system has accepted, in order
    faults,   \* failed accesses to the checkpoint store so far
    crashes   \* crashes so far

vars == <<mem, disk, task, posted, erp, faults, crashes>>

Tasks == Invoices \cup Approvals

\* Where a task is: not begun, awaiting the language model, in a handler, in
\* the except block, about to post, about to record the posting, awaiting a
\* retry, returned, dead-lettered, or gone with its process.
Places == {"new", "llm", "run", "except", "post", "seal", "sleep", "done",
           "dead", "lost"}

\* The places in which a task holds the event loop.
Busy == {"run", "except", "post", "seal"}

Task == [at: Places, event: Events, invoice: Invoices \cup {NoInvoice},
         action: RecommendationActions, attempt: 0 .. MaxRetries]

Init ==
    /\ mem = [i \in Invoices |-> NoCheckpoint]
    /\ disk = mem
    /\ task = [t \in Tasks |->
                  [at |-> "new",
                   event |-> IF t \in Invoices THEN "InvoiceUploaded"
                                               ELSE "HumanApproved",
                   invoice |-> IF t \in Invoices THEN t ELSE NoInvoice,
                   action |-> "NEEDS_HUMAN", attempt |-> 0]]
    /\ posted = {}
    /\ erp = [i \in Invoices |-> <<>>]
    /\ faults = 0
    /\ crashes = 0

-----------------------------------------------------------------------------
(* The event bus and the checkpoint store.                                 *)

\* No other task holds the event loop.
LoopFree(t) == \A u \in Tasks \ {t} : task[u].at \notin Busy

\* Task t is handling the given event.
Handling(t, event) ==
    task[t].at = "run" /\ task[t].event = event /\ LoopFree(t)

Goto(t, place) == task' = [task EXCEPT ![t].at = place]

\* publish(event): its handler starts at once, with a fresh retry budget.
Publish(t, event) ==
    task' = [task EXCEPT ![t].at = "run", ![t].event = event, ![t].attempt = 0]

\* Faulty variant: one retry too many.
RaiseOffByOne(t) ==
    Goto(t, IF task[t].attempt <= MaxRetries THEN "sleep" ELSE "dead")

\* The handler raised: _dispatch_with_retries sleeps before the next attempt,
\* and when there is none left publish dead-letters the event.
Raise(t) == Goto(t, IF task[t].attempt < MaxRetries THEN "sleep" ELSE "dead")

\* Faulty variant: only the store is written, memory is left as it was.
SaveCheckpointOnDiskOnly(i, status, data, ok) ==
    /\ disk' = IF ok THEN [disk EXCEPT ![i] = [status |-> status, state_data |-> data]]
               ELSE disk
    /\ ok \/ faults < MaxFaults
    /\ faults' = IF ok THEN faults ELSE faults + 1
    /\ UNCHANGED mem

\* save_checkpoint: the memory copy is replaced first, then the row is written;
\* the write fails when ok is FALSE.
SaveCheckpoint(i, status, data, ok) ==
    LET checkpoint == [status |-> status, state_data |-> data]
    IN  /\ mem' = [mem EXCEPT ![i] = checkpoint]
        /\ disk' = IF ok THEN [disk EXCEPT ![i] = checkpoint] ELSE disk
        /\ ok \/ faults < MaxFaults
        /\ faults' = IF ok THEN faults ELSE faults + 1

\* Faulty variant: the failure of the write is swallowed.
SaveAndSwallow(t, status, data) ==
    \E ok \in BOOLEAN :
        /\ SaveCheckpoint(task[t].invoice, status, data, ok)
        /\ Goto(t, "done")

\* The last save of a handler: it returns, or raises what the write raised.
SaveAndReturn(t, status, data) ==
    \E ok \in BOOLEAN :
        /\ SaveCheckpoint(task[t].invoice, status, data, ok)
        /\ IF ok THEN Goto(t, "done") ELSE Raise(t)

StateDataOf(t) == mem[task[t].invoice].state_data

-----------------------------------------------------------------------------
(* The upload request and the chain of handlers it runs.                   *)

\* upload_invoice publishes InvoiceUploaded; the handler parses the document
\* and awaits the language model.
UploadInvoice(i) ==
    /\ task[i].at = "new"
    /\ LoopFree(i)
    /\ Goto(i, "llm")
    /\ UNCHANGED <<mem, disk, posted, erp, faults, crashes>>

\* The model has answered.  A failing write is caught by the handler's own
\* except block.
HandleInvoiceUploaded(i) ==
    /\ task[i].at = "llm"
    /\ LoopFree(i)
    /\ \E x \in Extractions, ok \in BOOLEAN :
          /\ SaveCheckpoint(i, "PARSED",
                            [NoData EXCEPT !.invoice_extraction = x], ok)
          /\ IF ok THEN Publish(i, "InvoiceParsed") ELSE Goto(i, "except")
    /\ UNCHANGED <<posted, erp, crashes>>

\* The file is not there, or the agent gave up on the model.  (Extraction has
\* what is asked of the model before.)
ExtractionFails(i) ==
    /\ task[i].at = "llm"
    /\ LoopFree(i)
    /\ Goto(i, "except")
    /\ UNCHANGED <<mem, disk, posted, erp, faults, crashes>>

\* except Exception: the invoice is FAILED and its state data forgotten.
RecordFailure(i) ==
    /\ task[i].at = "except"
    /\ LoopFree(i)
    /\ SaveAndReturn(i, "FAILED", NoData)
    /\ UNCHANGED <<posted, erp, crashes>>

\* The handlers of the four events between: without a checkpoint they return;
\* otherwise an agent adds one of `results' under `key' and the next event is
\* published.
AgentStep(i, event, key, results, status, next) ==
    /\ Handling(i, event)
    /\ mem[i].status # "NONE"
    /\ \E r \in results, ok \in BOOLEAN :
          /\ SaveCheckpoint(i, status, [mem[i].state_data EXCEPT ![key] = r], ok)
          /\ IF ok THEN Publish(i, next) ELSE Raise(i)
    /\ UNCHANGED <<posted, erp, crashes>>

\* Faulty variant: the supplier check is skipped.
HandleInvoiceParsedSkipping(i) ==
    AgentStep(i, "InvoiceParsed", "validation_result",
              ValidationAgent(StateDataOf(i).invoice_extraction),
              "VALIDATED", "SupplierChecked")

HandleInvoiceParsed(i) ==
    AgentStep(i, "InvoiceParsed", "validation_result",
              ValidationAgent(StateDataOf(i).invoice_extraction),
              "VALIDATED", "InvoiceValidated")

HandleInvoiceValidated(i) ==
    AgentStep(i, "InvoiceValidated", "supplier_risk",
              {SupplierAgent(StateDataOf(i).invoice_extraction)},
              "SUPPLIER_CHECKED", "SupplierChecked")

HandleSupplierChecked(i) ==
    AgentStep(i, "SupplierChecked", "pricing_comparison",
              {PricingAgent(StateDataOf(i).invoice_extraction)},
              "PRICING_COMPLETED", "PricingCompleted")

HandlePricingCompleted(i) ==
    AgentStep(i, "PricingCompleted", "recommendation_result",
              {RecommendationAgent(StateDataOf(i))},
              "RECOMMENDATION_PENDING", "RecommendationCreated")

\* handle_recommendation_created, by what the checkpoint recommends.
Recommended(i, action) ==
    /\ Handling(i, "RecommendationCreated")
    /\ mem[i].status # "NONE"
    /\ mem[i].state_data.recommendation_result.action = action

\* Faulty variant: the workflow pauses and leaves the status as it was.
PauseInPlace(i) ==
    /\ Recommended(i, "NEEDS_HUMAN")
    /\ SaveAndReturn(i, mem[i].status, mem[i].state_data)
    /\ UNCHANGED <<posted, erp, crashes>>

PauseForHuman(i) ==
    /\ Recommended(i, "NEEDS_HUMAN")
    /\ SaveAndReturn(i, "AWAITING_HUMAN_APPROVAL", mem[i].state_data)
    /\ UNCHANGED <<posted, erp, crashes>>

AutoReject(i) ==
    /\ Recommended(i, "REJECT")
    /\ SaveAndReturn(i, "REJECTED", mem[i].state_data)
    /\ UNCHANGED <<posted, erp, crashes>>

\* Faulty variant: the invoice is recorded as completed without the posting.
AutoApproveUnposted(i) ==
    /\ Recommended(i, "APPROVE")
    /\ Goto(i, "seal")
    /\ UNCHANGED <<mem, disk, posted, erp, faults, crashes>>

AutoApprove(i) ==
    /\ Recommended(i, "APPROVE")
    /\ Goto(i, "post")
    /\ UNCHANGED <<mem, disk, posted, erp, faults, crashes>>

-----------------------------------------------------------------------------
(* The approval request.                                                   *)

\* approve_recommendation asks only that a checkpoint exists, whatever its
\* status, and publishes HumanApproved.
SubmitDecision(r, i, action) ==
    /\ task[r].at = "new"
    /\ LoopFree(r)
    /\ mem[i].status # "NONE"
    /\ task' = [task EXCEPT ![r].at = "run", ![r].invoice = i,
                            ![r].action = action]
    /\ UNCHANGED <<mem, disk, posted, erp, faults, crashes>>

\* Faulty variant: a decision about a rejected invoice is ignored too.
IgnoreLateApproval(r) ==
    /\ Handling(r, "HumanApproved")
    /\ mem[task[r].invoice].status \in {"COMPLETED", "REJECTED"}
    /\ Goto(r, "done")
    /\ UNCHANGED <<mem, disk, posted, erp, faults, crashes>>

IgnoreDuplicateApproval(r) ==
    /\ Handling(r, "HumanApproved")
    /\ mem[task[r].invoice].status = "COMPLETED"
    /\ Goto(r, "done")
    /\ UNCHANGED <<mem, disk, posted, erp, faults, crashes>>

HumanApproves(r) ==
    /\ Handling(r, "HumanApproved")
    /\ mem[task[r].invoice].status # "COMPLETED"
    /\ task[r].action = "APPROVE"
    /\ Goto(r, "post")
    /\ UNCHANGED <<mem, disk, posted, erp, faults, crashes>>

\* Faulty variant: a completed invoice can be rejected.
HumanRejectsCompleted(r) ==
    /\ Handling(r, "HumanApproved")
    /\ task[r].action # "APPROVE"
    /\ SaveAndReturn(r, "REJECTED", StateDataOf(r))
    /\ UNCHANGED <<posted, erp, crashes>>

\* Any other action counts as a rejection.
HumanRejects(r) ==
    /\ Handling(r, "HumanApproved")
    /\ mem[task[r].invoice].status # "COMPLETED"
    /\ task[r].action # "APPROVE"
    /\ SaveAndReturn(r, "REJECTED", StateDataOf(r))
    /\ UNCHANGED <<posted, erp, crashes>>

-----------------------------------------------------------------------------
(* _finalize_and_post_erp, for either kind of task.                        *)

\* Faulty variant: the registry is not consulted.
PostErpAgain(t) ==
    LET i == task[t].invoice
    IN  /\ task[t].at = "post"
        /\ LoopFree(t)
        /\ erp' = [erp EXCEPT ![i] = Append(@, PostingOf(StateDataOf(t)))]
        /\ posted' = posted \cup {i}
        /\ Goto(t, "seal")
        /\ UNCHANGED <<mem, disk, faults, crashes>>

\* erp_connector: an invoice this process has posted is not posted again.
PostErp(t) ==
    LET i == task[t].invoice
    IN  /\ task[t].at = "post"
        /\ LoopFree(t)
        /\ erp' = IF i \in posted THEN erp
                  ELSE [erp EXCEPT ![i] = Append(@, PostingOf(StateDataOf(t)))]
        /\ posted' = posted \cup {i}
        /\ Goto(t, "seal")
        /\ UNCHANGED <<mem, disk, faults, crashes>>

\* InvoiceCompleted, published after the save, has no subscriber.
Seal(t) ==
    /\ task[t].at = "seal"
    /\ LoopFree(t)
    /\ SaveAndReturn(t, "COMPLETED", StateDataOf(t))
    /\ UNCHANGED <<posted, erp, crashes>>

-----------------------------------------------------------------------------
(* Retries and crashes.                                                    *)

\* Faulty variant: the attempt is not counted.
WakeUncounted(t) ==
    /\ task[t].at = "sleep"
    /\ LoopFree(t)
    /\ Goto(t, IF task[t].event = "InvoiceUploaded" THEN "llm" ELSE "run")
    /\ UNCHANGED <<mem, disk, posted, erp, faults, crashes>>

\* The retry delay is over: the handler runs again from its beginning.
Wake(t) ==
    /\ task[t].at = "sleep"
    /\ LoopFree(t)
    /\ task' = [task EXCEPT
                   ![t].at = IF task[t].event = "InvoiceUploaded" THEN "llm"
                                                                  ELSE "run",
                   ![t].attempt = @ + 1]
    /\ UNCHANGED <<mem, disk, posted, erp, faults, crashes>>

\* The process dies and is started again: requests in flight, the dead
\* letters and the connector's registry go with it; the checkpoints come back
\* from the store, or not at all when it cannot be read.
Crash ==
    /\ crashes < MaxCrashes
    /\ crashes' = crashes + 1
    /\ \/ mem' = disk /\ faults' = faults
       \/ /\ faults < MaxFaults
          /\ faults' = faults + 1
          /\ mem' = [i \in Invoices |-> NoCheckpoint]
    /\ task' = [t \in Tasks |->
                   IF task[t].at \in {"new", "done"} THEN task[t]
                   ELSE [task[t] EXCEPT !.at = "lost"]]
    /\ posted' = {}
    /\ UNCHANGED <<disk, erp>>

-----------------------------------------------------------------------------
\* A step of an upload that has begun.
UploadStep(i) ==
    \/ HandleInvoiceUploaded(i)
    \/ ExtractionFails(i)
    \/ RecordFailure(i)
    \/ HandleInvoiceParsed(i)
    \/ HandleInvoiceValidated(i)
    \/ HandleSupplierChecked(i)
    \/ HandlePricingCompleted(i)
    \/ PauseForHuman(i)
    \/ AutoReject(i)
    \/ AutoApprove(i)

\* A step of an approval that has been submitted.
ApprovalStep(r) ==
    \/ IgnoreDuplicateApproval(r)
    \/ HumanApproves(r)
    \/ HumanRejects(r)

\* A step of any task.
CommonStep(t) == PostErp(t) \/ Seal(t) \/ Wake(t)

Next ==
    \/ \E i \in Invoices : UploadInvoice(i) \/ UploadStep(i)
    \/ \E r \in Approvals :
          \/ \E i \in Invoices, a \in RecommendationActions :
                SubmitDecision(r, i, a)
          \/ ApprovalStep(r)
    \/ \E t \in Tasks : CommonStep(t)
    \/ Crash

Spec == Init /\ [][Next]_vars

\* The event loop runs every coroutine that can go on, the client of the
\* language model times out, and a sleep ends.  Requests and crashes come
\* when they like.
Fairness ==
    /\ \A i \in Invoices : WF_vars(UploadStep(i))
    /\ \A r \in Approvals : WF_vars(ApprovalStep(r))
    /\ \A t \in Tasks : WF_vars(CommonStep(t))

FairSpec == Spec /\ Fairness

=============================================================================
