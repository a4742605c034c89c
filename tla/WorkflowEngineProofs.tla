------------------------ MODULE WorkflowEngineProofs ------------------------
(***************************************************************************)
(* Proofs, for any number of invoices and approvals, any answers of the    *)
(* language model and any bounds on retries, faults and crashes, of the    *)
(* safety properties that the runs of WorkflowProperties check.            *)
(***************************************************************************)
EXTENDS WorkflowProperties, CheckpointProofs, SequenceTheorems, TLAPS

-----------------------------------------------------------------------------
(* Type correctness.                                                       *)

(***************************************************************************)
(* What the types alone do not say of a task: an upload is about its own   *)
(* invoice, an approval about some invoice once it has been submitted, and *)
(* a task asleep has an attempt left.                                      *)
(***************************************************************************)
Shape ==
    /\ \A i \in Invoices : task[i].invoice = i
    /\ \A r \in Approvals :
          /\ task[r].at # "new" => task[r].invoice \in Invoices
          /\ task[r].event = "HumanApproved"
          /\ task[r].at \notin {"llm", "except"}
    /\ \A t \in Tasks : task[t].at = "sleep" => task[t].attempt < MaxRetries

TInv == TypeOK /\ Shape

-----------------------------------------------------------------------------
(* How the helpers of the engine keep the types.                           *)

LEMMA TaskInvoice ==
  ASSUME TInv, NEW t \in Tasks, t \in Invoices \/ task[t].at # "new"
  PROVE  task[t].invoice \in Invoices
  BY DEF TInv, Shape, Tasks

LEMMA SaveTyped ==
  ASSUME TypeOK, NEW i \in Invoices, NEW status \in Statuses,
         NEW data \in StateData, NEW ok \in BOOLEAN,
         SaveCheckpoint(i, status, data, ok)
  PROVE  /\ mem' \in [Invoices -> Checkpoint]
         /\ disk' \in [Invoices -> Checkpoint]
         /\ faults' \in 0 .. MaxFaults
<1>1. [status |-> status, state_data |-> data] \in Checkpoint
  BY DEF Checkpoint
<1>2. MaxFaults \in Nat
  BY ConstantsAssumption
<1> QED BY <1>1, <1>2 DEF SaveCheckpoint, TypeOK

\* A task may be sent to any place that Shape allows it.
LEMMA GotoTyped ==
  ASSUME TInv, NEW t \in Tasks, NEW place \in Places,
         t \in Invoices \/ task[t].at # "new",
         place = "sleep" => task[t].attempt < MaxRetries,
         t \in Approvals => place \notin {"llm", "except"},
         Goto(t, place)
  PROVE  task' \in [Tasks -> Task] /\ Shape'
<1>1. task \in [Tasks -> Task]
  BY DEF TInv, TypeOK
<1>2. task' \in [Tasks -> Task]
  BY <1>1 DEF Goto, Task
<1>3. /\ \A u \in Tasks : /\ task'[u].invoice = task[u].invoice
                          /\ task'[u].event = task[u].event
                          /\ task'[u].attempt = task[u].attempt
                          /\ u # t => task'[u].at = task[u].at
      /\ task'[t].at = place
  BY <1>1 DEF Goto, Task
<1>4. Shape'
  BY <1>3 DEF TInv, Shape, Tasks
<1> QED BY <1>2, <1>4

LEMMA RaiseTyped ==
  ASSUME TInv, NEW t \in Tasks, t \in Invoices \/ task[t].at # "new", Raise(t)
  PROVE  task' \in [Tasks -> Task] /\ Shape'
  BY GotoTyped DEF Raise, Places

LEMMA PublishTyped ==
  ASSUME TInv, NEW i \in Invoices, NEW event \in Events, Publish(i, event)
  PROVE  task' \in [Tasks -> Task] /\ Shape'
<1>1. task \in [Tasks -> Task] /\ i \in Tasks /\ MaxRetries \in Nat
  BY ConstantsAssumption DEF TInv, TypeOK, Tasks
<1>2. task' \in [Tasks -> Task]
  <2>1. PICK Attempts : Attempts = 0 .. MaxRetries /\ 0 \in Attempts
    BY <1>1
  <2>2. task \in [Tasks -> [at: Places, event: Events, attempt: Attempts,
                           invoice: Invoices \cup {NoInvoice},
                           action: RecommendationActions]]
    BY <1>1, <2>1 DEF Task
  <2>3. "run" \in Places
    BY DEF Places
  <2>4. task' \in [Tasks -> [at: Places, event: Events, attempt: Attempts,
                            invoice: Invoices \cup {NoInvoice},
                            action: RecommendationActions]]
    BY <1>1, <2>1, <2>2, <2>3 DEF Publish
  <2> QED BY <2>1, <2>4 DEF Task
<1>3. /\ \A u \in Tasks \ {i} : task'[u] = task[u]
      /\ task'[i].at = "run" /\ task'[i].invoice = task[i].invoice
  BY <1>1 DEF Publish, Task
<1>4. i \notin Approvals
  BY ConstantsAssumption
<1>5. Shape'
  BY <1>3, <1>4 DEF TInv, Shape, Tasks
<1> QED BY <1>2, <1>5

LEMMA SaveAndReturnTyped ==
  ASSUME TInv, NEW t \in Tasks, task[t].at # "new", NEW status \in Statuses,
         NEW data \in StateData, SaveAndReturn(t, status, data),
         UNCHANGED <<posted, erp, crashes>>
  PROVE  TInv'
<1>1. PICK ok \in BOOLEAN :
          /\ SaveCheckpoint(task[t].invoice, status, data, ok)
          /\ IF ok THEN Goto(t, "done") ELSE Raise(t)
  BY DEF SaveAndReturn
<1>2. task[t].invoice \in Invoices
  BY TaskInvoice
<1>3. /\ mem' \in [Invoices -> Checkpoint]
      /\ disk' \in [Invoices -> Checkpoint]
      /\ faults' \in 0 .. MaxFaults
  BY <1>1, <1>2, SaveTyped DEF TInv
<1>4. task' \in [Tasks -> Task] /\ Shape'
  BY <1>1, GotoTyped, RaiseTyped DEF Places
<1> QED BY <1>3, <1>4 DEF TInv, TypeOK

LEMMA DataTyped ==
  ASSUME TypeOK, NEW i \in Invoices
  PROVE  mem[i].status \in Statuses /\ mem[i].state_data \in StateData
  BY DEF TypeOK, Checkpoint

\* A step that only moves a task.
LEMMA MoveTyped ==
  ASSUME TInv, NEW t \in Tasks, NEW place \in Places,
         t \in Invoices \/ task[t].at # "new", place # "sleep",
         t \in Approvals => place \notin {"llm", "except"},
         Goto(t, place), UNCHANGED <<mem, disk, posted, erp, faults, crashes>>
  PROVE  TInv'
<1>1. task' \in [Tasks -> Task] /\ Shape'
  BY GotoTyped
<1> QED BY <1>1 DEF TInv, TypeOK

LEMMA AgentStepTyped ==
  ASSUME TInv, NEW i \in Invoices, NEW event, NEW key, NEW results,
         NEW status \in Statuses, NEW next \in Events,
         \A r \in results : [mem[i].state_data EXCEPT ![key] = r] \in StateData,
         AgentStep(i, event, key, results, status, next)
  PROVE  TInv'
<1>1. PICK r \in results, ok \in BOOLEAN :
          /\ SaveCheckpoint(i, status, [mem[i].state_data EXCEPT ![key] = r], ok)
          /\ IF ok THEN Publish(i, next) ELSE Raise(i)
  BY DEF AgentStep
<1>2. /\ mem' \in [Invoices -> Checkpoint]
      /\ disk' \in [Invoices -> Checkpoint]
      /\ faults' \in 0 .. MaxFaults
  BY <1>1, SaveTyped DEF TInv
<1>3. task' \in [Tasks -> Task] /\ Shape'
  BY <1>1, PublishTyped, RaiseTyped DEF Tasks
<1>4. UNCHANGED <<posted, erp, crashes>>
  BY DEF AgentStep
<1> QED BY <1>2, <1>3, <1>4 DEF TInv, TypeOK

-----------------------------------------------------------------------------
LEMMA TypeInit == Init => TInv
<1> SUFFICES ASSUME Init PROVE TInv
  OBVIOUS
<1>1. NoCheckpoint \in Checkpoint
  BY NoDataTyped DEF NoCheckpoint, Checkpoint, Statuses
<1>2. mem \in [Invoices -> Checkpoint] /\ disk \in [Invoices -> Checkpoint]
  BY <1>1 DEF Init
<1>3. task \in [Tasks -> Task]
  BY ConstantsAssumption DEF Init, Task, Places, Events, RecommendationActions
<1>4. /\ posted \in SUBSET Invoices /\ erp \in [Invoices -> Seq(Posting)]
      /\ faults \in 0 .. MaxFaults /\ crashes \in 0 .. MaxCrashes
  BY ConstantsAssumption DEF Init
<1>5. Shape
  BY ConstantsAssumption DEF Init, Shape, Tasks
<1> QED BY <1>2, <1>3, <1>4, <1>5 DEF TInv, TypeOK

\* A step of an upload.
LEMMA UploadStepTyped ==
  ASSUME TInv, NEW i \in Invoices, UploadStep(i)
  PROVE  TInv'
<1> DEFINE d == mem[i].state_data
<1>1. /\ i \in Tasks /\ i \notin Approvals /\ task[i].invoice = i
      /\ TypeOK /\ d \in StateData /\ StateDataOf(i) = d
  BY ConstantsAssumption, DataTyped DEF TInv, Shape, Tasks, StateDataOf
<1>2. CASE HandleInvoiceUploaded(i)
  <2>1. PICK x \in Extractions, ok \in BOOLEAN :
            /\ SaveCheckpoint(i, "PARSED", [NoData EXCEPT !.invoice_extraction = x], ok)
            /\ IF ok THEN Publish(i, "InvoiceParsed") ELSE Goto(i, "except")
    BY <1>2 DEF HandleInvoiceUploaded
  <2>2. [NoData EXCEPT !.invoice_extraction = x] \in StateData
    BY NoDataTyped DEF StateData
  <2>3. /\ mem' \in [Invoices -> Checkpoint]
        /\ disk' \in [Invoices -> Checkpoint]
        /\ faults' \in 0 .. MaxFaults
    BY <1>1, <2>1, <2>2, SaveTyped DEF Statuses
  <2>4. task' \in [Tasks -> Task] /\ Shape'
    BY <1>1, <2>1, PublishTyped, GotoTyped DEF Events, Places
  <2>5. UNCHANGED <<posted, erp, crashes>>
    BY <1>2 DEF HandleInvoiceUploaded
  <2> QED BY <2>3, <2>4, <2>5 DEF TInv, TypeOK
<1>3. CASE ExtractionFails(i)
  BY <1>1, <1>3, MoveTyped DEF ExtractionFails, Places
<1>4. CASE RecordFailure(i)
  <2>1. /\ task[i].at # "new" /\ SaveAndReturn(i, "FAILED", NoData)
        /\ UNCHANGED <<posted, erp, crashes>>
    BY <1>4 DEF RecordFailure
  <2> QED BY <1>1, <2>1, NoDataTyped, SaveAndReturnTyped DEF Statuses
<1>5. CASE HandleInvoiceParsed(i)
  <2>1. \A v \in ValidationAgent(StateDataOf(i).invoice_extraction) :
            [d EXCEPT !["validation_result"] = v] \in StateData
    BY <1>1, AgentsTyped
  <2> QED BY <1>5, <2>1, AgentStepTyped DEF HandleInvoiceParsed, Statuses, Events
<1>6. CASE HandleInvoiceValidated(i)
  <2>1. \A r \in {SupplierAgent(StateDataOf(i).invoice_extraction)} :
            [d EXCEPT !["supplier_risk"] = r] \in StateData
    BY <1>1, AgentsTyped
  <2> QED BY <1>6, <2>1, AgentStepTyped DEF HandleInvoiceValidated, Statuses, Events
<1>7. CASE HandleSupplierChecked(i)
  <2>1. \A r \in {PricingAgent(StateDataOf(i).invoice_extraction)} :
            [d EXCEPT !["pricing_comparison"] = r] \in StateData
    BY <1>1, AgentsTyped
  <2> QED BY <1>7, <2>1, AgentStepTyped DEF HandleSupplierChecked, Statuses, Events
<1>8. CASE HandlePricingCompleted(i)
  <2>1. \A r \in {RecommendationAgent(StateDataOf(i))} :
            [d EXCEPT !["recommendation_result"] = r] \in StateData
    BY <1>1, AgentsTyped
  <2> QED BY <1>8, <2>1, AgentStepTyped DEF HandlePricingCompleted, Statuses, Events
<1>9. CASE PauseForHuman(i) \/ AutoReject(i)
  <2>1. /\ task[i].at # "new"
        /\ \E s \in {"AWAITING_HUMAN_APPROVAL", "REJECTED"} : SaveAndReturn(i, s, d)
        /\ UNCHANGED <<posted, erp, crashes>>
    BY <1>9 DEF PauseForHuman, AutoReject, Recommended, Handling
  <2> QED BY <1>1, <2>1, SaveAndReturnTyped DEF Statuses
<1>10. CASE AutoApprove(i)
  BY <1>1, <1>10, MoveTyped DEF AutoApprove, Places
<1> QED BY <1>2, <1>3, <1>4, <1>5, <1>6, <1>7, <1>8, <1>9, <1>10 DEF UploadStep

\* A step of an approval.
LEMMA ApprovalStepTyped ==
  ASSUME TInv, NEW r \in Approvals, ApprovalStep(r)
  PROVE  TInv'
<1>1. r \in Tasks /\ task[r].at = "run"
  BY DEF ApprovalStep, IgnoreDuplicateApproval, HumanApproves, HumanRejects, Handling, Tasks
<1>2. CASE IgnoreDuplicateApproval(r) \/ HumanApproves(r)
  BY <1>1, <1>2, MoveTyped DEF IgnoreDuplicateApproval, HumanApproves, Places
<1>3. CASE HumanRejects(r)
  <2>1. StateDataOf(r) \in StateData
    BY <1>1, TaskInvoice, DataTyped DEF StateDataOf, TInv
  <2>2. SaveAndReturn(r, "REJECTED", StateDataOf(r)) /\ UNCHANGED <<posted, erp, crashes>>
    BY <1>3 DEF HumanRejects
  <2> QED BY <1>1, <2>1, <2>2, SaveAndReturnTyped DEF Statuses
<1> QED BY <1>2, <1>3 DEF ApprovalStep

\* A step of either.
LEMMA CommonStepTyped ==
  ASSUME TInv, NEW t \in Tasks, CommonStep(t)
  PROVE  TInv'
<1>1. task[t].at # "new" /\ TypeOK /\ task \in [Tasks -> Task]
  BY DEF CommonStep, PostErp, Seal, Wake, TInv, TypeOK
<1>2. StateDataOf(t) \in StateData /\ task[t].invoice \in Invoices
  BY <1>1, TaskInvoice, DataTyped DEF StateDataOf
<1>3. CASE PostErp(t)
  <2>1. PostingOf(StateDataOf(t)) \in Posting
    BY <1>2, PostingTyped
  <2>2. erp' \in [Invoices -> Seq(Posting)] /\ posted' \in SUBSET Invoices
    BY <1>1, <1>2, <1>3, <2>1 DEF PostErp, TypeOK
  <2>3. task' \in [Tasks -> Task] /\ Shape'
    BY <1>1, <1>3, GotoTyped DEF PostErp, Places
  <2>4. UNCHANGED <<mem, disk, faults, crashes>>
    BY <1>3 DEF PostErp
  <2> QED BY <2>2, <2>3, <2>4 DEF TInv, TypeOK
<1>4. CASE Seal(t)
  <2>1. SaveAndReturn(t, "COMPLETED", StateDataOf(t)) /\ UNCHANGED <<posted, erp, crashes>>
    BY <1>4 DEF Seal
  <2> QED BY <1>1, <1>2, <2>1, SaveAndReturnTyped DEF Statuses
<1>5. CASE Wake(t)
  <2>1. task[t].attempt + 1 \in 0 .. MaxRetries
    BY <1>1, <1>5, ConstantsAssumption DEF Wake, TInv, Shape, Task
  <2>2. PICK place \in {"llm", "run"} :
            /\ task' = [task EXCEPT ![t].at = place, ![t].attempt = @ + 1]
            /\ t \in Approvals => place = "run"
    BY <1>5 DEF Wake, TInv, Shape
  <2>3. task' \in [Tasks -> Task]
    <3>1. PICK Attempts : Attempts = 0 .. MaxRetries
      OBVIOUS
    <3>2. place \in Places
      BY DEF Places
    <3>3. task \in [Tasks -> [at: Places, event: Events, attempt: Attempts,
                              invoice: Invoices \cup {NoInvoice},
                              action: RecommendationActions]]
      BY <1>1, <3>1 DEF Task
    <3>4. task' \in [Tasks -> [at: Places, event: Events, attempt: Attempts,
                               invoice: Invoices \cup {NoInvoice},
                               action: RecommendationActions]]
      BY <2>1, <2>2, <3>1, <3>2, <3>3
    <3> QED BY <3>1, <3>4 DEF Task
  <2>4. /\ \A u \in Tasks \ {t} : task'[u] = task[u]
        /\ task'[t].at = place /\ task'[t].invoice = task[t].invoice
        /\ task'[t].event = task[t].event
    BY <1>1, <2>2 DEF Task
  <2>5. Shape'
    BY <1>1, <2>2, <2>4 DEF TInv, Shape, Tasks
  <2>6. UNCHANGED <<mem, disk, posted, erp, faults, crashes>>
    BY <1>5 DEF Wake
  <2> QED BY <2>3, <2>5, <2>6 DEF TInv, TypeOK
<1> QED BY <1>3, <1>4, <1>5 DEF CommonStep

LEMMA SubmitDecisionTyped ==
  ASSUME TInv, NEW r \in Approvals, NEW i \in Invoices,
         NEW a \in RecommendationActions, SubmitDecision(r, i, a)
  PROVE  TInv'
<1>1. r \in Tasks /\ task \in [Tasks -> Task] /\ "run" \in Places
  BY DEF TInv, TypeOK, Tasks, Places
<1>2. task' \in [Tasks -> Task]
  BY <1>1 DEF SubmitDecision, Task
<1>3. /\ \A u \in Tasks \ {r} : task'[u] = task[u]
      /\ task'[r].at = "run" /\ task'[r].invoice = i /\ task'[r].event = task[r].event
  BY <1>1 DEF SubmitDecision, Task
<1>4. Shape'
  BY <1>3, ConstantsAssumption DEF TInv, Shape, Tasks
<1> QED BY <1>2, <1>4 DEF SubmitDecision, TInv, TypeOK

LEMMA CrashTyped ==
  ASSUME TInv, Crash
  PROVE  TInv'
<1>1. NoCheckpoint \in Checkpoint
  BY NoDataTyped DEF NoCheckpoint, Checkpoint, Statuses
<1>2. mem' \in [Invoices -> Checkpoint] /\ faults' \in 0 .. MaxFaults
  BY <1>1, ConstantsAssumption DEF Crash, TInv, TypeOK
<1>3. crashes' \in 0 .. MaxCrashes
  BY ConstantsAssumption DEF Crash, TInv, TypeOK
<1>4. \A t \in Tasks : \/ task'[t] = task[t]
                       \/ task'[t] = [task[t] EXCEPT !.at = "lost"] /\ task[t].at # "new"
  BY DEF Crash
<1>5. \A t \in Tasks :
          /\ task'[t] \in Task /\ task'[t].event = task[t].event
          /\ task'[t].invoice = task[t].invoice
          /\ task'[t] = task[t] \/ (task'[t].at = "lost" /\ task[t].at # "new")
  <2>1. task \in [Tasks -> Task] /\ "lost" \in Places
    BY DEF TInv, TypeOK, Places
  <2>2. ASSUME NEW k \in Task
        PROVE  LET l == [k EXCEPT !.at = "lost"]
               IN  l \in Task /\ l.event = k.event /\ l.invoice = k.invoice /\ l.at = "lost"
    BY <2>1 DEF Task
  <2> TAKE t \in Tasks
  <2>3. task[t] \in Task
    BY <2>1
  <2>4. CASE task'[t] = task[t]
    BY <2>3, <2>4
  <2>5. CASE task'[t] = [task[t] EXCEPT !.at = "lost"] /\ task[t].at # "new"
    BY <2>2, <2>3, <2>5
  <2> QED BY <1>4, <2>4, <2>5
<1>6. task' \in [Tasks -> Task]
  BY <1>5 DEF Crash
<1>7. Shape'
  BY <1>5 DEF TInv, Shape, Tasks
<1> QED BY <1>2, <1>3, <1>6, <1>7 DEF Crash, TInv, TypeOK

LEMMA TypeStep == TInv /\ [Next]_vars => TInv'
<1> SUFFICES ASSUME TInv, [Next]_vars PROVE TInv'
  OBVIOUS
<1>1. CASE \E i \in Invoices : UploadInvoice(i)
  BY <1>1, MoveTyped, ConstantsAssumption DEF UploadInvoice, Places, Tasks
<1>2. CASE \E i \in Invoices : UploadStep(i)
  BY <1>2, UploadStepTyped
<1>3. CASE \E r \in Approvals, i \in Invoices, a \in RecommendationActions :
              SubmitDecision(r, i, a)
  BY <1>3, SubmitDecisionTyped
<1>4. CASE \E r \in Approvals : ApprovalStep(r)
  BY <1>4, ApprovalStepTyped
<1>5. CASE \E t \in Tasks : CommonStep(t)
  BY <1>5, CommonStepTyped
<1>6. CASE Crash
  BY <1>6, CrashTyped
<1>7. CASE UNCHANGED vars
  BY <1>7 DEF vars, TInv, TypeOK, Shape
<1> QED BY <1>1, <1>2, <1>3, <1>4, <1>5, <1>6, <1>7 DEF Next

LEMMA TypeInvariant == Spec => []TInv
  BY TypeInit, TypeStep, PTL DEF Spec

(***************************************************************************)
(* Whatever the requests, answers, failures and crashes, checkpoints,      *)
(* tasks, registry and postings stay well typed; in particular a retry     *)
(* never exceeds the budget.                                               *)
(***************************************************************************)
THEOREM TypeCorrect == Spec => []TypeOK
<1>1. Spec => []TInv
  BY TypeInvariant
<1>2. TInv => TypeOK
  BY DEF TInv
<1> QED BY <1>1, <1>2, PTL

-----------------------------------------------------------------------------
(* The effect of a step, told in the terms of the invariants below.        *)

\* The statuses written before an invoice is posted, and after.
ChainStatuses == Statuses \ {"NONE", "COMPLETED"}
SealStatuses == {"COMPLETED"}

\* Task t, holding the loop, saves a checkpoint with one of the statuses S or
\* none at all, and goes on, but not to the save of COMPLETED; nothing else
\* changes.
StepOf(t, S) ==
    LET i == task[t].invoice
    IN  /\ LoopFree(t)
        /\ UNCHANGED <<posted, erp, crashes>>
        /\ \A u \in Tasks \ {t} : task'[u] = task[u]
        /\ task'[t].invoice = i
        /\ task'[t].at \in {"run", "except", "post", "sleep", "done", "dead"}
        /\ \A j \in Invoices \ {i} : mem'[j] = mem[j] /\ disk'[j] = disk[j]
        /\ \/ mem'[i] = mem[i] /\ disk'[i] = disk[i]
           \/ mem'[i].status \in S /\ disk'[i] \in {disk[i], mem'[i]}

KeepsData == \A j \in Invoices : mem'[j].state_data = mem[j].state_data

LEMMA SaveEffect ==
  ASSUME TypeOK, NEW i \in Invoices, NEW status, NEW data, NEW ok,
         SaveCheckpoint(i, status, data, ok)
  PROVE  /\ mem'[i].status = status /\ mem'[i].state_data = data
         /\ disk'[i] \in {disk[i], mem'[i]} /\ (ok => disk'[i] = mem'[i])
         /\ \A j \in Invoices \ {i} : mem'[j] = mem[j] /\ disk'[j] = disk[j]
  BY DEF SaveCheckpoint, TypeOK

LEMMA GotoEffect ==
  ASSUME TypeOK, NEW t \in Tasks, NEW place, Goto(t, place)
  PROVE  /\ \A u \in Tasks \ {t} : task'[u] = task[u]
         /\ task'[t].at = place /\ task'[t].event = task[t].event
         /\ task'[t].invoice = task[t].invoice /\ task'[t].action = task[t].action
  BY DEF Goto, TypeOK, Task

LEMMA PublishEffect ==
  ASSUME TypeOK, NEW t \in Tasks, NEW event, Publish(t, event)
  PROVE  /\ \A u \in Tasks \ {t} : task'[u] = task[u]
         /\ task'[t].at = "run" /\ task'[t].event = event
         /\ task'[t].invoice = task[t].invoice
  BY DEF Publish, TypeOK, Task

LEMMA SaveAndReturnEffect ==
  ASSUME TypeOK, NEW t \in Tasks, task[t].invoice \in Invoices, LoopFree(t),
         NEW S, NEW status \in S, NEW data, SaveAndReturn(t, status, data),
         UNCHANGED <<posted, erp, crashes>>
  PROVE  /\ StepOf(t, S)
         /\ mem'[task[t].invoice].status = status
         /\ mem'[task[t].invoice].state_data = data
         /\ task'[t].at \in {"done", "sleep", "dead"} /\ task'[t].event = task[t].event
         /\ task'[t].at = "done" =>
               mem'[task[t].invoice] = disk'[task[t].invoice]
<1>1. PICK ok \in BOOLEAN :
          /\ SaveCheckpoint(task[t].invoice, status, data, ok)
          /\ IF ok THEN Goto(t, "done") ELSE Raise(t)
  BY DEF SaveAndReturn
<1>2. PICK place \in {"done", "sleep", "dead"} : Goto(t, place) /\ (place = "done" => ok)
  BY <1>1 DEF Raise
<1> QED BY <1>1, <1>2, SaveEffect, GotoEffect DEF StepOf

LEMMA AgentStepEffect ==
  ASSUME TInv, NEW i \in Invoices, NEW event, NEW key, NEW results,
         NEW status \in ChainStatuses, NEW next,
         AgentStep(i, event, key, results, status, next)
  PROVE  /\ StepOf(i, ChainStatuses)
         /\ mem'[i].status = status
         /\ \/ task'[i].at = "run" /\ task'[i].event = next
            \/ task'[i].at \in {"sleep", "dead"} /\ task'[i].event = event
         /\ task[i].at = "run" /\ task[i].event = event
<1>1. PICK r \in results, ok \in BOOLEAN :
          /\ SaveCheckpoint(i, status, [mem[i].state_data EXCEPT ![key] = r], ok)
          /\ IF ok THEN Publish(i, next) ELSE Raise(i)
  BY DEF AgentStep
<1>2. /\ LoopFree(i) /\ UNCHANGED <<posted, erp, crashes>>
      /\ task[i].at = "run" /\ task[i].event = event
      /\ TypeOK /\ i \in Tasks /\ task[i].invoice = i
  BY DEF AgentStep, Handling, TInv, Shape, Tasks
<1>3. \/ Publish(i, next)
      \/ \E place \in {"sleep", "dead"} : Goto(i, place)
  BY <1>1 DEF Raise
<1>4. /\ \A u \in Tasks \ {i} : task'[u] = task[u]
      /\ task'[i].invoice = i
      /\ \/ task'[i].at = "run" /\ task'[i].event = next
         \/ task'[i].at \in {"sleep", "dead"} /\ task'[i].event = event
  BY <1>2, <1>3, PublishEffect, GotoEffect
<1>5. PICK data : SaveCheckpoint(i, status, data, ok)
  BY <1>1
<1>6. /\ mem'[i].status = status
      /\ disk'[i] \in {disk[i], mem'[i]}
      /\ \A j \in Invoices \ {i} : mem'[j] = mem[j] /\ disk'[j] = disk[j]
  BY <1>2, <1>5, SaveEffect
<1>7. StepOf(i, ChainStatuses)
  BY <1>2, <1>4, <1>6 DEF StepOf
<1> QED BY <1>2, <1>4, <1>6, <1>7

\* A step that only moves a task.
LEMMA MoveEffect ==
  ASSUME TypeOK, NEW t \in Tasks, NEW S, LoopFree(t),
         NEW place \in {"run", "except", "post", "sleep", "done", "dead"}, Goto(t, place),
         UNCHANGED <<mem, disk, posted, erp, faults, crashes>>
  PROVE  /\ StepOf(t, S)
         /\ task'[t].at = place /\ task'[t].event = task[t].event
         /\ KeepsData
  BY GotoEffect DEF StepOf, KeepsData

LEMMA UploadStepEffect ==
  ASSUME TInv, NEW i \in Invoices, UploadStep(i)
  PROVE  /\ StepOf(i, ChainStatuses)
         /\ mem'[i].status # "NONE" \/ task'[i].at = "except"
         /\ task[i].at \in {"llm", "except", "run"}
         /\ task'[i].at = "done" => mem'[i] = disk'[i]
<1>1. i \in Tasks /\ task[i].invoice = i /\ task[i].invoice \in Invoices /\ TypeOK
  BY DEF TInv, Shape, Tasks
<1>2. CASE HandleInvoiceUploaded(i)
  <2>1. PICK x \in Extractions, ok \in BOOLEAN :
            /\ SaveCheckpoint(i, "PARSED", [NoData EXCEPT !.invoice_extraction = x], ok)
            /\ IF ok THEN Publish(i, "InvoiceParsed") ELSE Goto(i, "except")
    BY <1>2 DEF HandleInvoiceUploaded
  <2> PICK data : data = [NoData EXCEPT !.invoice_extraction = x]
    OBVIOUS
  <2>2. LoopFree(i) /\ UNCHANGED <<posted, erp, crashes>> /\ task[i].at = "llm"
    BY <1>2 DEF HandleInvoiceUploaded
  <2>3. /\ \A u \in Tasks \ {i} : task'[u] = task[u]
        /\ task'[i].at \in {"run", "except"} /\ task'[i].invoice = i
    BY <1>1, <2>1, PublishEffect, GotoEffect
  <2>4. /\ mem'[i].status = "PARSED" /\ disk'[i] \in {disk[i], mem'[i]}
        /\ \A j \in Invoices \ {i} : mem'[j] = mem[j] /\ disk'[j] = disk[j]
    BY <1>1, <2>1, SaveEffect
  <2> QED BY <1>1, <2>2, <2>3, <2>4 DEF StepOf, ChainStatuses, Statuses
<1>3. CASE ExtractionFails(i)
  BY <1>1, <1>3, MoveEffect DEF ExtractionFails
<1>4. CASE RecordFailure(i) \/ PauseForHuman(i) \/ AutoReject(i)
  <2>1. /\ LoopFree(i) /\ UNCHANGED <<posted, erp, crashes>>
        /\ task[i].at \in {"except", "run"}
    BY <1>4 DEF RecordFailure, PauseForHuman, AutoReject, Recommended, Handling
  <2>2. PICK s, data : s \in ChainStatuses /\ SaveAndReturn(i, s, data)
    BY <1>4 DEF RecordFailure, PauseForHuman, AutoReject, ChainStatuses, Statuses
  <2>3. /\ StepOf(i, ChainStatuses) /\ mem'[i].status = s
        /\ task'[i].at = "done" => mem'[i] = disk'[i]
    BY <1>1, <2>1, <2>2, SaveAndReturnEffect
  <2> QED BY <2>1, <2>2, <2>3 DEF ChainStatuses
<1>5. CASE \/ HandleInvoiceParsed(i) \/ HandleInvoiceValidated(i)
           \/ HandleSupplierChecked(i) \/ HandlePricingCompleted(i)
  <2>1. PICK s, event, key, results, next :
            s \in ChainStatuses /\ AgentStep(i, event, key, results, s, next)
    BY <1>5 DEF HandleInvoiceParsed, HandleInvoiceValidated, HandleSupplierChecked,
                HandlePricingCompleted, ChainStatuses, Statuses
  <2>2. /\ StepOf(i, ChainStatuses) /\ mem'[i].status = s
        /\ task[i].at = "run" /\ task'[i].at # "done"
    BY <2>1, AgentStepEffect
  <2> QED BY <2>1, <2>2 DEF ChainStatuses
<1>6. CASE AutoApprove(i)
  <2>1. /\ LoopFree(i) /\ Goto(i, "post") /\ mem[i].status # "NONE" /\ task[i].at = "run"
        /\ UNCHANGED <<mem, disk, posted, erp, faults, crashes>>
    BY <1>6 DEF AutoApprove, Recommended, Handling
  <2> QED BY <1>1, <2>1, MoveEffect
<1> QED BY <1>2, <1>3, <1>4, <1>5, <1>6 DEF UploadStep

LEMMA ApprovalStepEffect ==
  ASSUME TInv, NEW r \in Approvals, ApprovalStep(r)
  PROVE  /\ StepOf(r, ChainStatuses) /\ KeepsData
         /\ task[r].at = "run" /\ task'[r].at \notin {"run", "except"}
         /\ task'[r].at = "post" => mem'[task[r].invoice].status # "COMPLETED"
         /\ task'[r].at = "done" =>
               \/ mem'[task[r].invoice] = disk'[task[r].invoice]
               \/ mem'[task[r].invoice].status = "COMPLETED"
<1>1. /\ r \in Tasks /\ task[r].at = "run" /\ LoopFree(r) /\ TypeOK
      /\ UNCHANGED <<posted, erp, crashes>>
  BY DEF ApprovalStep, IgnoreDuplicateApproval, HumanApproves, HumanRejects, Handling,
         Tasks, TInv
<1>2. task[r].invoice \in Invoices
  BY <1>1, TaskInvoice
<1>3. CASE IgnoreDuplicateApproval(r)
  BY <1>1, <1>3, MoveEffect DEF IgnoreDuplicateApproval
<1>4. CASE HumanApproves(r)
  BY <1>1, <1>4, MoveEffect DEF HumanApproves
<1>5. CASE HumanRejects(r)
  <2>1. SaveAndReturn(r, "REJECTED", StateDataOf(r)) /\ "REJECTED" \in ChainStatuses
    BY <1>5 DEF HumanRejects, ChainStatuses, Statuses
  <2>2. /\ StepOf(r, ChainStatuses)
        /\ mem'[task[r].invoice].state_data = mem[task[r].invoice].state_data
        /\ task'[r].at \in {"done", "sleep", "dead"}
        /\ task'[r].at = "done" => mem'[task[r].invoice] = disk'[task[r].invoice]
    BY <1>1, <1>2, <2>1, SaveAndReturnEffect DEF StateDataOf
  <2> QED BY <1>1, <2>2 DEF StepOf, KeepsData
<1> QED BY <1>3, <1>4, <1>5 DEF ApprovalStep

LEMMA SealEffect ==
  ASSUME TInv, NEW t \in Tasks, Seal(t)
  PROVE  /\ StepOf(t, SealStatuses) /\ KeepsData
         /\ task[t].at = "seal" /\ task'[t].at \in {"done", "sleep", "dead"}
         /\ task'[t].event = task[t].event
         /\ mem'[task[t].invoice].status = "COMPLETED"
<1>1. /\ TypeOK /\ task[t].at = "seal" /\ LoopFree(t)
      /\ UNCHANGED <<posted, erp, crashes>>
      /\ SaveAndReturn(t, "COMPLETED", StateDataOf(t)) /\ "COMPLETED" \in SealStatuses
  BY DEF Seal, TInv, SealStatuses
<1>2. task[t].invoice \in Invoices
  BY <1>1, TaskInvoice
<1>3. /\ StepOf(t, SealStatuses)
      /\ mem'[task[t].invoice].state_data = mem[task[t].invoice].state_data
      /\ task'[t].at \in {"done", "sleep", "dead"} /\ task'[t].event = task[t].event
      /\ mem'[task[t].invoice].status = "COMPLETED"
  BY <1>1, <1>2, SaveAndReturnEffect DEF StateDataOf
<1> QED BY <1>1, <1>3 DEF StepOf, KeepsData

-----------------------------------------------------------------------------
(* The ledger: what registry, postings and checkpoints know of each other. *)

Ledger ==
    /\ \A t \in Tasks : task[t].at = "seal" => task[t].invoice \in posted
    /\ \A i \in Invoices :
          /\ i \in posted \/ "COMPLETED" \in {mem[i].status, disk[i].status}
                => erp[i] # <<>>
          /\ Len(erp[i]) <= crashes + (IF i \in posted THEN 1 ELSE 0)

\* A step that neither posts nor records a posting.
LEMMA LedgerChain ==
  ASSUME TInv, Ledger, NEW t \in Tasks, task[t].invoice \in Invoices,
         StepOf(t, ChainStatuses)
  PROVE  Ledger'
<1>1. \A u \in Tasks : task'[u].at = "seal" =>
          task[u].at = "seal" /\ task'[u].invoice = task[u].invoice
  BY DEF StepOf
<1>2. \A i \in Invoices : "COMPLETED" \in {mem'[i].status, disk'[i].status} =>
          "COMPLETED" \in {mem[i].status, disk[i].status}
  <2>1. "COMPLETED" \notin ChainStatuses
    BY DEF ChainStatuses
  <2> QED BY <2>1 DEF StepOf
<1>3. UNCHANGED <<posted, erp, crashes>>
  BY DEF StepOf
<1> QED BY <1>1, <1>2, <1>3 DEF Ledger

LEMMA LedgerSeal ==
  ASSUME TInv, Ledger, NEW t \in Tasks, Seal(t)
  PROVE  Ledger'
<1>1. /\ StepOf(t, SealStatuses) /\ task[t].at = "seal"
      /\ task[t].invoice \in Invoices
  BY SealEffect, TaskInvoice
<1>2. \A u \in Tasks : task'[u].at = "seal" =>
          task[u].at = "seal" /\ task'[u].invoice = task[u].invoice
  BY <1>1 DEF StepOf
<1>3. \A i \in Invoices :
          \/ i = task[t].invoice
          \/ mem'[i] = mem[i] /\ disk'[i] = disk[i]
  BY <1>1 DEF StepOf
<1>4. erp[task[t].invoice] # <<>>
  BY <1>1 DEF Ledger
<1>5. UNCHANGED <<posted, erp, crashes>>
  BY <1>1 DEF StepOf
<1> QED BY <1>2, <1>3, <1>4, <1>5 DEF Ledger

LEMMA LedgerPost ==
  ASSUME TInv, Ledger, NEW t \in Tasks, PostErp(t)
  PROVE  Ledger'
<1> DEFINE i == task[t].invoice
<1>1. i \in Invoices /\ TypeOK
  BY TaskInvoice DEF PostErp, TInv
<1>2. PostingOf(StateDataOf(t)) \in Posting
  BY <1>1, PostingTyped, DataTyped DEF StateDataOf
<1>3. \A u \in Tasks : task'[u].at = "seal" =>
          /\ u = t \/ task[u].at = "seal"
          /\ task'[u].invoice = task[u].invoice
  BY <1>1, GotoEffect DEF PostErp
<1>4. /\ posted' = posted \cup {i} /\ UNCHANGED <<mem, disk, crashes>>
      /\ \A j \in Invoices \ {i} : erp'[j] = erp[j]
  BY <1>1 DEF PostErp, TypeOK
<1>5. erp'[i] # <<>> /\ Len(erp'[i]) <= crashes + 1
  <2>1. erp[i] \in Seq(Posting) /\ crashes \in Nat /\ MaxCrashes \in Nat
    BY <1>1, ConstantsAssumption DEF TypeOK
  <2>2. CASE i \in posted
    BY <1>1, <2>1, <2>2 DEF PostErp, Ledger
  <2>3. CASE i \notin posted
    <3>1. erp'[i] = Append(erp[i], PostingOf(StateDataOf(t)))
      BY <1>1, <2>3 DEF PostErp, TypeOK
    <3>2. Len(erp[i]) <= crashes
      BY <1>1, <2>1, <2>3 DEF Ledger
    <3>3. /\ Append(erp[i], PostingOf(StateDataOf(t))) # <<>>
          /\ Len(Append(erp[i], PostingOf(StateDataOf(t)))) = Len(erp[i]) + 1
      BY <1>2, <2>1, AppendProperties
    <3>4. Len(erp[i]) \in Nat
      BY <2>1
    <3> QED BY <2>1, <3>1, <3>2, <3>3, <3>4
  <2> QED BY <2>2, <2>3
<1> QED BY <1>1, <1>3, <1>4, <1>5 DEF Ledger

LEMMA LedgerCrash ==
  ASSUME TInv, Ledger, Crash
  PROVE  Ledger'
<1>1. /\ posted' = {} /\ UNCHANGED <<disk, erp>> /\ crashes' = crashes + 1
      /\ \A t \in Tasks : task'[t].at # "seal"
  <2>1. \A t \in Tasks : \/ task'[t] = task[t] /\ task[t].at # "seal"
                         \/ task'[t] = [task[t] EXCEPT !.at = "lost"]
    BY DEF Crash
  <2>2. \A t \in Tasks : [task[t] EXCEPT !.at = "lost"].at = "lost"
    BY DEF TInv, TypeOK, Task
  <2> QED BY <2>1, <2>2 DEF Crash
<1>2. \A i \in Invoices : mem'[i].status \in {disk[i].status, "NONE"}
  BY DEF Crash, NoCheckpoint
<1>3. \A i \in Invoices : Len(erp[i]) \in Nat /\ crashes \in Nat
  BY ConstantsAssumption DEF TInv, TypeOK
<1> QED BY <1>1, <1>2, <1>3 DEF Ledger

LEMMA LedgerStep == TInv /\ Ledger /\ [Next]_vars => Ledger'
<1> SUFFICES ASSUME TInv, Ledger, [Next]_vars PROVE Ledger'
  OBVIOUS
<1>1. CASE \E i \in Invoices : UploadInvoice(i)
  <2>1. PICK i \in Invoices : UploadInvoice(i)
    BY <1>1
  <2>2. \A u \in Tasks : task'[u].at = "seal" => task'[u] = task[u]
    BY <2>1, GotoEffect DEF UploadInvoice, Tasks, TInv
  <2> QED BY <2>1, <2>2 DEF UploadInvoice, Ledger
<1>2. CASE \E i \in Invoices : UploadStep(i)
  <2>1. PICK i \in Invoices : UploadStep(i)
    BY <1>2
  <2>2. i \in Tasks /\ task[i].invoice \in Invoices /\ StepOf(i, ChainStatuses)
    BY <2>1, UploadStepEffect DEF Tasks, TInv, Shape
  <2> QED BY <2>2, LedgerChain
<1>3. CASE \E r \in Approvals, i \in Invoices, a \in RecommendationActions :
              SubmitDecision(r, i, a)
  <2>1. PICK r \in Approvals, i \in Invoices, a \in RecommendationActions :
            SubmitDecision(r, i, a)
    BY <1>3
  <2>2. \A u \in Tasks : task'[u].at = "seal" => task'[u] = task[u]
    BY <2>1 DEF SubmitDecision, Tasks, TInv, TypeOK, Task
  <2>3. UNCHANGED <<mem, disk, posted, erp, crashes>>
    BY <2>1 DEF SubmitDecision
  <2> QED BY <2>2, <2>3 DEF Ledger
<1>4. CASE \E r \in Approvals : ApprovalStep(r)
  <2>1. PICK r \in Approvals : ApprovalStep(r)
    BY <1>4
  <2>2. r \in Tasks /\ task[r].invoice \in Invoices /\ StepOf(r, ChainStatuses)
    BY <2>1, ApprovalStepEffect, TaskInvoice DEF Tasks
  <2> QED BY <2>2, LedgerChain
<1>5. CASE \E t \in Tasks : PostErp(t)
  BY <1>5, LedgerPost
<1>6. CASE \E t \in Tasks : Seal(t)
  BY <1>6, LedgerSeal
<1>7. CASE \E t \in Tasks : Wake(t)
  <2>1. PICK t \in Tasks : Wake(t)
    BY <1>7
  <2>2. \A u \in Tasks : task'[u].at = "seal" => task'[u] = task[u]
    BY <2>1 DEF Wake, TInv, TypeOK, Task
  <2>3. UNCHANGED <<mem, disk, posted, erp, crashes>>
    BY <2>1 DEF Wake
  <2> QED BY <2>2, <2>3 DEF Ledger
<1>8. CASE Crash
  BY <1>8, LedgerCrash
<1>9. CASE UNCHANGED vars
  BY <1>9 DEF vars, Ledger
<1> QED BY <1>1, <1>2, <1>3, <1>4, <1>5, <1>6, <1>7, <1>8, <1>9 DEF Next, CommonStep

LEMMA LedgerInit == Init => Ledger
  BY ConstantsAssumption DEF Init, Ledger, NoCheckpoint

LEMMA LedgerInvariant == Spec => []Ledger
  BY TypeInvariant, LedgerInit, LedgerStep, PTL DEF Spec

(***************************************************************************)
(* No checkpoint says COMPLETED of an invoice that was never posted.       *)
(***************************************************************************)
THEOREM CompletedOnlyIfPosted == Spec => []CompletedIsPosted
<1>1. Ledger => CompletedIsPosted
  BY DEF Ledger, CompletedIsPosted
<1> QED BY <1>1, LedgerInvariant, PTL

(***************************************************************************)
(* An invoice has been posted at most once in every life of the process.   *)
(***************************************************************************)
THEOREM PostedAtMostOncePerRun == Spec => []PostedOncePerRun
<1>1. Spec => []TInv
  BY TypeInvariant
<1>2. Spec => []Ledger
  BY LedgerInvariant
<1>3. TInv /\ Ledger => PostedOncePerRun
  <2> SUFFICES ASSUME TInv, Ledger, NEW i \in Invoices
               PROVE  Len(erp[i]) <= crashes + 1
    BY DEF PostedOncePerRun
  <2>1. crashes \in Nat /\ Len(erp[i]) \in Nat
    BY ConstantsAssumption DEF TInv, TypeOK
  <2>2. Len(erp[i]) <= crashes \/ Len(erp[i]) <= crashes + 1
    BY <2>1 DEF Ledger
  <2> QED BY <2>1, <2>2
<1> QED BY <1>1, <1>2, <1>3, PTL

-----------------------------------------------------------------------------
(* No handler finds its checkpoint gone.                                   *)

LEMMA NoDropInit == Init => NoSilentDrop
  BY DEF Init, NoSilentDrop

\* A step of a running task that leaves the checkpoint of its own invoice there.
LEMMA NoDropStepOf ==
  ASSUME NoSilentDrop, TInv, NEW t \in Tasks, task[t].invoice \in Invoices,
         NEW S, "NONE" \notin S, StepOf(t, S),
         mem'[task[t].invoice].status # "NONE" \/ task'[t].at = "except"
  PROVE  NoSilentDrop'
<1> SUFFICES ASSUME NEW u \in Tasks,
                    \/ task'[u].at \in {"run", "post", "seal"}
                    \/ task'[u].at = "sleep" /\ task'[u].event # "InvoiceUploaded"
             PROVE  mem'[task'[u].invoice].status # "NONE"
  BY DEF NoSilentDrop
<1>1. CASE u = t
  BY <1>1 DEF StepOf
<1>2. CASE u # t
  <2>1. task'[u] = task[u] /\ mem[task[u].invoice].status # "NONE"
    BY <1>2 DEF StepOf, NoSilentDrop
  <2>2. task[u].invoice \in Invoices
    BY <1>2, <2>1 DEF TInv, Shape, Tasks
  <2>3. \/ mem'[task[u].invoice] = mem[task[u].invoice]
        \/ mem'[task[u].invoice].status \in S
    BY <2>2 DEF StepOf
  <2> QED BY <2>1, <2>3
<1> QED BY <1>1, <1>2

\* A step that leaves the checkpoints alone.
LEMMA NoDropQuiet ==
  ASSUME NoSilentDrop, UNCHANGED mem,
         \A u \in Tasks : \/ task'[u] = task[u]
                          \/ task'[u].at \in {"llm", "lost"}
                          \/ mem[task'[u].invoice].status # "NONE"
  PROVE  NoSilentDrop'
  BY DEF NoSilentDrop

LEMMA NoDropStep == TInv /\ NoSilentDrop /\ [Next]_vars => NoSilentDrop'
<1> SUFFICES ASSUME TInv, NoSilentDrop, [Next]_vars PROVE NoSilentDrop'
  OBVIOUS
<1>0. TypeOK /\ "NONE" \notin ChainStatuses /\ "NONE" \notin SealStatuses
  BY DEF TInv, ChainStatuses, SealStatuses
<1>1. CASE \E i \in Invoices : UploadInvoice(i)
  <2>1. PICK i \in Invoices : UploadInvoice(i)
    BY <1>1
  <2>2. /\ \A u \in Tasks \ {i} : task'[u] = task[u]
        /\ task'[i].at = "llm" /\ UNCHANGED mem
    BY <1>0, <2>1, GotoEffect DEF UploadInvoice, Tasks
  <2> QED BY <2>2, NoDropQuiet
<1>2. CASE \E i \in Invoices : UploadStep(i)
  <2>1. PICK i \in Invoices : UploadStep(i)
    BY <1>2
  <2>2. /\ StepOf(i, ChainStatuses) /\ i \in Tasks /\ task[i].invoice = i
        /\ mem'[i].status # "NONE" \/ task'[i].at = "except"
    BY <2>1, UploadStepEffect DEF TInv, Shape, Tasks
  <2> QED BY <1>0, <2>2, NoDropStepOf
<1>3. CASE \E r \in Approvals, i \in Invoices, a \in RecommendationActions :
              SubmitDecision(r, i, a)
  <2>1. PICK r \in Approvals, i \in Invoices, a \in RecommendationActions :
            SubmitDecision(r, i, a)
    BY <1>3
  <2>2. /\ \A u \in Tasks \ {r} : task'[u] = task[u]
        /\ task'[r].invoice = i /\ mem[i].status # "NONE" /\ UNCHANGED mem
    BY <1>0, <2>1 DEF SubmitDecision, Tasks, TypeOK, Task
  <2> QED BY <2>2, NoDropQuiet
<1>4. CASE \E r \in Approvals : ApprovalStep(r)
  <2>1. PICK r \in Approvals : ApprovalStep(r)
    BY <1>4
  <2>2. /\ StepOf(r, ChainStatuses) /\ r \in Tasks /\ task[r].at = "run"
        /\ task[r].invoice \in Invoices
    BY <2>1, ApprovalStepEffect, TaskInvoice DEF Tasks
  <2>3. mem'[task[r].invoice].status # "NONE"
    BY <1>0, <2>2 DEF NoSilentDrop, StepOf
  <2> QED BY <1>0, <2>2, <2>3, NoDropStepOf
<1>5. CASE \E t \in Tasks : PostErp(t)
  <2>1. PICK t \in Tasks : PostErp(t)
    BY <1>5
  <2>2. /\ \A u \in Tasks \ {t} : task'[u] = task[u]
        /\ task'[t].invoice = task[t].invoice /\ UNCHANGED mem
    BY <1>0, <2>1, GotoEffect DEF PostErp
  <2>3. mem[task[t].invoice].status # "NONE"
    BY <2>1 DEF PostErp, NoSilentDrop
  <2> QED BY <2>2, <2>3, NoDropQuiet
<1>6. CASE \E t \in Tasks : Seal(t)
  <2>1. PICK t \in Tasks : Seal(t)
    BY <1>6
  <2>2. /\ StepOf(t, SealStatuses) /\ task[t].invoice \in Invoices
        /\ mem'[task[t].invoice].status = "COMPLETED"
    BY <2>1, SealEffect, TaskInvoice
  <2> QED BY <1>0, <2>2, NoDropStepOf
<1>7. CASE \E t \in Tasks : Wake(t)
  <2>1. PICK t \in Tasks : Wake(t)
    BY <1>7
  <2>2. /\ \A u \in Tasks \ {t} : task'[u] = task[u]
        /\ task'[t].invoice = task[t].invoice /\ UNCHANGED mem
        /\ task[t].event = "InvoiceUploaded" => task'[t].at = "llm"
        /\ task[t].at = "sleep"
    BY <1>0, <2>1 DEF Wake, TypeOK, Task
  <2>3. mem[task[t].invoice].status # "NONE" \/ task'[t].at = "llm"
    BY <2>2 DEF NoSilentDrop
  <2> QED BY <2>2, <2>3, NoDropQuiet
<1>8. CASE Crash
  <2>1. \A t \in Tasks : task'[t].at \in {"new", "done", "lost"}
    BY <1>0, <1>8 DEF Crash, TypeOK, Task
  <2> QED BY <2>1 DEF NoSilentDrop
<1>9. CASE UNCHANGED vars
  BY <1>9 DEF vars, NoSilentDrop
<1> QED BY <1>1, <1>2, <1>3, <1>4, <1>5, <1>6, <1>7, <1>8, <1>9 DEF Next, CommonStep

(***************************************************************************)
(* The handlers' early return `if not checkpoint' is never taken.          *)
(***************************************************************************)
THEOREM NothingSilentlyDropped == Spec => []NoSilentDrop
<1>1. Spec => []TInv
  BY TypeInvariant
<1> QED BY <1>1, NoDropInit, NoDropStep, PTL DEF Spec

-----------------------------------------------------------------------------
(* An invoice that memory calls COMPLETED is not posted.                   *)

Guarded ==
    /\ \A i \in Invoices :
          /\ task[i].at = "new" => mem[i].status = "NONE" /\ disk[i].status = "NONE"
          /\ mem[i].status = "COMPLETED" /\ Live(i) => i \in posted
    /\ \A r \in Approvals :
          task[r].at = "post" => mem[task[r].invoice].status # "COMPLETED"

LEMMA GuardedInit == Init => Guarded
  BY ConstantsAssumption DEF Init, Guarded, NoCheckpoint, Tasks

LEMMA GuardedStepOf ==
  ASSUME TInv, NoSilentDrop, Guarded, NEW t \in Tasks, task[t].invoice \in Invoices,
         task[t].at \in {"llm", "except", "run", "seal"}, NEW S, StepOf(t, S),
         "COMPLETED" \in S => task[t].invoice \in posted,
         t \in Approvals /\ task'[t].at = "post" =>
             mem'[task[t].invoice].status # "COMPLETED"
  PROVE  Guarded'
<1> DEFINE i == task[t].invoice
<1>1. ASSUME NEW j \in Invoices, task'[j].at = "new"
      PROVE  mem'[j].status = "NONE" /\ disk'[j].status = "NONE"
  <2>1. j # t /\ task[j].at = "new"
    BY <1>1 DEF StepOf, Tasks
  <2>2. mem[j].status = "NONE" /\ disk[j].status = "NONE"
    BY <2>1 DEF Guarded
  <2>3. j # i
    <3>1. CASE t \in Invoices
      BY <2>1, <3>1 DEF TInv, Shape
    <3>2. CASE t \in Approvals
      BY <2>2, <3>2 DEF TInv, Shape, NoSilentDrop
    <3> QED BY <3>1, <3>2 DEF Tasks
  <2> QED BY <2>2, <2>3 DEF StepOf
<1>2. ASSUME NEW j \in Invoices, mem'[j].status = "COMPLETED", Live(j)'
      PROVE  j \in posted'
  <2>1. Live(j)
    BY <1>2 DEF Live, Busy, StepOf, Tasks
  <2>2. mem[j].status = "COMPLETED" \/ j \in posted
    BY <1>2 DEF StepOf
  <2> QED BY <2>1, <2>2 DEF Guarded, StepOf
<1>3. ASSUME NEW r \in Approvals, task'[r].at = "post"
      PROVE  mem'[task'[r].invoice].status # "COMPLETED"
  <2>1. CASE r = t
    BY <1>3, <2>1 DEF StepOf
  <2>2. CASE r # t
    BY <1>3, <2>2 DEF StepOf, LoopFree, Busy, Tasks
  <2> QED BY <2>1, <2>2
<1> QED BY <1>1, <1>2, <1>3 DEF Guarded

LEMMA GuardedStep ==
  TInv /\ NoSilentDrop /\ Ledger /\ Guarded /\ [Next]_vars => Guarded'
<1> SUFFICES ASSUME TInv, NoSilentDrop, Ledger, Guarded, [Next]_vars PROVE Guarded'
  OBVIOUS
<1>0. TypeOK /\ task \in [Tasks -> Task] /\ "COMPLETED" \notin ChainStatuses
  BY DEF TInv, TypeOK, ChainStatuses
<1>1. CASE \E i \in Invoices : UploadInvoice(i)
  <2>1. PICK i \in Invoices : UploadInvoice(i)
    BY <1>1
  <2>2. /\ \A u \in Tasks \ {i} : task'[u] = task[u]
        /\ task[i].at = "new" /\ task'[i].at = "llm"
        /\ UNCHANGED <<mem, disk, posted>> /\ i \notin Approvals
    BY <1>0, <2>1, GotoEffect, ConstantsAssumption DEF UploadInvoice, Tasks
  <2>3. mem[i].status = "NONE"
    BY <2>2 DEF Guarded
  <2> QED BY <2>2, <2>3 DEF Guarded, Live, Tasks
<1>2. CASE \E i \in Invoices : UploadStep(i)
  <2>1. PICK i \in Invoices : UploadStep(i)
    BY <1>2
  <2>2. /\ StepOf(i, ChainStatuses) /\ i \in Tasks /\ task[i].invoice = i
        /\ task[i].at \in {"llm", "except", "run"} /\ i \notin Approvals
    BY <2>1, UploadStepEffect, ConstantsAssumption DEF TInv, Shape, Tasks
  <2> QED BY <1>0, <2>2, GuardedStepOf
<1>3. CASE \E r \in Approvals, i \in Invoices, a \in RecommendationActions :
              SubmitDecision(r, i, a)
  <2>1. PICK r \in Approvals, i \in Invoices, a \in RecommendationActions :
            SubmitDecision(r, i, a)
    BY <1>3
  <2>2. /\ \A u \in Tasks \ {r} : task'[u] = task[u]
        /\ task'[r].at = "run" /\ UNCHANGED <<mem, disk, posted>> /\ r \notin Invoices
    BY <1>0, <2>1, ConstantsAssumption DEF SubmitDecision, Tasks, Task
  <2> QED BY <2>2 DEF Guarded, Live, Tasks
<1>4. CASE \E r \in Approvals : ApprovalStep(r)
  <2>1. PICK r \in Approvals : ApprovalStep(r)
    BY <1>4
  <2>2. /\ StepOf(r, ChainStatuses) /\ r \in Tasks /\ task[r].at = "run"
        /\ task[r].invoice \in Invoices
        /\ task'[r].at = "post" => mem'[task[r].invoice].status # "COMPLETED"
    BY <2>1, ApprovalStepEffect, TaskInvoice DEF Tasks
  <2> QED BY <1>0, <2>2, GuardedStepOf
<1>5. CASE \E t \in Tasks : PostErp(t)
  <2>1. PICK t \in Tasks : PostErp(t)
    BY <1>5
  <2>2. /\ \A u \in Tasks \ {t} : task'[u] = task[u]
        /\ task[t].at = "post" /\ task'[t].at = "seal" /\ UNCHANGED <<mem, disk>>
        /\ posted \subseteq posted'
    BY <1>0, <2>1, GotoEffect DEF PostErp
  <2> QED BY <2>2 DEF Guarded, Live, Busy, Tasks
<1>6. CASE \E t \in Tasks : Seal(t)
  <2>1. PICK t \in Tasks : Seal(t)
    BY <1>6
  <2>2. /\ StepOf(t, SealStatuses) /\ task[t].invoice \in Invoices
        /\ task[t].at = "seal" /\ task'[t].at # "post"
    BY <2>1, SealEffect, TaskInvoice
  <2>3. task[t].invoice \in posted
    BY <2>2 DEF Ledger
  <2> QED BY <2>2, <2>3, GuardedStepOf
<1>7. CASE \E t \in Tasks : Wake(t)
  <2>1. PICK t \in Tasks : Wake(t)
    BY <1>7
  <2>2. /\ \A u \in Tasks \ {t} : task'[u] = task[u]
        /\ UNCHANGED <<mem, disk, posted>>
        /\ task[t].at = "sleep" /\ task'[t].at \in {"llm", "run"}
    BY <1>0, <2>1 DEF Wake, Task
  <2> QED BY <2>2 DEF Guarded, Live, Tasks
<1>8. CASE Crash
  <2>1. \A t \in Tasks : /\ task'[t].at \in {"new", "done", "lost"}
                         /\ task'[t].at = "new" => task[t].at = "new"
    BY <1>0, <1>8 DEF Crash, Task
  <2>2. /\ UNCHANGED disk
        /\ \A i \in Invoices : mem'[i] = disk[i] \/ mem'[i].status = "NONE"
    BY <1>8 DEF Crash, NoCheckpoint
  <2> QED BY <2>1, <2>2 DEF Guarded, Live, Busy, Tasks
<1>9. CASE UNCHANGED vars
  BY <1>9 DEF vars, Guarded, Live
<1> QED BY <1>1, <1>2, <1>3, <1>4, <1>5, <1>6, <1>7, <1>8, <1>9 DEF Next, CommonStep

LEMMA OnlyPostErpPosts ==
  ASSUME TInv, [Next]_vars, ~ \E t \in Tasks : PostErp(t)
  PROVE  UNCHANGED erp
<1>1. CASE \E i \in Invoices : UploadStep(i)
  BY <1>1, UploadStepEffect DEF StepOf
<1>2. CASE \E r \in Approvals : ApprovalStep(r)
  BY <1>2, ApprovalStepEffect DEF StepOf
<1>3. CASE \E t \in Tasks : Seal(t)
  BY <1>3, SealEffect DEF StepOf
<1> QED BY <1>1, <1>2, <1>3
        DEF Next, CommonStep, UploadInvoice, SubmitDecision, Wake, Crash, vars

(***************************************************************************)
(* No step, an upload's own retry or a later approval, posts an invoice    *)
(* that memory calls COMPLETED.                                            *)
(***************************************************************************)
THEOREM CompletedIsNeverReposted == Spec => CompletedNeverReposts
<1>1. Spec => [](TInv /\ NoSilentDrop /\ Ledger /\ Guarded)
  BY TypeInvariant, LedgerInvariant, NoDropInit, NoDropStep, GuardedInit, GuardedStep,
     PTL DEF Spec
<1>2. TInv /\ Guarded /\ [Next]_vars =>
          [\A i \in Invoices : mem[i].status = "COMPLETED" => erp'[i] = erp[i]]_vars
  <2> SUFFICES ASSUME TInv, Guarded, [Next]_vars, NEW i \in Invoices,
                      mem[i].status = "COMPLETED"
               PROVE  erp'[i] = erp[i]
    OBVIOUS
  <2>1. CASE ~ \E t \in Tasks : PostErp(t)
    BY <2>1, OnlyPostErpPosts
  <2>2. ASSUME NEW t \in Tasks, PostErp(t)
        PROVE  erp'[i] = erp[i]
    <3>1. CASE task[t].invoice # i
      BY <2>2, <3>1 DEF PostErp, TInv, TypeOK
    <3>2. CASE task[t].invoice = i
      <4>1. task[t].at = "post"
        BY <2>2 DEF PostErp
      <4>2. t \in Invoices
        BY <3>2, <4>1 DEF Guarded, Tasks
      <4>3. t = i /\ i \in posted
        BY <3>2, <4>1, <4>2 DEF TInv, Shape, Guarded, Live, Busy
      <4> QED BY <2>2, <4>3, <3>2 DEF PostErp
    <3> QED BY <3>1, <3>2
  <2> QED BY <2>1, <2>2
<1> QED BY <1>1, <1>2, PTL DEF Spec, CompletedNeverReposts

-----------------------------------------------------------------------------
(* What an upload may post by itself.                                      *)

StageOf(i) ==
    LET d == mem[i].state_data
    IN  /\ task[i].at \in {"new", "llm", "except"} => task[i].event = "InvoiceUploaded"
        /\ task[i].at \in {"run", "sleep"} => Reached(task[i].event, d)
        /\ task[i].at \in {"post", "seal"} =>
              /\ task[i].event = "RecommendationCreated"
              /\ Judged(d) /\ d.recommendation_result.action = "APPROVE"

Stage == \A i \in Invoices : StageOf(i)

\* A step leaves an upload's stage alone that leaves its task and its data alone.
LEMMA StageFrame ==
  ASSUME NEW i \in Invoices, StageOf(i), task'[i] = task[i],
         mem'[i].state_data = mem[i].state_data
  PROVE  StageOf(i)'
  BY DEF StageOf

LEMMA StageInit == Init => Stage
  BY DEF Init, Stage, StageOf, Tasks

\* Where an agent's step leaves an upload, whatever becomes of the save.
LEMMA StageAgent ==
  ASSUME TInv, NEW i \in Invoices, NEW event, NEW key, NEW results,
         NEW status \in ChainStatuses, NEW next,
         AgentStep(i, event, key, results, status, next),
         Reached(event, mem'[i].state_data), Reached(next, mem'[i].state_data)
  PROVE  StageOf(i)'
<1>1. \/ task'[i].at = "run" /\ task'[i].event = next
      \/ task'[i].at \in {"sleep", "dead"} /\ task'[i].event = event
  BY AgentStepEffect
<1> QED BY <1>1 DEF StageOf

LEMMA AgentStepData ==
  ASSUME TInv, NEW i \in Invoices, NEW event, NEW key, NEW results, NEW status, NEW next,
         AgentStep(i, event, key, results, status, next)
  PROVE  \E r \in results : mem'[i].state_data = With(mem[i].state_data, key, r)
<1>1. PICK r \in results, ok \in BOOLEAN :
          SaveCheckpoint(i, status, [mem[i].state_data EXCEPT ![key] = r], ok)
  BY DEF AgentStep
<1>2. PICK data : /\ data = With(mem[i].state_data, key, r)
                  /\ SaveCheckpoint(i, status, data, ok)
  BY <1>1 DEF With
<1>3. mem'[i].state_data = data
  BY <1>2, SaveEffect DEF TInv
<1> QED BY <1>2, <1>3

LEMMA StageUpload ==
  ASSUME TInv, Stage, NEW i \in Invoices, UploadStep(i)
  PROVE  StageOf(i)'
<1> DEFINE d == mem[i].state_data
<1> DEFINE e == mem'[i].state_data
<1>1. /\ i \in Tasks /\ task[i].invoice = i /\ TypeOK /\ d \in StateData
      /\ StateDataOf(i) = d /\ StageOf(i)
  BY DataTyped DEF TInv, Shape, Tasks, StateDataOf, Stage
<1>2. CASE HandleInvoiceUploaded(i)
  <2>1. PICK x \in Extractions, ok \in BOOLEAN :
            /\ SaveCheckpoint(i, "PARSED", [NoData EXCEPT !.invoice_extraction = x], ok)
            /\ IF ok THEN Publish(i, "InvoiceParsed") ELSE Goto(i, "except")
    BY <1>2 DEF HandleInvoiceUploaded
  <2>2. PICK data : /\ data = [NoData EXCEPT !.invoice_extraction = x]
                    /\ SaveCheckpoint(i, "PARSED", data, ok)
    BY <2>1
  <2>3. e = data /\ data.invoice_extraction = x
    BY <1>1, <2>2, SaveEffect DEF NoData
  <2>4. \/ task'[i].at = "run" /\ task'[i].event = "InvoiceParsed"
        \/ task'[i].at = "except" /\ task'[i].event = "InvoiceUploaded"
    <3>1. task[i].event = "InvoiceUploaded"
      BY <1>1, <1>2 DEF HandleInvoiceUploaded, StageOf
    <3> QED BY <1>1, <2>1, <3>1, PublishEffect, GotoEffect
  <2> QED BY <2>3, <2>4 DEF StageOf, Reached, Extracted
<1>3. CASE ExtractionFails(i)
  <2>1. task'[i].at = "except" /\ task'[i].event = task[i].event
    BY <1>1, <1>3, GotoEffect DEF ExtractionFails
  <2>2. task[i].event = "InvoiceUploaded"
    BY <1>1, <1>3 DEF ExtractionFails, StageOf
  <2> QED BY <2>1, <2>2 DEF StageOf
<1>4. CASE RecordFailure(i)
  <2>1. /\ LoopFree(i) /\ SaveAndReturn(i, "FAILED", NoData)
        /\ UNCHANGED <<posted, erp, crashes>> /\ task[i].event = "InvoiceUploaded"
    BY <1>1, <1>4 DEF RecordFailure, StageOf
  <2>2. task'[i].at \in {"done", "sleep", "dead"} /\ task'[i].event = "InvoiceUploaded"
    BY <1>1, <2>1, SaveAndReturnEffect
  <2> QED BY <2>2 DEF StageOf, Reached
<1>5. CASE HandleInvoiceParsed(i)
  <2>1. AgentStep(i, "InvoiceParsed", "validation_result",
                  ValidationAgent(d.invoice_extraction), "VALIDATED", "InvoiceValidated")
    BY <1>1, <1>5 DEF HandleInvoiceParsed
  <2>2. Extracted(d)
    BY <1>1, <2>1 DEF AgentStep, Handling, StageOf, Reached
  <2>3. \E r \in ValidationAgent(d.invoice_extraction) : e = With(d, "validation_result", r)
    BY <2>1, AgentStepData
  <2>4. Validated(e)
    BY <1>1, <2>2, <2>3, ValidationAdds
  <2> QED BY <2>1, <2>4, StageAgent DEF Reached, Validated, ChainStatuses, Statuses
<1>6. CASE HandleInvoiceValidated(i)
  <2>1. AgentStep(i, "InvoiceValidated", "supplier_risk", {SupplierAgent(d.invoice_extraction)},
                  "SUPPLIER_CHECKED", "SupplierChecked")
    BY <1>1, <1>6 DEF HandleInvoiceValidated
  <2>2. Validated(d)
    BY <1>1, <2>1 DEF AgentStep, Handling, StageOf, Reached
  <2>3. e = With(d, "supplier_risk", SupplierAgent(d.invoice_extraction))
    <3>1. \E r \in {SupplierAgent(d.invoice_extraction)} : e = With(d, "supplier_risk", r)
      BY <2>1, AgentStepData
    <3> QED BY <3>1
  <2>4. Checked(e)
    BY <1>1, <2>2, <2>3, SupplierAdds
  <2> QED BY <2>1, <2>4, StageAgent DEF Reached, Checked, ChainStatuses, Statuses
<1>7. CASE HandleSupplierChecked(i)
  <2>1. AgentStep(i, "SupplierChecked", "pricing_comparison", {PricingAgent(d.invoice_extraction)},
                  "PRICING_COMPLETED", "PricingCompleted")
    BY <1>1, <1>7 DEF HandleSupplierChecked
  <2>2. Checked(d)
    BY <1>1, <2>1 DEF AgentStep, Handling, StageOf, Reached
  <2>3. e = With(d, "pricing_comparison", PricingAgent(d.invoice_extraction))
    <3>1. \E r \in {PricingAgent(d.invoice_extraction)} : e = With(d, "pricing_comparison", r)
      BY <2>1, AgentStepData
    <3> QED BY <3>1
  <2>4. Priced(e)
    BY <1>1, <2>2, <2>3, PricingAdds
  <2> QED BY <2>1, <2>4, StageAgent DEF Reached, Priced, ChainStatuses, Statuses
<1>8. CASE HandlePricingCompleted(i)
  <2>1. AgentStep(i, "PricingCompleted", "recommendation_result", {RecommendationAgent(d)},
                  "RECOMMENDATION_PENDING", "RecommendationCreated")
    BY <1>1, <1>8 DEF HandlePricingCompleted
  <2>2. Priced(d)
    BY <1>1, <2>1 DEF AgentStep, Handling, StageOf, Reached
  <2>3. e = With(d, "recommendation_result", RecommendationAgent(d))
    <3>1. \E r \in {RecommendationAgent(d)} : e = With(d, "recommendation_result", r)
      BY <2>1, AgentStepData
    <3> QED BY <3>1
  <2>4. Judged(e)
    BY <1>1, <2>2, <2>3, RecommendationAdds
  <2>5. Reached("PricingCompleted", e) /\ Reached("RecommendationCreated", e)
    BY <2>4 DEF Reached, Judged
  <2> QED BY <2>1, <2>5, StageAgent DEF ChainStatuses, Statuses
<1>9. CASE PauseForHuman(i) \/ AutoReject(i)
  <2>1. /\ LoopFree(i) /\ UNCHANGED <<posted, erp, crashes>>
        /\ task[i].at = "run" /\ task[i].event = "RecommendationCreated"
    BY <1>9 DEF PauseForHuman, AutoReject, Recommended, Handling
  <2>2. PICK s : s \in ChainStatuses /\ SaveAndReturn(i, s, d)
    BY <1>9 DEF PauseForHuman, AutoReject, ChainStatuses, Statuses
  <2>3. /\ task'[i].at \in {"done", "sleep", "dead"}
        /\ task'[i].event = "RecommendationCreated" /\ e = d
    BY <1>1, <2>1, <2>2, SaveAndReturnEffect
  <2> QED BY <1>1, <2>1, <2>3 DEF StageOf
<1>10. CASE AutoApprove(i)
  <2>1. /\ Goto(i, "post") /\ UNCHANGED mem /\ d.recommendation_result.action = "APPROVE"
        /\ task[i].at = "run" /\ task[i].event = "RecommendationCreated"
    BY <1>10 DEF AutoApprove, Recommended, Handling
  <2>2. task'[i].at = "post" /\ task'[i].event = "RecommendationCreated"
    BY <1>1, <2>1, GotoEffect
  <2> QED BY <1>1, <2>1, <2>2 DEF StageOf, Reached
<1> QED BY <1>2, <1>3, <1>4, <1>5, <1>6, <1>7, <1>8, <1>9, <1>10 DEF UploadStep

\* A step that keeps the data of every checkpoint and moves only task t keeps
\* the stage of every upload but t.
LEMMA StageOthers ==
  ASSUME Stage, KeepsData, NEW t, \A u \in Tasks \ {t} : task'[u] = task[u],
         t \in Invoices => StageOf(t)'
  PROVE  Stage'
<1> SUFFICES ASSUME NEW i \in Invoices PROVE StageOf(i)'
  BY DEF Stage
<1>1. CASE i # t
  BY <1>1, StageFrame DEF Stage, KeepsData, Tasks
<1>2. CASE i = t
  BY <1>2
<1> QED BY <1>1, <1>2

LEMMA StageStep == TInv /\ Stage /\ [Next]_vars => Stage'
<1> SUFFICES ASSUME TInv, Stage, [Next]_vars PROVE Stage'
  OBVIOUS
<1>0. TypeOK /\ task \in [Tasks -> Task] /\ Invoices \cap Approvals = {}
  BY ConstantsAssumption DEF TInv, TypeOK
<1>1. CASE \E i \in Invoices : UploadInvoice(i)
  <2>1. PICK i \in Invoices : UploadInvoice(i)
    BY <1>1
  <2>2. /\ \A u \in Tasks \ {i} : task'[u] = task[u]
        /\ task[i].at = "new" /\ task'[i].at = "llm" /\ task'[i].event = task[i].event
        /\ KeepsData
    BY <1>0, <2>1, GotoEffect DEF UploadInvoice, Tasks, KeepsData
  <2>3. StageOf(i)'
    BY <2>2 DEF Stage, StageOf
  <2> QED BY <2>2, <2>3, StageOthers
<1>2. CASE \E i \in Invoices : UploadStep(i)
  <2>1. PICK i \in Invoices : UploadStep(i)
    BY <1>2
  <2>2. /\ \A u \in Tasks \ {i} : task'[u] = task[u]
        /\ \A j \in Invoices \ {i} : mem'[j] = mem[j]
    BY <2>1, UploadStepEffect DEF StepOf, TInv, Shape
  <2> SUFFICES ASSUME NEW j \in Invoices PROVE StageOf(j)'
    BY DEF Stage
  <2>3. CASE j = i
    BY <2>1, <2>3, StageUpload
  <2>4. CASE j # i
    BY <2>2, <2>4, StageFrame DEF Stage, Tasks
  <2> QED BY <2>3, <2>4
<1>3. CASE \E r \in Approvals, i \in Invoices, a \in RecommendationActions :
              SubmitDecision(r, i, a)
  <2>1. PICK r \in Approvals, i \in Invoices, a \in RecommendationActions :
            SubmitDecision(r, i, a)
    BY <1>3
  <2>2. /\ \A u \in Tasks \ {r} : task'[u] = task[u]
        /\ KeepsData /\ r \notin Invoices
    BY <1>0, <2>1 DEF SubmitDecision, Tasks, KeepsData
  <2> QED BY <2>2, StageOthers
<1>4. CASE \E r \in Approvals : ApprovalStep(r)
  <2>1. PICK r \in Approvals : ApprovalStep(r)
    BY <1>4
  <2>2. /\ \A u \in Tasks \ {r} : task'[u] = task[u]
        /\ KeepsData /\ r \notin Invoices
    BY <1>0, <2>1, ApprovalStepEffect DEF StepOf
  <2> QED BY <2>2, StageOthers
<1>5. CASE \E t \in Tasks : PostErp(t)
  <2>1. PICK t \in Tasks : PostErp(t)
    BY <1>5
  <2>2. /\ \A u \in Tasks \ {t} : task'[u] = task[u]
        /\ task[t].at = "post" /\ task'[t].at = "seal" /\ task'[t].event = task[t].event
        /\ UNCHANGED mem
    BY <1>0, <2>1, GotoEffect DEF PostErp
  <2>3. t \in Invoices => StageOf(t)'
    BY <2>2 DEF Stage, StageOf
  <2> QED BY <2>2, <2>3, StageOthers DEF KeepsData
<1>6. CASE \E t \in Tasks : Seal(t)
  <2>1. PICK t \in Tasks : Seal(t)
    BY <1>6
  <2>2. /\ \A u \in Tasks \ {t} : task'[u] = task[u]
        /\ task[t].at = "seal" /\ task'[t].at \in {"done", "sleep", "dead"}
        /\ task'[t].event = task[t].event /\ KeepsData
    BY <2>1, SealEffect DEF StepOf
  <2>3. ASSUME t \in Invoices PROVE StageOf(t)'
    BY <2>2, <2>3 DEF Stage, StageOf, Reached, KeepsData
  <2> QED BY <2>2, <2>3, StageOthers
<1>7. CASE \E t \in Tasks : Wake(t)
  <2>1. PICK t \in Tasks : Wake(t)
    BY <1>7
  <2>2. /\ \A u \in Tasks \ {t} : task'[u] = task[u]
        /\ task[t].at = "sleep" /\ task'[t].event = task[t].event
        /\ task'[t].at = IF task[t].event = "InvoiceUploaded" THEN "llm" ELSE "run"
        /\ UNCHANGED mem
    BY <1>0, <2>1 DEF Wake, Task
  <2>3. t \in Invoices => StageOf(t)'
    BY <2>2 DEF Stage, StageOf
  <2> QED BY <2>2, <2>3, StageOthers DEF KeepsData
<1>8. CASE Crash
  <2>1. \A t \in Tasks : /\ task'[t].at \in {"new", "done", "lost"}
                         /\ task'[t].event = task[t].event
                         /\ task'[t].at = "new" => task[t].at = "new"
    BY <1>0, <1>8 DEF Crash, Task
  <2> QED BY <2>1 DEF Stage, StageOf, Tasks
<1>9. CASE UNCHANGED vars
  BY <1>9, StageFrame DEF vars, Stage
<1> QED BY <1>1, <1>2, <1>3, <1>4, <1>5, <1>6, <1>7, <1>8, <1>9 DEF Next, CommonStep

(***************************************************************************)
(* Whatever documents arrive and however retries, approvals and crashes    *)
(* fall between the agents, an upload posts by itself only an invoice that *)
(* is clean and that all the agents have looked at.                        *)
(***************************************************************************)
THEOREM AutomaticPostingsAreClean == Spec => []AutoPostIsClean
<1>1. Spec => []TInv
  BY TypeInvariant
<1>2. Spec => []Stage
  BY <1>1, StageInit, StageStep, PTL DEF Spec
<1>3. TInv /\ Stage => AutoPostIsClean
  <2> SUFFICES ASSUME TInv, Stage, NEW i \in Invoices, task[i].at = "post"
               PROVE  /\ Clean(StateDataOf(i).invoice_extraction)
                      /\ StateDataOf(i).validation_result.ran
                      /\ StateDataOf(i).supplier_risk.ran
                      /\ StateDataOf(i).pricing_comparison.ran
    BY DEF AutoPostIsClean
  <2>1. StateDataOf(i) \in StateData /\ StateDataOf(i) = mem[i].state_data
    BY DataTyped DEF TInv, Shape, StateDataOf
  <2>2. /\ Judged(StateDataOf(i))
        /\ StateDataOf(i).recommendation_result.action = "APPROVE"
    BY <2>1 DEF Stage, StageOf
  <2> QED BY <2>1, <2>2, ApprovedIsClean
<1> QED BY <1>1, <1>2, <1>3, PTL

-----------------------------------------------------------------------------
(* Memory ahead of the store.                                              *)

Pending(i) ==
    \E t \in Tasks : task[t].invoice = i /\ (Live(t) \/ task[t].at = "dead")

LEMMA DivergenceInit == Init => DivergenceIsPending
  BY DEF Init, DivergenceIsPending

LEMMA DivergenceStepOf ==
  ASSUME TInv, DivergenceIsPending, NEW t \in Tasks, task[t].invoice \in Invoices,
         NEW S, StepOf(t, S),
         task'[t].at = "done" =>
             \/ mem'[task[t].invoice] = disk'[task[t].invoice]
             \/ mem'[task[t].invoice].status = "COMPLETED"
  PROVE  DivergenceIsPending'
<1> SUFFICES ASSUME NEW i \in Invoices, mem'[i] # disk'[i],
                    mem'[i].status \notin {"NONE", "COMPLETED"}
             PROVE  Pending(i)'
  BY DEF DivergenceIsPending, Pending, Live
<1>1. CASE i = task[t].invoice
  <2>1. task'[t].invoice = i /\ task'[t].at \in {"run", "except", "post", "sleep", "dead"}
    BY <1>1 DEF StepOf
  <2> QED BY <2>1 DEF Pending, Live, Busy, Tasks
<1>2. CASE i # task[t].invoice
  <2>1. mem'[i] = mem[i] /\ disk'[i] = disk[i]
    BY <1>2 DEF StepOf
  <2>2. PICK u \in Tasks : task[u].invoice = i /\ (Live(u) \/ task[u].at = "dead")
    BY <2>1 DEF DivergenceIsPending
  <2>3. task'[u] = task[u]
    BY <1>2, <2>2 DEF StepOf
  <2> QED BY <2>2, <2>3 DEF Pending, Live, Tasks
<1> QED BY <1>1, <1>2

\* A step that leaves the checkpoints alone, and every request that is going on.
LEMMA DivergenceQuiet ==
  ASSUME DivergenceIsPending, UNCHANGED <<mem, disk>>,
         \A u \in Tasks : Live(u) \/ task[u].at = "dead" =>
             task'[u].invoice = task[u].invoice /\ (Live(u)' \/ task'[u].at = "dead")
  PROVE  DivergenceIsPending'
<1> SUFFICES ASSUME NEW i \in Invoices, mem'[i] # disk'[i],
                    mem'[i].status \notin {"NONE", "COMPLETED"}
             PROVE  Pending(i)'
  BY DEF DivergenceIsPending, Pending, Live
<1>1. PICK u \in Tasks : task[u].invoice = i /\ (Live(u) \/ task[u].at = "dead")
  BY DEF DivergenceIsPending
<1>2. u \in Tasks /\ task'[u].invoice = i /\ (Live(u)' \/ task'[u].at = "dead")
  BY <1>1
<1> QED BY <1>2 DEF Pending, Live, Tasks

LEMMA DivergenceStep == TInv /\ DivergenceIsPending /\ [Next]_vars => DivergenceIsPending'
<1> SUFFICES ASSUME TInv, DivergenceIsPending, [Next]_vars PROVE DivergenceIsPending'
  OBVIOUS
<1>0. TypeOK /\ task \in [Tasks -> Task]
  BY DEF TInv, TypeOK
<1>1. CASE \E i \in Invoices : UploadInvoice(i)
  <2>1. PICK i \in Invoices : UploadInvoice(i)
    BY <1>1
  <2>2. /\ \A u \in Tasks \ {i} : task'[u] = task[u]
        /\ task[i].at = "new" /\ UNCHANGED <<mem, disk>>
    BY <1>0, <2>1, GotoEffect DEF UploadInvoice, Tasks
  <2> QED BY <2>2, DivergenceQuiet DEF Live, Busy
<1>2. CASE \E i \in Invoices : UploadStep(i)
  <2>1. PICK i \in Invoices : UploadStep(i)
    BY <1>2
  <2>2. /\ StepOf(i, ChainStatuses) /\ i \in Tasks /\ task[i].invoice = i
        /\ task'[i].at = "done" => mem'[i] = disk'[i]
    BY <2>1, UploadStepEffect DEF TInv, Shape, Tasks
  <2> QED BY <2>2, DivergenceStepOf
<1>3. CASE \E r \in Approvals, i \in Invoices, a \in RecommendationActions :
              SubmitDecision(r, i, a)
  <2>1. PICK r \in Approvals, i \in Invoices, a \in RecommendationActions :
            SubmitDecision(r, i, a)
    BY <1>3
  <2>2. /\ \A u \in Tasks \ {r} : task'[u] = task[u]
        /\ task[r].at = "new" /\ UNCHANGED <<mem, disk>>
    BY <1>0, <2>1 DEF SubmitDecision, Tasks
  <2> QED BY <2>2, DivergenceQuiet DEF Live, Busy
<1>4. CASE \E r \in Approvals : ApprovalStep(r)
  <2>1. PICK r \in Approvals : ApprovalStep(r)
    BY <1>4
  <2>2. /\ StepOf(r, ChainStatuses) /\ r \in Tasks /\ task[r].invoice \in Invoices
        /\ task'[r].at = "done" =>
               \/ mem'[task[r].invoice] = disk'[task[r].invoice]
               \/ mem'[task[r].invoice].status = "COMPLETED"
    BY <2>1, ApprovalStepEffect, TaskInvoice DEF Tasks
  <2> QED BY <2>2, DivergenceStepOf
<1>5. CASE \E t \in Tasks : PostErp(t)
  <2>1. PICK t \in Tasks : PostErp(t)
    BY <1>5
  <2>2. /\ \A u \in Tasks \ {t} : task'[u] = task[u]
        /\ task'[t].at = "seal" /\ task'[t].invoice = task[t].invoice
        /\ UNCHANGED <<mem, disk>>
    BY <1>0, <2>1, GotoEffect DEF PostErp
  <2> QED BY <2>2, DivergenceQuiet DEF Live, Busy
<1>6. CASE \E t \in Tasks : Seal(t)
  <2>1. PICK t \in Tasks : Seal(t)
    BY <1>6
  <2>2. /\ StepOf(t, SealStatuses) /\ task[t].invoice \in Invoices
        /\ mem'[task[t].invoice].status = "COMPLETED"
    BY <2>1, SealEffect, TaskInvoice
  <2> QED BY <2>2, DivergenceStepOf
<1>7. CASE \E t \in Tasks : Wake(t)
  <2>1. PICK t \in Tasks : Wake(t)
    BY <1>7
  <2>2. /\ \A u \in Tasks \ {t} : task'[u] = task[u]
        /\ task'[t].at \in {"llm", "run"} /\ task'[t].invoice = task[t].invoice
        /\ UNCHANGED <<mem, disk>>
    BY <1>0, <2>1 DEF Wake, Task
  <2> QED BY <2>2, DivergenceQuiet DEF Live, Busy
<1>8. CASE Crash
  <2>1. \A i \in Invoices : mem'[i] = disk'[i] \/ mem'[i].status = "NONE"
    BY <1>8 DEF Crash, NoCheckpoint
  <2> QED BY <2>1 DEF DivergenceIsPending
<1>9. CASE UNCHANGED vars
  BY <1>9, DivergenceQuiet DEF vars, Live
<1> QED BY <1>1, <1>2, <1>3, <1>4, <1>5, <1>6, <1>7, <1>8, <1>9 DEF Next, CommonStep

(***************************************************************************)
(* Memory is ahead of the store only for an invoice that some request is   *)
(* still about, or was dead-lettered over, or that memory calls COMPLETED. *)
(***************************************************************************)
THEOREM DivergenceAlwaysPending == Spec => []DivergenceIsPending
<1>1. Spec => []TInv
  BY TypeInvariant
<1> QED BY <1>1, DivergenceInit, DivergenceStep, PTL DEF Spec

-----------------------------------------------------------------------------
(* The safety half of InvoiceLifecycle, while nothing fails.               *)

(***************************************************************************)
(* What holds between steps when no write fails and the process lives: the *)
(* store is up to date, one task at a time has the loop, an invoice is in  *)
(* the registry as often as in the log, and what is in the log is          *)
(* COMPLETED or about to be.                                               *)
(***************************************************************************)
InPipeline == {"PARSED", "VALIDATED", "SUPPLIER_CHECKED", "PRICING_COMPLETED",
               "RECOMMENDATION_PENDING"}
Open == Statuses \ {"NONE", "COMPLETED"}

Untouched(i) == mem[i].status = "NONE" /\ i \notin posted

\* What is known of a task and its invoice i, by its place.
Standing(t, i) ==
    /\ task[t].at \notin {"sleep", "dead", "lost"}
    /\ t \in Invoices /\ task[t].at \in {"new", "llm", "except"} => Untouched(i)
    /\ t \in Invoices /\ task[t].at = "run" => mem[i].status \in InPipeline
    /\ task[t].at = "run" => mem[i].status # "NONE"
    /\ task[t].at \in {"post", "seal"} => mem[i].status \in Open
    /\ task[t].at = "seal" => i \in posted

Sealing(t, i) == task[t].at = "seal" /\ task[t].invoice = i

Booked(i) ==
    /\ Len(erp[i]) = IF i \in posted THEN 1 ELSE 0
    /\ mem[i].status = "COMPLETED" => i \in posted
    /\ i \in posted /\ mem[i].status # "COMPLETED" => \E t \in Tasks : Sealing(t, i)

Calm ==
    /\ mem = disk
    /\ \A t, u \in Tasks : task[t].at \in Busy /\ task[u].at \in Busy => t = u
    /\ \A t \in Tasks : Standing(t, task[t].invoice)
    /\ \A i \in Invoices : Booked(i)

-----------------------------------------------------------------------------
(* The kinds of step: a task moves, or saves a status and moves.           *)

\* Task t goes to a place, with the loop to itself.
Moves(t, place) ==
    /\ LoopFree(t)
    /\ \A u \in Tasks \ {t} : task'[u] = task[u]
    /\ task'[t].at = place /\ task'[t].invoice = task[t].invoice

Passes(t, place) == Moves(t, place) /\ UNCHANGED <<mem, disk, posted, erp>>

\* The save succeeds.
Writes(t, status, place) ==
    LET i == task[t].invoice
    IN  /\ Moves(t, place)
        /\ UNCHANGED <<posted, erp>>
        /\ mem' = disk' /\ mem'[i].status = status
        /\ \A j \in Invoices \ {i} : mem'[j] = mem[j]

Submits(r) ==
    /\ task[r].at = "new" /\ LoopFree(r)
    /\ \A u \in Tasks \ {r} : task'[u] = task[u]
    /\ task'[r].at = "run" /\ task'[r].invoice \in Invoices
    /\ mem[task'[r].invoice].status # "NONE"
    /\ UNCHANGED <<mem, disk, posted, erp>>

PostsErp(t) ==
    LET i == task[t].invoice
    IN  /\ task[t].at = "post" /\ Moves(t, "seal")
        /\ \E x : erp' = IF i \in posted THEN erp ELSE [erp EXCEPT ![i] = Append(@, x)]
        /\ posted' = posted \cup {i}
        /\ UNCHANGED <<mem, disk>>

UploadKind(i) ==
    \/ task[i].at = "new" /\ Passes(i, "llm")
    \/ task[i].at = "llm" /\ Passes(i, "except")
    \/ task[i].at = "llm" /\ Writes(i, "PARSED", "run")
    \/ task[i].at = "except" /\ Writes(i, "FAILED", "done")
    \/ task[i].at = "run" /\ \E s \in InPipeline : Writes(i, s, "run")
    \/ task[i].at = "run" /\ \E s \in {"AWAITING_HUMAN_APPROVAL", "REJECTED"} :
                                 Writes(i, s, "done")
    \/ task[i].at = "run" /\ Passes(i, "post")

ApprovalKind(r) ==
    \/ Submits(r)
    \/ task[r].at = "run" /\ Passes(r, "done")
    \/ /\ task[r].at = "run" /\ mem[task[r].invoice].status # "COMPLETED"
       /\ Passes(r, "post") \/ Writes(r, "REJECTED", "done")

CommonKind(t) ==
    \/ PostsErp(t)
    \/ task[t].at = "seal" /\ Writes(t, "COMPLETED", "done")

LEMMA GotoMoves ==
  ASSUME TypeOK, NEW t \in Tasks, NEW place, LoopFree(t), Goto(t, place)
  PROVE  Moves(t, place)
  BY DEF TypeOK, Goto, Task, Moves

LEMMA PublishMoves ==
  ASSUME TypeOK, NEW t \in Tasks, NEW event, LoopFree(t), Publish(t, event)
  PROVE  Moves(t, "run")
  BY DEF TypeOK, Publish, Task, Moves

\* Without faults a save succeeds.
LEMMA SaveSucceeds ==
  ASSUME MaxFaults = 0, TypeOK, mem = disk, NEW i \in Invoices, NEW status,
         NEW data, NEW ok \in BOOLEAN, SaveCheckpoint(i, status, data, ok)
  PROVE  /\ ok
         /\ mem' = disk' /\ mem'[i].status = status
         /\ \A j \in Invoices \ {i} : mem'[j] = mem[j]
<1>1. faults = 0
  BY DEF TypeOK
<1>2. ok
  BY <1>1 DEF SaveCheckpoint
<1> QED BY <1>2 DEF SaveCheckpoint, TypeOK

LEMMA ReturnWrites ==
  ASSUME MaxFaults = 0, TypeOK, mem = disk, NEW t \in Tasks,
         task[t].invoice \in Invoices, LoopFree(t), NEW status, NEW data,
         SaveAndReturn(t, status, data), UNCHANGED <<posted, erp>>
  PROVE  Writes(t, status, "done")
<1>1. PICK ok \in BOOLEAN :
          /\ SaveCheckpoint(task[t].invoice, status, data, ok)
          /\ IF ok THEN Goto(t, "done") ELSE Raise(t)
  BY DEF SaveAndReturn
<1> QED BY <1>1, SaveSucceeds, GotoMoves DEF Writes

LEMMA AgentWrites ==
  ASSUME MaxFaults = 0, TypeOK, mem = disk, NEW i \in Invoices,
         task[i].invoice = i, NEW event, NEW key, NEW results, NEW status,
         NEW next, AgentStep(i, event, key, results, status, next)
  PROVE  task[i].at = "run" /\ Writes(i, status, "run")
<1>1. PICK r \in results, ok \in BOOLEAN :
          /\ SaveCheckpoint(i, status, [mem[i].state_data EXCEPT ![key] = r], ok)
          /\ IF ok THEN Publish(i, next) ELSE Raise(i)
  BY DEF AgentStep
<1>2. i \in Tasks /\ task[i].at = "run" /\ LoopFree(i) /\ UNCHANGED <<posted, erp>>
  BY DEF AgentStep, Handling, Tasks
<1> QED BY <1>1, <1>2, SaveSucceeds, PublishMoves DEF Writes

LEMMA UploadKinds ==
  ASSUME MaxFaults = 0, TInv, Calm, NEW i \in Invoices,
         UploadInvoice(i) \/ UploadStep(i)
  PROVE  UploadKind(i)
<1>1. TypeOK /\ mem = disk /\ i \in Tasks /\ task[i].invoice = i
  BY DEF TInv, Shape, Tasks, Calm
<1>2. CASE UploadInvoice(i) \/ ExtractionFails(i)
  BY <1>1, <1>2, GotoMoves DEF UploadInvoice, ExtractionFails, UploadKind, Passes
<1>3. CASE HandleInvoiceUploaded(i)
  <2>1. PICK x \in Extractions, ok \in BOOLEAN :
            /\ SaveCheckpoint(i, "PARSED", [NoData EXCEPT !.invoice_extraction = x], ok)
            /\ IF ok THEN Publish(i, "InvoiceParsed") ELSE Goto(i, "except")
    BY <1>3 DEF HandleInvoiceUploaded
  <2>2. task[i].at = "llm" /\ LoopFree(i) /\ UNCHANGED <<posted, erp>>
    BY <1>3 DEF HandleInvoiceUploaded
  <2>3. Writes(i, "PARSED", "run")
    BY <1>1, <2>1, <2>2, SaveSucceeds, PublishMoves DEF Writes
  <2> QED BY <2>2, <2>3 DEF UploadKind
<1>4. CASE RecordFailure(i)
  BY <1>1, <1>4, ReturnWrites DEF RecordFailure, UploadKind
<1>5. CASE \/ HandleInvoiceParsed(i) \/ HandleInvoiceValidated(i)
           \/ HandleSupplierChecked(i) \/ HandlePricingCompleted(i)
  <2>1. \E s \in InPipeline : task[i].at = "run" /\ Writes(i, s, "run")
    BY <1>1, <1>5, AgentWrites
       DEF HandleInvoiceParsed, HandleInvoiceValidated, HandleSupplierChecked,
           HandlePricingCompleted, InPipeline
  <2> QED BY <2>1 DEF UploadKind
<1>6. CASE PauseForHuman(i) \/ AutoReject(i)
  BY <1>1, <1>6, ReturnWrites
     DEF PauseForHuman, AutoReject, Recommended, Handling, UploadKind
<1>7. CASE AutoApprove(i)
  BY <1>1, <1>7, GotoMoves DEF AutoApprove, Recommended, Handling, UploadKind, Passes
<1> QED BY <1>2, <1>3, <1>4, <1>5, <1>6, <1>7 DEF UploadStep

LEMMA ApprovalKinds ==
  ASSUME MaxFaults = 0, TInv, Calm, NEW r \in Approvals,
         \/ \E i \in Invoices, a \in RecommendationActions : SubmitDecision(r, i, a)
         \/ ApprovalStep(r)
  PROVE  ApprovalKind(r)
<1>1. TypeOK /\ mem = disk /\ r \in Tasks
  BY DEF TInv, Shape, Tasks, Calm
<1>2. ASSUME NEW i \in Invoices, NEW a, SubmitDecision(r, i, a)
      PROVE  ApprovalKind(r)
  <2>1. task'[r].at = "run" /\ task'[r].invoice = i
    BY <1>1, <1>2 DEF SubmitDecision, TypeOK, Task
  <2>2. \A u \in Tasks \ {r} : task'[u] = task[u]
    BY <1>1, <1>2 DEF SubmitDecision, TypeOK
  <2> QED BY <1>2, <2>1, <2>2 DEF SubmitDecision, Submits, ApprovalKind
<1>3. CASE IgnoreDuplicateApproval(r) \/ HumanApproves(r)
  BY <1>1, <1>3, GotoMoves
     DEF IgnoreDuplicateApproval, HumanApproves, Handling, ApprovalKind, Passes
<1>4. CASE HumanRejects(r)
  <2>1. task[r].at = "run" /\ LoopFree(r) /\ task[r].invoice \in Invoices
    BY <1>1, <1>4, TaskInvoice DEF HumanRejects, Handling
  <2> QED BY <1>1, <1>4, <2>1, ReturnWrites DEF HumanRejects, ApprovalKind
<1> QED BY <1>2, <1>3, <1>4 DEF ApprovalStep

LEMMA CommonKinds ==
  ASSUME MaxFaults = 0, TInv, Calm, NEW t \in Tasks, CommonStep(t)
  PROVE  CommonKind(t)
<1>1. TypeOK /\ mem = disk /\ task[t].at # "sleep"
  BY DEF TInv, Calm, Standing
<1>2. CASE PostErp(t)
  <2>1. task[t].at = "post" /\ LoopFree(t) /\ Goto(t, "seal")
    BY <1>2 DEF PostErp
  <2>2. Moves(t, "seal")
    BY <1>1, <2>1, GotoMoves
  <2> QED BY <1>2, <2>1, <2>2 DEF PostErp, PostsErp, CommonKind
<1>3. CASE Seal(t)
  <2>1. task[t].at = "seal" /\ LoopFree(t) /\ task[t].invoice \in Invoices
    BY <1>3, TaskInvoice DEF Seal
  <2> QED BY <1>1, <1>3, <2>1, ReturnWrites DEF Seal, CommonKind
<1>4. ~Wake(t)
  BY <1>1 DEF Wake
<1> QED BY <1>2, <1>3, <1>4 DEF CommonStep

LEMMA CalmKinds ==
  ASSUME MaxFaults = 0, MaxCrashes = 0, TInv, Calm, Next
  PROVE  \/ \E i \in Invoices : UploadKind(i)
         \/ \E r \in Approvals : ApprovalKind(r)
         \/ \E t \in Tasks : CommonKind(t)
<1>1. ~Crash
  BY DEF Crash, TInv, TypeOK
<1> QED BY <1>1, UploadKinds, ApprovalKinds, CommonKinds DEF Next

-----------------------------------------------------------------------------
(* The kinds of step keep Calm.                                            *)

\* Task t changes nothing of other tasks, nor of invoices but i, which it may be
\* about.
Touches(t, i) ==
    /\ t \in Invoices \/ mem[i].status # "NONE"
    /\ task[t].at = "new" \/ task[t].invoice = i
    /\ LoopFree(t)
    /\ \A u \in Tasks \ {t} : task'[u] = task[u]
    /\ task'[t].invoice = i
    /\ mem' = disk'
    /\ \A j \in Invoices \ {i} :
          mem'[j] = mem[j] /\ erp'[j] = erp[j] /\ (j \in posted' <=> j \in posted)

LEMMA TouchKeeps ==
  ASSUME TInv, TInv', Calm, NEW t \in Tasks, NEW i \in Invoices, Touches(t, i),
         Standing(t, i)', Booked(i)'
  PROVE  Calm'
<1>1. \A u \in Tasks \ {t} : task[u].at \notin Busy /\ task'[u] = task[u]
  BY DEF Touches, LoopFree
<1>2. \A u, v \in Tasks : task'[u].at \in Busy /\ task'[v].at \in Busy => u = v
  BY <1>1
<1>3. ASSUME NEW u \in Tasks \ {t} PROVE Standing(u, task[u].invoice)'
  <2>1. task'[u] = task[u] /\ task[u].at \notin Busy /\ Standing(u, task[u].invoice)
    BY <1>1 DEF Calm
  <2>2. CASE u \in Invoices /\ task[u].at \in {"new", "llm"}
    <3>1. task[u].invoice = u /\ Untouched(u)
      BY <2>1, <2>2 DEF Standing, TInv, Shape
    <3>2. u # i
      BY <2>2, <3>1 DEF Touches, TInv, Shape, Untouched
    <3>3. Untouched(u)'
      BY <2>2, <3>1, <3>2 DEF Touches, Untouched
    <3> QED BY <2>1, <2>2, <3>1, <3>3 DEF Standing, Untouched, Busy
  <2>3. CASE ~(u \in Invoices /\ task[u].at \in {"new", "llm"})
    BY <2>1, <2>3 DEF Standing, Busy
  <2> QED BY <2>2, <2>3
<1>4. ASSUME NEW j \in Invoices \ {i} PROVE Booked(j)'
  <2>1. \A u \in Tasks : Sealing(u, j) => Sealing(u, j)'
    BY <1>1 DEF Sealing, Touches
  <2> QED BY <2>1 DEF Calm, Booked, Touches
<1>5. mem' = disk' /\ task'[t].invoice = i
  BY DEF Touches
<1> QED BY <1>2, <1>3, <1>4, <1>5 DEF Calm

\* A task that has the loop and is not sealing is about an invoice that is not
\* in the registry, or COMPLETED.
LEMMA NotPosted ==
  ASSUME Calm, NEW t \in Tasks, LoopFree(t), task[t].at # "seal",
         NEW i \in Invoices, mem[i].status # "COMPLETED"
  PROVE  i \notin posted
<1>1. \A u \in Tasks : task[u].at # "seal"
  BY DEF LoopFree, Busy
<1> QED BY <1>1 DEF Calm, Booked, Sealing

\* The two commonest kinds.
LEMMA PassKeeps ==
  ASSUME TInv, TInv', Calm, NEW t \in Tasks, NEW i \in Invoices,
         task[t].invoice = i, NEW place, Passes(t, place), task[t].at # "seal",
         t \in Invoices \/ mem[i].status # "NONE",
         Standing(t, i)'
  PROVE  Calm'
<1>1. Touches(t, i) /\ task'[t].invoice = i
  BY DEF Passes, Moves, Touches, Calm
<1>2. Booked(i)'
  <2>1. \A u \in Tasks : Sealing(u, i) => Sealing(u, i)'
    BY DEF Sealing, Passes, Moves
  <2> QED BY <2>1 DEF Calm, Booked, Passes
<1> QED BY <1>1, <1>2, TouchKeeps

LEMMA WriteKeeps ==
  ASSUME TInv, TInv', Calm, NEW t \in Tasks, NEW i \in Invoices,
         task[t].invoice = i, NEW status, NEW place, Writes(t, status, place),
         t \in Invoices \/ mem[i].status # "NONE",
         i \in posted <=> status = "COMPLETED",
         Standing(t, i)'
  PROVE  Calm'
<1>1. Touches(t, i) /\ task'[t].invoice = i
  BY DEF Writes, Moves, Touches
<1>2. Booked(i)'
  BY DEF Calm, Booked, Writes
<1> QED BY <1>1, <1>2, TouchKeeps

LEMMA UploadCalm ==
  ASSUME TInv, TInv', Calm, NEW i \in Invoices, UploadKind(i)
  PROVE  Calm'
<1>1. i \in Tasks /\ task[i].invoice = i /\ Standing(i, i)
  BY DEF Tasks, TInv, Shape, Calm
<1>2. ASSUME NEW place \in {"llm", "except"}, task[i].at \in {"new", "llm"},
             Passes(i, place)
      PROVE  Calm'
  <2>1. Standing(i, i)'
    BY <1>1, <1>2 DEF Passes, Moves, Standing, Untouched
  <2> QED BY <1>1, <1>2, <2>1, PassKeeps
<1>3. ASSUME task[i].at = "run", Passes(i, "post")
      PROVE  Calm'
  <2>1. Standing(i, i)'
    BY <1>1, <1>3 DEF Passes, Moves, Standing, InPipeline, Open, Statuses
  <2> QED BY <1>1, <1>3, <2>1, PassKeeps
<1>4. ASSUME NEW s \in InPipeline, task[i].at \in {"llm", "run"}, Writes(i, s, "run")
      PROVE  Calm'
  <2>1. Standing(i, i)'
    BY <1>1, <1>4 DEF Writes, Moves, Standing, InPipeline
  <2>2. i \notin posted /\ s # "COMPLETED"
    BY <1>1, <1>4, NotPosted DEF Standing, Untouched, InPipeline, Writes, Moves
  <2> QED BY <1>1, <1>4, <2>1, <2>2, WriteKeeps
<1>5. ASSUME NEW s \in {"FAILED", "AWAITING_HUMAN_APPROVAL", "REJECTED"},
             task[i].at \in {"except", "run"}, Writes(i, s, "done")
      PROVE  Calm'
  <2>1. Standing(i, i)'
    BY <1>1, <1>5 DEF Writes, Moves, Standing
  <2>2. i \notin posted /\ s # "COMPLETED"
    BY <1>1, <1>5, NotPosted DEF Standing, Untouched, InPipeline, Writes, Moves
  <2> QED BY <1>1, <1>5, <2>1, <2>2, WriteKeeps
<1>6. "PARSED" \in InPipeline
  BY DEF InPipeline
<1> QED BY <1>2, <1>3, <1>4, <1>5, <1>6 DEF UploadKind

LEMMA ApprovalCalm ==
  ASSUME TInv, TInv', Calm, NEW r \in Approvals, ApprovalKind(r)
  PROVE  Calm'
<1>1. r \in Tasks /\ r \notin Invoices /\ Standing(r, task[r].invoice)
  BY ConstantsAssumption DEF Tasks, Calm
<1>2. CASE Submits(r)
  <2>0. PICK i \in Invoices : task'[r].invoice = i
    BY <1>2 DEF Submits
  <2>1. Touches(r, i) /\ i \in Invoices
    BY <1>2, <2>0 DEF Submits, Touches, Calm
  <2>2. Standing(r, i)'
    BY <1>1, <1>2, <2>0 DEF Submits, Standing
  <2>3. \A u \in Tasks : Sealing(u, i) => Sealing(u, i)'
    BY <1>2 DEF Submits, Sealing
  <2>4. Booked(i)'
    BY <1>2, <2>0, <2>3 DEF Submits, Calm, Booked
  <2> QED BY <1>1, <2>1, <2>2, <2>4, TouchKeeps
<1>3. CASE task[r].at = "run"
  <2>0. PICK i \in Invoices : task[r].invoice = i
    BY <1>3, <1>1, TaskInvoice
  <2>1. i \in Invoices /\ mem[i].status # "NONE"
    BY <1>1, <1>3, <2>0 DEF Standing
  <2>2. mem[i].status \in Statuses
    BY <2>1, DataTyped DEF TInv
  <2>3. CASE Passes(r, "done")
    <3>1. Standing(r, i)'
      BY <1>1, <2>0, <2>3 DEF Passes, Moves, Standing
    <3> QED BY <1>1, <1>3, <2>0, <2>1, <2>3, <3>1, PassKeeps
  <2>4. CASE mem[i].status # "COMPLETED" /\ Passes(r, "post")
    <3>1. Standing(r, i)'
      BY <1>1, <2>0, <2>1, <2>2, <2>4 DEF Passes, Moves, Standing, Open
    <3> QED BY <1>1, <1>3, <2>0, <2>1, <2>4, <3>1, PassKeeps
  <2>5. CASE mem[i].status # "COMPLETED" /\ Writes(r, "REJECTED", "done")
    <3>1. Standing(r, i)'
      BY <1>1, <2>0, <2>5 DEF Writes, Moves, Standing
    <3>2. i \notin posted
      BY <1>1, <1>3, <2>0, <2>1, <2>5, NotPosted DEF Writes, Moves
    <3> QED BY <1>1, <2>0, <2>1, <2>5, <3>1, <3>2, WriteKeeps
  <2> QED BY <1>3, <2>0, <2>3, <2>4, <2>5 DEF ApprovalKind, Submits
<1> QED BY <1>2, <1>3 DEF ApprovalKind

LEMMA CommonCalm ==
  ASSUME TInv, TInv', Calm, NEW t \in Tasks, CommonKind(t)
  PROVE  Calm'
<1>1. task[t].at \in {"post", "seal"} /\ LoopFree(t)
  BY DEF CommonKind, PostsErp, Writes, Moves
<1>0. PICK i \in Invoices : task[t].invoice = i
  BY <1>1, TaskInvoice
<1>2. i \in Invoices /\ mem[i].status \in Open /\ Standing(t, i)
  BY <1>0, <1>1 DEF Calm, Standing
<1>3. mem[i].status \notin {"NONE", "COMPLETED"}
  BY <1>2 DEF Open
<1>4. CASE PostsErp(t)
  <2>1. i \notin posted
    BY <1>1, <1>2, <1>3, <1>4, NotPosted DEF PostsErp
  <2>2. PICK x : erp' = [erp EXCEPT ![i] = Append(@, x)]
    BY <1>0, <1>4, <2>1 DEF PostsErp
  <2>3. erp'[i] = Append(erp[i], x) /\ Len(erp[i]) = 0 /\ erp[i] \in Seq(Posting)
    BY <1>2, <2>1, <2>2 DEF TInv, TypeOK, Calm, Booked
  <2>4. Len(erp'[i]) = 1
    BY <2>3
  <2>5. Touches(t, i) /\ task'[t].invoice = i
    BY <1>0, <1>2, <1>3, <1>4, <2>2 DEF PostsErp, Moves, Touches, Calm, TInv, TypeOK
  <2>6. Standing(t, i)'
    BY <1>0, <1>2, <1>4 DEF PostsErp, Moves, Standing
  <2>7. Booked(i)'
    BY <1>0, <1>3, <1>4, <2>4 DEF PostsErp, Moves, Booked, Sealing
  <2> QED BY <1>2, <2>5, <2>6, <2>7, TouchKeeps
<1>5. CASE task[t].at = "seal" /\ Writes(t, "COMPLETED", "done")
  <2>1. Standing(t, i)'
    BY <1>0, <1>2, <1>5 DEF Writes, Moves, Standing
  <2>2. i \in posted
    BY <1>2, <1>5 DEF Standing
  <2> QED BY <1>0, <1>2, <1>3, <1>5, <2>1, <2>2, WriteKeeps
<1> QED BY <1>4, <1>5 DEF CommonKind

LEMMA CalmInit == Init => Calm
<1> SUFFICES ASSUME Init PROVE Calm
  OBVIOUS
<1>1. \A t \in Tasks : task[t].at = "new" /\ (t \in Invoices => task[t].invoice = t)
  BY DEF Init
<1>2. /\ mem = disk /\ posted = {}
      /\ \A i \in Invoices : mem[i].status = "NONE" /\ Len(erp[i]) = 0
  BY DEF Init, NoCheckpoint
<1> QED BY <1>1, <1>2 DEF Calm, Busy, Standing, Untouched, Booked

LEMMA CalmStep ==
  ASSUME MaxFaults = 0, MaxCrashes = 0, TInv, Calm, [Next]_vars
  PROVE  Calm'
<1>1. TInv'
  BY TypeStep
<1>2. CASE Next
  BY <1>1, <1>2, CalmKinds, UploadCalm, ApprovalCalm, CommonCalm
<1>3. CASE UNCHANGED vars
  BY <1>3 DEF vars, Calm, Standing, Untouched, Booked, Sealing
<1> QED BY <1>2, <1>3

-----------------------------------------------------------------------------
(* Every step is one of InvoiceLifecycle, or none.                         *)

Payable == {"processing", "awaiting", "rejected", "failed"}

LEMMA PhaseValues ==
  /\ PhaseOf("NONE") = "absent" /\ PhaseOf("AWAITING_HUMAN_APPROVAL") = "awaiting"
  /\ PhaseOf("REJECTED") = "rejected" /\ PhaseOf("FAILED") = "failed"
  /\ PhaseOf("COMPLETED") = "completed"
  /\ \A s \in InPipeline : PhaseOf(s) = "processing"
  /\ \A s \in Open : PhaseOf(s) \in Payable
  BY DEF PhaseOf, InPipeline, Open, Statuses, Payable

\* What does not show in the lifecycle.
LEMMA Hidden ==
  ASSUME \A i \in Invoices : PhaseOf(disk'[i].status) = PhaseOf(disk[i].status),
         \A i \in Invoices : erp'[i] = erp[i]
  PROVE  UNCHANGED Lifecycle!lvars
  BY DEF Lifecycle!lvars

\* What a save shows of an invoice that is not posted.
LEMMA WriteMoves ==
  ASSUME TInv, Calm, NEW t \in Tasks, NEW i \in Invoices, task[t].invoice = i,
         NEW status, NEW place, Writes(t, status, place), i \notin posted,
         NEW from, PhaseOf(mem[i].status) \in from
  PROVE  Lifecycle!Move(i, from, PhaseOf(status))
<1> DEFINE phase == [j \in Invoices |-> PhaseOf(disk[j].status)]
           paid == [j \in Invoices |-> Len(erp[j])]
<1>1. phase[i] \in from /\ paid[i] = 0
  BY DEF Calm, Booked
<1>2. \A j \in Invoices :
         PhaseOf(disk'[j].status) = IF j = i THEN PhaseOf(status) ELSE phase[j]
  BY DEF Writes, Calm
<1>3. phase' = [phase EXCEPT ![i] = PhaseOf(status)]
  BY <1>2
<1>4. UNCHANGED paid
  BY DEF Writes
<1> QED BY <1>1, <1>3, <1>4 DEF Lifecycle!Move

LEMMA UploadSimulates ==
  ASSUME TInv, Calm, NEW i \in Invoices, UploadKind(i)
  PROVE  Lifecycle!LNext \/ UNCHANGED Lifecycle!lvars
<1>1. i \in Tasks /\ task[i].invoice = i /\ Standing(i, i) /\ mem = disk
  BY DEF Tasks, TInv, Shape, Calm
<1>2. ASSUME NEW place, Passes(i, place)
      PROVE  UNCHANGED Lifecycle!lvars
  BY <1>2, Hidden DEF Passes
<1>3. ASSUME task[i].at = "run", NEW s \in InPipeline, Writes(i, s, "run")
      PROVE  UNCHANGED Lifecycle!lvars
  <2>1. \A j \in Invoices : PhaseOf(disk'[j].status) = PhaseOf(disk[j].status)
    BY <1>1, <1>3, PhaseValues DEF Standing, Writes
  <2> QED BY <1>3, <2>1, Hidden DEF Writes
<1>4. ASSUME task[i].at = "llm", Writes(i, "PARSED", "run")
      PROVE  Lifecycle!Accept(i)
  <2>1. PhaseOf(mem[i].status) \in {"absent"} /\ i \notin posted
    BY <1>1, <1>4, PhaseValues DEF Standing, Untouched
  <2>2. PhaseOf("PARSED") = "processing"
    BY PhaseValues DEF InPipeline
  <2> QED BY <1>1, <1>4, <2>1, <2>2, WriteMoves DEF Lifecycle!Accept
<1>5. ASSUME task[i].at = "except", Writes(i, "FAILED", "done")
      PROVE  Lifecycle!Fail(i)
  <2>1. PhaseOf(mem[i].status) \in {"absent"} /\ i \notin posted
    BY <1>1, <1>5, PhaseValues DEF Standing, Untouched
  <2> QED BY <1>1, <1>5, <2>1, PhaseValues, WriteMoves DEF Lifecycle!Fail
<1>6. ASSUME task[i].at = "run"
      PROVE  PhaseOf(mem[i].status) = "processing"
  BY <1>1, <1>6, PhaseValues DEF Standing
<1>7. ASSUME NEW s, task[i].at = "run", Writes(i, s, "done")
      PROVE  i \notin posted
  BY <1>1, <1>7, NotPosted DEF Standing, InPipeline, Writes, Moves
<1>8. ASSUME task[i].at = "run", Writes(i, "AWAITING_HUMAN_APPROVAL", "done")
      PROVE  Lifecycle!Pause(i)
  BY <1>1, <1>6, <1>7, <1>8, PhaseValues, WriteMoves DEF Lifecycle!Pause
<1>9. ASSUME task[i].at = "run", Writes(i, "REJECTED", "done")
      PROVE  Lifecycle!Reject(i)
  BY <1>1, <1>6, <1>7, <1>9, PhaseValues, WriteMoves DEF Lifecycle!Reject
<1> QED BY <1>2, <1>3, <1>4, <1>5, <1>8, <1>9 DEF UploadKind, Lifecycle!LNext

LEMMA ApprovalSimulates ==
  ASSUME TInv, Calm, NEW r \in Approvals, ApprovalKind(r)
  PROVE  Lifecycle!LNext \/ UNCHANGED Lifecycle!lvars
<1>1. r \in Tasks /\ Standing(r, task[r].invoice)
  BY DEF Tasks, Calm
<1>2. CASE Submits(r) \/ \E place : Passes(r, place)
  BY <1>2, Hidden DEF Submits, Passes
<1>3. ASSUME task[r].at = "run", mem[task[r].invoice].status # "COMPLETED",
             Writes(r, "REJECTED", "done")
      PROVE  Lifecycle!LNext
  <2>1. PICK i \in Invoices : task[r].invoice = i
    BY <1>1, <1>3, TaskInvoice
  <2>2. PhaseOf(mem[i].status) \in Payable
    BY <1>1, <1>3, <2>1, DataTyped, PhaseValues DEF Standing, Open, TInv
  <2>3. i \notin posted
    BY <1>1, <1>3, <2>1, NotPosted DEF Writes, Moves
  <2>4. Lifecycle!Reject(i)
    BY <1>1, <1>3, <2>1, <2>2, <2>3, PhaseValues, WriteMoves DEF Lifecycle!Reject, Payable
  <2> QED BY <2>4 DEF Lifecycle!LNext
<1> QED BY <1>2, <1>3 DEF ApprovalKind

LEMMA CommonSimulates ==
  ASSUME TInv, Calm, NEW t \in Tasks, CommonKind(t)
  PROVE  Lifecycle!LNext \/ UNCHANGED Lifecycle!lvars
<1> DEFINE phase == [j \in Invoices |-> PhaseOf(disk[j].status)]
           paid == [j \in Invoices |-> Len(erp[j])]
<1>1. task[t].at \in {"post", "seal"} /\ LoopFree(t)
  BY DEF CommonKind, PostsErp, Writes, Moves
<1>2. PICK i \in Invoices : task[t].invoice = i
  BY <1>1, TaskInvoice
<1>3. mem = disk /\ mem[i].status \in Open /\ (task[t].at = "seal" => i \in posted)
  BY <1>1, <1>2 DEF Calm, Standing
<1>4. phase[i] \in Payable
  BY <1>3, PhaseValues
<1>5. CASE PostsErp(t)
  <2>1. i \notin posted
    BY <1>1, <1>3, <1>5, NotPosted DEF PostsErp, Open
  <2>2. PICK x : erp' = [erp EXCEPT ![i] = Append(@, x)]
    BY <1>2, <1>5, <2>1 DEF PostsErp
  <2>3. erp[i] \in Seq(Posting) /\ Len(erp[i]) = 0 /\ DOMAIN erp = Invoices
    BY <2>1 DEF TInv, TypeOK, Calm, Booked
  <2>4. Len(Append(erp[i], x)) = 1
    BY <2>3
  <2>5. paid' = [paid EXCEPT ![i] = 1] /\ paid[i] = 0
    BY <2>2, <2>3, <2>4
  <2>6. UNCHANGED phase
    BY <1>5 DEF PostsErp
  <2>7. Lifecycle!Pay(i)
    BY <1>4, <2>5, <2>6 DEF Lifecycle!Pay, Payable
  <2> QED BY <2>7 DEF Lifecycle!LNext
<1>6. CASE task[t].at = "seal" /\ Writes(t, "COMPLETED", "done")
  <2>1. phase[i] # "completed" /\ paid[i] = 1
    BY <1>3, <1>4, <1>6 DEF Calm, Booked, Payable
  <2>2. \A j \in Invoices :
           PhaseOf(disk'[j].status) = IF j = i THEN "completed" ELSE phase[j]
    BY <1>2, <1>3, <1>6, PhaseValues DEF Writes
  <2>3. phase' = [phase EXCEPT ![i] = "completed"] /\ UNCHANGED paid
    BY <1>6, <2>2 DEF Writes
  <2>4. Lifecycle!Complete(i)
    BY <2>1, <2>3 DEF Lifecycle!Complete
  <2> QED BY <2>4 DEF Lifecycle!LNext
<1> QED BY <1>5, <1>6 DEF CommonKind

LEMMA LifecycleStep ==
  ASSUME MaxFaults = 0, MaxCrashes = 0, TInv, Calm, [Next]_vars
  PROVE  [Lifecycle!LNext]_(Lifecycle!lvars)
<1>1. CASE Next
  BY <1>1, CalmKinds, UploadSimulates, ApprovalSimulates, CommonSimulates
<1>2. CASE UNCHANGED vars
  BY <1>2, Hidden DEF vars
<1> QED BY <1>1, <1>2

LEMMA LifecycleInit == Init => Lifecycle!LInit
  BY PhaseValues DEF Init, NoCheckpoint, Lifecycle!LInit

(***************************************************************************)
(* While no save fails and the process lives, an invoice moves through its *)
(* statuses and its postings only as InvoiceLifecycle lets it, whatever    *)
(* order uploads and approvals come in: it is paid at most once, completed *)
(* only after it was paid, and not rejected any more once it was.          *)
(***************************************************************************)
THEOREM LifecycleIsSafe ==
  ASSUME MaxFaults = 0, MaxCrashes = 0
  PROVE  Spec => Lifecycle!LSafe
<1>1. Init => TInv /\ Calm
  BY TypeInit, CalmInit
<1>2. TInv /\ Calm /\ [Next]_vars => (TInv /\ Calm)'
  BY TypeStep, CalmStep
<1>3. TInv /\ Calm /\ [Next]_vars => [Lifecycle!LNext]_(Lifecycle!lvars)
  BY LifecycleStep
<1> QED BY <1>1, <1>2, <1>3, LifecycleInit, PTL DEF Spec, Lifecycle!LSafe

-----------------------------------------------------------------------------
(* Payments: whatever fails, the engine refines PaymentPromise.            *)

Recorded == {i \in Invoices : disk[i].status = "COMPLETED"}

\* A step of the chain writes no COMPLETED; it may overwrite one.
LEMMA ChainRevokes ==
  ASSUME TInv, NEW t \in Tasks, task[t].invoice \in Invoices, StepOf(t, ChainStatuses)
  PROVE  [Payments!PNext]_(Payments!pvars)
<1> DEFINE i == task[t].invoice
<1>1. UNCHANGED <<posted, erp, crashes>>
  BY DEF StepOf
<1>2. \A j \in Invoices \ {i} : disk'[j] = disk[j]
  BY DEF StepOf
<1>3. disk'[i] = disk[i] \/ disk'[i].status # "COMPLETED"
  BY DEF StepOf, ChainStatuses
<1>4. Recorded' = Recorded \/ Recorded' = Recorded \ {i}
  BY <1>2, <1>3 DEF Recorded
<1>5. CASE Recorded' = Recorded
  BY <1>1, <1>5 DEF Recorded, Payments!pvars
<1>6. CASE Recorded' = Recorded \ {i}
  BY <1>1, <1>6 DEF Recorded, Payments!Revoke, Payments!PNext
<1> QED BY <1>4, <1>5, <1>6

\* The last save of a payment records it, unless its write fails.
LEMMA SealRecords ==
  ASSUME TInv, Ledger, NEW t \in Tasks, Seal(t)
  PROVE  [Payments!PNext]_(Payments!pvars)
<1> PICK i \in Invoices : i = task[t].invoice
  BY TaskInvoice DEF Seal
<1>1. StepOf(t, SealStatuses) /\ task[t].at = "seal" /\ mem'[i].status = "COMPLETED"
  BY SealEffect
<1>2. UNCHANGED <<posted, erp, crashes>> /\ \A j \in Invoices \ {i} : disk'[j] = disk[j]
  BY <1>1 DEF StepOf
<1>3. disk'[i] = disk[i] \/ disk'[i].status = "COMPLETED"
  BY <1>1 DEF StepOf
<1>4. Recorded' = Recorded \/ Recorded' = Recorded \cup {i}
  BY <1>2, <1>3 DEF Recorded
<1>5. Len(erp[i]) > 0
  BY <1>1 DEF Ledger, TInv, TypeOK
<1>6. CASE Recorded' = Recorded
  BY <1>2, <1>6 DEF Recorded, Payments!pvars
<1>7. CASE Recorded' = Recorded \cup {i}
  BY <1>2, <1>5, <1>7 DEF Recorded, Payments!Record, Payments!PNext
<1> QED BY <1>4, <1>6, <1>7

\* What the registry knows is not posted again.
LEMMA PostPays ==
  ASSUME TInv, NEW t \in Tasks, PostErp(t)
  PROVE  [Payments!PNext]_(Payments!pvars)
<1> DEFINE paid == [j \in Invoices |-> Len(erp[j])]
<1> PICK i \in Invoices : i = task[t].invoice
  BY TaskInvoice DEF PostErp
<1>1. posted' = posted \cup {i} /\ UNCHANGED <<mem, disk, crashes>>
  BY DEF PostErp
<1>2. CASE i \in posted
  BY <1>1, <1>2 DEF PostErp, Payments!pvars
<1>3. CASE i \notin posted
  <2>1. PICK x : x \in Posting /\ erp' = [erp EXCEPT ![i] = Append(@, x)]
    <3>1. PostingOf(StateDataOf(t)) \in Posting
      BY PostingTyped, DataTyped DEF StateDataOf, TInv
    <3> QED BY <1>3, <3>1 DEF PostErp
  <2>2. erp \in [Invoices -> Seq(Posting)]
    BY DEF TInv, TypeOK
  <2>3. Len(Append(erp[i], x)) = Len(erp[i]) + 1
    BY <2>1, <2>2
  <2>4. paid' = [paid EXCEPT ![i] = @ + 1]
    BY <2>1, <2>2, <2>3
  <2>5. UNCHANGED Recorded
    BY <1>1 DEF Recorded
  <2>6. Payments!Pay(i)
    BY <1>1, <1>3, <2>4, <2>5 DEF Payments!Pay, Recorded
  <2> QED BY <2>6 DEF Payments!PNext
<1> QED BY <1>2, <1>3

LEMMA PaymentStep == TInv /\ Ledger /\ [Next]_vars => [Payments!PNext]_(Payments!pvars)
<1> SUFFICES ASSUME TInv, Ledger, [Next]_vars PROVE [Payments!PNext]_(Payments!pvars)
  OBVIOUS
<1>1. CASE \E i \in Invoices : UploadStep(i)
  BY <1>1, UploadStepEffect, ChainRevokes DEF Tasks, TInv, Shape
<1>2. CASE \E r \in Approvals : ApprovalStep(r)
  <2>1. PICK r \in Approvals : ApprovalStep(r)
    BY <1>2
  <2>2. r \in Tasks /\ task[r].invoice \in Invoices /\ StepOf(r, ChainStatuses)
    BY <2>1, ApprovalStepEffect, TaskInvoice DEF Tasks
  <2> QED BY <2>2, ChainRevokes
<1>3. CASE \E t \in Tasks : PostErp(t)
  BY <1>3, PostPays
<1>4. CASE \E t \in Tasks : Seal(t)
  BY <1>4, SealRecords
<1>5. CASE Crash
  BY <1>5 DEF Crash, Payments!Restart, Payments!PNext
<1>6. CASE \/ \E i \in Invoices : UploadInvoice(i)
           \/ \E r \in Approvals, i \in Invoices, a \in RecommendationActions :
                 SubmitDecision(r, i, a)
           \/ \E t \in Tasks : Wake(t)
           \/ UNCHANGED vars
  <2>1. UNCHANGED <<disk, posted, erp, crashes>>
    BY <1>6 DEF UploadInvoice, SubmitDecision, Wake, vars
  <2> QED BY <2>1 DEF Payments!pvars
<1> QED BY <1>1, <1>2, <1>3, <1>4, <1>5, <1>6 DEF Next, CommonStep

LEMMA PaymentInit == Init => Payments!PInit
  BY DEF Init, NoCheckpoint, Payments!PInit

(***************************************************************************)
(* Whatever fails, the engine pays an invoice at most once in a life of    *)
(* the process, never undoes a payment, and records as completed only what *)
(* it has paid: every step is one of PaymentPromise or changes nothing     *)
(* there.                                                                  *)
(***************************************************************************)
THEOREM PaymentsAreSafe == Spec => ImplementsPayments
<1>1. TInv /\ Ledger /\ [Next]_vars => [Payments!PNext]_(Payments!pvars)
  BY PaymentStep
<1> QED
  BY <1>1, PaymentInit, TypeInvariant, LedgerInvariant, PTL
  DEF Spec, ImplementsPayments, Payments!SafePayments

-----------------------------------------------------------------------------
(* The steps of a request run out.                                         *)

Advances(t) == StepsLeft(task'[t]) \in 0 .. StepsLeft(task[t]) - 1

\* All attempts at the events still to come.
LEMMA OneEvent ==
  ASSUME NEW n \in Nat
  PROVE  /\ n * (MaxRetries + 1) \in Nat
         /\ (n + 1) * (MaxRetries + 1) = n * (MaxRetries + 1) + MaxRetries + 1
<1>1. PICK b \in Nat : b = MaxRetries + 1
  BY ConstantsAssumption
<1>2. n * b \in Nat /\ (n + 1) * b = n * b + b
  OBVIOUS
<1>3. (n + 1) * (MaxRetries + 1) = n * (MaxRetries + 1) + (MaxRetries + 1)
  BY <1>1, <1>2
<1> QED BY <1>1, <1>2, <1>3, ConstantsAssumption

LEMMA Counted ==
  ASSUME NEW r \in Task
  PROVE  /\ r.attempt \in 0 .. MaxRetries /\ MaxRetries \in Nat
         /\ EventsLeft[r.event] \in Nat /\ PlacesLeft[r.at] \in 0 .. 5
         /\ EventsLeft[r.event] * (MaxRetries + 1) \in Nat
<1>1. EventsLeft[r.event] \in Nat
  BY DEF Task, Events, EventsLeft
<1> QED
  BY <1>1, OneEvent, ConstantsAssumption DEF Task, Places, PlacesLeft

\* The same attempt, further on.
LEMMA PlaceCounts ==
  ASSUME NEW r \in Task, NEW s \in Task, s.event = r.event, s.attempt = r.attempt,
         PlacesLeft[s.at] < PlacesLeft[r.at]
  PROVE  StepsLeft(s) \in 0 .. StepsLeft(r) - 1
  BY Counted DEF StepsLeft

LEMMA AttemptCounts ==
  ASSUME NEW r \in Task, NEW s \in Task, s.event = r.event, s.attempt = r.attempt + 1
  PROVE  StepsLeft(s) \in 0 .. StepsLeft(r) - 1
  BY Counted DEF StepsLeft

LEMMA EventCounts ==
  ASSUME NEW r \in Task, NEW s \in Task, EventsLeft[r.event] = EventsLeft[s.event] + 1
  PROVE  StepsLeft(s) \in 0 .. StepsLeft(r) - 1
<1>1. EventsLeft[r.event] * (MaxRetries + 1)
        = EventsLeft[s.event] * (MaxRetries + 1) + MaxRetries + 1
  BY Counted, OneEvent
<1> QED BY <1>1, Counted DEF StepsLeft

LEMMA GotoCounts ==
  ASSUME TypeOK, TypeOK', NEW t \in Tasks, NEW place, Goto(t, place),
         PlacesLeft[place] < PlacesLeft[task[t].at]
  PROVE  Advances(t) /\ \A u \in Tasks \ {t} : task'[u] = task[u]
<1>1. /\ task[t] \in Task /\ task'[t] \in Task
      /\ task'[t].event = task[t].event /\ task'[t].attempt = task[t].attempt
      /\ task'[t].at = place
      /\ \A u \in Tasks \ {t} : task'[u] = task[u]
  BY DEF Goto, TypeOK, Task
<1> QED BY <1>1, PlaceCounts DEF Advances

LEMMA PublishCounts ==
  ASSUME TypeOK, TypeOK', NEW t \in Tasks, NEW event, Publish(t, event),
         EventsLeft[task[t].event] = EventsLeft[event] + 1
  PROVE  Advances(t) /\ \A u \in Tasks \ {t} : task'[u] = task[u]
<1>1. /\ task[t] \in Task /\ task'[t] \in Task /\ task'[t].event = event
      /\ \A u \in Tasks \ {t} : task'[u] = task[u]
  BY DEF Publish, TypeOK, Task
<1> QED BY <1>1, EventCounts DEF Advances

LEMMA ReturnCounts ==
  ASSUME TypeOK, TypeOK', NEW t \in Tasks, task[t].at \in Busy,
         NEW status, NEW data, SaveAndReturn(t, status, data)
  PROVE  Advances(t) /\ \A u \in Tasks \ {t} : task'[u] = task[u]
<1>1. PICK place \in {"done", "sleep", "dead"} : Goto(t, place)
  BY DEF SaveAndReturn, Raise
<1>2. PlacesLeft[place] < PlacesLeft[task[t].at]
  BY DEF PlacesLeft, Busy
<1> QED BY <1>1, <1>2, GotoCounts

LEMMA UploadCounts ==
  ASSUME TInv, TInv', Stage, NEW i \in Invoices, UploadStep(i)
  PROVE  Advances(i) /\ \A u \in Tasks \ {i} : task'[u] = task[u]
<1>1. TypeOK /\ TypeOK' /\ i \in Tasks
  BY DEF TInv, Tasks
<1>2. CASE HandleInvoiceUploaded(i)
  <2>1. task[i].at = "llm" /\ task[i].event = "InvoiceUploaded"
    BY <1>2 DEF HandleInvoiceUploaded, Stage, StageOf
  <2>2. Publish(i, "InvoiceParsed") \/ Goto(i, "except")
    BY <1>2 DEF HandleInvoiceUploaded
  <2> QED BY <1>1, <2>1, <2>2, PublishCounts, GotoCounts DEF EventsLeft, PlacesLeft
<1>3. CASE ExtractionFails(i)
  BY <1>1, <1>3, GotoCounts DEF ExtractionFails, PlacesLeft
<1>4. CASE RecordFailure(i) \/ PauseForHuman(i) \/ AutoReject(i)
  <2>1. task[i].at \in Busy /\ \E status, data : SaveAndReturn(i, status, data)
    BY <1>4 DEF RecordFailure, PauseForHuman, AutoReject, Recommended, Handling, Busy
  <2> QED BY <1>1, <2>1, ReturnCounts
<1>5. CASE \/ HandleInvoiceParsed(i) \/ HandleInvoiceValidated(i)
           \/ HandleSupplierChecked(i) \/ HandlePricingCompleted(i)
  <2>1. PICK event, key, results, status, next :
            /\ AgentStep(i, event, key, results, status, next)
            /\ EventsLeft[event] = EventsLeft[next] + 1
    BY <1>5 DEF HandleInvoiceParsed, HandleInvoiceValidated, HandleSupplierChecked,
                HandlePricingCompleted, EventsLeft
  <2>2. task[i].at = "run" /\ task[i].event = event
    BY <2>1 DEF AgentStep, Handling
  <2>3. Publish(i, next) \/ \E place \in {"sleep", "dead"} : Goto(i, place)
    BY <2>1 DEF AgentStep, Raise
  <2> QED BY <1>1, <2>1, <2>2, <2>3, PublishCounts, GotoCounts DEF PlacesLeft
<1>6. CASE AutoApprove(i)
  BY <1>1, <1>6, GotoCounts DEF AutoApprove, Recommended, Handling, PlacesLeft
<1> QED BY <1>2, <1>3, <1>4, <1>5, <1>6 DEF UploadStep

LEMMA ApprovalCounts ==
  ASSUME TInv, TInv', NEW r \in Approvals, ApprovalStep(r)
  PROVE  Advances(r) /\ \A u \in Tasks \ {r} : task'[u] = task[u]
<1>1. TypeOK /\ TypeOK' /\ r \in Tasks /\ task[r].at = "run"
  BY DEF TInv, Tasks, ApprovalStep, IgnoreDuplicateApproval, HumanApproves,
         HumanRejects, Handling
<1>2. CASE IgnoreDuplicateApproval(r) \/ HumanApproves(r)
  BY <1>1, <1>2, GotoCounts DEF IgnoreDuplicateApproval, HumanApproves, PlacesLeft
<1>3. CASE HumanRejects(r)
  BY <1>1, <1>3, ReturnCounts DEF HumanRejects, Busy
<1> QED BY <1>2, <1>3 DEF ApprovalStep

LEMMA CommonCounts ==
  ASSUME TInv, TInv', NEW t \in Tasks, CommonStep(t)
  PROVE  Advances(t) /\ \A u \in Tasks \ {t} : task'[u] = task[u]
<1>1. TypeOK /\ TypeOK'
  BY DEF TInv
<1>2. CASE PostErp(t)
  BY <1>1, <1>2, GotoCounts DEF PostErp, PlacesLeft
<1>3. CASE Seal(t)
  BY <1>1, <1>3, ReturnCounts DEF Seal, Busy
<1>4. CASE Wake(t)
  <2>1. /\ task[t] \in Task /\ task'[t] \in Task
        /\ task'[t].event = task[t].event /\ task'[t].attempt = task[t].attempt + 1
        /\ \A u \in Tasks \ {t} : task'[u] = task[u]
    BY <1>1, <1>4 DEF Wake, TypeOK, Task
  <2> QED BY <2>1, AttemptCounts DEF Advances
<1> QED BY <1>2, <1>3, <1>4 DEF CommonStep

LEMMA SubmissionCounts ==
  ASSUME TInv, TInv', NEW r \in Approvals, NEW i, NEW a, SubmitDecision(r, i, a)
  PROVE  Advances(r) /\ \A u \in Tasks \ {r} : task'[u] = task[u]
<1>1. /\ task[r] \in Task /\ task'[r] \in Task /\ task[r].at = "new"
      /\ task'[r].event = task[r].event /\ task'[r].attempt = task[r].attempt
      /\ task'[r].at = "run"
      /\ \A u \in Tasks \ {r} : task'[u] = task[u]
  BY DEF SubmitDecision, TInv, TypeOK, Task, Tasks
<1> QED BY <1>1, PlaceCounts DEF Advances, PlacesLeft

LEMMA CrashCounts ==
  ASSUME TInv, TInv', Crash, NEW t \in Tasks, task'[t] # task[t]
  PROVE  Advances(t)
<1>1. /\ task[t] \in Task /\ task'[t] \in Task
      /\ task'[t] = [task[t] EXCEPT !.at = "lost"] /\ task[t].at \notin {"new", "done"}
  BY DEF Crash, TInv, TypeOK
<1>2. /\ task'[t].event = task[t].event /\ task'[t].attempt = task[t].attempt
      /\ task'[t].at = "lost" /\ task[t].at \in Places \ {"new", "done"}
  BY <1>1 DEF Task
<1>3. CASE task[t].at = "lost"
  <2>1. task'[t] = task[t]
    BY <1>1, <1>3 DEF Task
  <2> QED BY <2>1
<1>4. CASE task[t].at # "lost"
  <2>1. PlacesLeft[task'[t].at] < PlacesLeft[task[t].at]
    BY <1>2, <1>4 DEF Places, PlacesLeft
  <2> HIDE DEF PlacesLeft
  <2>2. StepsLeft(task'[t]) \in 0 .. StepsLeft(task[t]) - 1
    <3> PICK r \in Task, s \in Task : r = task[t] /\ s = task'[t]
      BY <1>1
    <3>1. StepsLeft(s) \in 0 .. StepsLeft(r) - 1
      BY <1>2, <2>1, PlaceCounts
    <3> QED BY <3>1
  <2> QED BY <2>2 DEF Advances
<1> QED BY <1>3, <1>4

LEMMA StepCounts ==
  ASSUME TInv, TInv', Stage, Next, NEW t \in Tasks, task'[t] # task[t]
  PROVE  Advances(t)
<1>1. CASE \E i \in Invoices : UploadInvoice(i)
  <2>1. PICK i \in Invoices : UploadInvoice(i)
    BY <1>1
  <2>2. Advances(i) /\ \A u \in Tasks \ {i} : task'[u] = task[u]
    BY <2>1, GotoCounts DEF UploadInvoice, TInv, Tasks, PlacesLeft
  <2> QED BY <2>2
<1>2. CASE \E i \in Invoices : UploadStep(i)
  BY <1>2, UploadCounts
<1>3. CASE \E r \in Approvals, i \in Invoices, a \in RecommendationActions :
              SubmitDecision(r, i, a)
  BY <1>3, SubmissionCounts
<1>4. CASE \E r \in Approvals : ApprovalStep(r)
  BY <1>4, ApprovalCounts
<1>5. CASE \E u \in Tasks : CommonStep(u)
  BY <1>5, CommonCounts
<1>6. CASE Crash
  BY <1>6, CrashCounts
<1> QED BY <1>1, <1>2, <1>3, <1>4, <1>5, <1>6 DEF Next

(***************************************************************************)
(* Every step of a request, a crash included, uses up one of finitely      *)
(* many, for any number of requests and any retry budget: no interplay of  *)
(* retries, approvals and failed writes keeps a request going for ever.    *)
(***************************************************************************)
THEOREM RequestsRunOut == Spec => EveryStepCounts
<1>1. TInv /\ TInv' /\ Stage /\ [Next]_vars =>
          [\A t \in Tasks : task'[t] # task[t] =>
              StepsLeft(task'[t]) \in 0 .. StepsLeft(task[t]) - 1]_vars
  BY StepCounts DEF Advances
<1>2. Spec => [](TInv /\ Stage)
  BY TypeInvariant, StageInit, StageStep, PTL DEF Spec
<1> QED BY <1>1, <1>2, TypeStep, PTL DEF Spec, EveryStepCounts
=============================================================================
