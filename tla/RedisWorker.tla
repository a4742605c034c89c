---------------------------- MODULE RedisWorker ----------------------------
(***************************************************************************)
(* The Redis topology of docker-compose.yml: a web process that only adds  *)
(* events to Redis Streams, and a worker process (src/src/worker.py) whose *)
(* seven consumers, one for each event type, take them from a consumer     *)
(* group and run the handlers of the workflow engine on the bus            *)
(* RedisStreamsEventBus of src/src/events/event_bus.py.                    *)
(*                                                                         *)
(* Unlike the in-memory bus, this one suspends a handler in publish, while *)
(* XADD is under way, and then runs the next handler inside it when        *)
(* EVENT_LOCAL_DISPATCH is set; a dead letter that cannot be written       *)
(* raises into the handler that published.  A consumer is therefore a      *)
(* stack of handlers in progress, and the seven interleave wherever one of *)
(* them waits: for the model, for Redis, or for a retry.  Between two      *)
(* waits a handler runs alone, and is one action; the process may die in   *)
(* any wait (WorkflowEngine models a death between a posting and its       *)
(* record).  Entries about one invoice and of one type are alike but for   *)
(* the decision of a human.                                                *)
(***************************************************************************)
EXTENDS Checkpoints

CONSTANTS
    Invoices,
    Consumers,      \* the event types whose streams are read: a bound
    LocalDispatch,  \* the worker's settings.EVENT_LOCAL_DISPATCH
    Count,          \* entries one XREADGROUP asks for
    MaxRetries,     \* settings.EVENT_MAX_RETRIES
    MaxCopies,      \* bound on undelivered entries that are alike
    MaxUploads,     \* bound on InvoiceUploaded entries of one invoice
    MaxDecisions,   \* bound on decisions submitted
    MaxFaults,      \* bound on failing calls of Redis and of the store
    MaxDeaths       \* bound on deaths of the worker

ASSUME RedisAssumption ==
    /\ Consumers \subseteq Events
    /\ LocalDispatch \in BOOLEAN
    /\ {Count, MaxCopies} \subseteq Nat \ {0}
    /\ {MaxRetries, MaxUploads, MaxDecisions, MaxFaults, MaxDeaths} \subseteq Nat

VARIABLES
    mem,        \* the worker engine's checkpoints
    disk,       \* the table workflow_checkpoints, shared by both processes
    web,        \* the invoices whose checkpoints the web process has loaded
    stream,     \* events:<type>: entries the group has not delivered
    consumer,   \* the worker's coroutine for each type
    dead,       \* the streams dead-letter:<type>, as the invoices in them
    posted,     \* ERPConnectorTool._posted_invoices of the worker
    erp,        \* what the ERP system has accepted
    uploads, decisions, faults, deaths

stores == <<mem, disk, posted, erp>>
queues == <<stream, dead>>
inputs == <<web, uploads, decisions>>
vars == <<stores, queues, inputs, consumer, faults, deaths>>

Entry == [invoice: Invoices, action: RecommendationActions]
EntryOf(i) == [invoice |-> i, action |-> "NEEDS_HUMAN"]

\* A handler in progress and its attempt.
Call == [event: Events, attempt: 0 .. MaxRetries]
NewCall(event) == [event |-> event, attempt |-> 0]

\* A consumer waits for entries, is about to run a handler, waits in vain for
\* an answer to XADD, sleeps before a retry, is sending a dead letter, or is
\* through with this round of gather.
Places == {"read", "handle", "unanswered", "sleep", "bury", "through"}

Reading == [at |-> "read", inbox |-> <<>>, calls |-> <<>>]
Through == [Reading EXCEPT !.at = "through"]

\* Faulty variant: the supplier check is skipped.
NextEventSkipping ==
    [InvoiceUploaded |-> "InvoiceParsed", InvoiceParsed |-> "SupplierChecked",
     InvoiceValidated |-> "SupplierChecked",
     SupplierChecked |-> "PricingCompleted",
     PricingCompleted |-> "RecommendationCreated",
     RecommendationCreated |-> "InvoiceCompleted",
     HumanApproved |-> "InvoiceCompleted"]

\* What a handler publishes last; nobody subscribes to InvoiceCompleted.
NextEvent ==
    [InvoiceUploaded |-> "InvoiceParsed", InvoiceParsed |-> "InvoiceValidated",
     InvoiceValidated |-> "SupplierChecked",
     SupplierChecked |-> "PricingCompleted",
     PricingCompleted |-> "RecommendationCreated",
     RecommendationCreated |-> "InvoiceCompleted",
     HumanApproved |-> "InvoiceCompleted"]

Init ==
    /\ mem = [i \in Invoices |-> NoCheckpoint]
    /\ disk = mem
    /\ web = {}
    /\ stream = [e \in Consumers |-> <<>>]
    /\ consumer = [e \in Consumers |-> Reading]
    /\ dead = [e \in Events |-> {}]
    /\ posted = {}
    /\ erp = [i \in Invoices |-> <<>>]
    /\ uploads = [i \in Invoices |-> 0]
    /\ decisions = 0 /\ faults = 0 /\ deaths = 0

-----------------------------------------------------------------------------
(* The web process: EVENT_LOCAL_DISPATCH is off, so it runs no handler.    *)

\* XADD.  Of entries that are alike and undelivered only MaxCopies are kept
\* apart: one more changes nothing but how often they are read.
Copies(event, entry) == {k \in DOMAIN stream[event] : stream[event][k] = entry}

Add(event, entry) ==
    IF event \in Consumers /\ Cardinality(Copies(event, entry)) < MaxCopies
    THEN stream' = [stream EXCEPT ![event] = Append(@, entry)]
    ELSE UNCHANGED stream

\* The upload's own publication, or one more of an outbox publisher.
AddUpload(i) ==
    /\ uploads[i] < MaxUploads
    /\ uploads' = [uploads EXCEPT ![i] = @ + 1]
    /\ Add("InvoiceUploaded", EntryOf(i))
    /\ UNCHANGED <<stores, dead, web, decisions, consumer, faults, deaths>>

\* approve_recommendation looks for the checkpoint in the web process.  (The
\* third action the schema admits is handled as a REJECT.)
AddDecision(i, action) ==
    /\ i \in web
    /\ decisions < MaxDecisions
    /\ decisions' = decisions + 1
    /\ Add("HumanApproved", [invoice |-> i, action |-> action])
    /\ UNCHANGED <<stores, dead, web, uploads, consumer, faults, deaths>>

\* The web process makes its one engine when it starts (lifespan); the engine
\* loads what the store holds then.
RestartWeb ==
    /\ web' = {i \in Invoices : disk[i].status # "NONE"}
    /\ web' # web
    /\ UNCHANGED <<stores, queues, uploads, decisions, consumer, faults, deaths>>

-----------------------------------------------------------------------------
(* Handlers: what they do to the consumer that runs them.                  *)

CallOf(c) == Head(consumer[c].calls)
InvoiceOf(c) == Head(consumer[c].inbox).invoice

Goto(c, place) == consumer' = [consumer EXCEPT ![c].at = place]

\* The innermost handler returns, and with it all that wait for it: none does
\* anything after publishing.  The entry is acknowledged and the next one of the
\* batch begins.
Return(c) ==
    LET rest == Tail(consumer[c].inbox)
    IN  consumer' = [consumer EXCEPT
                       ![c] = IF rest = <<>> THEN Through
                              ELSE [at |-> "handle", inbox |-> rest,
                                    calls |-> <<NewCall(c)>>]]

\* Faulty variant: one retry too many.
RaiseOffByOne(c, calls) ==
    consumer' = [consumer EXCEPT
                    ![c].at = IF Head(calls).attempt <= MaxRetries THEN "sleep"
                                                                  ELSE "bury",
                    ![c].calls = calls]

\* The handler on top of `calls' raises: it sleeps before its next attempt, and
\* after the last its event is dead-lettered.
Raise(c, calls) ==
    consumer' = [consumer EXCEPT
                    ![c].at = IF Head(calls).attempt < MaxRetries THEN "sleep"
                                                                 ELSE "bury",
                    ![c].calls = calls]

Failing(n) == faults + n <= MaxFaults /\ faults' = faults + n

\* save_checkpoint, whose write fails when ok is FALSE.
Save(i, status, data, ok) ==
    LET checkpoint == [status |-> status, state_data |-> data]
    IN  /\ mem' = [mem EXCEPT ![i] = checkpoint]
        /\ disk' = IF ok THEN [disk EXCEPT ![i] = checkpoint] ELSE disk

\* The last save of a handler that publishes nothing.
SaveAndReturn(c, status, data) ==
    \E ok \in BOOLEAN :
        /\ Save(InvoiceOf(c), status, data, ok)
        /\ Failing(IF ok THEN 0 ELSE 1)
        /\ IF ok THEN Return(c) ELSE Raise(c, consumer[c].calls)

\* XADD is answered: with local dispatch the next handler runs right here.
Answered(c, next) ==
    IF LocalDispatch /\ next \in Events
    THEN consumer' = [consumer EXCEPT ![c].at = "handle",
                         ![c].calls = <<NewCall(next)>> \o @]
    ELSE Return(c)

\* The end of a handler that saves and then publishes: all is well, the write
\* fails, or XADD fails - before or after it took effect.
Outcomes == {"ok", "unsaved", "refused", "unanswered"}

SaveAndPublish(c, status, data, outcomes) ==
    LET next == NextEvent[CallOf(c).event]
    IN  \E outcome \in outcomes :
            /\ Save(InvoiceOf(c), status, data, outcome # "unsaved")
            /\ Failing(IF outcome = "ok" THEN 0 ELSE 1)
            /\ IF outcome \in {"ok", "unanswered"} /\ next \in Events
               THEN Add(next, EntryOf(InvoiceOf(c)))
               ELSE UNCHANGED stream
            /\ CASE outcome = "ok" -> Answered(c, next)
                 [] outcome = "unsaved" -> Raise(c, consumer[c].calls)
                 [] OTHER -> Goto(c, "unanswered")

\* An exception reaches the handler on top of `calls' after n failing calls;
\* handle_invoice_uploaded catches it and records FAILED.
Catch(c, calls, n) ==
    IF Head(calls).event = "InvoiceUploaded"
    THEN \E ok \in BOOLEAN :
            /\ Save(InvoiceOf(c), "FAILED", NoData, ok)
            /\ Failing(IF ok THEN n ELSE n + 1)
            /\ IF ok THEN Return(c) ELSE Raise(c, calls)
    ELSE /\ Raise(c, calls)
         /\ Failing(n)
         /\ UNCHANGED <<mem, disk>>

-----------------------------------------------------------------------------
(* Handlers: what each does.                                               *)

Handling(c, event) == consumer[c].at = "handle" /\ CallOf(c).event = event

DataOf(c) == mem[InvoiceOf(c)].state_data

\* handle_invoice_uploaded, once the model has answered.
HandleInvoiceUploaded(c) ==
    /\ Handling(c, "InvoiceUploaded")
    /\ \E x \in Extractions :
          SaveAndPublish(c, "PARSED", [NoData EXCEPT !.invoice_extraction = x],
                         Outcomes \ {"unsaved"})
    /\ UNCHANGED <<posted, erp, dead, inputs, deaths>>

\* The document, the model or the write of PARSED fails.
ExtractionFails(c) ==
    /\ Handling(c, "InvoiceUploaded")
    /\ Catch(c, consumer[c].calls, 0)
    /\ UNCHANGED <<posted, erp, queues, inputs, deaths>>

\* if not checkpoint: return
Unknown(c) ==
    /\ consumer[c].at = "handle"
    /\ CallOf(c).event \notin {"InvoiceUploaded", "HumanApproved"}
    /\ mem[InvoiceOf(c)].status = "NONE"
    /\ Return(c)
    /\ UNCHANGED <<stores, queues, inputs, faults, deaths>>

AgentStep(c, event, key, results, status) ==
    /\ Handling(c, event)
    /\ mem[InvoiceOf(c)].status # "NONE"
    /\ \E r \in results :
          SaveAndPublish(c, status, [DataOf(c) EXCEPT ![key] = r], Outcomes)
    /\ UNCHANGED <<posted, erp, dead, inputs, deaths>>

HandleInvoiceParsed(c) ==
    AgentStep(c, "InvoiceParsed", "validation_result",
              ValidationAgent(DataOf(c).invoice_extraction), "VALIDATED")

HandleInvoiceValidated(c) ==
    AgentStep(c, "InvoiceValidated", "supplier_risk",
              {SupplierAgent(DataOf(c).invoice_extraction)}, "SUPPLIER_CHECKED")

HandleSupplierChecked(c) ==
    AgentStep(c, "SupplierChecked", "pricing_comparison",
              {PricingAgent(DataOf(c).invoice_extraction)}, "PRICING_COMPLETED")

HandlePricingCompleted(c) ==
    AgentStep(c, "PricingCompleted", "recommendation_result",
              {RecommendationAgent(DataOf(c))}, "RECOMMENDATION_PENDING")

Recommended(c, action) ==
    /\ Handling(c, "RecommendationCreated")
    /\ mem[InvoiceOf(c)].status # "NONE"
    /\ DataOf(c).recommendation_result.action = action

PauseForHuman(c) ==
    /\ Recommended(c, "NEEDS_HUMAN")
    /\ SaveAndReturn(c, "AWAITING_HUMAN_APPROVAL", DataOf(c))
    /\ UNCHANGED <<posted, erp, queues, inputs, deaths>>

AutoReject(c) ==
    /\ Recommended(c, "REJECT")
    /\ SaveAndReturn(c, "REJECTED", DataOf(c))
    /\ UNCHANGED <<posted, erp, queues, inputs, deaths>>

\* Faulty variant: the registry is not consulted.
FinalizeAgain(c) ==
    LET i == InvoiceOf(c)
    IN  /\ erp' = [erp EXCEPT ![i] = Append(@, PostingOf(DataOf(c)))]
        /\ posted' = posted \cup {i}
        /\ SaveAndPublish(c, "COMPLETED", DataOf(c), Outcomes)

\* _finalize_and_post_erp
Finalize(c) ==
    LET i == InvoiceOf(c)
    IN  /\ erp' = IF i \in posted THEN erp
                  ELSE [erp EXCEPT ![i] = Append(@, PostingOf(DataOf(c)))]
        /\ posted' = posted \cup {i}
        /\ SaveAndPublish(c, "COMPLETED", DataOf(c), Outcomes)

AutoApprove(c) ==
    /\ Recommended(c, "APPROVE")
    /\ Finalize(c)
    /\ UNCHANGED <<dead, inputs, deaths>>

IgnoreDuplicateApproval(c) ==
    /\ Handling(c, "HumanApproved")
    /\ mem[InvoiceOf(c)].status = "COMPLETED"
    /\ Return(c)
    /\ UNCHANGED <<stores, queues, inputs, faults, deaths>>

\* A decision is carried out with or without a checkpoint.
HumanApproves(c) ==
    /\ Handling(c, "HumanApproved")
    /\ mem[InvoiceOf(c)].status # "COMPLETED"
    /\ Head(consumer[c].inbox).action = "APPROVE"
    /\ Finalize(c)
    /\ UNCHANGED <<dead, inputs, deaths>>

HumanRejects(c) ==
    /\ Handling(c, "HumanApproved")
    /\ mem[InvoiceOf(c)].status # "COMPLETED"
    /\ Head(consumer[c].inbox).action # "APPROVE"
    /\ SaveAndReturn(c, "REJECTED", DataOf(c))
    /\ UNCHANGED <<posted, erp, queues, inputs, deaths>>

-----------------------------------------------------------------------------
(* The bus: publish, retries and dead letters.                             *)

\* The call of XADD ends in an exception, which publish passes on.
TimeOut(c) ==
    /\ consumer[c].at = "unanswered"
    /\ Catch(c, consumer[c].calls, 0)
    /\ UNCHANGED <<posted, erp, queues, inputs, deaths>>

\* Faulty variant: the attempt is not counted.
WakeUncounted(c) ==
    /\ consumer[c].at = "sleep"
    /\ Goto(c, "handle")
    /\ UNCHANGED <<stores, queues, inputs, faults, deaths>>

Wake(c) ==
    /\ consumer[c].at = "sleep"
    /\ consumer' = [consumer EXCEPT
                       ![c].at = "handle",
                       ![c].calls = <<[CallOf(c) EXCEPT !.attempt = @ + 1]>> \o Tail(@)]
    /\ UNCHANGED <<stores, queues, inputs, faults, deaths>>

\* Faulty variant: the dead letter is not written.
BuryNowhere(c) ==
    /\ consumer[c].at = "bury"
    /\ Return(c)
    /\ UNCHANGED <<stores, queues, inputs, faults, deaths>>

\* The dead letter is written: publish, or consume_once, goes on.
Bury(c) ==
    /\ consumer[c].at = "bury"
    /\ dead' = [dead EXCEPT ![CallOf(c).event] = @ \cup {InvoiceOf(c)}]
    /\ Return(c)
    /\ UNCHANGED <<stores, stream, inputs, faults, deaths>>

\* The dead letter of a local dispatch cannot be written: publish raises into
\* the handler that called it.
BuryBreaks(c) ==
    /\ consumer[c].at = "bury"
    /\ Len(consumer[c].calls) > 1
    /\ Catch(c, Tail(consumer[c].calls), 1)
    /\ UNCHANGED <<posted, erp, queues, inputs, deaths>>

-----------------------------------------------------------------------------
(* The worker: consume_once for every type, in rounds of gather.           *)

\* XREADGROUP ">": new entries only.
ReadGroup(c) ==
    LET n == IF Len(stream[c]) < Count THEN Len(stream[c]) ELSE Count
    IN  /\ consumer[c].at = "read"
        /\ n > 0
        /\ consumer' = [consumer EXCEPT
                           ![c] = [at |-> "handle",
                                   inbox |-> SubSeq(stream[c], 1, n),
                                   calls |-> <<NewCall(c)>>]]
        /\ stream' = [stream EXCEPT ![c] = SubSeq(@, n + 1, Len(@))]
        /\ UNCHANGED <<stores, dead, inputs, faults, deaths>>

\* Faulty variant: XREADGROUP blocks until there is something to read, so that a
\* consumer without entries holds up the round.
NextRoundOfAll ==
    /\ \A c \in Consumers : consumer[c].at = "through"
    /\ consumer' = [c \in Consumers |-> Reading]
    /\ UNCHANGED <<stores, queues, inputs, faults, deaths>>

\* gather waits for the slowest consumer; those that read nothing have timed
\* out by then.
NextRound ==
    /\ \A c \in Consumers : consumer[c].at \in {"read", "through"}
    /\ \E c \in Consumers : consumer[c].at = "through"
    /\ consumer' = [c \in Consumers |-> Reading]
    /\ UNCHANGED <<stores, queues, inputs, faults, deaths>>

\* The worker is killed, or an exception leaves consume_once (XREADGROUP, XACK
\* or the XADD of an entry's own dead letter) and ends gather and the process.
\* Started again, it loads the store, and never asks for what it had not
\* acknowledged.
Die ==
    /\ deaths < MaxDeaths
    /\ deaths' = deaths + 1
    /\ \/ mem' = disk /\ Failing(0)
       \/ mem' = [i \in Invoices |-> NoCheckpoint] /\ Failing(1)
    /\ posted' = {}
    /\ consumer' = [c \in Consumers |-> Reading]
    /\ UNCHANGED <<disk, erp, stream, dead, inputs>>

-----------------------------------------------------------------------------
\* A step of the consumer in its handlers.
HandlerStep(c) ==
    \/ HandleInvoiceUploaded(c) \/ ExtractionFails(c) \/ Unknown(c)
    \/ HandleInvoiceParsed(c) \/ HandleInvoiceValidated(c)
    \/ HandleSupplierChecked(c) \/ HandlePricingCompleted(c)
    \/ PauseForHuman(c) \/ AutoReject(c) \/ AutoApprove(c)
    \/ IgnoreDuplicateApproval(c) \/ HumanApproves(c) \/ HumanRejects(c)

BusStep(c) ==
    \/ TimeOut(c) \/ Wake(c) \/ Bury(c) \/ BuryBreaks(c)
    \/ ReadGroup(c)

WebStep ==
    \/ \E i \in Invoices : AddUpload(i)
    \/ \E i \in Invoices, a \in {"APPROVE", "REJECT"} : AddDecision(i, a)
    \/ RestartWeb

Next ==
    \/ WebStep
    \/ \E c \in Consumers : HandlerStep(c) \/ BusStep(c)
    \/ NextRound
    \/ Die

Spec == Init /\ [][Next]_vars

\* The worker's event loop runs: a consumer that can go on does, and a round that
\* is over is followed by the next.  Nobody has to upload or to decide.
FairSpec ==
    /\ Spec
    /\ \A c \in Consumers : WF_vars(HandlerStep(c) \/ BusStep(c))
    /\ WF_vars(NextRound)

-----------------------------------------------------------------------------
TypeOK ==
    /\ mem \in [Invoices -> Checkpoint] /\ disk \in [Invoices -> Checkpoint]
    /\ web \subseteq Invoices
    /\ stream \in [Consumers -> Seq(Entry)]
    /\ consumer \in [Consumers -> [at: Places, inbox: Seq(Entry), calls: Seq(Call)]]
    /\ dead \in [Events -> SUBSET Invoices]
    /\ posted \subseteq Invoices /\ erp \in [Invoices -> Seq(Posting)]
    /\ uploads \in [Invoices -> 0 .. MaxUploads]
    /\ decisions \in 0 .. MaxDecisions
    /\ faults \in 0 .. MaxFaults
    /\ deaths \in 0 .. MaxDeaths

(***************************************************************************)
(* Local dispatch and the stream hand the same event to two handlers, and  *)
(* retries and repeated uploads add more; still one life of the worker     *)
(* posts an invoice at most once.                                          *)
(***************************************************************************)
DuplicatesPostOnce == \A i \in Invoices : Len(erp[i]) <= deaths + 1

(***************************************************************************)
(* While no call fails and its upload is delivered once, an invoice is     *)
(* posted by itself only if it is clean and every agent has looked at it - *)
(* although an event is handled from its stream as well as by local        *)
(* dispatch, by handlers that overtake each other and replace each other's *)
(* results, and an agent reads an absent result as a good one.             *)
(***************************************************************************)
AutoPostIsClean ==
    \A c \in Consumers :
        Recommended(c, "APPROVE") /\ faults = 0 /\ uploads[InvoiceOf(c)] <= 1 =>
            /\ Clean(DataOf(c).invoice_extraction)
            /\ DataOf(c).validation_result.ran
            /\ DataOf(c).supplier_risk.ran
            /\ DataOf(c).pricing_comparison.ran

Payments == INSTANCE PaymentPromise WITH
    paid <- [i \in Invoices |-> Len(erp[i])],
    current <- posted,
    recorded <- {i \in Invoices : disk[i].status = "COMPLETED"},
    life <- deaths

(***************************************************************************)
(* Two handlers of one event, repeated uploads and decisions, failed or    *)
(* unanswered calls and deaths move the ERP's postings and the stored      *)
(* status only as PaymentPromise allows: what the in-memory bus keeps.     *)
(***************************************************************************)
ImplementsPayments == Payments!SafePayments

\* How far an event is along the chain.
Stage ==
    [InvoiceUploaded |-> 0, InvoiceParsed |-> 1, InvoiceValidated |-> 2,
     SupplierChecked |-> 3, PricingCompleted |-> 4,
     RecommendationCreated |-> 5, HumanApproved |-> 6]

PlacesLeft == [handle |-> 3, unanswered |-> 2, sleep |-> 1, bury |-> 0]

\* What a consumer in state r has left at an event: four places in each attempt.
\* A handler that waits for the next one is past its first place.
StepsLeft(r, event) ==
    IF \E k \in DOMAIN r.calls : r.calls[k].event = event
    THEN LET k == CHOOSE k \in DOMAIN r.calls : r.calls[k].event = event
         IN  4 * (MaxRetries - r.calls[k].attempt)
                + (IF k > 1 THEN 2 ELSE PlacesLeft[r.at])
    ELSE 4 * (MaxRetries + 1)

\* From r to s less is left at some event, and as much at those before it.
Advances(r, s) ==
    \E e \in Events :
        /\ StepsLeft(s, e) \in 0 .. StepsLeft(r, e) - 1
        /\ \A f \in Events : Stage[f] < Stage[e] => StepsLeft(s, f) = StepsLeft(r, f)

(***************************************************************************)
(* Every step of a consumer at work finishes an entry or uses up some of   *)
(* what MaxRetries allows the handlers nested for it, although each retry  *)
(* of a handler dispatches those inside it anew, with a budget of their    *)
(* own: no entry is handled without end.                                   *)
(***************************************************************************)
EveryStepCounts ==
    [][\A c \in Consumers :
          LET old == consumer[c]
              new == consumer'[c]
          IN  old.inbox # <<>> /\ new # old /\ deaths' = deaths =>
                 \/ new.inbox = Tail(old.inbox)
                 \/ new.inbox = old.inbox /\ Advances(old, new)]_vars

Delivered(i) ==
    \E c \in Consumers : \E k \in DOMAIN consumer[c].inbox :
        consumer[c].inbox[k].invoice = i

Waiting(i) ==
    \E c \in Consumers : \E k \in DOMAIN stream[c] : stream[c][k].invoice = i

DeadLettered(i) == \E e \in Events : i \in dead[e]

(***************************************************************************)
(* While the worker lives, an uploaded invoice that is not decided, not    *)
(* waiting for a human and not FAILED has an event of its own in a stream, *)
(* in the hands of a consumer, or in a dead-letter stream: no retry, early *)
(* return, broken publication or broken dead letter makes it disappear.    *)
(***************************************************************************)
NothingStalls ==
    \A i \in Invoices :
        uploads[i] > 0 /\ deaths = 0 =>
            \/ mem[i].status \in Settled
            \/ Waiting(i) \/ Delivered(i) \/ DeadLettered(i)

(***************************************************************************)
(* A worker that lives brings every invoice to rest: in the end it is      *)
(* decided, FAILED, waiting for a human or dead-lettered, and stays so,    *)
(* however often its upload is delivered and whatever is published twice.  *)
(***************************************************************************)
UploadsComeToRest ==
    \A i \in Invoices :
        uploads[i] > 0 ~>
            [](mem[i].status \in Settled \/ DeadLettered(i) \/ deaths > 0)

(***************************************************************************)
(* No entry waits for ever: again and again every stream is empty and its  *)
(* consumer free, although gather lets seven consumers wait for the        *)
(* slowest, through its retries and the handlers nested in it.             *)
(***************************************************************************)
StreamsEmpty ==
    \A c \in Consumers : []<>(stream[c] = <<>> /\ consumer[c].at = "read")

(***************************************************************************)
(* recommendation_agent.py:57: an approved invoice "meets all compliance   *)
(* criteria, passed validation", so what is posted without a human has     *)
(* been validated.  A publication whose answer is lost makes               *)
(* handle_invoice_uploaded forget the state data in mid-pipeline.          *)
(***************************************************************************)
AutoPostingsAreValidated ==
    [][\A i \in Invoices :
          decisions = 0 /\ erp'[i] # erp[i] =>
              mem[i].state_data.validation_result.ran]_vars
=============================================================================
