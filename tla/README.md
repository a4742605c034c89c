# MiniLisa in TLA+

Models, model checks and proofs of the invoice workflow in `src/`: a FastAPI
service that takes supplier invoices, lets a chain of agents extract, validate
and judge them, pays the harmless ones through an ERP connector and asks a human
about the rest.

Contents: [parts](#the-parts-of-the-system) ·
[modules](#modules-and-the-code-they-stand-for) · [runs](#runs) ·
[proofs](#proofs) · [disagreements](#where-the-code-and-its-text-disagree) ·
[limits](#what-is-not-modelled-and-what-is-not-proved) · [plan](#plan)

Run a check with `tlc -config X.cfg M` and a proof with `tlapm M.tla`.
`PROJECT.json` lists the runs, for every definition the lines it models, and for
every property a faulty variant of a definition (`...OffByOne`, `...Again`,
`Faulty variant:` in the modules) under which TLC finds the property violated.

## The parts of the system

| Part | State | Operations | Talks to |
|---|---|---|---|
| Workflow engine, `workflows/workflow_engine.py` | `checkpoints` in memory, table `workflow_checkpoints` | seven event handlers, `save_checkpoint`, `_load_checkpoints`, `_finalize_and_post_erp` | subscribes to and publishes on the bus, calls agents, ERP connector |
| In-memory bus, `events/event_bus.py` | handlers, `dead_letters` | `publish` (runs the handlers inside the call), `_dispatch_with_retries` | handlers |
| Redis bus and worker, `events/event_bus.py`, `worker.py` | streams `events:*`, `dead-letter:*`, a consumer group | `publish` (XADD, then local dispatch), `consume_once`, the worker's `gather` loop | Redis, handlers |
| Agents, `agents/` | none; they read and extend `state_data` | five `run` methods, `invoke_llm_with_retry` | language model, tools |
| Tools, `tools/impl.py` | `ERPConnectorTool._posted_invoices` | supplier lookup, price history, VAT check, ERP posting | — |
| Outbox, `models/outbox.py`, `repositories/outbox_repository.py`, `events/outbox_publisher.py`, `outbox_worker.py` | table `outbox_events` | enqueue, `get_pending`, `mark_published`, `mark_failed`, the polling loop | database, bus |
| Upload endpoint, `api/v1/endpoints/invoices.py` with `auth/security.py`, `auth/jwt.py`, `api/deps.py` | the upload directory, rows of `invoices` | authentication, `validate_upload_file`, `upload_invoice` | scanner, database, outbox, bus |
| Virus scan, `infrastructure/virus_scanner.py` | one connection, its write buffer | `scan_bytes` | clamd |
| Extraction, `infrastructure/pdf_parser.py`, `agents/base.py`, `infrastructure/llm_client.py` | the retry counters of one event | `parse_pdf`, `invoke_llm_with_retry`, `generate_structured` | language model |
| Status and approval endpoints, `api/v1/endpoints/` | one engine per web process (`api/deps.py`) | approve, queries | engine, bus |
| Settings, `config/settings.py` | configuration | `validate_production_security` | everyone |
| Repositories, telemetry, prompts, router, audit trail | rows, texts | library calls and reads | — |

What is hard about it:

* **A handler is a coroutine with waits.** On the in-memory bus the whole chain
  from upload to posting is one nested call: `publish` runs the next handler
  before the one that published returns. It waits only for the language model
  and for the delay before a retry; in those waits other requests run, an
  approval of the same invoice among them.
* **Two copies of a checkpoint.** `save_checkpoint` replaces the memory copy and
  then writes the row; the write may fail, and memory is what everything else
  reads.
* **Idempotence in process memory.** The registry that stops a second posting is
  a class attribute: it does not survive a crash, the checkpoints do.
* **Two deliveries of one event.** The compose file gives the worker
  `EVENT_LOCAL_DISPATCH=true`: it handles what it publishes at once, and the
  stream hands it the same entry again. The outbox adds deliveries of its own.
* **Exceptions travel through the bus.** A lost answer to XADD, or a dead letter
  that cannot be written, raises into the handler that published, after it has
  saved its checkpoint.
* **Two processes, one table.** The web process loads the checkpoints once and
  never sees what the worker saves.
* **Commit, publish, mark.** Upload and outbox publishers each publish and mark
  the same row, in separate transactions that may break off anywhere.
* **Nested retries.** The bus repeats the handler, the handler's agent repeats
  its request, each request is made in two ways.
* **A scan that must fail closed.** Between a file and its verdict lie two
  buffers, a connection that may break and an answer that may come late or in
  part.

What makes each part correct: nothing is recorded as paid that was not posted,
nothing is posted twice in one life of a process, nothing is paid without a
human that is not clean, no event disappears without a trace, every request
ends; the agents together decide by the code's thresholds; what the outbox marks was sent
and what it stores is sent; in production nothing unscanned is stored, and an
invoice that has a row has its file; a scan clears only what was examined; an
event costs a bounded number of model calls.

## Modules and the code they stand for

```
UploadGate ── MCUploadGate                Extraction ── MCExtraction
   └── UploadGateProofs                      └── ExtractionProofs
ClamdScan ── MCClamdScan                  Outbox ── MCOutbox
   ├── ClamdScanProofs                       ├── OutboxProofs
   └ INSTANCE ScanPromise                    └ INSTANCE EventDelivery

Agents ── AgentPipeline ── MCAgentPipeline
   │           └── AgentPipelineProofs
   └──── Checkpoints ── WorkflowEngine ── WorkflowProperties ── MCWorkflowEngine
                │                            │      └── WorkflowEngineProofs
                │                            └ INSTANCE InvoiceLifecycle, PaymentPromise
                ├── RedisWorker ── MCRedisWorker
                │      │   └── RedisWorkerProofs
                │      └ INSTANCE PaymentPromise
                └── CheckpointProofs (lemmas for both ...Proofs)
```

The modules follow an invoice: `UploadGate` admits it (with `ScanPromise` for the
scanner, which `ClamdScan` implements), `Outbox` takes over at the commit and
gets the event to a bus, `WorkflowEngine` or `RedisWorker` runs the handlers on
one bus or the other, with one step for `Extraction` and with `Agents` for the
decision.

**UploadGate** — `upload_invoice` from the request to the answer. A request is at
`new` (before `get_current_user`), `validate`, `scan`, `save`, `commit`,
`publish` or `over`. `Init` starts from every settings `Settings` accepts
(`ValidateProductionSecurity`); `FirstObjection` is the order of the checks in
`validate_upload_file`, with what each can tell of a document. `CleanVerdicts` is
the scanner of the factory: the mock knows one signature, clamd's verdict is the
one `ScanPromise` allows (it may reject anything, and never clears malware). Of
`ENV`'s four values there are two, since the code only asks whether it is
"production". A
failing write leaves a torn file and a 500; `Die` may tear the file being
written, and the stores outlive it.

**ScanPromise**, **ClamdScan** — what a scan promises (it clears only what clamd
has examined in full and found harmless, its verdict is final, it ends), and one
`scan_bytes` in messages: all writes in one go (`ConnectAndWrite`), the
transport's buffer with its two limits (`Flush`, `paused`), `drain()` (which also
returns on a connection at its end of file), the read with its timeout, `wait_closed()` in the finally clause. clamd (`Take`,
`Answer`) and the network (`Break`) are external.

**Extraction** — how `handle_invoice_uploaded` gets from the file to PARSED or
FAILED: `parse_pdf`, the two requests of `generate_structured` (`Ask`,
`AskAgain`, with the schema in a copy of the messages), the attempts of
`invoke_llm_with_retry`, and the dispatches of the bus around them.
`WorkflowEngine` and `RedisWorker` have one step for all this.

**Outbox** — the table, the uploads' own commit-publish-mark and the publishers'
poll-publish-flush-commit, as transactions that see what is committed when they
read and hold the rows they have flushed. `batch` is the set of rows a publisher
has read and not come to, taken oldest first; `record` the one it has come to.
A publication on Redis may be refused, or take effect and its answer be lost
(`Refused`); that of the in-memory bus catches what its handlers raise, so there only
a process death keeps an upload from publishing. `SharedBus` says whether the
publisher's bus is Redis or an in-memory bus of its own, `LoopRunning` whether
`run_outbox_worker` is started inside an event loop.

**EventDelivery** — what the outbox promises: at-least-once delivery of what was
committed.

**Agents** — the five agents and the tools they call, as operators on
`state_data`. A result that is not there is a record with `ran = FALSE` and the
defaults its readers pass to `dict.get`: an absent validation reads as valid, an
absent supplier check as LOW risk. Amounts are cents; the code computes in
floats, so a comparison exactly on its bound is open (`Within`).
`AverageUnitPrice` is the one price the mocked history knows.

**AgentPipeline** — one document through the five agents in the order of the
handlers, without the workflow, to check the decision over many documents.

**Checkpoints** — what a checkpoint holds, the events, and what
`_finalize_and_post_erp` posts, with its defaults (350.00, `sup-001`). Shared by
the two modules of the buses, with `Clean`: what an extraction must be for an
invoice to be paid without a human.

**WorkflowEngine** — the engine on the in-memory bus. A *task* is one request:
an upload that runs the chain, or an approval. Its place says where the
coroutine is: `llm` (awaiting the model), `run` (in the handler of `event`),
`except`, `post` and `seal` (before and after the posting in
`_finalize_and_post_erp`), `sleep` (awaiting a retry), `done`, `dead`
(dead-lettered) or `lost` (its process died). Only one task can be in
`run`, `except`, `post` or `seal` (`LoopFree`): between two awaits the event loop
belongs to one coroutine. A handler is split into actions at those places only
because the process may die between them. When a handler raises, its own
`publish` retries it and then dead-letters the event *and returns*: the handlers
around it do nothing after publishing, so the task is simply over. A handler of
the chain that finds no checkpoint would return at once; that branch is not an
action here, because `NoSilentDrop` (checked and proved) says no handler meets it.
`Crash` brings the checkpoints back from the table, or not at all when the table
cannot be read (`_load_checkpoints` swallows the error).

**WorkflowProperties** — the properties of the engine and the refinement mapping:
the phase of an invoice is its stored status, `paid` the length of the ERP's log.

**InvoiceLifecycle** — what the engine promises when nothing fails: an invoice is
decided, paid at most once, and after the payment only its completion is left.

**PaymentPromise** — what the engine promises of the money on either bus, failures
and deaths included: one life of the process pays an invoice at most once, a
payment is never undone, and the store records as completed only what is paid. It
allows that the record is overwritten, which both buses do. `paid` is the length of
the ERP's log, `current` the registry of the process, `recorded` the rows that say
COMPLETED, and `life` the number of crashes or deaths so far: the registry may be
emptied only by the step that begins a new life.

**RedisWorker** — the compose topology. The web process only adds entries
(`AddUpload`, `AddDecision`), and knows the invoices in `web`, those in the table
when it last started (`RestartWeb`). Each consumer of the worker is a place, the
entries it has taken (`inbox`), and a stack of handlers in progress (`calls`),
because local dispatch runs the next handler inside `publish`. `SaveAndPublish`
is the end common to all handlers that publish: the row may not be written, XADD
may be refused, or take effect and not be answered. `Raise` spends the retry
budget of the innermost handler; `Bury` writes a dead letter, after which the
handlers around it return; `BuryBreaks` is a dead letter that cannot be written
and raises one level up; `Catch` is the place an exception ends, with the
`except` block of `handle_invoice_uploaded`. `NextRound` is the `gather` of
`worker.py`. `Die` covers a kill and any exception that leaves `consume_once`; the
group never re-reads what was delivered and not acknowledged, so the inboxes are
simply gone. Here a handler that finds no checkpoint is an action (`Unknown`),
because a restart with an unreadable table does produce one.

## Runs

| Run | Instance | What it shows |
|---|---|---|
| `agents` | 1440 answers of the model, with and without "350" in the text | `DecisionMeetsThresholds`: the chain, through stored results, defaults and rounding, decides by the code's thresholds as read off the document alone; `SuspicionNeverHelps`: no document gains by a riskier supplier or dearer items |
| `workflow` | 1 invoice, 2 approvals, 1 retry, 3 failed accesses to the store, 2 crashes | type, `CompletedIsPosted`, `PostedOncePerRun`, `AutoPostIsClean`, `NoSilentDrop`, `DivergenceIsPending`, `CompletedNeverReposts`; `ImplementsPayments` (refinement of `PaymentPromise`); that requests end: `EveryStepCounts`, `UploadSettles`, `DecisionSettles` |
| `workflow_lifecycle` | 2 invoices, 2 approvals, no faults | `ImplementsLifecycle`: the engine implements `InvoiceLifecycle`, liveness included |
| `redis` | 1 invoice, 1 upload, 1 decision, streams `InvoiceUploaded`, `RecommendationCreated`, `HumanApproved`, batches of 2, 1 retry, 3 failing calls, 1 death | type, `NothingStalls`; `ImplementsPayments`: between two deaths the worker posts an invoice at most once; that entries are done with: `EveryStepCounts`, `UploadsComeToRest`, `StreamsEmpty` |
| `redis_redelivery` | 1 invoice, 2 uploads, 1 decision, 4 answers of the model, streams `InvoiceUploaded`, `InvoiceParsed`, `SupplierChecked`, `HumanApproved`, batches of 2, no failing call, 1 death | `AutoPostIsClean`: what is posted without a human is clean and seen by every agent, although each event is handled twice and handlers overtake each other; `DuplicatesPostOnce` |
| `outbox` | 2 uploads, 2 publishers, 1 row of unknown type, batches of 2, 2 faults | type, `PublishedWasSent`, `RedeliveryIsBounded`; `DeliversAtLeastOnce` (refinement of `EventDelivery`), `OutboxDrains` |
| `clamd_scan` | 6 messages, room for 2 in the socket, buffer limits 2 and 1 | type; `FailsClosed` and `EndsWhenServed`, the two halves of `ScanPromise` |
| `upload_gate` | 2 requests, 7 documents, 3 headers, all accepted settings, 1 fault | type, `ProductionIsScanned`, `RowHasItsFile`, `AnswersAreTrue` |
| `extraction` | 3 retries of the agent, 3 of the bus (the defaults), 5 failing writes | type, `CallsAreBounded`, `GivesUpOnlyWhenSpent`, `SchemaIsSentOnce`; `EveryStepCounts`, `ExtractionEnds` |
| `workflow_durability`, `redis_unvalidated`, `outbox_memory` | smaller | counterexamples, [below](#where-the-code-and-its-text-disagree) |

**Bounds.** Invoices do not meet except in the event loop, so one invoice shows
the races between its own requests; the refinement run has two. Two approvals are
needed for a duplicate and for contradictory decisions. One retry separates
"may try again" from "budget spent"; the code's default of three only repeats the
first. Three faults let a write fail until the budget is spent and then the table
be unreadable at the next start. In `redis`, three failing calls exhaust a
handler's retries and break its dead letter. The two streams of the chain are its
ends: the first handler starts all the others by local dispatch, and the last
takes recommendations both by dispatch and from its stream, which is how an event
is handled twice while a decision is carried out. `redis_unvalidated` has the
first two streams instead. `redis_redelivery` needs the middle of the chain, where
an agent may run on a checkpoint that a later handler has rewritten, and answers
that differ in each thing a payment depends on. It needs neither retries nor
failures: `AutoPostIsClean` speaks of an invoice whose upload has been delivered once,
while no call has failed, and the second delivery is there for `DuplicatesPostOnce`. Failing calls together with
duplicate handling are in `redis` (`ImplementsPayments`), and both with any number of
deliveries in the theorem `PostedOncePerLife`. Both
hypotheses are needed: with a second delivery the first handler resets the data in
mid-pipeline, and with a lost answer `redis_unvalidated` is the counterexample.
Of undelivered entries that are alike `MaxCopies` = 2 are kept (1 in that run), since
a further one can only add a further handling of the same event. The third action
the request schema admits (`NEEDS_HUMAN`) is handled like a rejection and left out of
the Redis runs. In `outbox`, a batch of two with a row of unknown type at the head makes a batch mixed, and a second
publisher lets both read a row before either marks it. In `clamd_scan`, six
messages fill the socket and pass both limits of the buffer on the way up and
down; a message is a chunk of 64 KiB, or the terminator. In `upload_gate`,
requests share only settings, process and faults, so two are enough for a crash to
catch them in different places; the documents are a proper one and one for each
check that may object. The documents of the workflow runs are one for each
outcome of the recommendation; the `agents` run has every combination of missing
fields and prices and totals on both sides of each bound.

**Fairness.** In `workflow`, weak fairness on the steps of each request that has
begun: an asyncio loop resumes every ready coroutine, a sleep ends, and the
model's client has a timeout. None on uploads, decisions, faults and crashes. In
`redis`, weak fairness on the steps of each consumer and on `NextRound`: the same
event loop, a block time on XREADGROUP, and the assumption that a call of Redis
ends, in an answer or an error (the client sets no timeout of its own); nobody has
to upload or decide. `UploadsComeToRest` speaks of a worker
that never dies, since the entries of a dead one are taken up by nobody. In
`outbox`, weak fairness on each publisher's steps (it polls on a timer and is
restarted by the compose file) and on uploads in progress; an update of a held
row waits for the holder's transaction; two publishers flush rows in one order,
the table's, so that they cannot wait for each other, and `OutboxDrains` would
find it if they did. In `clamd_scan`, weak fairness on the scan (connecting and
reading have a timeout), on the event loop's flushing, and on clamd's *reading*
(`ServedSpec`), not on its answering: without the last one a scan need not end. In
`extraction`, weak fairness on the one coroutine there is.

`CHECK_DEADLOCK FALSE` is set where the requests of an instance are finitely many
and the system is idle after them.

## Proofs

Every theorem holds for every value of the constants, from the named assumptions
of its module on them, and where the table says so from one more.

| Theorem | Statement | Carried by |
|---|---|---|
| `WorkflowEngineProofs` | | |
| `TypeCorrect` | `Spec => []TypeOK` | `TInv`: the types, plus that an upload is about its own invoice, a submitted approval about some invoice, and a sleeping task has a retry left |
| `CompletedOnlyIfPosted` | `Spec => []CompletedIsPosted` | `Ledger` |
| `PostedAtMostOncePerRun` | `Spec => []PostedOncePerRun` | `Ledger` |
| `NothingSilentlyDropped` | `Spec => []NoSilentDrop` | inductive with `TInv` |
| `CompletedIsNeverReposted` | `Spec => CompletedNeverReposts` | `Guarded` |
| `AutomaticPostingsAreClean` | `Spec => []AutoPostIsClean` | `Stage` |
| `DivergenceAlwaysPending` | `Spec => []DivergenceIsPending` | inductive with `TInv` |
| `PaymentsAreSafe` | `Spec => ImplementsPayments` | step simulation, with `Ledger` |
| `RequestsRunOut` | `Spec => EveryStepCounts` | `TInv`, `Stage` |
| `LifecycleIsSafe` | `MaxFaults = 0` and `MaxCrashes = 0` imply `Spec => Lifecycle!LSafe` | step simulation, with `Calm` |
| `RedisWorkerProofs` | | |
| `PostedOncePerLife` | `Spec => []DuplicatesPostOnce` | `Ledger` |
| `RedisTypeCorrect` | `Spec => []TypeOK` | `TInv`: the types, and `Sound` of each consumer |
| `NothingEverStalls` | `AllRead` implies `Spec => []NothingStalls` | `TInv`, `Vouched`, `Accounted` |
| `RedisPostingsAreClean` | `Spec => []AutoPostIsClean` | `TInv`, `Orderly` |
| `RedisPaymentsAreSafe` | `Spec => ImplementsPayments` | step simulation, with `Ledger`, `Backed` |
| `HandlingRunsOut` | `Spec => EveryStepCounts` | `TInv`, `Laddered` |
| `OutboxProofs` | | |
| `OutboxTypeCorrect` | `Spec => []TypeOK` | `IInv`: the types, `BatchInOrder`, `OnlyUploadsAreMarked` |
| `MarkedRowsWereSent` | `SharedBus` implies `Spec => []PublishedWasSent` | `MarksAreTrue` |
| `RepeatsAreBounded` | `Spec => []RedeliveryIsBounded` | `Account` |
| `DeliveryIsSafe` | `Spec => Delivery!DSafe` | step simulation, with `Committed` |
| `UploadGateProofs` | | |
| `GateTypeCorrect` | `Spec => []TypeOK` | `IInv`: the types, the validated settings, `Progress` and `Traces` of each request |
| `NothingUnscannedInProduction` | `Spec => []ProductionIsScanned` | `Progress` |
| `CommittedHasItsFile` | `Spec => []RowHasItsFile` | `Traces` |
| `UploadAnswersAreTrue` | `Spec => []AnswersAreTrue` | `Traces` |
| `ClamdScanProofs` | | |
| `ScanTypeCorrect` | `Spec => []TypeOK` | `IInv` with `Conserved` |
| `ScanFailsClosed` | `Spec => FailsClosed` | step simulation of `ScanPromise` |
| `ExtractionProofs` | | |
| `ExtractionTypeCorrect` | `Spec => []TypeOK` | `IInv` |
| `CostIsBounded` | `Spec => []CallsAreBounded` | `IInv`: `calls <= Before + Spent` |
| `RetriesAreSpent` | `Spec => []GivesUpOnlyWhenSpent` | `IInv` |
| `SchemaNeverRepeats` | `Spec => []SchemaIsSentOnce` | `IInv` |
| `StepsRunOut` | `Spec => EveryStepCounts` | `IInv` |
| `AgentPipelineProofs` | | |
| `DecisionsMeetThresholds` | `Spec => []DecisionMeetsThresholds` | `Computed` |
| `SuspicionHelpsNobody` | `Spec => []SuspicionNeverHelps` | `Computed`, `Judged` |

*The engine.* `Ledger` relates what the properties leave apart: a task about to
record a posting is about an invoice in the registry; an invoice in the registry,
or COMPLETED in either copy, is in the ERP's log; the log is no longer than the
crashes, plus one if the registry has the invoice. Neither `CompletedIsPosted` nor
`PostedOncePerRun` is inductive without it. `Guarded` says that an invoice that
memory calls COMPLETED while its upload is still going is in the registry, and
that an approval about to post has seen another status; a crash may bring
COMPLETED back with an empty registry, but then no upload of that invoice is left.
`Stage` says of each upload which results its checkpoint holds at the event it
handles, and that a recommendation in the checkpoint was computed from those
results; approvals rewrite the status and never the data, so it survives them.
`LifecycleIsSafe` is the safety half of the refinement (`LSafe` is `LSpec` without its
fairness). Without faults and crashes every action is one of a few kinds (`Passes`,
`Writes`, `Submits`, `PostsErp`, put together in `UploadKind`, `ApprovalKind`,
`CommonKind`), and each kind is a step of `InvoiceLifecycle` or shows nothing there.
That needs `Calm`: store and memory agree, one task has the loop, an upload that
still waits for the model has no checkpoint, and an invoice is in the registry
exactly when it is once in the log, and then COMPLETED or about to be. The
assumption is needed: a crash loses the registry, and an invoice is then paid twice.
Each step lemma says what a kind of step does to the state (`...Effect`,
`...Typed`), so that an invariant is proved per kind of step. `CheckpointProofs`
holds the lemmas both engines need: the types of the agents' results and the
posting's fields, and which results a checkpoint must hold at an event (`Reached`)
for the recommendation to approve only what is clean (`ApprovedIsClean`).

*The Redis worker.* `PostedOncePerLife` needs nothing about streams or stacks:
`StepKinds` reduces all actions to those that post, a death, and all others, and
`Ledger` bounds an invoice's log by the past lives of the worker plus one if the
registry has it. For the other two, every step of a handler and of the bus is
shown to be one kind of step, `Works(c)`: it may save a checkpoint (`Saves`), add
one entry (`Sends`), write a dead letter (`Buries`), and then either keeps its
entry in hand (`Holds`) or lets go of it (`Releases`) — and it lets go only of an
entry whose invoice has come to rest, is dead-lettered, or is in a stream again,
or whose handler found no checkpoint. That last case is excluded, in the first
life of the worker, by `Vouched`: whatever sends an event saved a checkpoint first,
memory never forgets one, and the web process accepts decisions only on what the
table holds. `Accounted` is then `NothingStalls` in terms of ranges of sequences.
`AllRead` (uploads are read, and every event is either dispatched locally or has
a reader) is an assumption because `Consumers` is a bound of the models: with
`Consumers = Events`, as in `worker.py`, it holds.

`RedisPostingsAreClean` is where the two buses differ. On the in-memory bus one
request owns the state data of its invoice, and `Stage` reads off its place which results are
there. Here several handlers of one invoice are under way, each copies the whole of
the state data into its save, and `handle_invoice_uploaded` starts it from nothing.
`Orderly` says, of an invoice whose upload was delivered at most once and as long as no
call has failed: its upload is in one place at most (`Todo`: the stream and the inbox of the
first consumer, but for an upload whose handler has gone on to the next event);
while it is there, or not yet added, no event of the chain is under way (`Under`: in
a stream, in a batch, in hand); and afterwards every event under way finds the
results it needs (`Reached`). A handler that runs a second time replaces a result by
that of the same agent on the same extraction, and since no handler but the first
removes one, `Reached` survives all overtaking. `Calm` excludes retries: without a
failing call no handler ever sleeps, waits in vain or is dead-lettered. A death
keeps it, because the store is then what memory was.

*Payments.* `PaymentPromise` is refined step by step by both engines. Revoking is the
common case: every save of a status other than COMPLETED is a step of `Revoke` or shows
nothing (`RewriteRevokes`, `ChainRevokes`). Only the actions that post or
record remain, `PostPays` and `SealRecords` on the in-memory bus and
`FinalizePays` on Redis. Recording without posting, which is what a duplicate
handling does, is allowed only of a paid invoice: that is `Ledger` in the first, and
in the second `Backed` (what is in the registry is in the ERP's log).

*Requests and entries end.* Liveness itself is out of the prover's reach, but the
half of it that is about the code is proved: `EveryStepCounts` gives a bounded
measure that every step lowers, so that what is left to fairness is only that a
step is taken. In `WorkflowEngine` and `Extraction` it is one number (`StepsLeft`):
events, attempts and places count like digits. In `RedisWorker` no such number of
reasonable size exists, because each retry of a handler dispatches all handlers
inside it anew, with budgets of their own. There `StepsLeft(r, e)` is what is left
at one event, and a step lowers it at some event while it leaves alone those before
it in the chain: a descent in the lexicographic order of seven bounded numbers, which cannot
go on for ever. What makes it one is `Laddered`: a handler
in progress is further along the chain than those it is nested in, so no event is on
a stack twice and a handler that waits keeps its attempt. `StepsLeftAt` and
`StepsLeftSame` reduce what is left at an event to its position on the stack, and
`WorkStays` shows every action of a handler or the bus to be a return or one of four
kinds of step (`Begins`, `Shifts`, `Wakes`, `Breaks`).

*The outbox.* `RedeliveryIsBounded` is no invariant of single steps. `Account` adds
to the number of times a row was sent the number of publishers that may still
send it (`Senders`: it is in their batch, or they could read it, and they have not
sent it since) and one for an upload that has not published: that sum never exceeds
one plus the publishers plus the faults. Sending uses up one of these, unless its answer
is lost, and only a rollback gives one back; each of the two costs a fault. `BatchInOrder` says that a publisher
holds no row it has yet to come to. `DeliveryIsSafe` maps each step to a step of
`EventDelivery` or to none; `Committed` says that the event of an
upload is in the table exactly when the upload has left `new`, and that a publisher
reads only rows of the table.

*The gate, the scan, the extraction, the agents.* `Progress` and `Traces` say what
a request has behind it and what it has left, by its place. `Conserved` counts the
messages of a file, each in one place: so clamd has the terminator only after all
chunks, and an OK means the whole file. In `Extraction`, `Before` are the requests of past
dispatches, `Spent` those of this one, by place. `Computed` says that the results in
`data` are those of the agents on the answer, and the arithmetic of the decision
(`MathBound`, `PriceBound`) is stated apart.

Only model-checked: liveness (`UploadSettles`, `DecisionSettles`, `OutboxDrains`,
`UploadsComeToRest`, `StreamsEmpty`, `EndsWhenServed`, `ExtractionEnds`), of which
the measures above are the part without fairness, and the fairness halves of the
refinements `ImplementsLifecycle` and `DeliversAtLeastOnce`, whose safety halves are
`LifecycleIsSafe` and `DeliveryIsSafe`. Liveness under fairness is out of the proof system's reach.

## Where the code and its text disagree

Each of these is a run that ends in a counterexample:

* `SaveIsDurable` — a failed write of COMPLETED leaves it in memory; the retried
  approval takes it for a duplicate and returns. Nothing is dead-lettered and the
  row keeps the older status (`workflow_engine.py:124`, `:348`).
* `AutoPostingsAreValidated` — XADD of InvoiceParsed takes effect, its answer is
  lost, `handle_invoice_uploaded` records FAILED and forgets the data, the entry
  is read, and from there on the agents read defaults: the invoice is approved
  and posted without having been validated.
* `CommittedIsSent` — with `EVENT_BUS_TYPE=memory`, the default, the publisher's bus
  has no subscriber: the process of an upload dies between its commit and its
  publication, a publisher marks the row published, and no handler ever sees the
  event (`outbox_worker.py:59`).

Read in the code and not put into a run:

* An upload that broke off between its publication and its mark is published again
  by the outbox; `handle_invoice_uploaded` starts the chain whatever the checkpoint
  says, and an invoice a human has rejected is recommended anew and possibly posted
  (`workflow_engine.py:164`). `redis_redelivery` has such deliveries; what holds of
  them is that they post nothing twice.
* A crash between posting and record lets the next approval post again; the
  registry is process memory (`tools/impl.py:179`). The models contain it: that is
  the `+ crashes` in `PostedOncePerRun` and the `+ deaths` in `DuplicatesPostOnce`.
* Approving a FAILED invoice posts 350.00 to `sup-001`: its state data was replaced
  by the error (`workflow_engine.py:202`, `:375`), and the endpoint accepts a
  decision at any status.
* In the Redis topology the approval endpoint answers 404 for an invoice that began
  to wait after the web process loaded the table (`api/deps.py:23`); the model
  carries the stale copy in `web`.
* `python -m src.outbox_worker` evaluates `install_signal_handlers()` before
  `asyncio.run` has a loop, and exits (`outbox_worker.py:109`); `LoopRunning` is the
  start that works.
* `drain()` and `wait_closed()` have no timeout: a clamd that accepts a connection
  and stops reading keeps the scan and the upload waiting
  (`virus_scanner.py:51`, `:60`). Hence the fairness of `Take` in `ServedSpec`.
* `is_valid` leaves out `vat_correct` (`validation_agent.py:49`,
  `schemas/validation.py:18`); no agent ever sets `is_duplicate`, and nothing calls
  `find_duplicate`.
* The decision matrix of the prompt (`templates.py:52-55`) is not the code's. The
  matrix rejects HIGH and CRITICAL risk; the code sends HIGH to a human and rejects
  only CRITICAL, which the lookup never returns (`recommendation_agent.py:46`). The
  matrix sends price variances of 10 to 30% to a human; the code approves up to and
  including 15% (`pricing_agent.py:46`) and sends everything above to a human, above
  30% too. The prompt is never sent: the agent decides without the model.
  `DecisionMeetsThresholds` states the code's thresholds and not the matrix.
* A file that is there and cannot be parsed is no error: its text is the error
  message, and the model is asked about that (`pdf_parser.py`).
* A handler asleep before its retry overwrites a rejection submitted meanwhile:
  no handler of the chain looks at the status. `InvoiceLifecycle` does not exclude it, as
  its run has no faults.
* After a restart nobody publishes the event a loaded checkpoint stopped at
  (`workflow_engine.py:41`, `:58`); a worker never takes up entries delivered to
  its predecessor (`event_bus.py:184`).
* With local dispatch every event of the chain is handled at once and again from
  its stream, and every handling publishes its successors anew, so that one upload ends in many
  handlings of the late stages. Statuses move back for a while (COMPLETED to
  VALIDATED), and FAILED may be recorded over an invoice already posted. The
  registry keeps the postings at one, and `UploadsComeToRest` says the repetition ends.
* Rows that can never be published stay at the head of every poll; as many as
  `OUTBOX_PUBLISHER_LIMIT` starve the others (`outbox_repository.py:24`).

## What is not modelled

* What has no state the workflow depends on: the text extraction libraries,
  prompts, embeddings, the health probe, telemetry, the router, the read-only
  queries, the migrations. Issuing tokens and hashing passwords are library calls
  no endpoint makes; verifying a token is in `UploadGate` as far as its outcome goes.
* The audit table is read by an endpoint and written by nothing.
* Currency conversion, e-mail and audit tools are not on the workflow's path.
* Of `Settings` the checks for production and the values an upload depends on; the
  rest are constants of the modules. `.env` parsing is pydantic's.
* In `RedisWorker` the acknowledgement is part of the handler's return and the
  process dies only in waits; a death between a posting and its record is in
  `WorkflowEngine`. Several worker processes (the default consumer name is one for
  all) are not modelled.
* In `Outbox` the mark of an upload or publisher waits for a held row forever
  rather than for the database's lock timeout.
* litellm's own `num_retries` is inside one request of `Extraction`.
* `ClamdScan` assumes of clamd that no signature has a name that begins with OK:
  `scan_bytes` looks for ": OK" before it looks for FOUND (`virus_scanner.py:65`), and
  would take such a verdict for a clean one.

## Plan

Done, in this order: agents and pipeline; engine on the in-memory bus with its
abstract lifecycle; proofs of its safety; outbox and its abstract delivery; Redis
worker and its postings; scan, upload gate and extraction with their proofs; the
outbox's safety proved and its memory configuration; the worker's fairness,
liveness, types and `NothingStalls`; the agents' decisions proved for all documents;
the safety halves of both refinements of the first modules as step simulations;
`PaymentPromise`, implemented on both buses; what the Redis worker posts by itself;
the measures by which requests, entries and extractions end.

Next:

1. Measures for `Outbox` and `ClamdScan`, where a poll and a chunk of data may come
   again and a bounded number needs the faults in it.
2. `RedisWorker` with two worker processes in one group, and the outbox as the
   source of its uploads.
3. The database's lock timeout in `Outbox`.
