------------------------------- MODULE Outbox -------------------------------
(***************************************************************************)
(* The transactional outbox: the upload endpoint                           *)
(* (src/src/api/v1/endpoints/invoices.py) stores an InvoiceUploaded event  *)
(* with the invoice and then publishes it itself, while publisher          *)
(* processes (src/src/outbox_worker.py, src/src/events/outbox_publisher.py) *)
(* poll the table outbox_events and publish what is not marked published.  *)
(* They share the table and, when the bus is Redis, the stream; with the   *)
(* in-memory bus of the default settings, only the table.                  *)
(*                                                                         *)
(* A transaction sees what is committed when it reads.  A flushed update   *)
(* holds its row until the transaction ends, and an update of a row held   *)
(* by another transaction waits.  A row's `attempts' and `last_error' are  *)
(* written and never read, so that marking a row as failed changes nothing *)
(* here but takes the row.                                                 *)
(***************************************************************************)
EXTENDS Integers, Sequences, SequencesExt

CONSTANTS
    Uploads,      \* upload requests, each with the one event it enqueues
    Foreign,      \* rows of an event type EVENT_MODELS does not know
    Publishers,   \* publisher processes
    NoRecord,     \* stands for no row
    Limit,        \* settings.OUTBOX_PUBLISHER_LIMIT
    LoopRunning,  \* run_outbox_worker is started from inside an event loop
    SharedBus,    \* settings.EVENT_BUS_TYPE is "redis"
    MaxFaults     \* bound on failed publications and broken-off transactions

ASSUME OutboxAssumption ==
    /\ Uploads \cap Foreign = {}
    /\ Publishers \cap Uploads = {}
    /\ IsFiniteSet(Foreign) /\ IsFiniteSet(Publishers)
    /\ NoRecord \notin Uploads \cup Foreign
    /\ Limit \in Nat \ {0}
    /\ {LoopRunning, SharedBus} \subseteq BOOLEAN
    /\ MaxFaults \in Nat

VARIABLES
    rows,        \* the committed table, oldest row first
    published,   \* rows whose published_at is committed
    stream,      \* how often each event has reached the handlers' bus
    at,          \* where each actor is
    batch,       \* rows a publisher has read and not yet come to
    record,      \* the row it has come to
    txn,         \* rows an actor has updated and not committed, with their mark
    faults

reading == <<batch, record>>
vars == <<rows, published, stream, at, reading, txn, faults>>

Records == Uploads \cup Foreign
Actors == Uploads \cup Publishers

\* An upload enqueues, publishes, marks, commits; a publisher is off until
\* its process runs the polling loop, then idle between two polls.
UploadPlaces == {"new", "publish", "mark", "commit", "done", "gone"}
PublisherPlaces == {"off", "idle", "publish", "mark", "fail", "commit"}

NoUpdates == [r \in Records |-> "none"]

Init ==
    /\ rows \in SetToSeqs(Foreign)
    /\ published = {}
    /\ stream = [r \in Records |-> 0]
    /\ at = [a \in Actors |-> IF a \in Uploads THEN "new" ELSE "off"]
    /\ batch = [p \in Publishers |-> {}]
    /\ record = [p \in Publishers |-> NoRecord]
    /\ txn = [a \in Actors |-> NoUpdates]
    /\ faults = 0

-----------------------------------------------------------------------------
Goto(a, place) == at' = [at EXCEPT ![a] = place]

Fault == faults < MaxFaults /\ faults' = faults + 1

\* No other transaction holds row r.
Free(a, r) == \A b \in Actors \ {a} : txn[b][r] = "none"

\* The row an actor is about.
Current(a) == IF a \in Uploads THEN a ELSE record[a]

\* The flush of mark_published or mark_failed.
Flush(a, mark) ==
    /\ Free(a, Current(a))
    /\ txn' = [txn EXCEPT ![a][Current(a)] = mark]

MarkedPublished(a) == {r \in Records : txn[a][r] = "published"}

-----------------------------------------------------------------------------
(* upload_invoice.                                                         *)

\* The invoice and its outbox row are committed together.
CommitUpload(u) ==
    /\ at[u] = "new"
    /\ rows' = Append(rows, u)
    /\ Goto(u, "publish")
    /\ UNCHANGED <<published, stream, reading, txn, faults>>

\* The stream after event r has been added to it.
Sent(r) == [stream EXCEPT ![r] = @ + 1]

\* publish raises: XADD is refused, or it takes effect and its answer is lost.
\* The publish of the in-memory bus catches what its handlers raise.
Refused(r) ==
    /\ SharedBus
    /\ Fault
    /\ stream' \in {stream, Sent(r)}

\* An upload whose publication raises answers with an error, its row stays
\* pending.
PublishUpload(u) ==
    /\ at[u] = "publish"
    /\ \/ /\ stream' = Sent(u)
          /\ Goto(u, "mark")
          /\ UNCHANGED faults
       \/ /\ Refused(u)
          /\ Goto(u, "gone")
    /\ UNCHANGED <<rows, published, reading, txn>>

MarkUpload(u) ==
    /\ at[u] = "mark"
    /\ Flush(u, "published")
    /\ Goto(u, "commit")
    /\ UNCHANGED <<rows, published, stream, reading, faults>>

CommitMark(u) ==
    /\ at[u] = "commit"
    /\ published' = published \cup MarkedPublished(u)
    /\ txn' = [txn EXCEPT ![u] = NoUpdates]
    /\ Goto(u, "done")
    /\ UNCHANGED <<rows, stream, reading, faults>>

\* The request dies with its process, or the database fails it.
LoseUpload(u) ==
    /\ at[u] \in {"publish", "mark", "commit"}
    /\ Fault
    /\ Goto(u, "gone")
    /\ txn' = [txn EXCEPT ![u] = NoUpdates]
    /\ UNCHANGED <<rows, published, stream, reading>>

-----------------------------------------------------------------------------
(* A publisher process.                                                    *)

\* `python -m src.outbox_worker' evaluates install_signal_handlers() before
\* asyncio.run starts a loop: get_running_loop raises, the process exits, and
\* its restart fares no better.
StartPublisher(p) ==
    /\ at[p] = "off"
    /\ LoopRunning
    /\ Goto(p, "idle")
    /\ UNCHANGED <<rows, published, stream, reading, txn, faults>>

Stored == {rows[k] : k \in DOMAIN rows}

Pending == Stored \ published

Older(q, r) == \E j, k \in DOMAIN rows : j < k /\ rows[j] = q /\ rows[k] = r

\* The n oldest of some rows.
First(n, records) ==
    {r \in records : Cardinality({q \in records : Older(q, r)}) < n}

\* Faulty variant: the poll forgets the condition on published_at.
PollAll(p) ==
    /\ at[p] = "idle"
    /\ rows # <<>>
    /\ batch' = [batch EXCEPT ![p] = First(Limit, Stored)]
    /\ Goto(p, "publish")
    /\ UNCHANGED <<rows, published, stream, record, txn, faults>>

\* Faulty variant: one row less than the limit.
PollOneShort(p) ==
    /\ at[p] = "idle"
    /\ First(Limit - 1, Pending) # {}
    /\ batch' = [batch EXCEPT ![p] = First(Limit - 1, Pending)]
    /\ Goto(p, "publish")
    /\ UNCHANGED <<rows, published, stream, record, txn, faults>>

\* One iteration reads a batch with get_pending(limit), when there is something
\* to publish.
Poll(p) ==
    /\ at[p] = "idle"
    /\ First(Limit, Pending) # {}
    /\ batch' = [batch EXCEPT ![p] = First(Limit, Pending)]
    /\ Goto(p, "publish")
    /\ UNCHANGED <<rows, published, stream, record, txn, faults>>

\* The loop comes to the oldest row left in the batch.
Turn(p, r) ==
    /\ at[p] = "publish"
    /\ r \in First(1, batch[p])
    /\ batch' = [batch EXCEPT ![p] = @ \ {r}]
    /\ record' = [record EXCEPT ![p] = r]

\* It is published whatever became of it since the poll.  An in-memory bus is the
\* publisher's own: nobody has subscribed to it, and publish returns as if all
\* were well.
PublishRecord(p) ==
    /\ \E r \in Uploads :
          /\ Turn(p, r)
          /\ \/ /\ stream' = IF SharedBus THEN Sent(r) ELSE stream
                /\ Goto(p, "mark")
                /\ UNCHANGED faults
             \/ /\ Refused(r)
                /\ Goto(p, "fail")
    /\ UNCHANGED <<rows, published, txn>>

RefuseForeign(p) ==
    /\ \E r \in Foreign : Turn(p, r)
    /\ Goto(p, "fail")
    /\ UNCHANGED <<rows, published, stream, txn, faults>>

\* Faulty variant: a refused record is marked published like the others.
MarkAlways(p) ==
    /\ at[p] \in {"mark", "fail"}
    /\ Flush(p, "published")
    /\ record' = [record EXCEPT ![p] = NoRecord]
    /\ Goto(p, IF batch[p] = {} THEN "commit" ELSE "publish")
    /\ UNCHANGED <<rows, published, stream, batch, faults>>

Mark(p) ==
    /\ at[p] \in {"mark", "fail"}
    /\ Flush(p, IF at[p] = "mark" THEN "published" ELSE "failed")
    /\ record' = [record EXCEPT ![p] = NoRecord]
    /\ Goto(p, IF batch[p] = {} THEN "commit" ELSE "publish")
    /\ UNCHANGED <<rows, published, stream, batch, faults>>

\* The whole batch is committed at once.
CommitBatch(p) ==
    /\ at[p] = "commit"
    /\ published' = published \cup MarkedPublished(p)
    /\ txn' = [txn EXCEPT ![p] = NoUpdates]
    /\ Goto(p, "idle")
    /\ UNCHANGED <<rows, stream, reading, faults>>

\* SIGTERM between two iterations ends the loop; the process is restarted.
StopPublisher(p) ==
    /\ at[p] = "idle"
    /\ Fault
    /\ Goto(p, "off")
    /\ UNCHANGED <<rows, published, stream, reading, txn>>

\* The iteration raises and is rolled back, or the process is killed: the
\* marks of the batch are lost, its publications are not.
LoseBatch(p) ==
    /\ at[p] \in {"publish", "mark", "fail", "commit"}
    /\ Fault
    /\ \E place \in {"idle", "off"} : Goto(p, place)
    /\ batch' = [batch EXCEPT ![p] = {}]
    /\ record' = [record EXCEPT ![p] = NoRecord]
    /\ txn' = [txn EXCEPT ![p] = NoUpdates]
    /\ UNCHANGED <<rows, published, stream>>

-----------------------------------------------------------------------------
UploadStep(u) == PublishUpload(u) \/ MarkUpload(u) \/ CommitMark(u)

PublisherStep(p) ==
    \/ StartPublisher(p) \/ Poll(p) \/ PublishRecord(p) \/ RefuseForeign(p)
    \/ Mark(p) \/ CommitBatch(p)

Next ==
    \/ \E u \in Uploads : CommitUpload(u) \/ UploadStep(u) \/ LoseUpload(u)
    \/ \E p \in Publishers : PublisherStep(p) \/ StopPublisher(p) \/ LoseBatch(p)

Spec == Init /\ [][Next]_vars

\* Requests in progress go on, and a publisher polls at every interval.
FairSpec ==
    /\ Spec
    /\ \A u \in Uploads : WF_vars(UploadStep(u))
    /\ \A p \in Publishers : WF_vars(PublisherStep(p))

-----------------------------------------------------------------------------
TypeOK ==
    /\ rows \in Seq(Records)
    /\ published \subseteq Uploads
    /\ stream \in [Records -> Nat]
    /\ at \in [Actors -> UploadPlaces \cup PublisherPlaces]
    /\ \A u \in Uploads : at[u] \in UploadPlaces
    /\ \A p \in Publishers : at[p] \in PublisherPlaces
    /\ batch \in [Publishers -> SUBSET Records]
    /\ record \in [Publishers -> Records \cup {NoRecord}]
    /\ txn \in [Actors -> [Records -> {"none", "failed", "published"}]]
    /\ faults \in 0 .. MaxFaults

(***************************************************************************)
(* A row marked published, committed or not, is in the stream: no order of *)
(* publish, flush, commit, rollback and crash marks an event that was not  *)
(* sent.                                                                   *)
(***************************************************************************)
PublishedWasSent ==
    \A r \in published \cup UNION {MarkedPublished(a) : a \in Actors} :
        stream[r] > 0

(***************************************************************************)
(* An event is sent once by its upload, once by each publisher that read   *)
(* it before it was marked, and once more for every sending whose answer   *)
(* was lost and every batch broken off between sending and commit; nothing *)
(* else repeats it.                                                        *)
(***************************************************************************)
RedeliveryIsBounded ==
    \A r \in Records : stream[r] <= 1 + Cardinality(Publishers) + faults

Delivery == INSTANCE EventDelivery WITH
    Events <- Uploads,
    committed <- Stored \cap Uploads,
    delivered <- {u \in Uploads : stream[u] > 0}

(***************************************************************************)
(* The outbox delivers at least once every event that was committed,       *)
(* through refusals, rollbacks and crashes of uploads and publishers.      *)
(***************************************************************************)
DeliversAtLeastOnce == Delivery!DSpec

(***************************************************************************)
(* Every row of a known type is in the end marked published, so that it    *)
(* is not sent forever.                                                    *)
(***************************************************************************)
OutboxDrains ==
    \A u \in Uploads : u \in Stored ~> u \in published

(***************************************************************************)
(* outbox_worker.py:3-6: the worker "Drains the durable `outbox_events`    *)
(* table and publishes pending records", so that "database writes and      *)
(* event publication are never inconsistent": what is committed is sent.   *)
(* It fails for the worker started as a module, and for a worker whose bus *)
(* is the in-memory one.                                                   *)
(***************************************************************************)
CommittedIsSent ==
    \A u \in Uploads : u \in Stored ~> stream[u] > 0
=============================================================================
