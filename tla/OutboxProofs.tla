---------------------------- MODULE OutboxProofs ----------------------------
(***************************************************************************)
(* The safety of the outbox, for any number of uploads, rows of unknown    *)
(* type, publishers, faults and any batch limit.                           *)
(*                                                                         *)
(* That repeats are bounded needs an account of who may still send a row:  *)
(* its own upload, while it has not come to its publication, and each      *)
(* publisher that has it in its batch or could still read it, until that   *)
(* publisher has sent it.  Sending a row uses up one of these; a rollback  *)
(* gives one back and a lost answer uses none up, and both cost a fault.   *)
(***************************************************************************)
EXTENDS Outbox, FiniteSetTheorems, TLAPS

\* What the loop over a batch relies on: the row it has come to is no longer in
\* the batch, it holds no row it has yet to come to, and none between two polls.
BatchInOrder(p) ==
    /\ at[p] \in {"mark", "fail"} =>
          /\ record[p] \in Records \ batch[p]
          /\ txn[p][record[p]] = "none"
    /\ at[p] = "mark" => record[p] \in Uploads
    /\ \A r \in batch[p] : txn[p][r] = "none"
    /\ at[p] \in {"off", "idle"} => txn[p] = NoUpdates

OnlyUploadsAreMarked ==
    \A a \in Actors : \A r \in Records :
        txn[a][r] = "published" => r \in Uploads

IInv ==
    /\ TypeOK
    /\ OnlyUploadsAreMarked
    /\ \A p \in Publishers : BatchInOrder(p)

-----------------------------------------------------------------------------
LEMMA OutboxInit == Init => IInv
<1> SUFFICES ASSUME Init PROVE IInv
  OBVIOUS
<1>1. rows \in Seq(Records)
  <2>1. Cardinality(Foreign) \in Nat
    BY FS_CardinalityType, OutboxAssumption
  <2>2. rows \in [1 .. Cardinality(Foreign) -> Foreign]
    BY DEF Init, SetToSeqs
  <2> DEFINE n == Cardinality(Foreign)
  <2>3. n \in Nat /\ rows \in [1 .. n -> Records]
    BY <2>1, <2>2 DEF Records
  <2> HIDE DEF n
  <2> QED
    BY <2>3
<1>2. TypeOK
  BY <1>1, OutboxAssumption
     DEF Init, TypeOK, UploadPlaces, PublisherPlaces, NoUpdates, Actors
<1>3. OnlyUploadsAreMarked
  BY DEF Init, OnlyUploadsAreMarked, NoUpdates
<1>4. ASSUME NEW p \in Publishers PROVE BatchInOrder(p)
  BY OutboxAssumption DEF Init, BatchInOrder, Actors
<1> QED
  BY <1>2, <1>3, <1>4 DEF IInv

\* A poll reads rows that are in the table.
LEMMA FirstIsSubset == \A n, records : First(n, records) \subseteq records
  BY DEF First

LEMMA StoredAreRecords == ASSUME rows \in Seq(Records) PROVE Stored \subseteq Records
  BY DEF Stored

\* The two kinds of actor are told apart by their names.
LEMMA Currents ==
    /\ \A u \in Uploads : u \in Actors /\ u \in Records /\ Current(u) = u
    /\ \A p \in Publishers : p \in Actors /\ p \notin Uploads /\ Current(p) = record[p]
  BY OutboxAssumption DEF Actors, Records, Current

-----------------------------------------------------------------------------
\* An upload touches no publisher.
LEMMA UploadAlone ==
    ASSUME TypeOK, NEW u \in Uploads,
           CommitUpload(u) \/ UploadStep(u) \/ LoseUpload(u)
    PROVE  \A p \in Publishers :
               /\ at'[p] = at[p] /\ txn'[p] = txn[p]
               /\ batch'[p] = batch[p] /\ record'[p] = record[p]
<1>1. \E place : at' = [at EXCEPT ![u] = place]
  BY DEF CommitUpload, UploadStep, PublishUpload, MarkUpload, CommitMark,
         LoseUpload, Goto
<1>2. \E updates : txn' = [txn EXCEPT ![u] = updates] \/ txn' = txn
  BY DEF CommitUpload, UploadStep, PublishUpload, MarkUpload, CommitMark,
         LoseUpload, Flush
<1>3. UNCHANGED reading
  BY DEF CommitUpload, UploadStep, PublishUpload, MarkUpload, CommitMark,
         LoseUpload
<1> QED
  BY <1>1, <1>2, <1>3, Currents DEF TypeOK, reading

\* The uploads keep the invariant: they touch no publisher.
LEMMA UploadKeeps ==
    ASSUME IInv, NEW u \in Uploads,
           CommitUpload(u) \/ UploadStep(u) \/ LoseUpload(u)
    PROVE  IInv'
<1> USE DEF IInv
<1>1. u \in Actors /\ u \in Records /\ Current(u) = u /\ u \notin Publishers
  BY Currents
<1>2. UNCHANGED reading
  BY DEF CommitUpload, UploadStep, PublishUpload, MarkUpload, CommitMark,
         LoseUpload
<1>3. \A p \in Publishers : at'[p] = at[p] /\ txn'[p] = txn[p]
  BY UploadAlone
<1>4. \A p \in Publishers : BatchInOrder(p)'
  BY <1>2, <1>3 DEF BatchInOrder, reading
<1>5. TypeOK' /\ OnlyUploadsAreMarked'
  <2>1. CASE CommitUpload(u)
    <3>1. rows' \in Seq(Records)
      BY <1>1, <2>1 DEF CommitUpload, TypeOK
    <3> QED
      BY <1>1, <1>2, <1>3, <2>1, <3>1
         DEF CommitUpload, TypeOK, Goto, UploadPlaces, reading,
             OnlyUploadsAreMarked
  <2>2. CASE PublishUpload(u)
    <3>0. /\ stream' = [stream EXCEPT ![u] = @ + 1] \/ stream' = stream
          /\ faults' = faults \/ (faults < MaxFaults /\ faults' = faults + 1)
          /\ at' = [at EXCEPT ![u] = "mark"] \/ at' = [at EXCEPT ![u] = "gone"]
      BY <2>2 DEF PublishUpload, Refused, Sent, Goto, Fault
    <3>1. stream' \in [Records -> Nat] /\ faults' \in 0 .. MaxFaults
      <4>1. stream \in [Records -> Nat] /\ faults \in 0 .. MaxFaults
        BY DEF TypeOK
      <4>2. stream' \in [Records -> Nat]
        BY <1>1, <3>0, <4>1
      <4> QED
        BY <3>0, <4>1, <4>2, OutboxAssumption
    <3>2. /\ at' \in [Actors -> UploadPlaces \cup PublisherPlaces]
          /\ at'[u] \in UploadPlaces
      BY <1>1, <3>0 DEF TypeOK, UploadPlaces
    <3>3. \A v \in Uploads : at'[v] \in UploadPlaces
      BY <3>0, <3>2, Currents DEF TypeOK
    <3> QED
      BY <1>2, <1>3, <2>2, <3>1, <3>2, <3>3
         DEF PublishUpload, TypeOK, reading, OnlyUploadsAreMarked
  <2>3. CASE MarkUpload(u)
    BY <1>1, <1>2, <2>3
       DEF MarkUpload, TypeOK, Goto, Flush, UploadPlaces, reading,
           OnlyUploadsAreMarked
  <2>4. CASE CommitMark(u)
    BY <1>1, <1>2, <2>4
       DEF CommitMark, TypeOK, Goto, UploadPlaces, reading, NoUpdates,
           OnlyUploadsAreMarked, MarkedPublished
  <2>5. CASE LoseUpload(u)
    BY <1>1, <1>2, <2>5, OutboxAssumption
       DEF LoseUpload, TypeOK, Goto, Fault, UploadPlaces, reading, NoUpdates,
           OnlyUploadsAreMarked
  <2> QED
    BY <2>1, <2>2, <2>3, <2>4, <2>5 DEF UploadStep
<1> QED
  BY <1>4, <1>5

\* A publisher comes to a row of its batch that it does not hold.
LEMMA TurnTakes ==
    ASSUME TypeOK, NEW p \in Publishers, BatchInOrder(p),
           NEW r, Turn(p, r)
    PROVE  /\ r \in batch[p] /\ r \in Records /\ txn[p][r] = "none"
           /\ batch' = [batch EXCEPT ![p] = @ \ {r}]
           /\ batch'[p] = batch[p] \ {r}
           /\ record' = [record EXCEPT ![p] = r]
           /\ record'[p] = r
           /\ at[p] = "publish"
  BY FirstIsSubset DEF TypeOK, BatchInOrder, Turn

\* A publisher touches no other actor.
LEMMA PublisherAlone ==
    ASSUME TypeOK, NEW p \in Publishers,
           PublisherStep(p) \/ StopPublisher(p) \/ LoseBatch(p)
    PROVE  /\ \A q \in Publishers \ {p} :
                 /\ at'[q] = at[q] /\ txn'[q] = txn[q]
                 /\ batch'[q] = batch[q] /\ record'[q] = record[q]
           /\ \A u \in Uploads : at'[u] = at[u] /\ txn'[u] = txn[u]
<1>1. \E place : at' = [at EXCEPT ![p] = place]
  BY DEF PublisherStep, StartPublisher, Poll, PublishRecord, RefuseForeign,
         Mark, CommitBatch, StopPublisher, LoseBatch, Goto
<1>2. \E updates : txn' = [txn EXCEPT ![p] = updates] \/ txn' = txn
  BY DEF PublisherStep, StartPublisher, Poll, PublishRecord, RefuseForeign,
         Mark, CommitBatch, StopPublisher, LoseBatch, Flush
<1>3. \E left : batch' = [batch EXCEPT ![p] = left] \/ batch' = batch
  BY DEF PublisherStep, StartPublisher, Poll, PublishRecord, RefuseForeign,
         Turn, Mark, CommitBatch, StopPublisher, LoseBatch, reading
<1>4. \E r : record' = [record EXCEPT ![p] = r] \/ record' = record
  BY DEF PublisherStep, StartPublisher, Poll, PublishRecord, RefuseForeign,
         Turn, Mark, CommitBatch, StopPublisher, LoseBatch, reading
<1> QED
  BY <1>1, <1>2, <1>3, <1>4, Currents DEF TypeOK

LEMMA PublisherKeeps ==
    ASSUME IInv, NEW p \in Publishers,
           PublisherStep(p) \/ StopPublisher(p) \/ LoseBatch(p)
    PROVE  IInv'
<1> USE DEF IInv
<1>1. p \in Actors /\ p \notin Uploads /\ Current(p) = record[p]
  BY Currents
<1>2. BatchInOrder(p)
  OBVIOUS
<1>3. \A q \in Publishers \ {p} :
        /\ at'[q] = at[q] /\ txn'[q] = txn[q]
        /\ batch'[q] = batch[q] /\ record'[q] = record[q]
  BY PublisherAlone
<1>4. \A q \in Publishers \ {p} : BatchInOrder(q)'
  BY <1>3 DEF BatchInOrder
<1>5. \A u \in Uploads : at'[u] = at[u]
  BY PublisherAlone
<1>6. TypeOK' /\ OnlyUploadsAreMarked' /\ BatchInOrder(p)'
  <2>1. CASE StartPublisher(p)
    BY <1>1, <1>2, <1>5, <2>1
       DEF StartPublisher, TypeOK, Goto, PublisherPlaces, reading,
           OnlyUploadsAreMarked, BatchInOrder
  <2>2. CASE Poll(p)
    <3>1. First(Limit, Pending) \subseteq Records
      BY FirstIsSubset, StoredAreRecords DEF Pending, TypeOK
    <3>2. batch' \in [Publishers -> SUBSET Records]
      BY <2>2, <3>1 DEF Poll, TypeOK
    <3>3. at' = [at EXCEPT ![p] = "publish"]
      BY <2>2 DEF Poll, Goto
    <3>4. txn'[p] = NoUpdates
      BY <1>2, <2>2 DEF Poll, BatchInOrder
    <3>5. BatchInOrder(p)'
      BY <1>1, <3>2, <3>3, <3>4 DEF BatchInOrder, NoUpdates, TypeOK
    <3> QED
      BY <1>1, <1>5, <2>2, <3>2, <3>3, <3>5
         DEF Poll, TypeOK, PublisherPlaces, OnlyUploadsAreMarked
  <2>3. CASE PublishRecord(p)
    <3>1. PICK r \in Uploads :
             /\ Turn(p, r)
             /\ stream' \in {stream, [stream EXCEPT ![r] = @ + 1]}
             /\ \/ Goto(p, "mark") /\ UNCHANGED faults
                \/ Fault /\ Goto(p, "fail")
      BY <2>3 DEF PublishRecord, Refused, Sent
    <3>2. /\ r \in batch[p] /\ r \in Records /\ txn[p][r] = "none"
          /\ batch' = [batch EXCEPT ![p] = @ \ {r}]
          /\ batch'[p] = batch[p] \ {r}
          /\ record' = [record EXCEPT ![p] = r]
          /\ record'[p] = r
      BY <1>2, <3>1, TurnTakes
    <3>3. UNCHANGED <<rows, published, txn>>
      BY <2>3 DEF PublishRecord
    <3>4. stream' \in [Records -> Nat] /\ faults' \in 0 .. MaxFaults
      <4>1. stream \in [Records -> Nat] /\ faults \in 0 .. MaxFaults
        BY DEF TypeOK
      <4>2. stream' \in [Records -> Nat]
        BY <3>1, <3>2, <4>1
      <4>3. faults' \in 0 .. MaxFaults
        BY <3>1, <4>1, OutboxAssumption DEF Fault
      <4> QED
        BY <4>2, <4>3
    <3>5. at' = [at EXCEPT ![p] = "mark"] \/ at' = [at EXCEPT ![p] = "fail"]
      BY <3>1 DEF Goto
    <3>6. TypeOK'
      <4>1. /\ batch' \in [Publishers -> SUBSET Records]
            /\ record' \in [Publishers -> Records \cup {NoRecord}]
        BY <3>2 DEF TypeOK
      <4>2. /\ at' \in [Actors -> UploadPlaces \cup PublisherPlaces]
            /\ at'[p] \in PublisherPlaces
        BY <1>1, <3>5 DEF TypeOK, PublisherPlaces
      <4> QED
        BY <1>3, <1>5, <3>3, <3>4, <4>1, <4>2 DEF TypeOK
    <3> QED
      BY <1>1, <1>2, <3>1, <3>2, <3>3, <3>5, <3>6
         DEF BatchInOrder, OnlyUploadsAreMarked, TypeOK
  <2>4. CASE RefuseForeign(p)
    <3>1. PICK r \in Foreign : Turn(p, r)
      BY <2>4 DEF RefuseForeign
    <3>2. /\ r \in batch[p] /\ r \in Records /\ txn[p][r] = "none"
          /\ batch' = [batch EXCEPT ![p] = @ \ {r}]
          /\ batch'[p] = batch[p] \ {r}
          /\ record' = [record EXCEPT ![p] = r]
          /\ record'[p] = r
      BY <1>2, <3>1, TurnTakes
    <3>3. /\ UNCHANGED <<rows, published, stream, txn, faults>>
          /\ at' = [at EXCEPT ![p] = "fail"]
      BY <2>4 DEF RefuseForeign, Goto
    <3>4. TypeOK'
      BY <1>1, <1>5, <3>2, <3>3 DEF TypeOK, PublisherPlaces
    <3> QED
      BY <1>1, <1>2, <3>2, <3>3, <3>4
         DEF BatchInOrder, OnlyUploadsAreMarked, TypeOK
  <2>5. CASE Mark(p)
    <3> DEFINE mark == IF at[p] = "mark" THEN "published" ELSE "failed"
    <3>1. /\ at[p] \in {"mark", "fail"}
          /\ txn' = [txn EXCEPT ![p][record[p]] = mark]
          /\ record' = [record EXCEPT ![p] = NoRecord]
          /\ at' = [at EXCEPT ![p] = "commit"] \/ at' = [at EXCEPT ![p] = "publish"]
          /\ UNCHANGED <<rows, published, stream, batch, faults>>
      BY <1>1, <2>5 DEF Mark, Flush, Goto
    <3>2. record[p] \in Records \ batch[p]
      BY <1>2, <3>1 DEF BatchInOrder
    <3>3. mark \in {"none", "failed", "published"}
          /\ (mark = "published" => record[p] \in Uploads)
      BY <1>2, <3>1 DEF BatchInOrder
    <3> HIDE DEF mark
    <3>4. txn' \in [Actors -> [Records -> {"none", "failed", "published"}]]
      BY <1>1, <3>1, <3>2, <3>3 DEF TypeOK
    <3>5. TypeOK'
      <4>1. record' \in [Publishers -> Records \cup {NoRecord}]
        BY <3>1 DEF TypeOK
      <4>2. /\ at' \in [Actors -> UploadPlaces \cup PublisherPlaces]
            /\ at'[p] \in PublisherPlaces
        BY <1>1, <3>1 DEF TypeOK, PublisherPlaces
      <4> QED
        BY <1>3, <1>5, <3>1, <3>4, <4>1, <4>2 DEF TypeOK
    <3>6. OnlyUploadsAreMarked'
      BY <1>1, <3>1, <3>3 DEF OnlyUploadsAreMarked, TypeOK
    <3>7. \A r \in batch'[p] : txn'[p][r] = "none"
      BY <1>1, <1>2, <3>1, <3>2 DEF BatchInOrder, TypeOK
    <3>8. at'[p] \notin {"mark", "fail", "off", "idle"}
      BY <1>1, <3>1 DEF TypeOK
    <3> QED
      BY <3>5, <3>6, <3>7, <3>8 DEF BatchInOrder
  <2>6. CASE CommitBatch(p)
    <3>1. MarkedPublished(p) \subseteq Uploads
      BY <1>1 DEF MarkedPublished, OnlyUploadsAreMarked
    <3>2. TypeOK' /\ OnlyUploadsAreMarked'
      BY <1>1, <1>5, <2>6, <3>1
         DEF CommitBatch, TypeOK, Goto, PublisherPlaces, reading, NoUpdates,
             OnlyUploadsAreMarked
    <3> QED
      BY <1>1, <2>6, <3>2
         DEF CommitBatch, TypeOK, Goto, reading, NoUpdates, BatchInOrder
  <2>7. CASE StopPublisher(p)
    BY <1>1, <1>2, <1>5, <2>7, OutboxAssumption
       DEF StopPublisher, TypeOK, Goto, Fault, PublisherPlaces, reading,
           OnlyUploadsAreMarked, BatchInOrder
  <2>8. CASE LoseBatch(p)
    <3>1. TypeOK' /\ OnlyUploadsAreMarked'
      BY <1>1, <1>5, <2>8, OutboxAssumption
         DEF LoseBatch, TypeOK, Goto, Fault, PublisherPlaces, NoUpdates,
             OnlyUploadsAreMarked
    <3> QED
      BY <1>1, <2>8, <3>1
         DEF LoseBatch, TypeOK, Goto, NoUpdates, BatchInOrder
  <2> QED
    BY <2>1, <2>2, <2>3, <2>4, <2>5, <2>6, <2>7, <2>8 DEF PublisherStep
<1> QED
  BY <1>4, <1>6

LEMMA OutboxStep == ASSUME IInv, [Next]_vars PROVE IInv'
<1>1. CASE UNCHANGED vars
  BY <1>1 DEF vars, reading, IInv, TypeOK, OnlyUploadsAreMarked, BatchInOrder
<1> QED
  BY <1>1, UploadKeeps, PublisherKeeps DEF Next

(***************************************************************************)
(* Whatever the uploads, publishers, faults and the limit, the table, the  *)
(* transactions and the places of the actors keep their types; only rows   *)
(* of events the publisher knows are ever marked published.                *)
(***************************************************************************)
THEOREM OutboxTypeCorrect == Spec => []TypeOK
<1>1. IInv => TypeOK
  BY DEF IInv
<1> QED
  BY <1>1, OutboxInit, OutboxStep, PTL DEF Spec

-----------------------------------------------------------------------------
(* Marks are true.                                                         *)

\* An actor about to mark a row published has sent it, and so has everyone
\* whose mark is flushed or committed.
MarksAreTrue ==
    /\ \A r \in published : stream[r] > 0
    /\ \A a \in Actors : \A r \in Records : txn[a][r] = "published" => stream[r] > 0
    /\ \A a \in Actors : at[a] = "mark" => stream[Current(a)] > 0

LEMMA MarksInit == Init => MarksAreTrue
  BY OutboxAssumption DEF Init, MarksAreTrue, Actors, NoUpdates

\* What is sent stays sent.
LEMMA StreamGrows ==
    ASSUME TypeOK, [Next]_vars
    PROVE  \A r \in Records :
               stream[r] \in Nat /\ stream'[r] \in Nat /\ stream'[r] >= stream[r]
<1>1. stream' = stream \/ \E r \in Uploads : stream' = [stream EXCEPT ![r] = @ + 1]
  BY DEF Next, CommitUpload, UploadStep, PublishUpload, MarkUpload, CommitMark,
         LoseUpload, PublisherStep, StartPublisher, Poll, PublishRecord, Refused,
         Sent, RefuseForeign, Mark, CommitBatch, StopPublisher, LoseBatch, vars
<1>2. stream \in [Records -> Nat]
  BY DEF TypeOK
<1> QED
  BY <1>1, <1>2

LEMMA MarksStep ==
    ASSUME SharedBus, IInv, MarksAreTrue, [Next]_vars PROVE MarksAreTrue'
<1>1. \A r \in Records :
        stream[r] \in Nat /\ stream'[r] \in Nat /\ stream'[r] >= stream[r]
  BY StreamGrows DEF IInv
<1>2. published \subseteq Records
  BY DEF IInv, TypeOK, Records
<1>3. ASSUME NEW u \in Uploads, CommitUpload(u) \/ UploadStep(u) \/ LoseUpload(u)
      PROVE  MarksAreTrue'
  <2>0. /\ u \in Actors /\ u \in Records /\ Current(u) = u
        /\ \A a \in Actors : Current(a)' = Current(a)
        /\ \A a \in Actors : Current(a) \in Records \/ at[a] # "mark"
    BY <1>3, Currents
       DEF CommitUpload, UploadStep, PublishUpload, MarkUpload, CommitMark,
           LoseUpload, reading, Current, IInv, BatchInOrder, Actors
  <2>1. CASE CommitUpload(u)
    BY <1>1, <1>2, <2>0, <2>1 DEF CommitUpload, Goto, MarksAreTrue, IInv, TypeOK
  <2>2. CASE PublishUpload(u)
    BY <1>1, <1>2, <2>0, <2>2
       DEF PublishUpload, Refused, Sent, Goto, MarksAreTrue, IInv, TypeOK
  <2>3. CASE MarkUpload(u)
    BY <1>1, <1>2, <2>0, <2>3
       DEF MarkUpload, Flush, Goto, MarksAreTrue, IInv, TypeOK
  <2>4. CASE CommitMark(u)
    BY <1>1, <1>2, <2>0, <2>4
       DEF CommitMark, Goto, MarksAreTrue, MarkedPublished, NoUpdates, IInv, TypeOK
  <2>5. CASE LoseUpload(u)
    BY <1>1, <1>2, <2>0, <2>5
       DEF LoseUpload, Goto, MarksAreTrue, NoUpdates, IInv, TypeOK
  <2> QED
    BY <1>3, <2>1, <2>2, <2>3, <2>4, <2>5 DEF UploadStep
<1>4. ASSUME NEW p \in Publishers,
             PublisherStep(p) \/ StopPublisher(p) \/ LoseBatch(p)
      PROVE  MarksAreTrue'
  <2> USE DEF IInv
  <2>0. /\ p \in Actors /\ p \notin Uploads /\ Current(p) = record[p]
        /\ Current(p)' = record'[p]
        /\ BatchInOrder(p)
    BY Currents DEF Current
  <2>1. \A a \in Actors \ {p} :
          /\ at'[a] = at[a] /\ txn'[a] = txn[a]
          /\ Current(a)' = Current(a)
          /\ at[a] = "mark" => Current(a) \in Records
    <3>1. \A q \in Publishers : at[q] = "mark" => record[q] \in Records
      BY DEF BatchInOrder
    <3>2. /\ \A q \in Publishers \ {p} :
                at'[q] = at[q] /\ txn'[q] = txn[q] /\ record'[q] = record[q]
          /\ \A u \in Uploads : at'[u] = at[u] /\ txn'[u] = txn[u]
      BY <1>4, PublisherAlone
    <3> QED
      BY <3>1, <3>2 DEF Current, Actors, Records
  \* Left to show: the publisher's own marks, and those committed.
  <2>2. /\ \A r \in published' : stream'[r] > 0
        /\ \A r \in Records : txn'[p][r] = "published" => stream'[r] > 0
        /\ at'[p] = "mark" => stream'[record'[p]] > 0
    <3>1. CASE StartPublisher(p)
      BY <1>1, <1>2, <2>0, <3>1 DEF StartPublisher, Goto, MarksAreTrue, TypeOK
    <3>2. CASE Poll(p)
      BY <1>1, <1>2, <2>0, <3>2 DEF Poll, Goto, MarksAreTrue, TypeOK
    <3>3. CASE PublishRecord(p)
      <4>1. PICK r \in Uploads :
               /\ Turn(p, r)
               /\ \/ stream' = [stream EXCEPT ![r] = @ + 1] /\ Goto(p, "mark")
                  \/ Goto(p, "fail")
        BY <3>3 DEF PublishRecord, Sent
      <4>2. record'[p] = r /\ r \in Records
        BY <2>0, <4>1, TurnTakes
      <4>3. at'[p] = "mark" => stream'[r] > 0
        BY <1>1, <2>0, <4>1, <4>2 DEF Goto, TypeOK
      <4> QED
        BY <1>1, <1>2, <2>0, <3>3, <4>2, <4>3 DEF PublishRecord, MarksAreTrue
    <3>4. CASE RefuseForeign(p)
      BY <1>1, <1>2, <2>0, <3>4 DEF RefuseForeign, Goto, MarksAreTrue, TypeOK
    <3>5. CASE Mark(p)
      BY <1>1, <1>2, <2>0, <3>5
         DEF Mark, Flush, Goto, MarksAreTrue, TypeOK, BatchInOrder
    <3>6. CASE CommitBatch(p)
      BY <1>1, <1>2, <2>0, <3>6
         DEF CommitBatch, Goto, MarksAreTrue, MarkedPublished, NoUpdates, TypeOK
    <3>7. CASE StopPublisher(p)
      BY <1>1, <1>2, <2>0, <3>7 DEF StopPublisher, Goto, MarksAreTrue, TypeOK
    <3>8. CASE LoseBatch(p)
      BY <1>1, <1>2, <2>0, <3>8 DEF LoseBatch, Goto, MarksAreTrue, NoUpdates, TypeOK
    <3> QED
      BY <1>4, <3>1, <3>2, <3>3, <3>4, <3>5, <3>6, <3>7, <3>8 DEF PublisherStep
  <2> QED
    BY <1>1, <2>0, <2>1, <2>2 DEF MarksAreTrue
<1>5. CASE UNCHANGED vars
  BY <1>5 DEF vars, reading, MarksAreTrue, Current
<1> QED
  BY <1>3, <1>4, <1>5 DEF Next

(***************************************************************************)
(* On a shared bus no row is ever marked published, in a transaction or in *)
(* the table, whose event has not been sent: for any number of uploads and *)
(* publishers, whatever is rolled back, killed or refused.                 *)
(***************************************************************************)
THEOREM MarkedRowsWereSent == ASSUME SharedBus PROVE Spec => []PublishedWasSent
<1>1. IInv /\ MarksAreTrue => PublishedWasSent
  BY DEF MarksAreTrue, PublishedWasSent, MarkedPublished
<1>2. Init => IInv /\ MarksAreTrue
  BY OutboxInit, MarksInit
<1>3. IInv /\ MarksAreTrue /\ [Next]_vars => IInv' /\ MarksAreTrue'
  BY OutboxStep, MarksStep
<1> QED
  BY <1>1, <1>2, <1>3, PTL DEF Spec

-----------------------------------------------------------------------------
(* Repeats are bounded.                                                    *)

\* A publisher that may still send a row without a fault: it has read it or could
\* read it, and has not sent it since.
CanSend(p, r) ==
    /\ r \notin published \/ r \in batch[p]
    /\ txn[p][r] # "published"
    /\ ~(at[p] = "mark" /\ record[p] = r)

Senders(r) == {p \in Publishers : CanSend(p, r)}

\* The upload's own publication, while it is to come.
Own(r) == IF r \in Uploads /\ at[r] \in {"new", "publish"} THEN 1 ELSE 0

Account ==
    \A r \in Records :
        stream[r] + Cardinality(Senders(r)) + Own(r)
            <= 1 + Cardinality(Publishers) + faults

LEMMA SendersCount ==
    \A S \in SUBSET Publishers :
        /\ Cardinality(S) \in Nat /\ Cardinality(S) <= Cardinality(Publishers)
        /\ \A T \in SUBSET S : Cardinality(T) <= Cardinality(S)
        /\ \A p \in S : Cardinality(S \ {p}) = Cardinality(S) - 1
        /\ \A p \in Publishers : Cardinality(S \cup {p}) <= Cardinality(S) + 1
<1> SUFFICES ASSUME NEW S \in SUBSET Publishers
             PROVE  /\ Cardinality(S) \in Nat
                    /\ Cardinality(S) <= Cardinality(Publishers)
                    /\ \A T \in SUBSET S : Cardinality(T) <= Cardinality(S)
                    /\ \A p \in S : Cardinality(S \ {p}) = Cardinality(S) - 1
                    /\ \A p \in Publishers :
                          Cardinality(S \cup {p}) <= Cardinality(S) + 1
  OBVIOUS
<1>1. IsFiniteSet(Publishers)
  BY OutboxAssumption
<1>2. IsFiniteSet(S) /\ Cardinality(S) <= Cardinality(Publishers)
  BY <1>1, FS_Subset
<1>3. Cardinality(S) \in Nat
  BY <1>2, FS_CardinalityType
<1>4. \A T \in SUBSET S : Cardinality(T) <= Cardinality(S)
  BY <1>2, FS_Subset
<1>5. \A p \in S : Cardinality(S \ {p}) = Cardinality(S) - 1
  BY <1>2, FS_RemoveElement
<1>6. \A p \in Publishers : Cardinality(S \cup {p}) <= Cardinality(S) + 1
  BY <1>2, <1>3, FS_AddElement
<1> QED
  BY <1>2, <1>3, <1>4, <1>5, <1>6

LEMMA AccountInit == Init => Account
<1> SUFFICES ASSUME Init, NEW r \in Records
             PROVE  stream[r] + Cardinality(Senders(r)) + Own(r)
                        <= 1 + Cardinality(Publishers) + faults
  BY DEF Account
<1>1. stream[r] = 0 /\ faults = 0
  BY DEF Init
<1>2. /\ Cardinality(Senders(r)) \in Nat /\ Cardinality(Publishers) \in Nat
      /\ Cardinality(Senders(r)) <= Cardinality(Publishers)
  BY SendersCount DEF Senders
<1>3. Own(r) \in {0, 1}
  BY DEF Own
<1> QED
  BY <1>1, <1>2, <1>3

\* The five ways a step may move the account of a row and keep its balance.
Quiet(r) ==
    stream'[r] = stream[r] /\ Senders(r)' \subseteq Senders(r) /\ Own(r)' <= Own(r)

Lost(p, r) ==
    /\ stream'[r] = stream[r] /\ Senders(r)' \subseteq Senders(r) \cup {p}
    /\ Own(r)' <= Own(r)
    /\ faults' = faults + 1

SentBy(p, r) ==
    /\ stream'[r] = stream[r] + 1
    /\ p \in Senders(r) /\ Senders(r)' \subseteq Senders(r) \ {p}
    /\ Own(r)' <= Own(r)

SentByUpload(r) ==
    /\ stream'[r] = stream[r] + 1
    /\ Senders(r)' \subseteq Senders(r)
    /\ Own(r) = 1 /\ Own(r)' = 0

SentUnanswered(r) ==
    /\ stream'[r] = stream[r] + 1
    /\ Senders(r)' \subseteq Senders(r)
    /\ Own(r)' <= Own(r)
    /\ faults' = faults + 1

LEMMA Balanced ==
    ASSUME TypeOK, TypeOK', NEW r \in Records, faults' >= faults,
           stream[r] + Cardinality(Senders(r)) + Own(r)
               <= 1 + Cardinality(Publishers) + faults,
           \/ Quiet(r) \/ SentByUpload(r) \/ SentUnanswered(r)
           \/ \E p \in Publishers : Lost(p, r) \/ SentBy(p, r)
    PROVE  (stream[r] + Cardinality(Senders(r)) + Own(r)
               <= 1 + Cardinality(Publishers) + faults)'
<1> DEFINE n == Cardinality(Senders(r))
           m == Cardinality(Senders(r)')
<1>1. /\ stream[r] \in Nat /\ stream'[r] \in Nat
      /\ faults \in Nat /\ faults' \in Nat
      /\ Own(r) \in {0, 1} /\ Own(r)' \in {0, 1}
  BY OutboxAssumption DEF TypeOK, Own
<1>2. n \in Nat /\ m \in Nat /\ Cardinality(Publishers) \in Nat
  BY SendersCount DEF Senders
<1>3. stream[r] + n + Own(r) <= 1 + Cardinality(Publishers) + faults
  OBVIOUS
<1>4. (stream[r] + Cardinality(Senders(r)) + Own(r)
               <= 1 + Cardinality(Publishers) + faults)'
      <=> stream'[r] + m + Own(r)' <= 1 + Cardinality(Publishers) + faults'
  OBVIOUS
<1>5. CASE Quiet(r)
  <2>1. m <= n
    BY <1>5, SendersCount DEF Quiet, Senders
  <2> HIDE DEF n, m
  <2> QED
    BY <1>1, <1>2, <1>3, <1>4, <1>5, <2>1 DEF Quiet
<1>6. CASE SentByUpload(r)
  <2>1. m <= n
    BY <1>6, SendersCount DEF SentByUpload, Senders
  <2> HIDE DEF n, m
  <2> QED
    BY <1>1, <1>2, <1>3, <1>4, <1>6, <2>1 DEF SentByUpload
<1>7. ASSUME NEW p \in Publishers, Lost(p, r)
      PROVE  stream'[r] + m + Own(r)' <= 1 + Cardinality(Publishers) + faults'
  <2>1. Cardinality(Senders(r) \cup {p}) <= n + 1
    BY SendersCount DEF Senders
  <2>2. m <= Cardinality(Senders(r) \cup {p})
    BY <1>7, SendersCount DEF Lost, Senders
  <2>3. Cardinality(Senders(r) \cup {p}) \in Nat
    BY SendersCount DEF Senders
  <2> HIDE DEF n, m
  <2> QED
    BY <1>1, <1>2, <1>3, <1>7, <2>1, <2>2, <2>3 DEF Lost
<1>8. ASSUME NEW p \in Publishers, SentBy(p, r)
      PROVE  stream'[r] + m + Own(r)' <= 1 + Cardinality(Publishers) + faults'
  <2>1. Cardinality(Senders(r) \ {p}) = n - 1
    BY <1>8, SendersCount DEF SentBy, Senders
  <2>2. m <= Cardinality(Senders(r) \ {p})
    BY <1>8, SendersCount DEF SentBy, Senders
  <2> HIDE DEF n, m
  <2> QED
    BY <1>1, <1>2, <1>3, <1>8, <2>1, <2>2 DEF SentBy
<1>9. CASE SentUnanswered(r)
  <2>1. m <= n
    BY <1>9, SendersCount DEF SentUnanswered, Senders
  <2> HIDE DEF n, m
  <2> QED
    BY <1>1, <1>2, <1>3, <1>4, <1>9, <2>1 DEF SentUnanswered
<1> QED
  BY <1>4, <1>5, <1>6, <1>7, <1>8, <1>9

LEMMA UploadBalances ==
    ASSUME IInv, IInv', NEW r \in Records, NEW u \in Uploads,
           CommitUpload(u) \/ UploadStep(u) \/ LoseUpload(u)
    PROVE  /\ faults' >= faults
           /\ Quiet(r) \/ SentByUpload(r)
<1>0. /\ u \in Actors /\ u \in Records
      /\ faults \in Nat /\ stream \in [Records -> Nat]
      /\ at \in [Actors -> UploadPlaces \cup PublisherPlaces]
  BY Currents, OutboxAssumption DEF IInv, TypeOK
<1>1. \A p \in Publishers :
        /\ at'[p] = at[p] /\ txn'[p] = txn[p]
        /\ batch'[p] = batch[p] /\ record'[p] = record[p]
  BY UploadAlone DEF IInv
<1>2. published \subseteq published'
  BY DEF CommitUpload, UploadStep, PublishUpload, MarkUpload, CommitMark,
         LoseUpload
<1>3. Senders(r)' \subseteq Senders(r)
  BY <1>1, <1>2 DEF Senders, CanSend
<1>4. \A v \in Uploads : v # u => at'[v] = at[v]
  BY <1>0, Currents DEF CommitUpload, UploadStep, PublishUpload, MarkUpload, CommitMark,
         LoseUpload, Goto
<1>5. CASE PublishUpload(u) /\ stream' # stream /\ r = u
  <2>1. /\ stream' = [stream EXCEPT ![u] = @ + 1]
        /\ at[u] = "publish"
        /\ at' = [at EXCEPT ![u] = "mark"] \/ at' = [at EXCEPT ![u] = "gone"]
        /\ faults' = faults \/ faults' = faults + 1
    BY <1>5 DEF PublishUpload, Refused, Sent, Fault, Goto
  <2> QED
    BY <1>0, <1>3, <1>5, <2>1 DEF SentByUpload, Own
<1>6. CASE ~(PublishUpload(u) /\ stream' # stream /\ r = u)
  <2>1. stream'[r] = stream[r] /\ faults' >= faults
    BY <1>0, <1>6
       DEF CommitUpload, UploadStep, PublishUpload, MarkUpload, CommitMark,
           LoseUpload, Refused, Sent, Fault
  <2>2. at'[u] \in {"new", "publish"} => at[u] \in {"new", "publish"}
    BY <1>0
       DEF CommitUpload, UploadStep, PublishUpload, MarkUpload, CommitMark,
           LoseUpload, Goto
  <2>3. Own(r)' <= Own(r)
    BY <1>4, <2>2 DEF Own
  <2> QED
    BY <1>3, <2>1, <2>3 DEF Quiet
<1> QED
  BY <1>5, <1>6

LEMMA PublisherBalances ==
    ASSUME IInv, IInv', NEW r \in Records, NEW p \in Publishers,
           PublisherStep(p) \/ StopPublisher(p) \/ LoseBatch(p)
    PROVE  /\ faults' >= faults
           /\ Quiet(r) \/ Lost(p, r) \/ SentBy(p, r) \/ SentUnanswered(r)
<1>0. /\ p \in Actors /\ p \notin Uploads /\ Current(p) = record[p]
      /\ faults \in Nat /\ stream \in [Records -> Nat]
      /\ at \in [Actors -> UploadPlaces \cup PublisherPlaces]
      /\ txn \in [Actors -> [Records -> {"none", "failed", "published"}]]
      /\ batch \in [Publishers -> SUBSET Records]
      /\ BatchInOrder(p)
  BY Currents, OutboxAssumption DEF IInv, TypeOK
<1>1. \A q \in Publishers \ {p} :
        /\ at'[q] = at[q] /\ txn'[q] = txn[q]
        /\ batch'[q] = batch[q] /\ record'[q] = record[q]
  BY PublisherAlone DEF IInv
<1>2. published \subseteq published'
  BY DEF PublisherStep, StartPublisher, Poll, PublishRecord, RefuseForeign,
         Mark, CommitBatch, StopPublisher, LoseBatch, vars
<1>3. Own(r)' = Own(r) /\ Own(r) \in {0, 1}
  BY PublisherAlone DEF Own, IInv
<1>4. Senders(r)' \subseteq Senders(r) \cup {p}
  BY <1>1, <1>2 DEF Senders, CanSend
<1>5. (CanSend(p, r)' => CanSend(p, r)) => Senders(r)' \subseteq Senders(r)
  BY <1>4 DEF Senders
<1>6. ASSUME stream' = stream, faults' = faults, CanSend(p, r)' => CanSend(p, r)
      PROVE  faults' >= faults /\ Quiet(r)
  BY <1>0, <1>3, <1>5, <1>6 DEF Quiet
<1>7. ASSUME stream' = stream, Fault
      PROVE  faults' >= faults /\ Lost(p, r)
  BY <1>0, <1>3, <1>4, <1>7 DEF Lost, Fault
<1>8. CASE StartPublisher(p)
  <2>1. CanSend(p, r)' => CanSend(p, r)
    BY <1>0, <1>8 DEF StartPublisher, Goto, CanSend, reading
  <2> QED
    BY <1>6, <1>8, <2>1 DEF StartPublisher
<1>9. CASE Poll(p)
  <2>1. batch'[p] \cap published = {}
    BY <1>0, <1>9, FirstIsSubset DEF Poll, Pending
  <2>2. CanSend(p, r)' => CanSend(p, r)
    BY <1>0, <1>9, <2>1 DEF Poll, Goto, CanSend
  <2> QED
    BY <1>6, <1>9, <2>2 DEF Poll
<1>10. CASE PublishRecord(p)
  <2>1. PICK s \in Uploads :
           /\ Turn(p, s)
           /\ stream' \in {stream, [stream EXCEPT ![s] = @ + 1]}
           /\ \/ Goto(p, "mark") /\ UNCHANGED faults
              \/ Goto(p, "fail") /\ Fault
    BY <1>10 DEF PublishRecord, Refused, Sent
  <2>2. /\ s \in batch[p] /\ s \in Records /\ txn[p][s] = "none"
        /\ batch'[p] = batch[p] \ {s} /\ record'[p] = s
        /\ at[p] = "publish"
    BY <1>0, <2>1, TurnTakes DEF IInv
  <2>3. UNCHANGED <<published, txn>>
    BY <1>10 DEF PublishRecord
  <2>4. CASE Goto(p, "fail") /\ Fault
    <3>1. CanSend(p, r)' => CanSend(p, r)
      BY <1>0, <2>2, <2>3, <2>4 DEF Goto, CanSend
    <3>2. Senders(r)' \subseteq Senders(r) /\ Own(r)' <= Own(r)
      BY <1>3, <1>5, <3>1
    <3>3. faults' = faults + 1 /\ faults' >= faults
      BY <1>0, <2>4 DEF Fault
    <3>4. stream'[r] = stream[r] \/ stream'[r] = stream[r] + 1
      BY <1>0, <2>1
    <3> QED
      BY <3>2, <3>3, <3>4 DEF Quiet, SentUnanswered
  <2>5. CASE Goto(p, "mark") /\ UNCHANGED faults
    <3>1. at'[p] = "mark"
      BY <1>0, <2>5 DEF Goto
    <3>2. CanSend(p, r)' => CanSend(p, r) /\ r # s
      BY <1>0, <2>2, <2>3, <3>1 DEF CanSend
    <3>3. CanSend(p, s)
      BY <2>2 DEF CanSend
    <3>4. CASE stream' = [stream EXCEPT ![s] = @ + 1] /\ r = s
      BY <1>0, <1>3, <1>4, <2>1, <2>2, <2>5, <3>2, <3>3, <3>4 DEF SentBy, Senders
    <3>5. CASE ~(stream' = [stream EXCEPT ![s] = @ + 1] /\ r = s)
      <4>1. stream'[r] = stream[r]
        BY <1>0, <2>1, <3>5
      <4> QED
        BY <1>0, <1>3, <1>5, <2>5, <3>2, <4>1 DEF Quiet
    <3> QED
      BY <3>4, <3>5
  <2> QED
    BY <2>1, <2>4, <2>5
<1>11. CASE RefuseForeign(p)
  <2>1. PICK s \in Foreign : Turn(p, s)
    BY <1>11 DEF RefuseForeign
  <2>2. /\ batch'[p] = batch[p] \ {s} /\ record'[p] = s
        /\ at[p] = "publish" /\ at'[p] = "fail"
    BY <1>0, <1>11, <2>1, TurnTakes DEF IInv, RefuseForeign, Goto
  <2>3. CanSend(p, r)' => CanSend(p, r)
    BY <1>11, <2>2 DEF RefuseForeign, CanSend
  <2> QED
    BY <1>6, <1>11, <2>3 DEF RefuseForeign
<1>12. CASE Mark(p)
  <2>1. /\ at[p] \in {"mark", "fail"} /\ at'[p] \in {"publish", "commit"}
        /\ txn' = [txn EXCEPT ![p][record[p]] =
                      IF at[p] = "mark" THEN "published" ELSE "failed"]
        /\ UNCHANGED <<batch, published>>
    BY <1>0, <1>12 DEF Mark, Flush, Goto
  <2>2. record[p] \in Records /\ txn[p][record[p]] = "none"
    BY <1>0, <2>1 DEF BatchInOrder
  <2>3. CanSend(p, r)' => CanSend(p, r)
    BY <1>0, <2>1, <2>2 DEF CanSend
  <2> QED
    BY <1>6, <1>12, <2>3 DEF Mark
<1>13. CASE CommitBatch(p)
  <2>1. /\ at[p] = "commit" /\ published' = published \cup MarkedPublished(p)
        /\ txn' = [txn EXCEPT ![p] = NoUpdates] /\ batch' = batch
    BY <1>13 DEF CommitBatch, reading
  <2>2. txn[p][r] = "published" => r \in published' /\ r \notin batch'[p]
    BY <1>0, <2>1 DEF MarkedPublished, BatchInOrder
  <2>3. CanSend(p, r)' => CanSend(p, r)
    BY <1>2, <2>1, <2>2 DEF CanSend
  <2> QED
    BY <1>6, <1>13, <2>3 DEF CommitBatch
<1>14. CASE StopPublisher(p)
  BY <1>7, <1>14 DEF StopPublisher
<1>15. CASE LoseBatch(p)
  BY <1>7, <1>15 DEF LoseBatch
<1> QED
  BY <1>8, <1>9, <1>10, <1>11, <1>12, <1>13, <1>14, <1>15 DEF PublisherStep

LEMMA AccountStep == ASSUME IInv, IInv', Account, [Next]_vars PROVE Account'
<1> SUFFICES ASSUME NEW r \in Records
             PROVE  (stream[r] + Cardinality(Senders(r)) + Own(r)
                        <= 1 + Cardinality(Publishers) + faults)'
  BY DEF Account
<1>1. stream[r] + Cardinality(Senders(r)) + Own(r)
          <= 1 + Cardinality(Publishers) + faults
  BY DEF Account
<1>2. TypeOK /\ TypeOK'
  BY DEF IInv
<1>3. CASE UNCHANGED vars
  <2>1. Quiet(r) /\ faults' >= faults
    BY <1>2, <1>3, OutboxAssumption
       DEF vars, reading, Quiet, Senders, CanSend, Own, TypeOK
  <2> QED
    BY <1>1, <1>2, <2>1, Balanced
<1>4. ASSUME NEW u \in Uploads, CommitUpload(u) \/ UploadStep(u) \/ LoseUpload(u)
      PROVE  faults' >= faults /\ (Quiet(r) \/ SentByUpload(r))
  BY <1>4, UploadBalances
<1>5. ASSUME NEW p \in Publishers,
             PublisherStep(p) \/ StopPublisher(p) \/ LoseBatch(p)
      PROVE  /\ faults' >= faults
             /\ Quiet(r) \/ Lost(p, r) \/ SentBy(p, r) \/ SentUnanswered(r)
  BY <1>5, PublisherBalances
<1> QED
  BY <1>1, <1>2, <1>3, <1>4, <1>5, Balanced DEF Next

(***************************************************************************)
(* However many uploads and publishers there are, an event is sent at most *)
(* once by its upload and once by each publisher, and once more for every  *)
(* fault.                                                                  *)
(***************************************************************************)
THEOREM RepeatsAreBounded == Spec => []RedeliveryIsBounded
<1>1. IInv /\ Account => RedeliveryIsBounded
  <2> SUFFICES ASSUME IInv, Account, NEW r \in Records
               PROVE  stream[r] <= 1 + Cardinality(Publishers) + faults
    BY DEF RedeliveryIsBounded
  <2>1. stream[r] + Cardinality(Senders(r)) + Own(r)
            <= 1 + Cardinality(Publishers) + faults
    BY DEF Account
  <2>2. /\ stream[r] \in Nat /\ faults \in Nat /\ Own(r) \in {0, 1}
        /\ Cardinality(Senders(r)) \in Nat /\ Cardinality(Publishers) \in Nat
    BY SendersCount, OutboxAssumption DEF IInv, TypeOK, Own, Senders
  <2> QED
    BY <2>1, <2>2
<1>2. Init => IInv /\ Account
  BY OutboxInit, AccountInit
<1>3. IInv /\ Account /\ [Next]_vars => IInv' /\ Account'
  BY OutboxStep, AccountStep
<1> QED
  BY <1>1, <1>2, <1>3, PTL DEF Spec

-----------------------------------------------------------------------------
(* The safety half of EventDelivery.                                       *)

\* An upload's row is in the table from its commit on, and a publisher has read
\* nothing that is not in the table.
Committed ==
    /\ \A u \in Uploads : u \in Stored <=> at[u] # "new"
    /\ \A p \in Publishers : batch[p] \subseteq Stored

LEMMA CommittedInit == Init => Committed
<1> SUFFICES ASSUME Init PROVE Committed
  OBVIOUS
<1>1. Stored \subseteq Foreign
  <2>1. rows \in [1 .. Cardinality(Foreign) -> Foreign]
    BY DEF Init, SetToSeqs
  <2> QED
    BY <2>1 DEF Stored
<1> QED
  BY <1>1, OutboxAssumption DEF Init, Committed, Actors

\* The table only grows, by the row of an upload that commits.
LEMMA StoredGrows ==
    ASSUME TypeOK, [Next]_vars
    PROVE  \/ Stored' = Stored /\ rows' = rows
           \/ \E u \in Uploads : CommitUpload(u) /\ Stored' = Stored \cup {u}
<1>1. CASE \E u \in Uploads : CommitUpload(u)
  <2>1. PICK u \in Uploads : CommitUpload(u)
    BY <1>1
  <2>2. rows \in Seq(Records) /\ u \in Records /\ rows' = Append(rows, u)
    BY <2>1 DEF TypeOK, Records, CommitUpload
  <2>3. /\ Len(rows) \in Nat /\ DOMAIN rows = 1 .. Len(rows)
        /\ DOMAIN rows' = 1 .. Len(rows) + 1
        /\ rows'[Len(rows) + 1] = u
        /\ \A k \in 1 .. Len(rows) : rows'[k] = rows[k]
    BY <2>2
  <2>4. \A k \in DOMAIN rows' : k = Len(rows) + 1 \/ k \in DOMAIN rows
    BY <2>3
  <2>5. \A k \in DOMAIN rows : k \in DOMAIN rows' /\ rows'[k] = rows[k]
    BY <2>3
  <2>6. Len(rows) + 1 \in DOMAIN rows'
    BY <2>3
  <2>7. Stored' = Stored \cup {u}
    BY <2>3, <2>4, <2>5, <2>6 DEF Stored
  <2> QED
    BY <2>1, <2>7
<1>2. CASE rows' = rows
  BY <1>2 DEF Stored
<1> QED
  BY <1>1, <1>2
     DEF Next, UploadStep, PublishUpload, MarkUpload, CommitMark, LoseUpload,
         PublisherStep, StartPublisher, Poll, PublishRecord, RefuseForeign, Mark,
         CommitBatch, StopPublisher, LoseBatch, vars

LEMMA CommittedStep == ASSUME IInv, Committed, [Next]_vars PROVE Committed'
<1> USE DEF IInv
<1>1. Stored \subseteq Stored'
  BY StoredGrows
<1>2. ASSUME NEW u \in Uploads, CommitUpload(u) \/ UploadStep(u) \/ LoseUpload(u)
      PROVE  Committed'
  <2>1. \A p \in Publishers : batch'[p] = batch[p]
    BY <1>2, UploadAlone
  <2>2. \A v \in Uploads \ {u} : at'[v] = at[v]
    BY <1>2 DEF CommitUpload, UploadStep, PublishUpload, MarkUpload, CommitMark,
                LoseUpload, Goto, TypeOK, Actors
  <2>3. CASE CommitUpload(u)
    <3>1. Stored' = Stored \cup {u}
      <4>1. \A v \in Uploads : CommitUpload(v) => v = u
        BY <2>3 DEF CommitUpload, Goto, TypeOK, Actors, UploadPlaces
      <4>2. rows' # rows
        BY <2>3 DEF CommitUpload, TypeOK, Records
      <4> QED
        BY <4>1, <4>2, StoredGrows
    <3>2. at'[u] = "publish"
      BY <2>3 DEF CommitUpload, Goto, TypeOK, Actors
    <3> QED
      BY <1>1, <2>1, <2>2, <3>1, <3>2 DEF Committed
  <2>4. CASE UploadStep(u) \/ LoseUpload(u)
    <3>1. Stored' = Stored
      BY <2>4 DEF UploadStep, PublishUpload, MarkUpload, CommitMark, LoseUpload,
                  Stored
    <3>2. at[u] # "new" /\ at'[u] # "new"
      BY <2>4 DEF UploadStep, PublishUpload, MarkUpload, CommitMark, LoseUpload,
                  Goto, TypeOK, Actors
    <3> QED
      BY <2>1, <2>2, <3>1, <3>2 DEF Committed
  <2> QED
    BY <1>2, <2>3, <2>4
<1>3. ASSUME NEW p \in Publishers,
             PublisherStep(p) \/ StopPublisher(p) \/ LoseBatch(p)
      PROVE  Committed'
  <2>1. \A u \in Uploads : at'[u] = at[u]
    BY <1>3, PublisherAlone
  <2>2. Stored' = Stored
    BY <1>3 DEF PublisherStep, StartPublisher, Poll, PublishRecord, RefuseForeign,
                Mark, CommitBatch, StopPublisher, LoseBatch, Stored
  <2>3. \A q \in Publishers \ {p} : batch'[q] = batch[q]
    BY <1>3, PublisherAlone
  <2>4. batch'[p] \subseteq Stored
    <3>1. First(Limit, Pending) \subseteq Stored
      BY FirstIsSubset DEF Pending
    <3> QED
      BY <1>3, <3>1
         DEF PublisherStep, StartPublisher, Poll, PublishRecord, RefuseForeign, Turn,
             Mark, CommitBatch, StopPublisher, LoseBatch, reading, TypeOK, Committed
  <2> QED
    BY <2>1, <2>2, <2>3, <2>4 DEF Committed
<1>4. CASE UNCHANGED vars
  BY <1>4 DEF vars, reading, Committed, Stored
<1> QED
  BY <1>2, <1>3, <1>4 DEF Next

\* A row that is sent is one that is committed.
LEMMA SendsCommitted ==
    ASSUME IInv, Committed, [Next]_vars, stream' # stream
    PROVE  \E u \in Uploads \cap Stored : stream' = [stream EXCEPT ![u] = @ + 1]
<1>1. CASE \E u \in Uploads : PublishUpload(u)
  BY <1>1 DEF PublishUpload, Refused, Sent, Committed
<1>2. CASE \E p \in Publishers : PublishRecord(p)
  BY <1>2, FirstIsSubset DEF PublishRecord, Refused, Sent, Turn, Committed
<1> QED
  BY <1>1, <1>2
     DEF Next, CommitUpload, UploadStep, MarkUpload, CommitMark, LoseUpload,
         PublisherStep, StartPublisher, Poll, RefuseForeign, Mark, CommitBatch,
         StopPublisher, LoseBatch, vars

\* A step of the outbox commits an event, delivers one, or changes neither set.
LEMMA OutboxSimulates ==
    ASSUME IInv, Committed, [Next]_vars
    PROVE  [Delivery!DNext]_(Delivery!dvars)
<1> DEFINE sent == {u \in Uploads : stream[u] > 0}
<1>1. CASE \E u \in Uploads : CommitUpload(u)
  <2>1. PICK u \in Uploads : CommitUpload(u)
    BY <1>1
  <2>2. stream' = stream /\ rows' # rows /\ u \notin Stored
    BY <2>1 DEF CommitUpload, IInv, TypeOK, Records, Committed
  <2>3. PICK v \in Uploads : CommitUpload(v) /\ Stored' = Stored \cup {v}
    BY <2>2, StoredGrows DEF IInv
  <2>4. v \notin Stored
    BY <2>3 DEF CommitUpload, Committed
  <2>5. Delivery!CommitEvent(v)
    BY <2>2, <2>3, <2>4 DEF Delivery!CommitEvent
  <2> QED
    BY <2>5 DEF Delivery!DNext
<1>2. CASE ~\E u \in Uploads : CommitUpload(u)
  <2>1. Stored' = Stored
    BY <1>2, StoredGrows DEF IInv
  <2>2. CASE stream' = stream
    BY <2>1, <2>2 DEF Delivery!dvars
  <2>3. CASE stream' # stream
    <3>1. PICK u \in Uploads \cap Stored : stream' = [stream EXCEPT ![u] = @ + 1]
      BY <2>3, SendsCommitted
    <3>2. stream \in [Records -> Nat] /\ u \in Records
      BY DEF IInv, TypeOK, Records
    <3>3. sent' = sent \cup {u}
      BY <3>1, <3>2 DEF Records
    <3>4. CASE u \in sent
      BY <2>1, <3>3, <3>4 DEF Delivery!dvars
    <3>5. CASE u \notin sent
      BY <2>1, <3>1, <3>3, <3>5 DEF Delivery!DNext, Delivery!DeliverEvent
    <3> QED
      BY <3>4, <3>5
  <2> QED
    BY <2>2, <2>3
<1> QED
  BY <1>1, <1>2

(***************************************************************************)
(* The outbox keeps the safety half of EventDelivery: no event reaches the *)
(* bus, from its upload or from a publisher, before the transaction of its *)
(* invoice is committed, and none is committed twice.                      *)
(***************************************************************************)
THEOREM DeliveryIsSafe == Spec => Delivery!DSafe
<1>1. Init => IInv /\ Committed
  BY OutboxInit, CommittedInit
<1>2. IInv /\ Committed /\ [Next]_vars => IInv' /\ Committed'
  BY OutboxStep, CommittedStep
<1>3. Init => Delivery!DInit
  BY CommittedInit DEF Init, Committed, Delivery!DInit, Actors, Records
<1> QED
  BY <1>1, <1>2, <1>3, OutboxSimulates, PTL DEF Spec, Delivery!DSafe
=============================================================================
