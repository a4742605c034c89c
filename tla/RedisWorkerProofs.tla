------------------------- MODULE RedisWorkerProofs -------------------------
(***************************************************************************)
(* What is proved of the Redis worker, for every set of invoices, every    *)
(* batch size, retry budget and number of failures and deaths.             *)
(*                                                                         *)
(* PostedOncePerLife: duplicated handlings post once.  DuplicatesPostOnce  *)
(* is not inductive: nothing in it relates the ERP's log to the worker's   *)
(* registry.  Ledger does: beyond the earlier lives of the worker, the log *)
(* of an invoice has an entry only if the registry has it.  The registry   *)
(* and the log change in Finalize, and the registry is emptied in Die,     *)
(* which starts a new life; no other action has a hand in them, so nothing *)
(* needs to be known about streams, stacks or retries.                     *)
(*                                                                         *)
(* RedisTypeCorrect and NothingEverStalls, in the second part, are about   *)
(* streams, stacks and retries; RedisPostingsAreClean, in the third, about *)
(* the order in which the agents see an invoice; RedisPaymentsAreSafe, in  *)
(* the fourth, about the promise the two buses have in common; and         *)
(* HandlingRunsOut, in the last, about retries that nest.                  *)
(***************************************************************************)
EXTENDS RedisWorker, CheckpointProofs, FiniteSetTheorems, SequenceTheorems, TLAPS

\* A sequence, of whatever: what is posted does not matter here.
IsSeq(s) == \E S : s \in Seq(S)

Lives(i) == deaths + (IF i \in posted THEN 1 ELSE 0)

Ledger ==
    /\ deaths \in Nat
    /\ DOMAIN erp = Invoices
    /\ \A i \in Invoices : IsSeq(erp[i]) /\ Len(erp[i]) <= Lives(i)

\* What _finalize_and_post_erp does to the log and the registry.
Posts(i, x) ==
    /\ erp' = IF i \in posted THEN erp ELSE [erp EXCEPT ![i] = Append(@, x)]
    /\ posted' = posted \cup {i}
    /\ deaths' = deaths

NewLife ==
    /\ erp' = erp
    /\ posted' = {}
    /\ deaths' = deaths + 1

Bystander == UNCHANGED <<erp, posted, deaths>>

-----------------------------------------------------------------------------
\* Appending to a sequence gives a sequence with one element more.
LEMMA AppendToSeq ==
    ASSUME NEW s, NEW x, IsSeq(s)
    PROVE  IsSeq(Append(s, x)) /\ Len(Append(s, x)) = Len(s) + 1 /\ Len(s) \in Nat
<1>1. PICK S : s \in Seq(S)
  BY DEF IsSeq
<1>2. s \in Seq(S \cup {x}) /\ x \in S \cup {x}
  BY <1>1, SeqDef
<1>3. Append(s, x) \in Seq(S \cup {x}) /\ Len(Append(s, x)) = Len(s) + 1
  BY <1>2, AppendProperties
<1>4. Len(s) \in Nat
  BY <1>1
<1> QED BY <1>3, <1>4 DEF IsSeq

\* Every step of the system is one of the three for the ledger.
LEMMA StepKinds ==
    ASSUME Next
    PROVE  Bystander \/ NewLife \/ \E i, x : Posts(i, x)
<1>1. CASE WebStep
  BY <1>1 DEF WebStep, AddUpload, AddDecision, RestartWeb, Bystander, stores
<1>2. ASSUME NEW c \in Consumers, HandlerStep(c)
      PROVE  Bystander \/ \E i, x : Posts(i, x)
  <2>1. CASE AutoApprove(c) \/ HumanApproves(c)
    <3>1. Finalize(c) /\ deaths' = deaths
      BY <2>1 DEF AutoApprove, HumanApproves
    <3> QED BY <3>1 DEF Finalize, Posts
  <2>2. CASE HandleInvoiceUploaded(c) \/ ExtractionFails(c) \/ Unknown(c)
    BY <2>2 DEF HandleInvoiceUploaded, ExtractionFails, Unknown, Bystander, stores
  <2>3. CASE \/ HandleInvoiceParsed(c) \/ HandleInvoiceValidated(c)
             \/ HandleSupplierChecked(c) \/ HandlePricingCompleted(c)
    BY <2>3 DEF HandleInvoiceParsed, HandleInvoiceValidated,
                HandleSupplierChecked, HandlePricingCompleted, AgentStep,
                Bystander
  <2>4. CASE \/ PauseForHuman(c) \/ AutoReject(c)
             \/ IgnoreDuplicateApproval(c) \/ HumanRejects(c)
    BY <2>4 DEF PauseForHuman, AutoReject, IgnoreDuplicateApproval,
                HumanRejects, Bystander, stores
  <2> QED BY <1>2, <2>1, <2>2, <2>3, <2>4 DEF HandlerStep
<1>3. ASSUME NEW c \in Consumers, BusStep(c)
      PROVE  Bystander
  BY <1>3 DEF BusStep, TimeOut, Wake, Bury, BuryBreaks, ReadGroup, Bystander, stores
<1>4. CASE NextRound
  BY <1>4 DEF NextRound, Bystander, stores
<1>5. CASE Die
  BY <1>5 DEF Die, NewLife
<1> QED BY <1>1, <1>2, <1>3, <1>4, <1>5 DEF Next

LEMMA LedgerInductive == Ledger /\ [Next]_vars => Ledger'
<1> SUFFICES ASSUME Ledger, [Next]_vars PROVE Ledger'
  OBVIOUS
<1>1. CASE Bystander
  BY <1>1 DEF Bystander, Ledger, Lives
<1>2. CASE NewLife
  <2>1. deaths' \in Nat /\ DOMAIN erp' = Invoices
    BY <1>2 DEF NewLife, Ledger
  <2>2. ASSUME NEW i \in Invoices
        PROVE  IsSeq(erp'[i]) /\ Len(erp'[i]) <= Lives(i)'
    <3>1. IsSeq(erp[i]) /\ Len(erp[i]) <= deaths + 1 /\ Len(erp[i]) \in Nat
      BY AppendToSeq DEF Ledger, Lives
    <3>2. Lives(i)' = deaths + 1
      BY <1>2 DEF NewLife, Lives, Ledger
    <3> QED BY <3>1, <3>2, <1>2 DEF NewLife
  <2> QED BY <2>1, <2>2 DEF Ledger
<1>3. ASSUME NEW i, NEW x, Posts(i, x)
      PROVE  Ledger'
  <2>1. deaths' \in Nat /\ DOMAIN erp' = Invoices
    BY <1>3 DEF Posts, Ledger
  <2>2. ASSUME NEW j \in Invoices
        PROVE  IsSeq(erp'[j]) /\ Len(erp'[j]) <= Lives(j)'
    <3>0. IsSeq(erp[j]) /\ Len(erp[j]) <= Lives(j) /\ Len(erp[j]) \in Nat
      BY AppendToSeq DEF Ledger
    <3>1. CASE j = i /\ i \notin posted
      <4>1. erp'[j] = Append(erp[j], x) /\ Lives(j)' = deaths + 1
        BY <1>3, <3>1 DEF Posts, Ledger, Lives
      <4>2. Lives(j) = deaths
        BY <3>1 DEF Lives, Ledger
      <4> QED BY <3>0, <4>1, <4>2, AppendToSeq DEF Ledger
    <3>2. CASE ~(j = i /\ i \notin posted)
      <4>1. erp'[j] = erp[j] /\ Lives(j)' = Lives(j)
        BY <1>3, <3>2 DEF Posts, Ledger, Lives
      <4> QED BY <3>0, <4>1
    <3> QED BY <3>1, <3>2
  <2> QED BY <2>1, <2>2 DEF Ledger
<1> QED BY <1>1, <1>2, <1>3, StepKinds DEF vars, stores, Bystander

LEMMA LedgerBounds == Ledger => DuplicatesPostOnce
<1> SUFFICES ASSUME Ledger, NEW i \in Invoices
             PROVE  Len(erp[i]) <= deaths + 1
  BY DEF DuplicatesPostOnce
<1>1. Len(erp[i]) \in Nat /\ Len(erp[i]) <= Lives(i)
  BY AppendToSeq DEF Ledger
<1> QED BY <1>1 DEF Ledger, Lives

LEMMA LedgerInitially == Init => Ledger
<1> SUFFICES ASSUME Init PROVE Ledger
  OBVIOUS
<1>1. deaths = 0 /\ posted = {} /\ erp = [i \in Invoices |-> <<>>]
  BY DEF Init
<1>2. IsSeq(<<>>) /\ Len(<<>>) = 0
  <2>1. <<>> \in Seq({})
    OBVIOUS
  <2> QED BY <2>1 DEF IsSeq
<1> QED BY <1>1, <1>2 DEF Ledger, Lives

(***************************************************************************)
(* One life of the worker posts an invoice at most once, however often its *)
(* events are handled: by local dispatch, from the streams, by retries and *)
(* by repeated uploads and decisions.                                      *)
(***************************************************************************)
THEOREM PostedOncePerLife == Spec => []DuplicatesPostOnce
  BY LedgerInitially, LedgerInductive, LedgerBounds, PTL DEF Spec

-----------------------------------------------------------------------------
(***************************************************************************)
(* Types, and that nothing stalls.                                         *)
(*                                                                         *)
(* All a handler or the bus does for the entry at the head of a consumer's *)
(* inbox is of one kind, Works: it may save that invoice's checkpoint, send *)
(* one entry, post and bury, and either keeps the entry (Holds) or is done  *)
(* with it (Releases).  The invariants are shown for that kind at once.    *)
(***************************************************************************)
Inboxes == Seq(Entry)
Stacks == Seq(Call)
Logs == Seq(Posting)
Idle == {"read", "through"}
Working == {"handle", "unanswered", "sleep", "bury"}
ConsumerState == [at: Places, inbox: Inboxes, calls: Stacks]

\* TypeOK, with the sequences under a name.
Typed ==
    /\ mem \in [Invoices -> Checkpoint] /\ disk \in [Invoices -> Checkpoint]
    /\ web \subseteq Invoices
    /\ stream \in [Consumers -> Inboxes]
    /\ consumer \in [Consumers -> ConsumerState]
    /\ dead \in [Events -> SUBSET Invoices]
    /\ posted \subseteq Invoices /\ erp \in [Invoices -> Logs]
    /\ uploads \in [Invoices -> 0 .. MaxUploads]
    /\ decisions \in 0 .. MaxDecisions
    /\ faults \in 0 .. MaxFaults
    /\ deaths \in 0 .. MaxDeaths

\* A consumer has entries and a handler in progress exactly while it works, and
\* whoever sleeps has an attempt left.
Sound(r) ==
    /\ r.at \in Idle => r.inbox = <<>>
    /\ r.at \in Working => r.inbox # <<>> /\ r.calls # <<>>
    /\ r.at = "sleep" => Head(r.calls).attempt < MaxRetries

TInv == Typed /\ \A c \in Consumers : Sound(consumer[c])

Known(i) == mem[i].status # "NONE"

Saves(i) ==
    \/ UNCHANGED <<mem, disk>>
    \/ \E x \in Checkpoint :
          /\ x.status # "NONE"
          /\ mem' = [mem EXCEPT ![i] = x]
          /\ disk' = [disk EXCEPT ![i] = x] \/ disk' = disk

Appends(entry) ==
    \E e \in Consumers : stream' = [stream EXCEPT ![e] = Append(@, entry)]

Sends(i) ==
    UNCHANGED stream \/ (Appends(EntryOf(i)) /\ mem'[i].status # "NONE")

Buries ==
    /\ dead' \in [Events -> SUBSET Invoices]
    /\ \A e \in Events : dead[e] \subseteq dead'[e]

\* The events of a stack that began in this step follow a save.
Holds(c) ==
    \E p \in Working, k \in Stacks :
        /\ consumer' = [consumer EXCEPT ![c].at = p, ![c].calls = k]
        /\ k # <<>>
        /\ p = "sleep" => Head(k).attempt < MaxRetries
        /\ \A x \in Range(k) :
              \/ mem'[InvoiceOf(c)].status # "NONE"
              \/ \E y \in Range(consumer[c].calls) : x.event = y.event

Dropped(c) == CallOf(c).event # "InvoiceUploaded" /\ ~Known(InvoiceOf(c))

\* Every event that is published has a reader.
AllRead == "InvoiceUploaded" \in Consumers /\ (LocalDispatch \/ Consumers = Events)

Rests(i) ==
    \/ mem'[i].status \in Settled
    \/ \E e \in Events : i \in dead'[e]
    \/ \E e \in Consumers : EntryOf(i) \in Range(stream'[e])

Releases(c) == Return(c) /\ (AllRead => Rests(InvoiceOf(c)) \/ Dropped(c))

Works(c) ==
    /\ consumer[c].at \in Working
    /\ Saves(InvoiceOf(c)) /\ Sends(InvoiceOf(c))
    /\ posted' \subseteq Invoices /\ erp' \in [Invoices -> Logs]
    /\ Buries
    /\ faults' \in 0 .. MaxFaults
    /\ UNCHANGED <<inputs, deaths>>
    /\ Holds(c) \/ Releases(c)

LEMMA TypedIsTypeOK == TypeOK <=> Typed
  BY DEF TypeOK, Typed, Inboxes, Stacks, Logs, ConsumerState

\* Sequences as the sets of what is in them.
LEMMA AppendRange ==
    ASSUME NEW T, NEW s \in Seq(T), NEW x \in T
    PROVE  Append(s, x) \in Seq(T) /\ Range(Append(s, x)) = Range(s) \cup {x}
<1> DEFINE t == <<x>>
<1>1. t \in Seq(T) /\ Range(t) = {x} /\ Append(s, x) = s \o t
  BY AppendIsConcat DEF Range
<1> HIDE DEF t
<1>2. Range(s \o t) = Range(s) \cup Range(t)
  BY <1>1, RangeConcatenation
<1>3. Append(s, x) \in Seq(T)
  BY AppendProperties
<1> QED BY <1>1, <1>2, <1>3, Zenon

LEMMA PushRange ==
    ASSUME NEW T, NEW s \in Seq(T), NEW x \in T
    PROVE  /\ <<x>> \o s \in Seq(T) /\ <<x>> \o s # <<>> /\ Head(<<x>> \o s) = x
           /\ Range(<<x>> \o s) = {x} \cup Range(s)
<1> DEFINE t == <<x>>
<1>1. t \in Seq(T) /\ Range(t) = {x} /\ t # <<>> /\ Head(t) = x
  BY DEF Range
<1> HIDE DEF t
<1>2. Range(t \o s) = Range(t) \cup Range(s)
  BY <1>1, RangeConcatenation
<1>3. t \o s \in Seq(T) /\ t \o s # <<>> /\ Head(t \o s) = x
  BY <1>1, ConcatProperties
<1> QED BY <1>1, <1>2, <1>3, Zenon DEF t

LEMMA TailRange ==
    ASSUME NEW T, NEW s \in Seq(T), s # <<>>
    PROVE  /\ Head(s) \in T /\ Tail(s) \in Seq(T)
           /\ Range(s) = {Head(s)} \cup Range(Tail(s))
<1>1. Head(s) \in T /\ Tail(s) \in Seq(T) /\ s = <<Head(s)>> \o Tail(s)
  BY HeadTailProperties
<1>2. Range(<<Head(s)>> \o Tail(s)) = {Head(s)} \cup Range(Tail(s))
  BY <1>1, PushRange
<1> QED BY <1>1, <1>2, Zenon

LEMMA LongTail ==
    ASSUME NEW T, NEW s \in Seq(T), Len(s) > 1
    PROVE  Tail(s) # <<>>
<1> DEFINE n == Len(s)
           t == Tail(s)
<1>1. n \in Nat /\ n > 1 /\ s # <<>>
  BY LenProperties
<1>2. Len(t) = n - 1
  BY <1>1, HeadTailProperties
<1> HIDE DEF n, t
<1>3. Len(t) # 0
  BY <1>1, <1>2
<1>4. Len(<<>>) = 0
  OBVIOUS
<1> QED BY <1>3, <1>4, Zenon DEF t

LEMMA SplitRange ==
    ASSUME NEW T, NEW s \in Seq(T), NEW n \in 0 .. Len(s)
    PROVE  /\ SubSeq(s, 1, n) \in Seq(T) /\ SubSeq(s, n + 1, Len(s)) \in Seq(T)
           /\ Len(SubSeq(s, 1, n)) = n
           /\ Range(s) = Range(SubSeq(s, 1, n)) \cup Range(SubSeq(s, n + 1, Len(s)))
<1> DEFINE a == SubSeq(s, 1, n)
           b == SubSeq(s, n + 1, Len(s))
<1>1. a \in Seq(T) /\ b \in Seq(T) /\ Len(a) = n
  OBVIOUS
<1>2. s = a \o b
  <2>1. /\ Len(s) \in Nat /\ 1 \in 1 .. Len(s) + 1 /\ n \in 1 - 1 .. Len(s)
        /\ Len(s) \in n .. Len(s)
    OBVIOUS
  <2>2. a \o b = SubSeq(s, 1, Len(s))
    BY <2>1, ConcatAdjacentSubSeq, Zenon
  <2> QED BY <2>2, SubSeqFull
<1> HIDE DEF a, b
<1>3. Range(a \o b) = Range(a) \cup Range(b)
  BY <1>1, RangeConcatenation
<1> QED BY <1>1, <1>2, <1>3, Zenon DEF a, b

-----------------------------------------------------------------------------
\* What a working consumer has in hand.
LEMMA AtWork ==
    ASSUME TInv, NEW c \in Consumers, consumer[c].at \in Working
    PROVE  /\ consumer \in [Consumers -> ConsumerState]
           /\ consumer[c].inbox \in Inboxes /\ consumer[c].inbox # <<>>
           /\ consumer[c].calls \in Stacks /\ consumer[c].calls # <<>>
           /\ Head(consumer[c].inbox) \in Entry /\ InvoiceOf(c) \in Invoices
           /\ CallOf(c) \in Call /\ CallOf(c).event \in Events
           /\ CallOf(c).attempt \in 0 .. MaxRetries
           /\ CallOf(c) \in Range(consumer[c].calls)
           /\ c \in Events
<1>1. /\ consumer \in [Consumers -> ConsumerState]
      /\ consumer[c].inbox \in Inboxes /\ consumer[c].inbox # <<>>
      /\ consumer[c].calls \in Stacks /\ consumer[c].calls # <<>>
  BY DEF TInv, Typed, Sound, ConsumerState
<1>2. Head(consumer[c].inbox) \in Entry
  BY <1>1, TailRange DEF Inboxes
<1>3. CallOf(c) \in Call /\ CallOf(c) \in Range(consumer[c].calls)
  BY <1>1, TailRange DEF Stacks, CallOf
<1>4. c \in Events
  BY RedisAssumption
<1> QED BY <1>1, <1>2, <1>3, <1>4 DEF Entry, Call, InvoiceOf

LEMMA NewCallTyped ==
    ASSUME NEW e \in Events
    PROVE  /\ NewCall(e) \in Call /\ NewCall(e).event = e
           /\ <<NewCall(e)>> \in Stacks /\ <<NewCall(e)>> # <<>>
           /\ Range(<<NewCall(e)>>) = {NewCall(e)}
<1>1. NewCall(e) \in Call
  BY RedisAssumption DEF NewCall, Call
<1>2. <<NewCall(e)>> \in Seq(Call)
  BY <1>1
<1> QED BY <1>1, <1>2 DEF NewCall, Stacks, Range

LEMMA GotoHolds ==
    ASSUME TInv, NEW c \in Consumers, consumer[c].at \in Working,
           Goto(c, "unanswered")
    PROVE  Holds(c)
<1>1. consumer' = [consumer EXCEPT ![c].at = "unanswered",
                                   ![c].calls = consumer[c].calls]
  BY AtWork DEF Goto, ConsumerState
<1> QED BY <1>1, AtWork DEF Holds, Working

LEMMA RaiseHolds ==
    ASSUME TInv, NEW c \in Consumers, consumer[c].at \in Working,
           NEW calls \in Stacks, calls # <<>>,
           Range(calls) \subseteq Range(consumer[c].calls),
           Raise(c, calls)
    PROVE  Holds(c)
<1> DEFINE place == IF Head(calls).attempt < MaxRetries THEN "sleep" ELSE "bury"
<1>1. /\ place \in Working
      /\ place = "sleep" => Head(calls).attempt < MaxRetries
  BY DEF Working
<1>2. consumer' = [consumer EXCEPT ![c].at = place, ![c].calls = calls]
  BY DEF Raise
<1> HIDE DEF place
<1> QED BY <1>1, <1>2 DEF Holds

LEMMA AnsweredWorks ==
    ASSUME TInv, NEW c \in Consumers, consumer[c].at \in Working,
           NEW next, Answered(c, next), mem'[InvoiceOf(c)].status # "NONE"
    PROVE  Holds(c) \/ (Return(c) /\ ~(LocalDispatch /\ next \in Events))
<1>1. CASE LocalDispatch /\ next \in Events
  <2> DEFINE k == <<NewCall(next)>> \o consumer[c].calls
  <2>1. k \in Stacks /\ k # <<>>
    BY <1>1, AtWork, NewCallTyped, PushRange DEF Stacks
  <2>2. consumer' = [consumer EXCEPT ![c].at = "handle", ![c].calls = k]
    BY <1>1, AtWork DEF Answered, ConsumerState
  <2> HIDE DEF k
  <2> QED BY <2>1, <2>2 DEF Holds, Working
<1>2. CASE ~(LocalDispatch /\ next \in Events)
  BY <1>2 DEF Answered
<1> QED BY <1>1, <1>2

LEMMA WakeHolds ==
    ASSUME TInv, NEW c \in Consumers, Wake(c)
    PROVE  Holds(c)
<1> DEFINE old == consumer[c].calls
           top == [Head(old) EXCEPT !.attempt = @ + 1]
           k == <<top>> \o Tail(old)
<1>1. consumer[c].at = "sleep" /\ consumer[c].at \in Working
  BY DEF Wake, Working
<1>2. Head(old).attempt < MaxRetries
  BY <1>1 DEF TInv, Sound
<1>3. top \in Call /\ top.event = Head(old).event
  BY <1>1, <1>2, AtWork, RedisAssumption DEF CallOf, Call
<1>4. /\ Tail(old) \in Stacks /\ Head(old) \in Range(old)
      /\ Range(Tail(old)) \subseteq Range(old)
  BY <1>1, AtWork, TailRange DEF Stacks
<1>5. k \in Stacks /\ k # <<>> /\ Range(k) = {top} \cup Range(Tail(old))
  BY <1>3, <1>4, PushRange DEF Stacks
<1>6. consumer' = [consumer EXCEPT ![c].at = "handle", ![c].calls = k]
  BY <1>1, AtWork DEF Wake, ConsumerState, CallOf
<1> HIDE DEF k, top
<1>7. \A x \in Range(k) : \E y \in Range(old) : x.event = y.event
  BY <1>3, <1>4, <1>5
<1> QED BY <1>5, <1>6, <1>7 DEF Holds, Working

LEMMA SaveSaves ==
    ASSUME TInv, NEW i \in Invoices, NEW status \in Statuses \ {"NONE"},
           NEW data \in StateData, NEW ok, Save(i, status, data, ok)
    PROVE  Saves(i) /\ mem'[i].status = status
<1> DEFINE x == [status |-> status, state_data |-> data]
<1>1. x \in Checkpoint /\ x.status = status
  BY DEF Checkpoint
<1>2. mem' = [mem EXCEPT ![i] = x] /\ (disk' = [disk EXCEPT ![i] = x] \/ disk' = disk)
  BY DEF Save
<1>3. mem'[i] = x
  BY <1>2 DEF TInv, Typed
<1> HIDE DEF x
<1> QED BY <1>1, <1>2, <1>3 DEF Saves

LEMMA FailingTyped ==
    ASSUME TInv, NEW n \in Nat, Failing(n)
    PROVE  faults' \in 0 .. MaxFaults
  BY RedisAssumption DEF Failing, TInv, Typed

\* A checkpoint's data, and what an agent makes of it.
LEMMA DataTyped ==
    ASSUME TInv, NEW c \in Consumers, consumer[c].at \in Working
    PROVE  DataOf(c) \in StateData
  BY AtWork DEF DataOf, TInv, Typed, Checkpoint

\* XADD: an entry is appended, or as many of its like wait as are kept apart.
LEMMA AddAppends ==
    ASSUME TInv, NEW event, NEW entry \in Entry, Add(event, entry)
    PROVE  /\ \/ UNCHANGED stream
              \/ /\ event \in Consumers
                 /\ stream' = [stream EXCEPT ![event] = Append(@, entry)]
           /\ event \in Consumers => entry \in Range(stream'[event])
<1>1. CASE event \in Consumers /\ Cardinality(Copies(event, entry)) < MaxCopies
  <2>1. stream' = [stream EXCEPT ![event] = Append(stream[event], entry)]
    BY <1>1 DEF Add
  <2>2. stream'[event] = Append(stream[event], entry) /\ stream[event] \in Inboxes
    BY <1>1, <2>1 DEF TInv, Typed
  <2>3. entry \in Range(stream'[event])
    BY <2>2, AppendRange DEF Inboxes
  <2> QED BY <1>1, <2>1, <2>3
<1>2. CASE event \in Consumers /\ ~(Cardinality(Copies(event, entry)) < MaxCopies)
  <2>1. Copies(event, entry) # {}
    BY <1>2, FS_EmptySet, RedisAssumption
  <2>2. entry \in Range(stream[event])
    BY <2>1 DEF Copies, Range
  <2> QED BY <1>2, <2>2 DEF Add
<1>3. CASE event \notin Consumers
  BY <1>3 DEF Add
<1> QED BY <1>1, <1>2, <1>3

-----------------------------------------------------------------------------
\* What an exception does: the invoice is saved as FAILED, or the consumer holds on.
LEMMA CatchWorks ==
    ASSUME TInv, NEW c \in Consumers, consumer[c].at \in Working,
           NEW calls \in Stacks, calls # <<>>,
           Range(calls) \subseteq Range(consumer[c].calls),
           NEW n \in Nat, Catch(c, calls, n)
    PROVE  /\ Saves(InvoiceOf(c)) /\ faults' \in 0 .. MaxFaults
           /\ Holds(c) \/ (Return(c) /\ mem'[InvoiceOf(c)].status \in Settled)
<1>1. CASE Head(calls).event = "InvoiceUploaded"
  <2>1. PICK ok \in BOOLEAN :
            /\ Save(InvoiceOf(c), "FAILED", NoData, ok)
            /\ Failing(IF ok THEN n ELSE n + 1)
            /\ IF ok THEN Return(c) ELSE Raise(c, calls)
    BY <1>1 DEF Catch
  <2>2. "FAILED" \in Statuses \ {"NONE"} /\ "FAILED" \in Settled
    BY DEF Statuses, Settled
  <2>3. Saves(InvoiceOf(c)) /\ mem'[InvoiceOf(c)].status = "FAILED"
    BY <2>1, <2>2, AtWork, NoDataTyped, SaveSaves
  <2>4. faults' \in 0 .. MaxFaults
    BY <2>1, FailingTyped
  <2>5. CASE ok
    BY <2>1, <2>2, <2>3, <2>4, <2>5
  <2>6. CASE ~ok
    BY <2>1, <2>3, <2>4, <2>6, RaiseHolds
  <2> QED BY <2>5, <2>6
<1>2. CASE Head(calls).event # "InvoiceUploaded"
  <2>1. Raise(c, calls) /\ Failing(n) /\ UNCHANGED <<mem, disk>>
    BY <1>2 DEF Catch
  <2> QED BY <2>1, RaiseHolds, FailingTyped DEF Saves
<1> QED BY <1>1, <1>2

LEMMA SaveAndReturnWorks ==
    ASSUME TInv, NEW c \in Consumers, consumer[c].at \in Working,
           NEW status \in Settled, NEW data \in StateData,
           SaveAndReturn(c, status, data)
    PROVE  /\ Saves(InvoiceOf(c)) /\ faults' \in 0 .. MaxFaults
           /\ Holds(c) \/ (Return(c) /\ mem'[InvoiceOf(c)].status \in Settled)
<1>1. PICK ok \in BOOLEAN :
          /\ Save(InvoiceOf(c), status, data, ok)
          /\ Failing(IF ok THEN 0 ELSE 1)
          /\ IF ok THEN Return(c) ELSE Raise(c, consumer[c].calls)
  BY DEF SaveAndReturn
<1>2. status \in Statuses \ {"NONE"}
  BY DEF Statuses, Settled
<1>3. Saves(InvoiceOf(c)) /\ mem'[InvoiceOf(c)].status = status
  BY <1>1, <1>2, AtWork, SaveSaves
<1>4. faults' \in 0 .. MaxFaults
  BY <1>1, FailingTyped
<1>5. CASE ok
  BY <1>1, <1>3, <1>4, <1>5
<1>6. CASE ~ok
  BY <1>1, <1>3, <1>4, <1>6, AtWork, RaiseHolds
<1> QED BY <1>5, <1>6

\* Handlers that publish something for a handler save a status that is not settled,
\* the others one that is.
LEMMA SaveAndPublishWorks ==
    ASSUME TInv, NEW c \in Consumers, consumer[c].at \in Working,
           NEW status \in Statuses \ {"NONE"}, NEW data \in StateData,
           NEW outcomes \in SUBSET Outcomes,
           status \in Settled \/ NextEvent[CallOf(c).event] \in Events,
           UNCHANGED dead,
           SaveAndPublish(c, status, data, outcomes)
    PROVE  /\ Saves(InvoiceOf(c)) /\ Sends(InvoiceOf(c))
           /\ faults' \in 0 .. MaxFaults
           /\ Holds(c) \/ Releases(c)
<1> DEFINE i == InvoiceOf(c)
           next == NextEvent[CallOf(c).event]
<1> HIDE DEF next, i
<1>1. PICK outcome \in outcomes :
          /\ Save(i, status, data, outcome # "unsaved")
          /\ Failing(IF outcome = "ok" THEN 0 ELSE 1)
          /\ IF outcome \in {"ok", "unanswered"} /\ next \in Events
             THEN Add(next, EntryOf(i))
             ELSE UNCHANGED stream
          /\ CASE outcome = "ok" -> Answered(c, next)
               [] outcome = "unsaved" -> Raise(c, consumer[c].calls)
               [] OTHER -> Goto(c, "unanswered")
  BY DEF SaveAndPublish, next, i
<1>2. i \in Invoices
  BY AtWork DEF i
<1>3. Saves(i) /\ mem'[i].status = status
  BY <1>1, <1>2, SaveSaves
<1>4. faults' \in 0 .. MaxFaults
  BY <1>1, FailingTyped
<1>5. EntryOf(i) \in Entry
  BY <1>2 DEF EntryOf, Entry, RecommendationActions
<1>6. Sends(i)
  <2>1. UNCHANGED stream \/ Add(next, EntryOf(i))
    BY <1>1
  <2>2. UNCHANGED stream \/ Appends(EntryOf(i))
    BY <1>5, <2>1, AddAppends DEF Appends
  <2> QED BY <1>3, <2>2 DEF Sends
<1>7. CASE outcome = "ok"
  <2>1. Answered(c, next)
    BY <1>1, <1>7
  <2>2. mem'[InvoiceOf(c)].status # "NONE"
    BY <1>3 DEF i
  <2>3. Holds(c) \/ (Return(c) /\ ~(LocalDispatch /\ next \in Events))
    BY <2>1, <2>2, AnsweredWorks
  <2>4. ASSUME ~(LocalDispatch /\ next \in Events), AllRead
        PROVE  Rests(i)
    <3>1. CASE next \notin Events
      BY <1>3, <3>1 DEF Rests, next
    <3>2. CASE next \in Events
      <4>1. Consumers = Events
        BY <2>4, <3>2 DEF AllRead
      <4>2. Add(next, EntryOf(i))
        BY <1>1, <1>7, <3>2
      <4>3. EntryOf(i) \in Range(stream'[next])
        BY <1>5, <3>2, <4>1, <4>2, AddAppends
      <4> QED BY <3>2, <4>1, <4>3 DEF Rests
    <3> QED BY <3>1, <3>2
  <2>5. Holds(c) \/ Releases(c)
    BY <2>3, <2>4 DEF Releases, i
  <2> QED BY <1>3, <1>4, <1>6, <2>5 DEF i
<1>8. CASE outcome = "unsaved"
  <2>1. Raise(c, consumer[c].calls)
    BY <1>1, <1>8
  <2>2. Holds(c)
    BY <2>1, AtWork, RaiseHolds
  <2> QED BY <1>3, <1>4, <1>6, <2>2 DEF i
<1>9. CASE outcome \in {"refused", "unanswered"}
  <2>1. Goto(c, "unanswered")
    BY <1>1, <1>9
  <2>2. Holds(c)
    BY <2>1, GotoHolds
  <2> QED BY <1>3, <1>4, <1>6, <2>2 DEF i
<1> QED BY <1>7, <1>8, <1>9 DEF Outcomes

\* Every action of a handler, and every one of the bus but the reading of entries.
LEMMA HandlersWork ==
    ASSUME TInv, NEW c \in Consumers, HandlerStep(c)
    PROVE  Works(c)
<1> DEFINE i == InvoiceOf(c)
<1>1. consumer[c].at = "handle" /\ consumer[c].at \in Working
  BY DEF HandlerStep, HandleInvoiceUploaded, ExtractionFails, Unknown,
         HandleInvoiceParsed, HandleInvoiceValidated, HandleSupplierChecked,
         HandlePricingCompleted, AgentStep, PauseForHuman, AutoReject, AutoApprove,
         Recommended, IgnoreDuplicateApproval, HumanApproves, HumanRejects,
         Handling, Working
<1>2. /\ posted \subseteq Invoices /\ erp \in [Invoices -> Logs]
      /\ dead \in [Events -> SUBSET Invoices] /\ faults \in 0 .. MaxFaults
  BY DEF TInv, Typed
<1>3. DataOf(c) \in StateData
  BY <1>1, DataTyped
<1>4. CASE HandleInvoiceUploaded(c)
  <2>1. PICK x \in Extractions :
            SaveAndPublish(c, "PARSED", [NoData EXCEPT !.invoice_extraction = x],
                           Outcomes \ {"unsaved"})
    BY <1>4 DEF HandleInvoiceUploaded
  <2>2. [NoData EXCEPT !.invoice_extraction = x] \in StateData
    BY NoDataTyped DEF StateData
  <2>3. /\ NextEvent[CallOf(c).event] \in Events
        /\ "PARSED" \in Statuses \ {"NONE"}
        /\ Outcomes \ {"unsaved"} \in SUBSET Outcomes
    BY <1>4 DEF HandleInvoiceUploaded, Handling, NextEvent, Events, Statuses
  <2>4. UNCHANGED <<posted, erp, dead, inputs, deaths>>
    BY <1>4 DEF HandleInvoiceUploaded
  <2>5. Saves(i) /\ Sends(i) /\ faults' \in 0 .. MaxFaults /\ (Holds(c) \/ Releases(c))
    BY <1>1, <2>1, <2>2, <2>3, <2>4, SaveAndPublishWorks
  <2> QED BY <1>1, <1>2, <2>4, <2>5 DEF Works, Buries
<1>5. CASE ExtractionFails(c)
  <2>1. Catch(c, consumer[c].calls, 0) /\ UNCHANGED <<posted, erp, queues, inputs, deaths>>
    BY <1>5 DEF ExtractionFails
  <2>2. /\ Saves(i) /\ faults' \in 0 .. MaxFaults
        /\ Holds(c) \/ (Return(c) /\ mem'[i].status \in Settled)
    BY <1>1, <2>1, AtWork, CatchWorks
  <2> QED BY <1>1, <1>2, <2>1, <2>2 DEF Works, Buries, Sends, Releases, Rests, queues
<1>6. CASE Unknown(c)
  <2>1. Dropped(c) /\ Return(c)
    BY <1>6 DEF Unknown, Dropped, Known
  <2>2. UNCHANGED <<stores, queues, inputs, faults, deaths>>
    BY <1>6 DEF Unknown
  <2> QED BY <1>1, <1>2, <2>1, <2>2
          DEF Works, Saves, Buries, Sends, Releases, stores, queues
<1>7. ASSUME NEW event, NEW key, NEW results, NEW status \in Statuses \ {"NONE"},
             AgentStep(c, event, key, results, status),
             \A r \in results : [DataOf(c) EXCEPT ![key] = r] \in StateData,
             NextEvent[event] \in Events
      PROVE  Works(c)
  <2>1. PICK r \in results :
            SaveAndPublish(c, status, [DataOf(c) EXCEPT ![key] = r], Outcomes)
    BY <1>7 DEF AgentStep
  <2>2. UNCHANGED <<posted, erp, dead, inputs, deaths>>
    BY <1>7 DEF AgentStep
  <2>3. NextEvent[CallOf(c).event] \in Events
    BY <1>7 DEF AgentStep, Handling
  <2>4. [DataOf(c) EXCEPT ![key] = r] \in StateData
    BY <1>7
  <2>5. Saves(i) /\ Sends(i) /\ faults' \in 0 .. MaxFaults /\ (Holds(c) \/ Releases(c))
    BY <1>1, <2>1, <2>2, <2>3, <2>4, SaveAndPublishWorks
  <2> QED BY <1>1, <1>2, <2>2, <2>5 DEF Works, Buries
<1>8. CASE HandleInvoiceParsed(c)
  <2>1. \A r \in ValidationAgent(DataOf(c).invoice_extraction) :
            [DataOf(c) EXCEPT !["validation_result"] = r] \in StateData
    BY <1>3, AgentsTyped
  <2>2. "VALIDATED" \in Statuses \ {"NONE"} /\ NextEvent["InvoiceParsed"] \in Events
    BY DEF Statuses, NextEvent, Events
  <2> QED BY <1>7, <1>8, <2>1, <2>2 DEF HandleInvoiceParsed
<1>9. CASE HandleInvoiceValidated(c)
  <2>1. \A r \in {SupplierAgent(DataOf(c).invoice_extraction)} :
            [DataOf(c) EXCEPT !["supplier_risk"] = r] \in StateData
    BY <1>3, AgentsTyped
  <2>2. /\ "SUPPLIER_CHECKED" \in Statuses \ {"NONE"}
        /\ NextEvent["InvoiceValidated"] \in Events
    BY DEF Statuses, NextEvent, Events
  <2> QED BY <1>7, <1>9, <2>1, <2>2 DEF HandleInvoiceValidated
<1>10. CASE HandleSupplierChecked(c)
  <2>1. \A r \in {PricingAgent(DataOf(c).invoice_extraction)} :
            [DataOf(c) EXCEPT !["pricing_comparison"] = r] \in StateData
    BY <1>3, AgentsTyped
  <2>2. /\ "PRICING_COMPLETED" \in Statuses \ {"NONE"}
        /\ NextEvent["SupplierChecked"] \in Events
    BY DEF Statuses, NextEvent, Events
  <2> QED BY <1>7, <1>10, <2>1, <2>2 DEF HandleSupplierChecked
<1>11. CASE HandlePricingCompleted(c)
  <2>1. \A r \in {RecommendationAgent(DataOf(c))} :
            [DataOf(c) EXCEPT !["recommendation_result"] = r] \in StateData
    BY <1>3, AgentsTyped
  <2>2. /\ "RECOMMENDATION_PENDING" \in Statuses \ {"NONE"}
        /\ NextEvent["PricingCompleted"] \in Events
    BY DEF Statuses, NextEvent, Events
  <2> QED BY <1>7, <1>11, <2>1, <2>2 DEF HandlePricingCompleted
<1>12. ASSUME NEW status \in Settled, SaveAndReturn(c, status, DataOf(c)),
              UNCHANGED <<posted, erp, queues, inputs, deaths>>
       PROVE  Works(c)
  <2>1. /\ Saves(i) /\ faults' \in 0 .. MaxFaults
        /\ Holds(c) \/ (Return(c) /\ mem'[i].status \in Settled)
    BY <1>1, <1>3, <1>12, SaveAndReturnWorks
  <2> QED BY <1>1, <1>2, <1>12, <2>1 DEF Works, Buries, Sends, Releases, Rests, queues
<1>13. CASE PauseForHuman(c)
  BY <1>12, <1>13 DEF PauseForHuman, Settled
<1>14. CASE AutoReject(c) \/ HumanRejects(c)
  BY <1>12, <1>14 DEF AutoReject, HumanRejects, Settled
<1>15. CASE IgnoreDuplicateApproval(c)
  <2>1. mem'[i].status \in Settled /\ Return(c)
    BY <1>15 DEF IgnoreDuplicateApproval, Settled, stores
  <2>2. UNCHANGED <<stores, queues, inputs, faults, deaths>>
    BY <1>15 DEF IgnoreDuplicateApproval
  <2> QED BY <1>1, <1>2, <2>1, <2>2
          DEF Works, Saves, Buries, Sends, Releases, Rests, stores, queues
<1>16. CASE AutoApprove(c) \/ HumanApproves(c)
  <2>1. Finalize(c) /\ UNCHANGED <<dead, inputs, deaths>>
    BY <1>16 DEF AutoApprove, HumanApproves
  <2>2. SaveAndPublish(c, "COMPLETED", DataOf(c), Outcomes)
    BY <2>1 DEF Finalize
  <2>3. "COMPLETED" \in Statuses \ {"NONE"} /\ "COMPLETED" \in Settled
    BY DEF Statuses, Settled
  <2>4. Saves(i) /\ Sends(i) /\ faults' \in 0 .. MaxFaults /\ (Holds(c) \/ Releases(c))
    BY <1>1, <1>3, <2>1, <2>2, <2>3, SaveAndPublishWorks
  <2>5. i \in Invoices
    BY <1>1, AtWork
  <2>6. posted' \subseteq Invoices
    BY <1>2, <2>1, <2>5 DEF Finalize
  <2>7. erp' \in [Invoices -> Logs]
    <3>1. \A log \in Logs : Append(log, PostingOf(DataOf(c))) \in Logs
      BY <1>3, PostingTyped, AppendProperties DEF Logs
    <3> QED BY <1>2, <2>1, <3>1 DEF Finalize
  <2> QED BY <1>1, <1>2, <2>1, <2>4, <2>6, <2>7 DEF Works, Buries
<1> QED BY <1>4, <1>5, <1>6, <1>8, <1>9, <1>10, <1>11, <1>13, <1>14, <1>15, <1>16
        DEF HandlerStep

LEMMA BusWorks ==
    ASSUME TInv, NEW c \in Consumers, BusStep(c), ~ReadGroup(c)
    PROVE  Works(c)
<1> DEFINE i == InvoiceOf(c)
<1>1. consumer[c].at \in Working
  BY DEF BusStep, TimeOut, Wake, Bury, BuryBreaks, Working
<1>2. /\ posted \subseteq Invoices /\ erp \in [Invoices -> Logs]
      /\ dead \in [Events -> SUBSET Invoices] /\ faults \in 0 .. MaxFaults
  BY DEF TInv, Typed
<1>3. CASE TimeOut(c)
  <2>1. Catch(c, consumer[c].calls, 0) /\ UNCHANGED <<posted, erp, queues, inputs, deaths>>
    BY <1>3 DEF TimeOut
  <2>2. /\ Saves(i) /\ faults' \in 0 .. MaxFaults
        /\ Holds(c) \/ (Return(c) /\ mem'[i].status \in Settled)
    BY <1>1, <2>1, AtWork, CatchWorks
  <2> QED BY <1>1, <1>2, <2>1, <2>2 DEF Works, Buries, Sends, Releases, Rests, queues
<1>4. CASE Wake(c)
  <2>1. UNCHANGED <<stores, queues, inputs, faults, deaths>>
    BY <1>4 DEF Wake
  <2> QED BY <1>1, <1>2, <1>4, <2>1, WakeHolds DEF Works, Saves, Buries, Sends, stores, queues
<1>5. CASE Bury(c)
  <2>1. /\ dead' = [dead EXCEPT ![CallOf(c).event] = @ \cup {i}] /\ Return(c)
        /\ UNCHANGED <<stores, stream, inputs, faults, deaths>>
    BY <1>5 DEF Bury
  <2>2. CallOf(c).event \in Events /\ i \in Invoices
    BY <1>1, AtWork
  <2>3. i \in dead'[CallOf(c).event]
    BY <1>2, <2>1, <2>2
  <2>4. Buries
    BY <1>2, <2>1, <2>2 DEF Buries
  <2> QED BY <1>1, <1>2, <2>1, <2>2, <2>3, <2>4
          DEF Works, Saves, Sends, Releases, Rests, stores
<1>6. CASE BuryBreaks(c)
  <2> DEFINE rest == Tail(consumer[c].calls)
  <2>0. Len(consumer[c].calls) > 1
    BY <1>6 DEF BuryBreaks
  <2>1. /\ Catch(c, rest, 1)
        /\ UNCHANGED <<posted, erp, queues, inputs, deaths>>
    BY <1>6 DEF BuryBreaks
  <2>2. rest \in Stacks /\ rest # <<>> /\ Range(rest) \subseteq Range(consumer[c].calls)
    BY <1>1, <2>0, AtWork, TailRange, LongTail DEF Stacks
  <2> HIDE DEF rest
  <2>3. /\ Saves(i) /\ faults' \in 0 .. MaxFaults
        /\ Holds(c) \/ (Return(c) /\ mem'[i].status \in Settled)
    BY <1>1, <2>1, <2>2, CatchWorks
  <2> QED BY <1>1, <1>2, <2>1, <2>3 DEF Works, Buries, Sends, Releases, Rests, queues
<1> QED BY <1>3, <1>4, <1>5, <1>6 DEF BusStep

-----------------------------------------------------------------------------
LEMMA StreamGrows ==
    ASSUME TInv, NEW e \in Consumers, NEW entry \in Entry,
           stream' = [stream EXCEPT ![e] = Append(@, entry)]
    PROVE  /\ stream' \in [Consumers -> Inboxes]
           /\ Range(stream'[e]) = Range(stream[e]) \cup {entry}
           /\ \A d \in Consumers \ {e} : stream'[d] = stream[d]
<1>1. stream \in [Consumers -> Inboxes]
  BY DEF TInv, Typed
<1>2. /\ Append(stream[e], entry) \in Inboxes
      /\ Range(Append(stream[e], entry)) = Range(stream[e]) \cup {entry}
  BY <1>1, AppendRange DEF Inboxes
<1> QED BY <1>1, <1>2

\* Where a consumer is after its work: still at its entry, or past it.
Kept(c, r) ==
    /\ r.at \in Working /\ r.inbox = consumer[c].inbox
    /\ \A x \in Range(r.calls) :
          \/ mem'[InvoiceOf(c)].status # "NONE"
          \/ \E y \in Range(consumer[c].calls) : x.event = y.event

Passed(c, r) ==
    /\ Range(consumer[c].inbox) = {Head(consumer[c].inbox)} \cup Range(r.inbox)
    /\ r.at \in Working => r.calls = <<NewCall(c)>>
    /\ AllRead => Rests(InvoiceOf(c)) \/ Dropped(c)

LEMMA WorkMoves ==
    ASSUME TInv, NEW c \in Consumers, Works(c)
    PROVE  \E r \in ConsumerState :
              /\ consumer' = [consumer EXCEPT ![c] = r]
              /\ Sound(r)
              /\ Kept(c, r) \/ Passed(c, r)
<1>0. consumer[c].at \in Working
  BY DEF Works
<1>1. CASE Holds(c)
  <2>1. PICK p \in Working, k \in Stacks :
            /\ consumer' = [consumer EXCEPT ![c].at = p, ![c].calls = k]
            /\ k # <<>>
            /\ p = "sleep" => Head(k).attempt < MaxRetries
            /\ \A x \in Range(k) :
                  \/ mem'[InvoiceOf(c)].status # "NONE"
                  \/ \E y \in Range(consumer[c].calls) : x.event = y.event
    BY <1>1 DEF Holds
  <2> DEFINE r == [at |-> p, inbox |-> consumer[c].inbox, calls |-> k]
  <2>2. r \in ConsumerState
    BY <1>0, AtWork DEF ConsumerState, Working, Places
  <2>3. consumer' = [consumer EXCEPT ![c] = r]
    <3>1. consumer' = [consumer EXCEPT ![c].at = p, ![c].calls = k]
      BY <2>1
    <3>2. consumer \in [Consumers -> ConsumerState] /\ consumer[c] \in ConsumerState
      BY <1>0, AtWork
    <3>3. r.at = p /\ r.inbox = consumer[c].inbox /\ r.calls = k
      OBVIOUS
    <3> HIDE DEF r
    <3>4. [consumer[c] EXCEPT !.at = p, !.calls = k] = r
      BY <2>2, <3>2, <3>3 DEF ConsumerState
    <3>5. consumer' = [consumer EXCEPT ![c] = [consumer[c] EXCEPT !.at = p, !.calls = k]]
      BY <3>1, <3>2
    <3> QED BY <3>4, <3>5
  <2>4. Sound(r)
    BY <1>0, <2>1, AtWork DEF Sound, Idle, Working
  <2>5. Kept(c, r)
    BY <2>1 DEF Kept
  <2> HIDE DEF r
  <2> QED BY <2>2, <2>3, <2>4, <2>5
<1>2. CASE Releases(c)
  <2> DEFINE rest == Tail(consumer[c].inbox)
             r == IF rest = <<>> THEN Through
                  ELSE [at |-> "handle", inbox |-> rest, calls |-> <<NewCall(c)>>]
  <2>1. /\ rest \in Inboxes
        /\ Range(consumer[c].inbox) = {Head(consumer[c].inbox)} \cup Range(rest)
    BY <1>0, AtWork, TailRange DEF Inboxes
  <2>2. c \in Events /\ <<>> \in Inboxes /\ <<>> \in Stacks
    BY RedisAssumption DEF Inboxes, Stacks
  <2>3. r.inbox = rest
    BY DEF Through, Reading
  <2>4. r \in ConsumerState
    BY <2>1, <2>2, NewCallTyped DEF ConsumerState, Through, Reading, Places
  <2>5. Sound(r) /\ (r.at \in Working => r.calls = <<NewCall(c)>>)
    BY <2>2, NewCallTyped DEF Sound, Through, Reading, Idle, Working
  <2>6. consumer' = [consumer EXCEPT ![c] = r]
    BY <1>2 DEF Releases, Return
  <2> HIDE DEF r, rest
  <2>7. Passed(c, r)
    BY <1>2, <2>1, <2>3, <2>5 DEF Passed, Releases
  <2> QED BY <2>4, <2>5, <2>6, <2>7
<1> QED BY <1>1, <1>2 DEF Works

\* What work does to the checkpoints and the streams.
LEMMA WorkSaves ==
    ASSUME TInv, NEW c \in Consumers, Works(c)
    PROVE  /\ mem' \in [Invoices -> Checkpoint] /\ disk' \in [Invoices -> Checkpoint]
           /\ \A i \in Invoices : i # InvoiceOf(c) => mem'[i] = mem[i]
           /\ \A i \in Invoices : Known(i) => mem'[i].status # "NONE"
           /\ \A i \in Invoices : disk'[i] # disk[i] => mem'[i].status # "NONE"
<1>1. mem \in [Invoices -> Checkpoint] /\ disk \in [Invoices -> Checkpoint]
  BY DEF TInv, Typed
<1>2. InvoiceOf(c) \in Invoices
  BY AtWork DEF Works
<1> QED BY <1>1, <1>2 DEF Works, Saves, Known

LEMMA WorkSends ==
    ASSUME TInv, NEW c \in Consumers, Works(c)
    PROVE  /\ stream' \in [Consumers -> Inboxes]
           /\ \A e \in Consumers : Range(stream[e]) \subseteq Range(stream'[e])
           /\ \A e \in Consumers : \A x \in Range(stream'[e]) :
                 \/ x \in Range(stream[e])
                 \/ x.invoice = InvoiceOf(c) /\ mem'[InvoiceOf(c)].status # "NONE"
<1> DEFINE i == InvoiceOf(c)
<1>1. i \in Invoices
  BY AtWork DEF Works
<1>2. EntryOf(i) \in Entry /\ EntryOf(i).invoice = i
  BY <1>1 DEF EntryOf, Entry, RecommendationActions
<1>3. CASE UNCHANGED stream
  BY <1>3 DEF TInv, Typed
<1>4. CASE Appends(EntryOf(i)) /\ mem'[i].status # "NONE"
  <2>1. PICK e \in Consumers : stream' = [stream EXCEPT ![e] = Append(@, EntryOf(i))]
    BY <1>4 DEF Appends
  <2>2. /\ stream' \in [Consumers -> Inboxes]
        /\ Range(stream'[e]) = Range(stream[e]) \cup {EntryOf(i)}
        /\ \A d \in Consumers \ {e} : stream'[d] = stream[d]
    BY <1>2, <2>1, StreamGrows
  <2> QED BY <1>2, <1>4, <2>2
<1> QED BY <1>3, <1>4 DEF Works, Sends

LEMMA WorkTyped ==
    ASSUME TInv, NEW c \in Consumers, Works(c)
    PROVE  TInv'
<1>1. PICK r \in ConsumerState :
          consumer' = [consumer EXCEPT ![c] = r] /\ Sound(r)
  BY WorkMoves
<1>2. consumer' \in [Consumers -> ConsumerState]
  BY <1>1 DEF TInv, Typed
<1>3. \A d \in Consumers : Sound(consumer'[d])
  BY <1>1 DEF TInv, Typed
<1>4. UNCHANGED <<web, uploads, decisions, deaths>>
  BY DEF Works, inputs
<1>5. /\ posted' \subseteq Invoices /\ erp' \in [Invoices -> Logs]
      /\ dead' \in [Events -> SUBSET Invoices] /\ faults' \in 0 .. MaxFaults
  BY DEF Works, Buries
<1> QED BY <1>2, <1>3, <1>4, <1>5, WorkSaves, WorkSends DEF TInv, Typed

LEMMA ReadingSound ==
    /\ Reading \in ConsumerState /\ Sound(Reading)
    /\ Reading.at \notin Working /\ Reading.inbox = <<>> /\ Range(Reading.inbox) = {}
<1>1. <<>> \in Inboxes /\ <<>> \in Stacks
  BY DEF Inboxes, Stacks
<1>2. Range(<<>>) = {}
  BY DEF Range
<1> QED BY <1>1, <1>2 DEF Reading, ConsumerState, Places, Sound, Idle, Working

\* The entries XREADGROUP delivers move from the stream to the inbox.
LEMMA ReadMoves ==
    ASSUME TInv, NEW c \in Consumers, ReadGroup(c)
    PROVE  \E r \in ConsumerState, s \in Inboxes :
              /\ consumer' = [consumer EXCEPT ![c] = r]
              /\ stream' = [stream EXCEPT ![c] = s]
              /\ Sound(r) /\ r.calls = <<NewCall(c)>>
              /\ Range(stream[c]) = Range(r.inbox) \cup Range(s)
              /\ consumer[c].inbox = <<>>
<1> DEFINE n == IF Len(stream[c]) < Count THEN Len(stream[c]) ELSE Count
           old == SubSeq(stream[c], 1, n)
           s == SubSeq(stream[c], n + 1, Len(stream[c]))
           r == [at |-> "handle", inbox |-> old, calls |-> <<NewCall(c)>>]
<1>1. /\ consumer[c].at = "read" /\ n > 0
      /\ consumer' = [consumer EXCEPT ![c] = r]
      /\ stream' = [stream EXCEPT ![c] = s]
  BY DEF ReadGroup
<1>2. stream[c] \in Seq(Entry)
  BY DEF TInv, Typed, Inboxes
<1>3. n \in 0 .. Len(stream[c])
  BY <1>2, RedisAssumption
<1>4. /\ old \in Inboxes /\ s \in Inboxes /\ Len(old) = n
      /\ Range(stream[c]) = Range(old) \cup Range(s)
  BY <1>2, <1>3, SplitRange, Zenon DEF Inboxes
<1>5. old # <<>>
  <2>1. Len(old) # 0
    BY <1>1, <1>3, <1>4
  <2>2. Len(<<>>) = 0
    OBVIOUS
  <2> QED BY <2>1, <2>2, Zenon
<1>6. c \in Events
  BY RedisAssumption
<1>7. r \in ConsumerState
  BY <1>4, <1>6, NewCallTyped DEF ConsumerState, Places
<1>8. Sound(r) /\ r.calls = <<NewCall(c)>> /\ r.inbox = old
  BY <1>5, <1>6, NewCallTyped DEF Sound, Idle, Working
<1>9. consumer[c].inbox = <<>>
  BY <1>1 DEF TInv, Sound, Idle
<1> HIDE DEF r, s, old, n
<1> QED BY <1>1, <1>4, <1>7, <1>8, <1>9

LEMMA ReadTyped ==
    ASSUME TInv, NEW c \in Consumers, ReadGroup(c)
    PROVE  TInv'
<1>1. PICK r \in ConsumerState, s \in Inboxes :
          /\ consumer' = [consumer EXCEPT ![c] = r]
          /\ stream' = [stream EXCEPT ![c] = s]
          /\ Sound(r)
  BY ReadMoves
<1>2. UNCHANGED <<stores, dead, inputs, faults, deaths>>
  BY DEF ReadGroup
<1> QED BY <1>1, <1>2 DEF TInv, Typed, stores, inputs

LEMMA RoundTyped ==
    ASSUME TInv, NextRound
    PROVE  TInv'
<1>1. consumer' = [c \in Consumers |-> Reading]
  BY DEF NextRound
<1>2. UNCHANGED <<stores, queues, inputs, faults, deaths>>
  BY DEF NextRound
<1> QED BY <1>1, <1>2, ReadingSound DEF TInv, Typed, stores, queues, inputs

LEMMA NoCheckpointTyped == NoCheckpoint \in Checkpoint
  BY NoDataTyped DEF NoCheckpoint, Checkpoint, Statuses

LEMMA DieTyped ==
    ASSUME TInv, Die
    PROVE  TInv'
<1>1. /\ deaths < MaxDeaths /\ deaths' = deaths + 1 /\ posted' = {}
      /\ consumer' = [c \in Consumers |-> Reading]
      /\ UNCHANGED <<disk, erp, stream, dead, inputs>>
      /\ mem' = disk \/ mem' = [i \in Invoices |-> NoCheckpoint]
      /\ Failing(0) \/ Failing(1)
  BY DEF Die
<1>2. deaths' \in 0 .. MaxDeaths
  BY <1>1, RedisAssumption DEF TInv, Typed
<1>3. faults' \in 0 .. MaxFaults
  BY <1>1, FailingTyped
<1>4. mem' \in [Invoices -> Checkpoint]
  BY <1>1, NoCheckpointTyped DEF TInv, Typed
<1> QED BY <1>1, <1>2, <1>3, <1>4, ReadingSound DEF TInv, Typed, inputs

\* The web process adds entries of invoices, of known ones to all streams but that
\* of the uploads.
LEMMA WebMoves ==
    ASSUME TInv, WebStep
    PROVE  /\ UNCHANGED <<stores, dead, consumer, faults, deaths>>
           /\ \/ UNCHANGED stream
              \/ \E e \in Consumers, x \in Entry :
                    /\ stream' = [stream EXCEPT ![e] = Append(@, x)]
                    /\ e = "InvoiceUploaded" \/ x.invoice \in web
           /\ \A i \in Invoices :
                 \/ uploads'[i] = uploads[i]
                 \/ /\ uploads'[i] \in 0 .. MaxUploads
                    /\ AllRead => \E x \in Range(stream'["InvoiceUploaded"]) : x.invoice = i
           /\ uploads' \in [Invoices -> 0 .. MaxUploads]
           /\ decisions' \in 0 .. MaxDecisions
           /\ web' = web \/ web' = {i \in Invoices : disk[i].status # "NONE"}
<1>0. /\ uploads \in [Invoices -> 0 .. MaxUploads] /\ decisions \in 0 .. MaxDecisions
      /\ web \subseteq Invoices
  BY DEF TInv, Typed
<1>1. ASSUME NEW i \in Invoices, AddUpload(i)
      PROVE  /\ UNCHANGED <<stores, dead, web, decisions, consumer, faults, deaths>>
             /\ uploads' = [uploads EXCEPT ![i] = @ + 1]
             /\ uploads' \in [Invoices -> 0 .. MaxUploads]
             /\ \/ UNCHANGED stream
                \/ \E x \in Entry, e \in Consumers :
                      /\ stream' = [stream EXCEPT ![e] = Append(@, x)]
                      /\ e = "InvoiceUploaded"
             /\ AllRead => \E x \in Range(stream'["InvoiceUploaded"]) : x.invoice = i
  <2>1. EntryOf(i) \in Entry /\ EntryOf(i).invoice = i
    BY DEF EntryOf, Entry, RecommendationActions
  <2>2. Add("InvoiceUploaded", EntryOf(i))
    BY <1>1 DEF AddUpload
  <2>3. /\ UNCHANGED <<stores, dead, web, decisions, consumer, faults, deaths>>
        /\ uploads[i] < MaxUploads /\ uploads' = [uploads EXCEPT ![i] = @ + 1]
    BY <1>1 DEF AddUpload
  <2>4. uploads' \in [Invoices -> 0 .. MaxUploads]
    BY <1>0, <2>3, RedisAssumption
  <2>5. "InvoiceUploaded" \in Consumers => EntryOf(i) \in Range(stream'["InvoiceUploaded"])
    BY <2>1, <2>2, AddAppends
  <2>6. \/ UNCHANGED stream
        \/ /\ "InvoiceUploaded" \in Consumers
           /\ stream' = [stream EXCEPT !["InvoiceUploaded"] = Append(@, EntryOf(i))]
    BY <2>1, <2>2, AddAppends
  <2> QED BY <2>1, <2>3, <2>4, <2>5, <2>6 DEF AllRead
<1>2. ASSUME NEW i \in Invoices, NEW a \in {"APPROVE", "REJECT"}, AddDecision(i, a)
      PROVE  /\ UNCHANGED <<stores, dead, web, uploads, consumer, faults, deaths>>
             /\ decisions' \in 0 .. MaxDecisions
             /\ \/ UNCHANGED stream
                \/ \E x \in Entry, e \in Consumers :
                      /\ stream' = [stream EXCEPT ![e] = Append(@, x)]
                      /\ x.invoice \in web
  <2> DEFINE x == [invoice |-> i, action |-> a]
  <2>1. x \in Entry /\ x.invoice = i
    BY DEF Entry, RecommendationActions
  <2>2. i \in web /\ Add("HumanApproved", x)
    BY <1>2 DEF AddDecision
  <2>3. /\ UNCHANGED <<stores, dead, web, uploads, consumer, faults, deaths>>
        /\ decisions < MaxDecisions /\ decisions' = decisions + 1
    BY <1>2 DEF AddDecision
  <2>4. decisions' \in 0 .. MaxDecisions
    BY <1>0, <2>3, RedisAssumption
  <2> HIDE DEF x
  <2>5. \/ UNCHANGED stream
        \/ /\ "HumanApproved" \in Consumers
           /\ stream' = [stream EXCEPT !["HumanApproved"] = Append(@, x)]
    BY <2>1, <2>2, AddAppends
  <2> QED BY <2>1, <2>2, <2>3, <2>4, <2>5
<1>3. CASE \E i \in Invoices : AddUpload(i)
  <2>1. PICK j \in Invoices : AddUpload(j)
    BY <1>3
  <2>2. /\ \A i \in Invoices : i # j => uploads'[i] = uploads[i]
        /\ \A i \in Invoices : uploads'[i] \in 0 .. MaxUploads
    BY <1>0, <1>1, <2>1
  <2> QED BY <1>0, <1>1, <2>1, <2>2
<1>4. CASE \E i \in Invoices, a \in {"APPROVE", "REJECT"} : AddDecision(i, a)
  BY <1>0, <1>2, <1>4
<1>5. CASE RestartWeb
  BY <1>0, <1>5 DEF RestartWeb, queues
<1> QED BY <1>3, <1>4, <1>5 DEF WebStep

LEMMA WebTyped ==
    ASSUME TInv, WebStep
    PROVE  TInv'
<1>1. /\ UNCHANGED <<stores, dead, consumer, faults, deaths>>
      /\ uploads' \in [Invoices -> 0 .. MaxUploads]
      /\ decisions' \in 0 .. MaxDecisions
  BY WebMoves
<1>2. web' \subseteq Invoices
  BY WebMoves DEF TInv, Typed
<1>3. stream' \in [Consumers -> Inboxes]
  <2>1. CASE UNCHANGED stream
    BY <2>1 DEF TInv, Typed
  <2>2. CASE \E e \in Consumers, x \in Entry :
                stream' = [stream EXCEPT ![e] = Append(@, x)]
    BY <2>2, StreamGrows
  <2> QED BY <2>1, <2>2, WebMoves
<1> QED BY <1>1, <1>2, <1>3 DEF TInv, Typed, stores

LEMMA TInvInductive == TInv /\ [Next]_vars => TInv'
<1> SUFFICES ASSUME TInv, [Next]_vars PROVE TInv'
  OBVIOUS
<1>1. CASE UNCHANGED vars
  BY <1>1 DEF vars, stores, queues, inputs, TInv, Typed
<1>2. ASSUME NEW c \in Consumers, HandlerStep(c) \/ BusStep(c)
      PROVE  TInv'
  BY <1>2, HandlersWork, BusWorks, WorkTyped, ReadTyped
<1> QED BY <1>1, <1>2, WebTyped, RoundTyped, DieTyped DEF Next

LEMMA TInvInitially == Init => TInv
<1> SUFFICES ASSUME Init PROVE TInv
  OBVIOUS
<1>1. <<>> \in Inboxes /\ <<>> \in Logs
  BY DEF Inboxes, Logs
<1>2. mem \in [Invoices -> Checkpoint] /\ disk \in [Invoices -> Checkpoint]
  BY NoCheckpointTyped DEF Init
<1>3. dead \in [Events -> SUBSET Invoices] /\ posted \subseteq Invoices /\ web \subseteq Invoices
  BY DEF Init
<1>4. /\ uploads \in [Invoices -> 0 .. MaxUploads] /\ decisions \in 0 .. MaxDecisions
      /\ faults \in 0 .. MaxFaults /\ deaths \in 0 .. MaxDeaths
  BY RedisAssumption DEF Init
<1>5. stream \in [Consumers -> Inboxes] /\ erp \in [Invoices -> Logs]
  BY <1>1 DEF Init
<1>6. consumer \in [Consumers -> ConsumerState] /\ \A c \in Consumers : Sound(consumer[c])
  BY ReadingSound DEF Init
<1> QED BY <1>2, <1>3, <1>4, <1>5, <1>6 DEF TInv, Typed

(***************************************************************************)
(* Every step keeps the types: whatever the handlers, the retries and the  *)
(* dead letters do to the stacks, a sleeping handler has an attempt left,   *)
(* so that no attempt exceeds the budget of _dispatch_with_retries.        *)
(***************************************************************************)
THEOREM RedisTypeCorrect == Spec => []TypeOK
<1>1. TInv => TypeOK
  BY TypedIsTypeOK DEF TInv
<1> QED BY <1>1, TInvInitially, TInvInductive, PTL DEF Spec

-----------------------------------------------------------------------------
(***************************************************************************)
(* Nothing stalls.  The early return of a handler that finds no checkpoint *)
(* would lose an event: Vouched says that in the first life of the worker  *)
(* no handler meets it, as whatever sends an event has saved a checkpoint  *)
(* first, and memory never forgets one.                                    *)
(***************************************************************************)
Vouched ==
    deaths = 0 =>
        /\ \A i \in Invoices : disk[i].status # "NONE" => Known(i)
        /\ \A i \in web : Known(i)
        /\ \A e \in Consumers \ {"InvoiceUploaded"} :
              \A x \in Range(stream[e]) \cup Range(consumer[e].inbox) : Known(x.invoice)
        /\ \A c \in Consumers : consumer[c].at \in Working =>
              \A x \in Range(consumer[c].calls) :
                  x.event = "InvoiceUploaded" \/ Known(InvoiceOf(c))

\* Somewhere there is an entry of the invoice.
Traced(i) ==
    \E c \in Consumers :
        \E x \in Range(stream[c]) \cup Range(consumer[c].inbox) : x.invoice = i

Accounted ==
    \A i \in Invoices :
        uploads[i] > 0 /\ deaths = 0 =>
            mem[i].status \in Settled \/ DeadLettered(i) \/ Traced(i)

LEMMA AccountedIsNothingStalls == Accounted <=> NothingStalls
<1>1. ASSUME NEW i PROVE Traced(i) <=> Waiting(i) \/ Delivered(i)
  BY DEF Traced, Waiting, Delivered, Range
<1> QED BY <1>1 DEF Accounted, NothingStalls

\* What is in a consumer's hands after its work was there before.
LEMMA WorkLeaves ==
    ASSUME TInv, NEW c \in Consumers, Works(c)
    PROVE  \A d \in Consumers : Range(consumer'[d].inbox) \subseteq Range(consumer[d].inbox)
<1>1. PICK r \in ConsumerState :
          /\ consumer' = [consumer EXCEPT ![c] = r]
          /\ Kept(c, r) \/ Passed(c, r)
  BY WorkMoves
<1>2. Range(r.inbox) \subseteq Range(consumer[c].inbox)
  BY <1>1 DEF Kept, Passed
<1> QED BY <1>1, <1>2 DEF TInv, Typed

LEMMA InboxEntries ==
    ASSUME TInv, NEW c \in Consumers
    PROVE  /\ \A x \in Range(consumer[c].inbox) : x.invoice \in Invoices
           /\ \A x \in Range(stream[c]) : x.invoice \in Invoices
<1>1. consumer[c].inbox \in Seq(Entry) /\ stream[c] \in Seq(Entry)
  BY DEF TInv, Typed, ConsumerState, Inboxes
<1>2. Range(consumer[c].inbox) \subseteq Entry /\ Range(stream[c]) \subseteq Entry
  BY <1>1, RangeOfSeq
<1> QED BY <1>2 DEF Entry

LEMMA HeadInInbox ==
    ASSUME TInv, NEW c \in Consumers, consumer[c].inbox # <<>>
    PROVE  Head(consumer[c].inbox) \in Range(consumer[c].inbox)
<1>1. consumer[c].inbox \in Seq(Entry)
  BY DEF TInv, Typed, ConsumerState, Inboxes
<1> QED BY <1>1, TailRange

LEMMA WorkVouched ==
    ASSUME TInv, Vouched, NEW c \in Consumers, Works(c), TInv'
    PROVE  Vouched'
<1> SUFFICES ASSUME deaths = 0 PROVE Vouched'
  BY DEF Vouched, Works
<1>1. \A i \in Invoices : disk'[i].status # "NONE" => mem'[i].status # "NONE"
  BY WorkSaves DEF Vouched, Known
<1>2. \A i \in web' : mem'[i].status # "NONE"
  BY WorkSaves DEF Vouched, Known, Works, inputs, TInv, Typed
<1>3. \A e \in Consumers \ {"InvoiceUploaded"} :
          \A x \in Range(stream'[e]) \cup Range(consumer'[e].inbox) :
              mem'[x.invoice].status # "NONE"
  <2>1. ASSUME NEW e \in Consumers \ {"InvoiceUploaded"}, NEW x \in Range(stream'[e])
        PROVE  mem'[x.invoice].status # "NONE"
    <3>1. CASE x \in Range(stream[e])
      BY <3>1, WorkSaves, InboxEntries DEF Vouched
    <3>2. CASE x.invoice = InvoiceOf(c) /\ mem'[InvoiceOf(c)].status # "NONE"
      BY <3>2
    <3> QED BY <3>1, <3>2, WorkSends
  <2>2. ASSUME NEW e \in Consumers \ {"InvoiceUploaded"}, NEW x \in Range(consumer'[e].inbox)
        PROVE  mem'[x.invoice].status # "NONE"
    <3>1. x \in Range(consumer[e].inbox)
      BY <2>2, WorkLeaves
    <3> QED BY <3>1, WorkSaves, InboxEntries DEF Vouched
  <2> QED BY <2>1, <2>2
<1>4. PICK r \in ConsumerState :
          /\ consumer' = [consumer EXCEPT ![c] = r]
          /\ Sound(r)
          /\ Kept(c, r) \/ Passed(c, r)
  BY WorkMoves
<1>5. consumer'[c] = r /\ \A d \in Consumers \ {c} : consumer'[d] = consumer[d]
  BY <1>4 DEF TInv, Typed
<1>6. ASSUME NEW d \in Consumers, consumer'[d].at \in Working,
             NEW x \in Range(consumer'[d].calls), x.event # "InvoiceUploaded"
      PROVE  mem'[Head(consumer'[d].inbox).invoice].status # "NONE"
  <2>1. CASE d # c
    <3>1. /\ consumer[d].at \in Working /\ x \in Range(consumer[d].calls)
          /\ consumer'[d].inbox = consumer[d].inbox
      BY <1>5, <1>6, <2>1
    <3>2. Known(InvoiceOf(d)) /\ InvoiceOf(d) \in Invoices
      BY <1>6, <3>1, AtWork DEF Vouched
    <3> QED BY <3>1, <3>2, WorkSaves DEF InvoiceOf
  <2>2. CASE d = c /\ Kept(c, r)
    <3>1. consumer'[c].inbox = consumer[c].inbox /\ consumer[c].at \in Working
      BY <1>5, <2>2 DEF Kept, Works
    <3>2. CASE mem'[InvoiceOf(c)].status # "NONE"
      BY <2>2, <3>1, <3>2 DEF InvoiceOf
    <3>3. CASE \E y \in Range(consumer[c].calls) : x.event = y.event
      <4>1. Known(InvoiceOf(c)) /\ InvoiceOf(c) \in Invoices
        BY <1>6, <3>1, <3>3, AtWork DEF Vouched
      <4> QED BY <2>2, <3>1, <4>1, WorkSaves DEF InvoiceOf
    <3> QED BY <1>5, <1>6, <2>2, <3>2, <3>3 DEF Kept
  <2>3. CASE d = c /\ Passed(c, r)
    <3>1. x = NewCall(c)
      BY <1>5, <1>6, <2>3, RedisAssumption, NewCallTyped DEF Passed
    <3>2. c # "InvoiceUploaded"
      BY <1>6, <3>1, RedisAssumption, NewCallTyped
    <3>3. consumer'[c].inbox # <<>>
      BY <1>5, <1>6, <2>3, <1>4 DEF Sound
    <3>4. Head(consumer'[c].inbox) \in Range(consumer'[c].inbox)
      <4>1. r.inbox \in Seq(Entry)
        BY DEF ConsumerState, Inboxes
      <4> QED BY <1>5, <3>3, <4>1, TailRange
    <3> QED BY <1>3, <2>3, <3>2, <3>4
  <2> QED BY <1>4, <2>1, <2>2, <2>3
<1> QED BY <1>1, <1>2, <1>3, <1>6 DEF Vouched, Known, InvoiceOf

LEMMA ReadVouched ==
    ASSUME TInv, Vouched, NEW c \in Consumers, ReadGroup(c)
    PROVE  Vouched'
<1> SUFFICES ASSUME deaths = 0 PROVE Vouched'
  BY DEF Vouched, ReadGroup
<1>1. PICK r \in ConsumerState, s \in Inboxes :
          /\ consumer' = [consumer EXCEPT ![c] = r]
          /\ stream' = [stream EXCEPT ![c] = s]
          /\ Sound(r) /\ r.calls = <<NewCall(c)>>
          /\ Range(stream[c]) = Range(r.inbox) \cup Range(s)
  BY ReadMoves
<1>2. /\ consumer'[c] = r /\ \A d \in Consumers \ {c} : consumer'[d] = consumer[d]
      /\ stream'[c] = s /\ \A d \in Consumers \ {c} : stream'[d] = stream[d]
  BY <1>1 DEF TInv, Typed
<1>3. mem' = mem /\ disk' = disk /\ web' = web
  BY DEF ReadGroup, stores, inputs
<1>4. \A e \in Consumers \ {"InvoiceUploaded"} :
          \A x \in Range(stream'[e]) \cup Range(consumer'[e].inbox) : Known(x.invoice)
  BY <1>1, <1>2 DEF Vouched
<1>5. ASSUME NEW d \in Consumers, consumer'[d].at \in Working,
             NEW x \in Range(consumer'[d].calls), x.event # "InvoiceUploaded"
      PROVE  Known(Head(consumer'[d].inbox).invoice)
  <2>1. CASE d # c
    BY <1>2, <1>5, <2>1 DEF Vouched, InvoiceOf
  <2>2. CASE d = c
    <3>1. x = NewCall(c)
      <4>1. consumer'[d].calls = <<NewCall(c)>> /\ c \in Events
        BY <1>1, <1>2, <2>2, RedisAssumption
      <4>2. Range(consumer'[d].calls) = {NewCall(c)}
        BY <4>1, NewCallTyped
      <4> QED BY <4>2
    <3>2. c # "InvoiceUploaded"
      BY <1>5, <3>1, RedisAssumption, NewCallTyped
    <3>3. r.inbox \in Seq(Entry) /\ r.inbox # <<>>
      BY <1>1, <1>2, <1>5, <2>2 DEF ConsumerState, Inboxes, Sound
    <3> QED BY <1>2, <1>4, <2>2, <3>2, <3>3, TailRange
  <2> QED BY <2>1, <2>2
<1> QED BY <1>3, <1>4, <1>5 DEF Vouched, Known, InvoiceOf

LEMMA WebVouched ==
    ASSUME TInv, Vouched, WebStep
    PROVE  Vouched'
<1> SUFFICES ASSUME deaths = 0 PROVE Vouched'
  BY WebMoves DEF Vouched
<1>1. mem' = mem /\ disk' = disk /\ consumer' = consumer
  BY WebMoves DEF stores
<1>2. \A i \in web' : Known(i)
  BY WebMoves DEF Vouched
<1>3. ASSUME NEW e \in Consumers \ {"InvoiceUploaded"}, NEW x \in Range(stream'[e])
      PROVE  Known(x.invoice)
  <2>1. CASE UNCHANGED stream
    BY <1>3, <2>1 DEF Vouched
  <2>2. CASE \E d \in Consumers, y \in Entry :
                /\ stream' = [stream EXCEPT ![d] = Append(@, y)]
                /\ d = "InvoiceUploaded" \/ y.invoice \in web
    <3>1. PICK d \in Consumers, y \in Entry :
              /\ stream' = [stream EXCEPT ![d] = Append(@, y)]
              /\ d = "InvoiceUploaded" \/ y.invoice \in web
      BY <2>2
    <3>2. /\ Range(stream'[d]) = Range(stream[d]) \cup {y}
          /\ \A b \in Consumers \ {d} : stream'[b] = stream[b]
      BY <3>1, StreamGrows
    <3> QED BY <1>3, <3>1, <3>2 DEF Vouched
  <2> QED BY <2>1, <2>2, WebMoves
<1>4. \A e \in Consumers \ {"InvoiceUploaded"} :
          \A x \in Range(stream'[e]) \cup Range(consumer'[e].inbox) : Known(x.invoice)
  BY <1>1, <1>3 DEF Vouched
<1> QED BY <1>1, <1>2, <1>4 DEF Vouched, Known, InvoiceOf

LEMMA RoundVouched ==
    ASSUME TInv, Vouched, NextRound
    PROVE  Vouched'
<1>1. /\ consumer' = [c \in Consumers |-> Reading]
      /\ UNCHANGED <<mem, disk, web, stream, deaths>>
  BY DEF NextRound, stores, queues, inputs
<1> QED BY <1>1, ReadingSound DEF Vouched, Known

LEMMA VouchedInductive == TInv /\ Vouched /\ [Next]_vars => Vouched'
<1> SUFFICES ASSUME TInv, Vouched, [Next]_vars PROVE Vouched'
  OBVIOUS
<1>1. CASE UNCHANGED vars
  BY <1>1 DEF vars, stores, queues, inputs, Vouched, Known, InvoiceOf
<1>2. ASSUME NEW c \in Consumers, HandlerStep(c) \/ BusStep(c)
      PROVE  Vouched'
  BY <1>2, HandlersWork, BusWorks, WorkTyped, WorkVouched, ReadVouched
<1>3. CASE Die
  <2>1. deaths' # 0
    BY <1>3 DEF Die, TInv, Typed
  <2> QED BY <2>1 DEF Vouched
<1> QED BY <1>1, <1>2, <1>3, WebVouched, RoundVouched DEF Next

LEMMA WorkAccounted ==
    ASSUME TInv, Vouched, Accounted, AllRead, NEW c \in Consumers, Works(c)
    PROVE  Accounted'
<1> DEFINE j == InvoiceOf(c)
<1> SUFFICES ASSUME NEW i \in Invoices, uploads'[i] > 0, deaths' = 0
             PROVE  mem'[i].status \in Settled \/ DeadLettered(i)' \/ Traced(i)'
  BY DEF Accounted
<1>1. uploads' = uploads /\ deaths' = deaths /\ Buries
  BY DEF Works, inputs
<1>2. PICK r \in ConsumerState :
          /\ consumer' = [consumer EXCEPT ![c] = r]
          /\ Kept(c, r) \/ Passed(c, r)
  BY WorkMoves
<1>3. consumer'[c] = r /\ \A d \in Consumers \ {c} : consumer'[d] = consumer[d]
  BY <1>2 DEF TInv, Typed
<1>4. consumer[c].at \in Working /\ consumer[c].inbox # <<>>
  BY AtWork DEF Works
<1>5. CASE i = j /\ Kept(c, r)
  <2>1. Head(consumer[c].inbox) \in Range(consumer'[c].inbox)
    BY <1>3, <1>4, <1>5, HeadInInbox DEF Kept
  <2> QED BY <1>5, <2>1 DEF Traced, InvoiceOf
<1>6. CASE i = j /\ Passed(c, r)
  <2>1. ~Dropped(c)
    <3>1. CallOf(c) \in Range(consumer[c].calls)
      BY <1>4, AtWork
    <3> QED BY <1>1, <1>4, <3>1 DEF Vouched, Dropped
  <2>2. Rests(j)
    BY <1>6, <2>1 DEF Passed
  <2>3. CASE mem'[j].status \in Settled
    BY <1>6, <2>3
  <2>4. CASE \E e \in Events : j \in dead'[e]
    BY <1>6, <2>4 DEF DeadLettered
  <2>5. CASE \E e \in Consumers : EntryOf(j) \in Range(stream'[e])
    <3>1. EntryOf(j).invoice = j
      BY DEF EntryOf
    <3> QED BY <1>6, <2>5, <3>1 DEF Traced
  <2> QED BY <2>2, <2>3, <2>4, <2>5 DEF Rests
<1>7. CASE i # j
  <2>1. mem'[i] = mem[i]
    BY <1>7, WorkSaves
  <2>2. CASE mem[i].status \in Settled
    BY <2>1, <2>2
  <2>3. CASE DeadLettered(i)
    BY <1>1, <2>3 DEF DeadLettered, Buries
  <2>4. CASE Traced(i)
    <3>1. PICK d \in Consumers :
              \E x \in Range(stream[d]) \cup Range(consumer[d].inbox) : x.invoice = i
      BY <2>4 DEF Traced
    <3>2. PICK x \in Range(stream[d]) \cup Range(consumer[d].inbox) : x.invoice = i
      BY <3>1
    <3>3. CASE x \in Range(stream[d])
      BY <3>2, <3>3, WorkSends DEF Traced
    <3>4. CASE x \in Range(consumer[d].inbox) /\ d # c
      BY <1>3, <3>2, <3>4 DEF Traced
    <3>5. CASE x \in Range(consumer[d].inbox) /\ d = c
      <4>1. x # Head(consumer[c].inbox)
        BY <1>7, <3>2 DEF InvoiceOf
      <4>2. x \in Range(r.inbox)
        BY <1>2, <3>5, <4>1 DEF Kept, Passed
      <4> QED BY <1>3, <3>2, <3>5, <4>2 DEF Traced
    <3> QED BY <3>2, <3>3, <3>4, <3>5
  <2> QED BY <1>1, <2>2, <2>3, <2>4 DEF Accounted
<1> QED BY <1>2, <1>5, <1>6, <1>7

LEMMA ReadAccounted ==
    ASSUME TInv, Accounted, NEW c \in Consumers, ReadGroup(c)
    PROVE  Accounted'
<1>1. PICK r \in ConsumerState, s \in Inboxes :
          /\ consumer' = [consumer EXCEPT ![c] = r]
          /\ stream' = [stream EXCEPT ![c] = s]
          /\ Range(stream[c]) = Range(r.inbox) \cup Range(s)
          /\ consumer[c].inbox = <<>>
  BY ReadMoves
<1>2. /\ consumer'[c] = r /\ \A d \in Consumers \ {c} : consumer'[d] = consumer[d]
      /\ stream'[c] = s /\ \A d \in Consumers \ {c} : stream'[d] = stream[d]
  BY <1>1 DEF TInv, Typed
<1>3. Range(consumer[c].inbox) = {}
  BY <1>1 DEF Range
<1>4. UNCHANGED <<mem, dead, uploads, deaths>>
  BY DEF ReadGroup, stores, inputs
<1>5. ASSUME NEW i, Traced(i) PROVE Traced(i)'
  BY <1>1, <1>2, <1>3, <1>5 DEF Traced
<1> QED BY <1>4, <1>5 DEF Accounted, DeadLettered

LEMMA WebAccounted ==
    ASSUME TInv, Accounted, AllRead, WebStep
    PROVE  Accounted'
<1>1. UNCHANGED <<mem, dead, consumer, deaths>>
  BY WebMoves DEF stores
<1>2. \A e \in Consumers : Range(stream[e]) \subseteq Range(stream'[e])
  <2>1. ASSUME NEW d \in Consumers, NEW y \in Entry,
               stream' = [stream EXCEPT ![d] = Append(@, y)]
        PROVE  \A e \in Consumers : Range(stream[e]) \subseteq Range(stream'[e])
    BY <2>1, StreamGrows
  <2> QED BY <2>1, WebMoves
<1>3. ASSUME NEW i, Traced(i) PROVE Traced(i)'
  BY <1>1, <1>2, <1>3 DEF Traced
<1>4. ASSUME NEW i \in Invoices, uploads'[i] # uploads[i] PROVE Traced(i)'
  <2>1. PICK x \in Range(stream'["InvoiceUploaded"]) : x.invoice = i
    BY <1>4, WebMoves
  <2> QED BY <2>1 DEF Traced, AllRead
<1> QED BY <1>1, <1>3, <1>4 DEF Accounted, DeadLettered

LEMMA RoundAccounted ==
    ASSUME TInv, Accounted, NextRound
    PROVE  Accounted'
<1>1. /\ \A c \in Consumers : consumer[c].at \in Idle
      /\ consumer' = [c \in Consumers |-> Reading]
      /\ UNCHANGED <<mem, dead, stream, uploads, deaths>>
  BY DEF NextRound, Idle, stores, queues, inputs
<1>2. \A c \in Consumers : Range(consumer[c].inbox) = {}
  BY <1>1 DEF TInv, Sound, Range
<1>3. ASSUME NEW i, Traced(i) PROVE Traced(i)'
  BY <1>1, <1>2, <1>3 DEF Traced
<1> QED BY <1>1, <1>3 DEF Accounted, DeadLettered

LEMMA AccountedInductive ==
    ASSUME AllRead
    PROVE  TInv /\ Vouched /\ Accounted /\ [Next]_vars => Accounted'
<1> SUFFICES ASSUME TInv, Vouched, Accounted, [Next]_vars PROVE Accounted'
  OBVIOUS
<1>1. CASE UNCHANGED vars
  BY <1>1 DEF vars, stores, queues, inputs, Accounted, DeadLettered, Traced
<1>2. ASSUME NEW c \in Consumers, HandlerStep(c) \/ BusStep(c)
      PROVE  Accounted'
  BY <1>2, HandlersWork, BusWorks, WorkAccounted, ReadAccounted
<1>3. CASE Die
  <2>1. deaths' # 0
    BY <1>3 DEF Die, TInv, Typed
  <2> QED BY <2>1 DEF Accounted
<1> QED BY <1>1, <1>2, <1>3, WebAccounted, RoundAccounted DEF Next

(***************************************************************************)
(* Until the worker dies, no uploaded invoice disappears: it is decided,   *)
(* waits for a human, is FAILED or dead-lettered, or an entry of it is in  *)
(* a stream or in a consumer's hands.  Uploads must be read, and what is    *)
(* published handled at once or read: every event has a reader, or local    *)
(* dispatch is on.                                                         *)
(***************************************************************************)
THEOREM NothingEverStalls ==
    ASSUME AllRead
    PROVE  Spec => []NothingStalls
<1>1. Init => Vouched /\ Accounted
  <2> SUFFICES ASSUME Init PROVE Vouched /\ Accounted
    OBVIOUS
  <2>1. \A c \in Consumers :
            /\ Range(stream[c]) = {} /\ Range(consumer[c].inbox) = {}
            /\ consumer[c].at \notin Working
    BY ReadingSound DEF Init, Range
  <2>2. web = {} /\ mem = disk /\ \A i \in Invoices : uploads[i] = 0
    BY DEF Init
  <2> QED BY <2>1, <2>2 DEF Vouched, Accounted, Known
<1>2. TInv /\ Vouched /\ Accounted /\ [Next]_vars => (TInv /\ Vouched /\ Accounted)'
  BY TInvInductive, VouchedInductive, AccountedInductive
<1>3. Accounted => NothingStalls
  BY AccountedIsNothingStalls
<1> QED BY <1>1, <1>2, <1>3, TInvInitially, PTL DEF Spec

-----------------------------------------------------------------------------
(***************************************************************************)
(* What the worker may post by itself.  While no call fails nobody sleeps, *)
(* buries or waits in vain, and memory is the store; a handler that        *)
(* replaces the state data from nothing is then only ever run for an entry *)
(* of its own stream.  Orderly says that until it has been run for the     *)
(* only upload of an invoice no event of the chain is under way, and that  *)
(* from then on the results that an event needs are there: they may be     *)
(* replaced, but only by results of the same agent on the same extraction. *)
(***************************************************************************)
Chain == Events \ {"InvoiceUploaded", "HumanApproved"}

In(s, i) == \E x \in Range(s) : x.invoice = i

Once(s, i) ==
    \A k, l \in DOMAIN s : s[k].invoice = i /\ s[l].invoice = i => k = l

\* The uploads still to be handled.
Todo ==
    LET first == consumer["InvoiceUploaded"]
    IN  IF "InvoiceUploaded" \notin Consumers THEN <<>>
        ELSE IF first.at = "handle" /\ Head(first.calls).event # "InvoiceUploaded"
             THEN Tail(first.inbox) \o stream["InvoiceUploaded"]
             ELSE first.inbox \o stream["InvoiceUploaded"]

\* An event of an invoice waits in its stream or inbox, or is being handled.
InStream(e, i) == e \in Consumers /\ In(stream[e], i)
InBatch(e, i) ==
    e \in Consumers /\ consumer[e].at = "handle" /\ In(Tail(consumer[e].inbox), i)
InHand(c, e, i) ==
    consumer[c].at = "handle" /\ CallOf(c).event = e /\ InvoiceOf(c) = i
Under(e, i) ==
    InStream(e, i) \/ InBatch(e, i) \/ \E c \in Consumers : InHand(c, e, i)

OrderlyFor(i) ==
    /\ Once(Todo, i)
    /\ uploads[i] = 0 => ~In(Todo, i)
    /\ uploads[i] = 0 \/ In(Todo, i) => \A e \in Chain : ~Under(e, i)
    /\ \A e \in Chain : Under(e, i) => Reached(e, mem[i].state_data)

Calm ==
    /\ mem = disk
    /\ \A c \in Consumers : consumer[c].at \in {"read", "handle", "through"}
    /\ \A c \in Consumers \ {"InvoiceUploaded"} :
          consumer[c].at = "handle" => CallOf(c).event # "InvoiceUploaded"

Orderly ==
    faults = 0 => Calm /\ \A i \in Invoices : uploads[i] <= 1 => OrderlyFor(i)

\* Sequences in which an invoice comes once.
LEMMA OnceAppend ==
    ASSUME NEW s \in Seq(Entry), NEW x \in Entry, NEW i, Once(s, i),
           x.invoice # i \/ ~In(s, i)
    PROVE  Once(Append(s, x), i)
<1>1. /\ DOMAIN s = 1 .. Len(s) /\ Len(s) \in Nat
      /\ DOMAIN Append(s, x) = 1 .. Len(s) + 1
      /\ Append(s, x)[Len(s) + 1] = x
      /\ \A k \in 1 .. Len(s) : Append(s, x)[k] = s[k]
  BY AppendProperties
<1>2. x.invoice # i \/ \A k \in DOMAIN s : s[k].invoice # i
  BY DEF In, Range
<1> SUFFICES ASSUME NEW k \in 1 .. Len(s) + 1, NEW l \in 1 .. Len(s) + 1,
                    Append(s, x)[k].invoice = i, Append(s, x)[l].invoice = i
             PROVE  k = l
  BY <1>1 DEF Once
<1>3. CASE k \in 1 .. Len(s) /\ l \in 1 .. Len(s)
  BY <1>1, <1>3 DEF Once
<1>4. CASE k = Len(s) + 1 \/ l = Len(s) + 1
  <2>1. x.invoice = i
    BY <1>1, <1>4
  <2>2. k \notin 1 .. Len(s) /\ l \notin 1 .. Len(s)
    BY <1>1, <1>2, <2>1
  <2> QED BY <1>1, <2>2
<1> QED BY <1>1, <1>3, <1>4

LEMMA OnceTail ==
    ASSUME NEW s \in Seq(Entry), s # <<>>, NEW i, Once(s, i)
    PROVE  /\ Once(Tail(s), i)
           /\ Head(s).invoice = i => ~In(Tail(s), i)
<1>1. /\ Len(s) \in Nat \ {0} /\ DOMAIN s = 1 .. Len(s)
      /\ DOMAIN Tail(s) = 1 .. Len(s) - 1
      /\ \A k \in 1 .. Len(s) - 1 : Tail(s)[k] = s[k + 1]
      /\ Head(s) = s[1]
  BY HeadTailProperties, EmptySeq
<1>2. Once(Tail(s), i)
  <2> SUFFICES ASSUME NEW k \in 1 .. Len(s) - 1, NEW l \in 1 .. Len(s) - 1,
                      Tail(s)[k].invoice = i, Tail(s)[l].invoice = i
               PROVE  k = l
    BY <1>1 DEF Once
  <2>1. /\ s[k + 1].invoice = i /\ s[l + 1].invoice = i
        /\ k + 1 \in DOMAIN s /\ l + 1 \in DOMAIN s
    BY <1>1
  <2>2. k + 1 = l + 1
    BY <2>1 DEF Once
  <2> QED BY <2>2
<1>3. ASSUME Head(s).invoice = i, In(Tail(s), i) PROVE FALSE
  <2>1. PICK k \in 1 .. Len(s) - 1 : s[k + 1].invoice = i
    BY <1>1, <1>3 DEF In, Range
  <2>2. k + 1 \in DOMAIN s /\ 1 \in DOMAIN s /\ s[1].invoice = i
    BY <1>1, <1>3
  <2>3. k + 1 = 1
    BY <2>1, <2>2 DEF Once
  <2> QED BY <2>3
<1> QED BY <1>2, <1>3

LEMMA OnceSuffix ==
    ASSUME NEW s \in Seq(Entry), NEW t \in Seq(Entry), NEW i, Once(s \o t, i)
    PROVE  Once(t, i)
<1>1. /\ Len(s) \in Nat /\ Len(t) \in Nat
      /\ DOMAIN t = 1 .. Len(t) /\ DOMAIN (s \o t) = 1 .. Len(s) + Len(t)
      /\ \A k \in 1 .. Len(t) : (s \o t)[Len(s) + k] = t[k]
  BY ConcatProperties
<1> SUFFICES ASSUME NEW k \in 1 .. Len(t), NEW l \in 1 .. Len(t),
                    t[k].invoice = i, t[l].invoice = i
             PROVE  k = l
  BY <1>1 DEF Once
<1>2. /\ (s \o t)[Len(s) + k].invoice = i /\ (s \o t)[Len(s) + l].invoice = i
      /\ Len(s) + k \in DOMAIN (s \o t) /\ Len(s) + l \in DOMAIN (s \o t)
  BY <1>1
<1>3. Len(s) + k = Len(s) + l
  BY <1>2 DEF Once
<1> QED BY <1>1, <1>3

\* What the handlers do when no call fails: the next event is handled right here
\* or the entry is done with.
CalmWork(c) ==
    LET event == CallOf(c).event
        j == InvoiceOf(c)
        next == NextEvent[event]
    IN  /\ consumer[c].at = "handle"
        /\ mem' = disk' /\ UNCHANGED <<uploads, faults>>
        /\ \A i \in Invoices \ {j} : mem'[i] = mem[i]
        /\ event # "InvoiceUploaded" /\ uploads[j] <= 1 =>
              \A e \in Chain : Reached(e, mem[j].state_data) => Reached(e, mem'[j].state_data)
        /\ \/ /\ Return(c) /\ UNCHANGED stream
           \/ /\ next \in Chain
              /\ uploads[j] <= 1 => Reached(next, mem'[j].state_data)
              /\ Add(next, EntryOf(j))
              /\ \/ Return(c)
                 \/ consumer' = [consumer EXCEPT ![c].at = "handle",
                                    ![c].calls = <<NewCall(next)>> \o consumer[c].calls]

\* In a calm world nothing has failed before.
LEMMA StillCalm ==
    ASSUME TInv, NEW n \in Nat, Failing(n), faults' = 0
    PROVE  n = 0 /\ faults = 0 /\ faults' = faults
<1>1. faults \in Nat /\ faults' = faults + n
  BY DEF TInv, Typed, Failing
<1> QED BY <1>1

\* A save that succeeds keeps memory and the store alike.
LEMMA SaveKeepsBoth ==
    ASSUME TInv, mem = disk, NEW i \in Invoices, NEW status, NEW data,
           Save(i, status, data, TRUE)
    PROVE  /\ mem' = disk' /\ mem'[i].state_data = data
           /\ \A k \in Invoices \ {i} : mem'[k] = mem[k]
<1> DEFINE x == [status |-> status, state_data |-> data]
<1>1. x.state_data = data
  OBVIOUS
<1>2. mem' = [mem EXCEPT ![i] = x] /\ disk' = [disk EXCEPT ![i] = x]
  BY DEF Save
<1> HIDE DEF x
<1> QED BY <1>1, <1>2 DEF TInv, Typed

LEMMA CalmReturn ==
    ASSUME TInv, mem = disk, NEW c \in Consumers, consumer[c].at = "handle",
           faults' = 0, NEW status, SaveAndReturn(c, status, DataOf(c)),
           UNCHANGED <<queues, inputs>>
    PROVE  CalmWork(c)
<1>1. PICK ok \in BOOLEAN :
          /\ Save(InvoiceOf(c), status, DataOf(c), ok)
          /\ Failing(IF ok THEN 0 ELSE 1)
          /\ IF ok THEN Return(c) ELSE Raise(c, consumer[c].calls)
  BY DEF SaveAndReturn
<1>2. ok /\ faults' = faults
  BY <1>1, StillCalm
<1>3. InvoiceOf(c) \in Invoices
  BY AtWork DEF Working
<1>4. /\ mem' = disk' /\ mem'[InvoiceOf(c)].state_data = DataOf(c)
      /\ \A k \in Invoices \ {InvoiceOf(c)} : mem'[k] = mem[k]
  BY <1>1, <1>2, <1>3, SaveKeepsBoth
<1> QED BY <1>1, <1>2, <1>4 DEF CalmWork, DataOf, queues, inputs

LEMMA CalmPublish ==
    ASSUME TInv, mem = disk, NEW c \in Consumers, consumer[c].at = "handle",
           faults' = 0, NEW status, NEW data, NEW outcomes,
           SaveAndPublish(c, status, data, outcomes), UNCHANGED inputs,
           CallOf(c).event # "InvoiceUploaded" /\ uploads[InvoiceOf(c)] <= 1 =>
              \A e \in Chain : Reached(e, DataOf(c)) => Reached(e, data),
           NextEvent[CallOf(c).event] \in Events =>
              /\ NextEvent[CallOf(c).event] \in Chain
              /\ uploads[InvoiceOf(c)] <= 1 => Reached(NextEvent[CallOf(c).event], data)
    PROVE  CalmWork(c)
<1> DEFINE next == NextEvent[CallOf(c).event]
           j == InvoiceOf(c)
<1> HIDE DEF next, j
<1>1. PICK outcome \in outcomes :
          /\ Save(j, status, data, outcome # "unsaved")
          /\ Failing(IF outcome = "ok" THEN 0 ELSE 1)
          /\ IF outcome \in {"ok", "unanswered"} /\ next \in Events
             THEN Add(next, EntryOf(j))
             ELSE UNCHANGED stream
          /\ CASE outcome = "ok" -> Answered(c, next)
               [] outcome = "unsaved" -> Raise(c, consumer[c].calls)
               [] OTHER -> Goto(c, "unanswered")
  BY DEF SaveAndPublish, next, j
<1>2. outcome = "ok" /\ faults' = faults
  BY <1>1, StillCalm
<1>3. j \in Invoices
  BY AtWork DEF Working, j
<1>4. Save(j, status, data, TRUE) /\ Answered(c, next)
  BY <1>1, <1>2
<1>5. /\ mem' = disk' /\ mem'[j].state_data = data
      /\ \A k \in Invoices \ {j} : mem'[k] = mem[k]
  BY <1>3, <1>4, SaveKeepsBoth
<1>6. CallOf(c).event # "InvoiceUploaded" /\ uploads[j] <= 1 =>
          \A e \in Chain : Reached(e, mem[j].state_data) => Reached(e, mem'[j].state_data)
  BY <1>5 DEF DataOf, j
<1>7. CASE next \in Events
  <2>1. Add(next, EntryOf(j)) /\ next \in Chain
    BY <1>1, <1>2, <1>7 DEF next
  <2>2. uploads[j] <= 1 => Reached(next, mem'[j].state_data)
    BY <1>5, <1>7 DEF next, j
  <2>3. \/ Return(c)
        \/ consumer' = [consumer EXCEPT ![c].at = "handle",
                           ![c].calls = <<NewCall(next)>> \o consumer[c].calls]
    BY <1>4, <1>7, AtWork DEF Answered, ConsumerState, Working
  <2> QED BY <1>2, <1>5, <1>6, <2>1, <2>2, <2>3 DEF CalmWork, inputs, next, j
<1>8. CASE next \notin Events
  <2>1. Return(c) /\ UNCHANGED stream
    BY <1>1, <1>2, <1>4, <1>8 DEF Answered
  <2> QED BY <1>2, <1>5, <1>6, <2>1 DEF CalmWork, inputs, j
<1> QED BY <1>7, <1>8

\* A failing call is never forgotten.
LEMMA FaultsStay ==
    ASSUME TInv, [Next]_vars, faults' = 0
    PROVE  faults = 0
<1>1. ASSUME NEW n \in Nat, Failing(n)
      PROVE  faults = 0
  BY <1>1, StillCalm
<1>2. ASSUME NEW c, NEW status, NEW data, SaveAndReturn(c, status, data)
      PROVE  faults = 0
  <2>1. PICK ok \in BOOLEAN : Failing(IF ok THEN 0 ELSE 1)
    BY <1>2 DEF SaveAndReturn
  <2> QED BY <1>1, <2>1
<1>3. ASSUME NEW c, NEW status, NEW data, NEW outcomes,
             SaveAndPublish(c, status, data, outcomes)
      PROVE  faults = 0
  <2>1. PICK outcome \in outcomes : Failing(IF outcome = "ok" THEN 0 ELSE 1)
    BY <1>3 DEF SaveAndPublish
  <2> QED BY <1>1, <2>1
<1>4. ASSUME NEW c, NEW calls, NEW n \in Nat, Catch(c, calls, n)
      PROVE  faults = 0
  <2>1. \E ok \in BOOLEAN : Failing(IF ok THEN n ELSE n + 1)
    BY <1>4 DEF Catch
  <2> QED BY <1>1, <2>1
<1>5. ASSUME NEW c, HandlerStep(c)
      PROVE  faults = 0
  <2>1. CASE HandleInvoiceUploaded(c)
    BY <1>3, <2>1 DEF HandleInvoiceUploaded
  <2>2. CASE ExtractionFails(c)
    BY <1>4, <2>2 DEF ExtractionFails
  <2>3. ASSUME NEW event, NEW key, NEW results, NEW status,
               AgentStep(c, event, key, results, status)
        PROVE  faults = 0
    BY <1>3, <2>3 DEF AgentStep
  <2>4. CASE PauseForHuman(c) \/ AutoReject(c) \/ HumanRejects(c)
    BY <1>2, <2>4 DEF PauseForHuman, AutoReject, HumanRejects
  <2>5. CASE AutoApprove(c) \/ HumanApproves(c)
    BY <1>3, <2>5 DEF AutoApprove, HumanApproves, Finalize
  <2>6. CASE Unknown(c) \/ IgnoreDuplicateApproval(c)
    BY <2>6 DEF Unknown, IgnoreDuplicateApproval
  <2> QED BY <1>5, <2>1, <2>2, <2>3, <2>4, <2>5, <2>6
          DEF HandlerStep, HandleInvoiceParsed, HandleInvoiceValidated,
              HandleSupplierChecked, HandlePricingCompleted
<1>6. ASSUME NEW c, BusStep(c)
      PROVE  faults = 0
  <2>1. CASE TimeOut(c) \/ BuryBreaks(c)
    BY <1>4, <2>1 DEF TimeOut, BuryBreaks
  <2>2. CASE Wake(c) \/ Bury(c) \/ ReadGroup(c)
    BY <2>2 DEF Wake, Bury, ReadGroup
  <2> QED BY <1>6, <2>1, <2>2 DEF BusStep
<1>7. CASE WebStep
  BY <1>7 DEF WebStep, AddUpload, AddDecision, RestartWeb
<1>8. CASE NextRound \/ UNCHANGED vars
  BY <1>8 DEF NextRound, vars
<1>9. CASE Die
  BY <1>1, <1>9 DEF Die
<1> QED BY <1>5, <1>6, <1>7, <1>8, <1>9 DEF Next

\* Every handler does calm work while nothing fails.
LEMMA CalmHandlers ==
    ASSUME TInv, Orderly, NEW c \in Consumers, HandlerStep(c), faults = 0, faults' = 0
    PROVE  CalmWork(c)
<1> DEFINE j == InvoiceOf(c)
           d == DataOf(c)
<1>1. consumer[c].at = "handle" /\ consumer[c].at \in Working
  BY DEF HandlerStep, HandleInvoiceUploaded, ExtractionFails, Unknown,
         HandleInvoiceParsed, HandleInvoiceValidated, HandleSupplierChecked,
         HandlePricingCompleted, AgentStep, PauseForHuman, AutoReject, AutoApprove,
         Recommended, IgnoreDuplicateApproval, HumanApproves, HumanRejects,
         Handling, Working
<1>2. mem = disk /\ j \in Invoices /\ d \in StateData
  BY <1>1, AtWork, DataTyped DEF Orderly, Calm
<1>3. CallOf(c).event \in Chain /\ uploads[j] <= 1 => Reached(CallOf(c).event, d)
  BY <1>1, <1>2 DEF Orderly, OrderlyFor, Under, InHand, DataOf
<1>4. CASE HandleInvoiceUploaded(c)
  <2>1. PICK x \in Extractions :
            SaveAndPublish(c, "PARSED", [NoData EXCEPT !.invoice_extraction = x],
                           Outcomes \ {"unsaved"})
    BY <1>4 DEF HandleInvoiceUploaded
  <2>2. PICK data : data = [NoData EXCEPT !.invoice_extraction = x]
    OBVIOUS
  <2>3. Reached("InvoiceParsed", data)
    BY <2>2 DEF Reached, Extracted, NoData
  <2>4. /\ CallOf(c).event = "InvoiceUploaded" /\ "InvoiceParsed" \in Chain
        /\ NextEvent[CallOf(c).event] = "InvoiceParsed"
    BY <1>4 DEF HandleInvoiceUploaded, Handling, NextEvent, Chain, Events
  <2>5. UNCHANGED inputs
    BY <1>4 DEF HandleInvoiceUploaded
  <2>6. SaveAndPublish(c, "PARSED", data, Outcomes \ {"unsaved"})
    BY <2>1, <2>2
  <2> QED BY <1>1, <1>2, <2>3, <2>4, <2>5, <2>6, CalmPublish
<1>5. CASE ExtractionFails(c)
  <2>1. /\ CallOf(c).event = "InvoiceUploaded" /\ Catch(c, consumer[c].calls, 0)
        /\ UNCHANGED <<queues, inputs>>
    BY <1>5 DEF ExtractionFails, Handling
  <2>2. PICK ok \in BOOLEAN :
            /\ Save(j, "FAILED", NoData, ok)
            /\ Failing(IF ok THEN 0 ELSE 0 + 1)
            /\ IF ok THEN Return(c) ELSE Raise(c, consumer[c].calls)
    BY <2>1 DEF Catch, CallOf
  <2>3. ok /\ faults' = faults
    BY <2>2, StillCalm
  <2>4. /\ mem' = disk'
        /\ \A k \in Invoices \ {j} : mem'[k] = mem[k]
    BY <1>2, <2>2, <2>3, SaveKeepsBoth
  <2> QED BY <1>1, <2>1, <2>2, <2>3, <2>4 DEF CalmWork, queues, inputs
<1>6. CASE Unknown(c) \/ IgnoreDuplicateApproval(c)
  <2>1. Return(c) /\ UNCHANGED <<stores, queues, inputs, faults>>
    BY <1>6 DEF Unknown, IgnoreDuplicateApproval
  <2> QED BY <1>1, <1>2, <2>1 DEF CalmWork, stores, queues, inputs
<1>7. ASSUME NEW event \in Chain, NEW key, NEW results, NEW status,
             AgentStep(c, event, key, results, status),
             NextEvent[event] \in Chain,
             \A r \in results : uploads[j] <= 1 =>
                 /\ \A e \in Chain : Reached(e, d) => Reached(e, [d EXCEPT ![key] = r])
                 /\ Reached(NextEvent[event], [d EXCEPT ![key] = r])
      PROVE  CalmWork(c)
  <2>1. PICK r \in results :
            SaveAndPublish(c, status, [d EXCEPT ![key] = r], Outcomes)
    BY <1>7 DEF AgentStep
  <2>2. PICK data : data = [d EXCEPT ![key] = r]
    OBVIOUS
  <2>3. CallOf(c).event = event /\ UNCHANGED inputs
    BY <1>7 DEF AgentStep, Handling
  <2>4. SaveAndPublish(c, status, data, Outcomes)
    BY <2>1, <2>2
  <2>5. uploads[j] <= 1 =>
            /\ \A e \in Chain : Reached(e, d) => Reached(e, data)
            /\ Reached(NextEvent[event], data)
    BY <1>7, <2>1, <2>2
  <2> QED BY <1>1, <1>2, <1>7, <2>3, <2>4, <2>5, CalmPublish
<1>8. CASE HandleInvoiceParsed(c)
  <2>1. /\ CallOf(c).event = "InvoiceParsed" /\ "InvoiceParsed" \in Chain
        /\ NextEvent["InvoiceParsed"] = "InvoiceValidated" /\ "InvoiceValidated" \in Chain
    BY <1>8 DEF HandleInvoiceParsed, AgentStep, Handling, NextEvent, Chain, Events
  <2>2. ASSUME uploads[j] <= 1, NEW r \in ValidationAgent(d.invoice_extraction),
               NEW data, data = With(d, "validation_result", r)
        PROVE  /\ \A e \in Chain : Reached(e, d) => Reached(e, data)
               /\ Reached("InvoiceValidated", data)
    BY <1>2, <1>3, <2>1, <2>2, ValidationAdds DEF Reached
  <2> QED BY <1>7, <1>8, <2>1, <2>2 DEF HandleInvoiceParsed, With
<1>9. CASE HandleInvoiceValidated(c)
  <2>1. /\ CallOf(c).event = "InvoiceValidated" /\ "InvoiceValidated" \in Chain
        /\ NextEvent["InvoiceValidated"] = "SupplierChecked" /\ "SupplierChecked" \in Chain
    BY <1>9 DEF HandleInvoiceValidated, AgentStep, Handling, NextEvent, Chain, Events
  <2>2. ASSUME uploads[j] <= 1, NEW r \in {SupplierAgent(d.invoice_extraction)},
               NEW data, data = With(d, "supplier_risk", r)
        PROVE  /\ \A e \in Chain : Reached(e, d) => Reached(e, data)
               /\ Reached("SupplierChecked", data)
    BY <1>2, <1>3, <2>1, <2>2, SupplierAdds DEF Reached
  <2> QED BY <1>7, <1>9, <2>1, <2>2 DEF HandleInvoiceValidated, With
<1>10. CASE HandleSupplierChecked(c)
  <2>1. /\ CallOf(c).event = "SupplierChecked" /\ "SupplierChecked" \in Chain
        /\ NextEvent["SupplierChecked"] = "PricingCompleted" /\ "PricingCompleted" \in Chain
    BY <1>10 DEF HandleSupplierChecked, AgentStep, Handling, NextEvent, Chain, Events
  <2>2. ASSUME uploads[j] <= 1, NEW r \in {PricingAgent(d.invoice_extraction)},
               NEW data, data = With(d, "pricing_comparison", r)
        PROVE  /\ \A e \in Chain : Reached(e, d) => Reached(e, data)
               /\ Reached("PricingCompleted", data)
    BY <1>2, <1>3, <2>1, <2>2, PricingAdds DEF Reached
  <2> QED BY <1>7, <1>10, <2>1, <2>2 DEF HandleSupplierChecked, With
<1>11. CASE HandlePricingCompleted(c)
  <2>1. /\ CallOf(c).event = "PricingCompleted" /\ "PricingCompleted" \in Chain
        /\ NextEvent["PricingCompleted"] = "RecommendationCreated"
        /\ "RecommendationCreated" \in Chain
    BY <1>11 DEF HandlePricingCompleted, AgentStep, Handling, NextEvent, Chain, Events
  <2>2. ASSUME uploads[j] <= 1, NEW r \in {RecommendationAgent(d)},
               NEW data, data = With(d, "recommendation_result", r)
        PROVE  /\ \A e \in Chain : Reached(e, d) => Reached(e, data)
               /\ Reached("RecommendationCreated", data)
    BY <1>2, <1>3, <2>1, <2>2, RecommendationAdds DEF Reached
  <2> QED BY <1>7, <1>11, <2>1, <2>2 DEF HandlePricingCompleted, With
<1>12. CASE PauseForHuman(c) \/ AutoReject(c) \/ HumanRejects(c)
  <2>1. UNCHANGED <<queues, inputs>> /\ \E status : SaveAndReturn(c, status, d)
    BY <1>12 DEF PauseForHuman, AutoReject, HumanRejects
  <2> QED BY <1>1, <1>2, <2>1, CalmReturn
<1>13. CASE AutoApprove(c) \/ HumanApproves(c)
  <2>1. SaveAndPublish(c, "COMPLETED", d, Outcomes) /\ UNCHANGED inputs
    BY <1>13 DEF AutoApprove, HumanApproves, Finalize
  <2>2. NextEvent[CallOf(c).event] \notin Events
    BY <1>13 DEF AutoApprove, HumanApproves, Recommended, Handling, NextEvent, Events
  <2> QED BY <1>1, <1>2, <2>1, <2>2, CalmPublish
<1> QED BY <1>4, <1>5, <1>6, <1>8, <1>9, <1>10, <1>11, <1>12, <1>13 DEF HandlerStep

\* How a step may move the uploads still to be handled.
LEMMA TodoTyped ==
    ASSUME TInv
    PROVE  Todo \in Seq(Entry)
<1>1. CASE "InvoiceUploaded" \in Consumers
  <2>1. /\ stream["InvoiceUploaded"] \in Seq(Entry)
        /\ consumer["InvoiceUploaded"].inbox \in Seq(Entry)
        /\ consumer["InvoiceUploaded"].at = "handle" =>
              consumer["InvoiceUploaded"].inbox # <<>>
    BY <1>1 DEF TInv, Typed, Sound, ConsumerState, Inboxes, Working
  <2>2. consumer["InvoiceUploaded"].at = "handle" =>
            Tail(consumer["InvoiceUploaded"].inbox) \in Seq(Entry)
    BY <2>1, TailRange
  <2> QED BY <2>1, <2>2, ConcatProperties DEF Todo
<1>2. CASE "InvoiceUploaded" \notin Consumers
  BY <1>2 DEF Todo
<1> QED BY <1>1, <1>2

\* The tail of a batch and what follows it.
LEMMA ConcatTail ==
    ASSUME NEW s \in Seq(Entry), NEW t \in Seq(Entry), s # <<>>
    PROVE  /\ s \o t # <<>> /\ Head(s \o t) = Head(s)
           /\ Tail(s \o t) = Tail(s) \o t
<1>1. /\ Len(s) \in Nat \ {0} /\ Len(t) \in Nat
      /\ Len(s \o t) = Len(s) + Len(t)
      /\ \A k \in 1 .. Len(s) : (s \o t)[k] = s[k]
      /\ \A k \in 1 .. Len(t) : (s \o t)[Len(s) + k] = t[k]
      /\ s \o t \in Seq(Entry)
  BY ConcatProperties, EmptySeq
<1>2. s \o t # <<>>
  BY <1>1
<1>3. /\ Head(s \o t) = (s \o t)[1] /\ Head(s) = s[1]
      /\ Tail(s \o t) \in Seq(Entry) /\ Tail(s) \in Seq(Entry)
      /\ Len(Tail(s \o t)) = Len(s) + Len(t) - 1 /\ Len(Tail(s)) = Len(s) - 1
      /\ \A k \in 1 .. Len(s) + Len(t) - 1 : Tail(s \o t)[k] = (s \o t)[k + 1]
      /\ \A k \in 1 .. Len(s) - 1 : Tail(s)[k] = s[k + 1]
  BY <1>1, <1>2, HeadTailProperties
<1>4. /\ Tail(s) \o t \in Seq(Entry) /\ Len(Tail(s) \o t) = Len(s) - 1 + Len(t)
      /\ \A k \in 1 .. Len(s) - 1 : (Tail(s) \o t)[k] = Tail(s)[k]
      /\ \A k \in 1 .. Len(t) : (Tail(s) \o t)[Len(s) - 1 + k] = t[k]
  BY <1>3, ConcatProperties
<1>5. ASSUME NEW k \in 1 .. Len(s) + Len(t) - 1
      PROVE  Tail(s \o t)[k] = (Tail(s) \o t)[k]
  <2>1. CASE k \in 1 .. Len(s) - 1
    <3>1. k + 1 \in 1 .. Len(s)
      BY <1>1, <2>1
    <3> QED BY <1>1, <1>3, <1>4, <2>1, <3>1
  <2>2. CASE k \notin 1 .. Len(s) - 1
    <3>1. PICK m \in 1 .. Len(t) : k = Len(s) - 1 + m
      <4>1. k - (Len(s) - 1) \in 1 .. Len(t) /\ k = Len(s) - 1 + (k - (Len(s) - 1))
        BY <1>1, <2>2
      <4> QED BY <4>1
    <3>2. Tail(s \o t)[k] = (s \o t)[Len(s) + m]
      BY <1>1, <1>3, <3>1
    <3> QED BY <1>1, <1>4, <3>1, <3>2
  <2> QED BY <2>1, <2>2
<1>6. Tail(s \o t) = Tail(s) \o t
  BY <1>1, <1>3, <1>4, <1>5, SeqEqual
<1> QED BY <1>1, <1>2, <1>3, <1>6

\* Where calm work leaves the consumer: through, at its next entry, or in the next
\* handler.
Ahead(c, r) ==
    LET rest == Tail(consumer[c].inbox)
    IN  \/ r.at = "through" /\ r.inbox = <<>> /\ rest = <<>>
        \/ r.at = "handle" /\ r.inbox = rest /\ rest # <<>> /\ Head(r.calls).event = c
        \/ /\ r.at = "handle" /\ r.inbox = consumer[c].inbox
           /\ NextEvent[CallOf(c).event] \in Chain
           /\ Head(r.calls).event = NextEvent[CallOf(c).event]
           /\ uploads[InvoiceOf(c)] <= 1 =>
                 Reached(NextEvent[CallOf(c).event], mem'[InvoiceOf(c)].state_data)

LEMMA CalmMoves ==
    ASSUME TInv, NEW c \in Consumers, CalmWork(c)
    PROVE  \E r \in ConsumerState : consumer' = [consumer EXCEPT ![c] = r] /\ Ahead(c, r)
<1>0. consumer[c].at = "handle" /\ consumer[c].at \in Working
  BY DEF CalmWork, Working
<1>1. CASE Return(c)
  <2> DEFINE rest == Tail(consumer[c].inbox)
             r == IF rest = <<>> THEN Through
                  ELSE [at |-> "handle", inbox |-> rest, calls |-> <<NewCall(c)>>]
  <2>1. rest \in Inboxes /\ c \in Events /\ <<>> \in Inboxes /\ <<>> \in Stacks
    BY <1>0, AtWork, TailRange, RedisAssumption DEF Inboxes, Stacks
  <2>2. r \in ConsumerState
    BY <2>1, NewCallTyped DEF ConsumerState, Through, Reading, Places
  <2>3. consumer' = [consumer EXCEPT ![c] = r]
    BY <1>1 DEF Return
  <2>4. /\ rest = <<>> => r.at = "through" /\ r.inbox = <<>>
        /\ rest # <<>> => /\ r.at = "handle" /\ r.inbox = rest
                          /\ r.calls = <<NewCall(c)>>
    BY DEF Through, Reading
  <2>5. Head(<<NewCall(c)>>).event = c
    BY DEF NewCall
  <2> HIDE DEF r, rest
  <2>6. Ahead(c, r)
    BY <2>4, <2>5 DEF Ahead, rest
  <2> QED BY <2>2, <2>3, <2>6
<1>2. ASSUME NEW next \in Chain, next = NextEvent[CallOf(c).event],
             uploads[InvoiceOf(c)] <= 1 => Reached(next, mem'[InvoiceOf(c)].state_data),
             consumer' = [consumer EXCEPT ![c].at = "handle",
                             ![c].calls = <<NewCall(next)>> \o consumer[c].calls]
      PROVE  \E r \in ConsumerState : consumer' = [consumer EXCEPT ![c] = r] /\ Ahead(c, r)
  <2> DEFINE k == <<NewCall(next)>> \o consumer[c].calls
             r == [at |-> "handle", inbox |-> consumer[c].inbox, calls |-> k]
  <2>1. k \in Stacks /\ Head(k) = NewCall(next) /\ NewCall(next).event = next
    <3>1. PICK x : x = NewCall(next) /\ x \in Call /\ x.event = next
      BY NewCallTyped DEF Chain
    <3>2. consumer[c].calls \in Seq(Call)
      BY <1>0, AtWork DEF Stacks
    <3> QED BY <3>1, <3>2, PushRange DEF Stacks
  <2>2. consumer' = [consumer EXCEPT ![c].at = "handle", ![c].calls = k]
    BY <1>2
  <2> HIDE DEF k
  <2>3. r \in ConsumerState
    BY <1>0, <2>1, AtWork DEF ConsumerState, Places
  <2>4. Ahead(c, r)
    BY <1>2, <2>1 DEF Ahead
  <2>5. consumer' = [consumer EXCEPT ![c] = r]
    <3>1. consumer \in [Consumers -> ConsumerState] /\ consumer[c] \in ConsumerState
      BY <1>0, AtWork
    <3>2. /\ r \in ConsumerState
          /\ r.at = "handle" /\ r.inbox = consumer[c].inbox /\ r.calls = k
      BY <2>3
    <3> HIDE DEF r
    <3>4. [consumer[c] EXCEPT !.at = "handle", !.calls = k] = r
      BY <3>1, <3>2 DEF ConsumerState
    <3>3. consumer' = [consumer EXCEPT ![c] = [consumer[c] EXCEPT !.at = "handle", !.calls = k]]
      BY <2>2, <3>1
    <3> QED BY <3>3, <3>4
  <2> QED BY <2>3, <2>4, <2>5
<1> QED BY <1>1, <1>2 DEF CalmWork

\* Calm work leaves the uploads to be handled as they are, but for the one it has
\* handled.
LEMMA CalmTodo ==
    ASSUME TInv, Calm, NEW c \in Consumers, CalmWork(c)
    PROVE  /\ Calm'
           /\ CallOf(c).event # "InvoiceUploaded" => Todo' = Todo
           /\ CallOf(c).event = "InvoiceUploaded" =>
                 Todo # <<>> /\ Head(Todo).invoice = InvoiceOf(c) /\ Todo' = Tail(Todo)
<1> DEFINE rest == Tail(consumer[c].inbox)
           first == "InvoiceUploaded"
<1> HIDE DEF first
<1>0. consumer[c].at = "handle" /\ consumer[c].at \in Working
  BY DEF CalmWork, Working
<1>1. /\ consumer[c].inbox \in Seq(Entry) /\ consumer[c].inbox # <<>>
      /\ rest \in Seq(Entry) /\ stream[c] \in Seq(Entry)
  BY <1>0, AtWork, TailRange DEF Inboxes, TInv, Typed
<1>2. PICK r \in ConsumerState : consumer' = [consumer EXCEPT ![c] = r] /\ Ahead(c, r)
  BY CalmMoves
<1>3. consumer'[c] = r /\ \A d \in Consumers \ {c} : consumer'[d] = consumer[d]
  BY <1>2 DEF TInv, Typed
<1>4. Calm'
  <2>1. mem' = disk'
    BY DEF CalmWork
  <2>2. \A d \in Consumers : consumer'[d].at \in {"read", "handle", "through"}
    BY <1>2, <1>3 DEF Calm, Ahead
  <2>3. \A d \in Consumers \ {first} :
            consumer'[d].at = "handle" => Head(consumer'[d].calls).event # first
    BY <1>2, <1>3, <1>0 DEF Calm, Ahead, CallOf, Chain, first
  <2> QED BY <2>1, <2>2, <2>3 DEF Calm, CallOf, first
<1>5. first \in Consumers => stream'[first] = stream[first]
  <2>1. CASE UNCHANGED stream
    BY <2>1
  <2>2. ASSUME NEW next \in Chain, Add(next, EntryOf(InvoiceOf(c)))
        PROVE  first \in Consumers => stream'[first] = stream[first]
    <3>1. next # first
      BY DEF Chain, first
    <3> QED BY <2>2, <3>1 DEF Add, TInv, Typed
  <2> QED BY <2>1, <2>2 DEF CalmWork
<1>6. CASE c # first
  <2>1. CallOf(c).event # "InvoiceUploaded"
    BY <1>0, <1>6 DEF Calm, first
  <2>2. Todo' = Todo
    BY <1>3, <1>5, <1>6 DEF Todo, first
  <2> QED BY <1>4, <2>1, <2>2
<1>7. CASE c = first
  <2>1. Todo = IF CallOf(c).event # first THEN rest \o stream[c]
               ELSE consumer[c].inbox \o stream[c]
    BY <1>0, <1>7 DEF Todo, CallOf, first
  <2>2. Todo' = rest \o stream[c]
    <3>1. CASE r.at = "through" /\ r.inbox = <<>> /\ rest = <<>>
      BY <1>3, <1>5, <1>7, <3>1 DEF Todo, first
    <3>2. CASE r.at = "handle" /\ r.inbox = rest /\ Head(r.calls).event = c
      BY <1>3, <1>5, <1>7, <3>2 DEF Todo, first
    <3>3. CASE /\ r.at = "handle" /\ r.inbox = consumer[c].inbox
               /\ Head(r.calls).event \in Chain
      <4>1. Head(r.calls).event # first
        BY <3>3 DEF Chain, first
      <4> QED BY <1>3, <1>5, <1>7, <3>3, <4>1 DEF Todo, first
    <3> QED BY <1>2, <3>1, <3>2, <3>3 DEF Ahead
  <2>3. CASE CallOf(c).event # first
    BY <1>4, <2>1, <2>2, <2>3 DEF first
  <2>4. CASE CallOf(c).event = first
    BY <1>1, <1>4, <2>1, <2>2, <2>4, ConcatTail DEF first, InvoiceOf
  <2> QED BY <2>3, <2>4
<1> QED BY <1>6, <1>7

\* The only event that calm work brings about is the next one of its invoice.
LEMMA CalmUnder ==
    ASSUME TInv, NEW c \in Consumers, CalmWork(c),
           NEW e \in Chain, NEW i, Under(e, i)'
    PROVE  \/ Under(e, i)
           \/ /\ i = InvoiceOf(c) /\ e = NextEvent[CallOf(c).event]
              /\ uploads[i] <= 1 => Reached(e, mem'[i].state_data)
<1> DEFINE next == NextEvent[CallOf(c).event]
           rest == Tail(consumer[c].inbox)
<1>0. consumer[c].at = "handle" /\ consumer[c].at \in Working
  BY DEF CalmWork, Working
<1>1. /\ consumer[c].inbox \in Seq(Entry) /\ consumer[c].inbox # <<>>
      /\ rest \in Seq(Entry) /\ InvoiceOf(c) \in Invoices
  BY <1>0, AtWork, TailRange DEF Inboxes
<1>2. PICK r \in ConsumerState : consumer' = [consumer EXCEPT ![c] = r] /\ Ahead(c, r)
  BY CalmMoves
<1>3. consumer'[c] = r /\ \A d \in Consumers \ {c} : consumer'[d] = consumer[d]
  BY <1>2 DEF TInv, Typed
<1>4. ASSUME InStream(e, i)'
      PROVE  \/ InStream(e, i)
             \/ /\ i = InvoiceOf(c) /\ e = next
                /\ uploads[i] <= 1 => Reached(e, mem'[i].state_data)
  <2>1. CASE UNCHANGED stream
    BY <1>4, <2>1 DEF InStream
  <2>2. CASE /\ Add(next, EntryOf(InvoiceOf(c))) /\ next \in Chain
             /\ uploads[InvoiceOf(c)] <= 1 => Reached(next, mem'[InvoiceOf(c)].state_data)
    <3>1. PICK x : x = EntryOf(InvoiceOf(c)) /\ x \in Entry /\ x.invoice = InvoiceOf(c)
      <4>1. \A j \in Invoices : EntryOf(j) \in Entry /\ EntryOf(j).invoice = j
        BY DEF EntryOf, Entry, RecommendationActions
      <4> QED BY <1>1, <4>1
    <3>2. CASE next \in Consumers /\ stream' = [stream EXCEPT ![next] = Append(@, x)]
      <4>1. /\ Range(stream'[next]) = Range(stream[next]) \cup {x}
            /\ \A d \in Consumers \ {next} : stream'[d] = stream[d]
        BY <3>1, <3>2, StreamGrows
      <4> QED BY <1>4, <2>2, <3>1, <4>1 DEF InStream, In
    <3>3. CASE UNCHANGED stream
      BY <1>4, <3>3 DEF InStream
    <3> QED BY <2>2, <3>1, <3>2, <3>3, AddAppends
  <2> QED BY <2>1, <2>2 DEF CalmWork
<1>5. ASSUME InBatch(e, i)'
      PROVE  InBatch(e, i)
  <2>1. CASE e # c
    BY <1>3, <1>5, <2>1 DEF InBatch
  <2>2. CASE e = c /\ r.inbox = consumer[c].inbox
    BY <1>0, <1>3, <1>5, <2>2 DEF InBatch
  <2>3. CASE e = c /\ r.at = "handle" /\ r.inbox = rest /\ rest # <<>>
    <3>1. Range(rest) = {Head(rest)} \cup Range(Tail(rest))
      BY <1>1, <2>3, TailRange
    <3> QED BY <1>0, <1>3, <1>5, <2>3, <3>1 DEF InBatch, In
  <2> QED BY <1>2, <1>3, <1>5, <2>1, <2>2, <2>3 DEF Ahead, InBatch
<1>6. ASSUME NEW d \in Consumers, InHand(d, e, i)'
      PROVE  \/ Under(e, i)
             \/ /\ i = InvoiceOf(c) /\ e = next
                /\ uploads[i] <= 1 => Reached(e, mem'[i].state_data)
  <2>1. /\ consumer'[d].at = "handle" /\ Head(consumer'[d].calls).event = e
        /\ Head(consumer'[d].inbox).invoice = i
    BY <1>6 DEF InHand, CallOf, InvoiceOf
  <2>2. CASE d # c
    BY <1>3, <2>1, <2>2 DEF Under, InHand, CallOf, InvoiceOf
  <2>3. CASE d = c /\ r.inbox = rest /\ rest # <<>> /\ Head(r.calls).event = c
    <3>1. Head(rest) \in Range(rest) /\ e = c /\ Head(rest).invoice = i
      BY <1>1, <1>3, <2>1, <2>3, TailRange
    <3> QED BY <1>0, <3>1 DEF Under, InBatch, In
  <2>4. CASE /\ d = c /\ r.inbox = consumer[c].inbox
             /\ Head(r.calls).event = next
             /\ uploads[InvoiceOf(c)] <= 1 => Reached(next, mem'[InvoiceOf(c)].state_data)
    BY <1>3, <2>1, <2>4 DEF InvoiceOf
  <2> QED BY <1>2, <1>3, <2>1, <2>2, <2>3, <2>4 DEF Ahead
<1> QED BY <1>4, <1>5, <1>6 DEF Under

LEMMA CalmOrderly ==
    ASSUME TInv, Orderly, NEW c \in Consumers, CalmWork(c), faults = 0
    PROVE  Orderly'
<1> DEFINE j == InvoiceOf(c)
           event == CallOf(c).event
<1> HIDE DEF j, event
<1>0. /\ Calm /\ \A i \in Invoices : uploads[i] <= 1 => OrderlyFor(i)
      /\ Todo \in Seq(Entry) /\ j \in Invoices
      /\ consumer[c].at = "handle"
  BY TodoTyped, AtWork DEF Orderly, CalmWork, Working, j
<1>1. /\ Calm'
      /\ event # "InvoiceUploaded" => Todo' = Todo
      /\ event = "InvoiceUploaded" =>
            Todo # <<>> /\ Head(Todo).invoice = j /\ Todo' = Tail(Todo)
  BY <1>0, CalmTodo DEF j, event
<1>2. ASSUME NEW i \in Invoices, uploads'[i] <= 1
      PROVE  OrderlyFor(i)'
  <2>1. uploads' = uploads /\ OrderlyFor(i)
    BY <1>0, <1>2 DEF CalmWork
  <2>2. In(Todo', i) => In(Todo, i)
    <3>1. event = "InvoiceUploaded" => Range(Todo) = {Head(Todo)} \cup Range(Tail(Todo))
      BY <1>0, <1>1, TailRange
    <3> QED BY <1>1, <3>1 DEF In
  <2>3. event = "InvoiceUploaded" /\ i = j => In(Todo, i) /\ ~In(Todo', i)
    <3>1. event = "InvoiceUploaded" => Head(Todo) \in Range(Todo)
      BY <1>0, <1>1, TailRange
    <3>2. event = "InvoiceUploaded" /\ i = j => ~In(Todo', i)
      BY <1>0, <1>1, <2>1, OnceTail DEF OrderlyFor
    <3> QED BY <1>1, <3>1, <3>2 DEF In
  <2>4. Once(Todo', i)
    BY <1>0, <1>1, <2>1, OnceTail DEF OrderlyFor
  <2>5. event \in Chain => Under(event, j)
    BY <1>0 DEF Under, InHand, event, j
  <2>6. ASSUME NEW e \in Chain, Under(e, i)'
        PROVE  ~(uploads[i] = 0 \/ In(Todo', i)) /\ Reached(e, mem'[i].state_data)
    <3>1. CASE Under(e, i) /\ i # j
      <4>1. mem'[i] = mem[i]
        BY <3>1 DEF CalmWork, j
      <4> QED BY <2>1, <2>2, <3>1, <4>1 DEF OrderlyFor
    <3>2. CASE Under(e, i) /\ i = j
      <4>1. event # "InvoiceUploaded"
        BY <2>1, <2>3, <3>2 DEF OrderlyFor
      <4>2. Reached(e, mem[i].state_data) => Reached(e, mem'[i].state_data)
        BY <1>2, <2>1, <3>2, <4>1 DEF CalmWork, j, event
      <4> QED BY <2>1, <2>2, <3>2, <4>2 DEF OrderlyFor
    <3>3. CASE /\ i = j /\ e = NextEvent[event]
               /\ Reached(e, mem'[i].state_data)
      <4>1. CASE event = "InvoiceUploaded"
        BY <2>1, <2>3, <3>3, <4>1 DEF OrderlyFor
      <4>2. CASE event # "InvoiceUploaded"
        <5>1. event \in Chain
          <6>1. event \in Events /\ e # "InvoiceCompleted"
            BY <1>0, AtWork DEF Working, Chain, Events, event
          <6> QED BY <3>3, <4>2, <6>1 DEF Chain, NextEvent
        <5> QED BY <2>1, <2>2, <2>5, <3>3, <5>1 DEF OrderlyFor
      <4> QED BY <4>1, <4>2
    <3> QED BY <1>2, <2>1, <2>6, <3>1, <3>2, <3>3, CalmUnder DEF j, event
  <2>7. uploads'[i] = 0 => ~In(Todo', i)
    BY <2>1, <2>2 DEF OrderlyFor
  <2> QED BY <2>1, <2>4, <2>6, <2>7 DEF OrderlyFor
<1> QED BY <1>1, <1>2 DEF Orderly

\* Steps that bring no event about and leave the checkpoints alone.
LEMMA QuietOrderly ==
    ASSUME Orderly, faults = 0, Calm', mem' = mem, uploads' = uploads,
           \A i \in Invoices : /\ Once(Todo, i) => Once(Todo', i)
                               /\ In(Todo', i) => In(Todo, i),
           \A e \in Chain, i \in Invoices : Under(e, i)' => Under(e, i)
    PROVE  Orderly'
<1> SUFFICES ASSUME NEW i \in Invoices, uploads[i] <= 1 PROVE OrderlyFor(i)'
  BY DEF Orderly
<1>1. OrderlyFor(i)
  BY DEF Orderly
<1> QED BY <1>1 DEF OrderlyFor

LEMMA ReadOrderly ==
    ASSUME TInv, Orderly, NEW c \in Consumers, ReadGroup(c), faults = 0
    PROVE  Orderly'
<1> DEFINE n == IF Len(stream[c]) < Count THEN Len(stream[c]) ELSE Count
           batch == SubSeq(stream[c], 1, n)
           left == SubSeq(stream[c], n + 1, Len(stream[c]))
           r == [at |-> "handle", inbox |-> batch, calls |-> <<NewCall(c)>>]
           first == "InvoiceUploaded"
<1>1. /\ consumer[c].at = "read" /\ n > 0
      /\ consumer' = [consumer EXCEPT ![c] = r]
      /\ stream' = [stream EXCEPT ![c] = left]
      /\ UNCHANGED <<mem, disk, uploads, faults>>
  BY DEF ReadGroup, stores, inputs
<1>2. stream[c] \in Seq(Entry) /\ stream \in [Consumers -> Inboxes] /\ c \in Events
  BY RedisAssumption DEF TInv, Typed, Inboxes
<1>3. n \in 0 .. Len(stream[c])
  BY <1>2, RedisAssumption
<1>4. /\ batch \in Seq(Entry) /\ left \in Seq(Entry) /\ Len(batch) = n
      /\ Range(stream[c]) = Range(batch) \cup Range(left)
  BY <1>2, <1>3, SplitRange, Zenon
<1>5. batch # <<>> /\ batch \o left = stream[c]
  <2>1. Len(batch) # 0
    BY <1>1, <1>3, <1>4
  <2>2. batch # <<>>
    <3>1. Len(<<>>) = 0
      OBVIOUS
    <3> QED BY <2>1, <3>1, Zenon
  <2>3. batch \o left = stream[c]
    <3>1. /\ Len(stream[c]) \in Nat /\ 1 \in 1 .. Len(stream[c]) + 1
          /\ n \in 1 - 1 .. Len(stream[c]) /\ Len(stream[c]) \in n .. Len(stream[c])
      BY <1>2, <1>3
    <3>2. batch \o left = SubSeq(stream[c], 1, Len(stream[c]))
      BY <1>2, <3>1, ConcatAdjacentSubSeq, Zenon
    <3> QED BY <1>2, <3>2, SubSeqFull
  <2> QED BY <2>2, <2>3
<1>6. /\ r.at = "handle" /\ r.inbox = batch /\ Head(r.calls).event = c
  <2>1. /\ r.at = "handle" /\ r.inbox = batch /\ r.calls = <<NewCall(c)>>
    OBVIOUS
  <2>2. Head(<<NewCall(c)>>).event = c
    BY DEF NewCall
  <2> HIDE DEF r, batch
  <2> QED BY <2>1, <2>2
<1>7. consumer[c].inbox = <<>>
  BY <1>1 DEF TInv, Sound, Idle
<1> HIDE DEF r, left, batch, n, first
<1>8. /\ consumer'[c] = r /\ \A d \in Consumers \ {c} : consumer'[d] = consumer[d]
      /\ stream'[c] = left /\ \A d \in Consumers \ {c} : stream'[d] = stream[d]
  BY <1>1, <1>2 DEF TInv, Typed
<1>9. Calm'
  BY <1>1, <1>6, <1>8 DEF Orderly, Calm, CallOf
<1>10. Todo' = Todo
  <2>1. CASE c # first
    BY <1>8, <2>1 DEF Todo, first
  <2>2. CASE c = first
    <3>1. Todo' = batch \o left
      BY <1>6, <1>8, <2>2 DEF Todo, first
    <3>2. Todo = <<>> \o stream[c]
      BY <1>1, <1>7, <2>2 DEF Todo, first
    <3>3. <<>> \o stream[c] = stream[c]
      BY <1>2
    <3> QED BY <1>5, <3>1, <3>2, <3>3
  <2> QED BY <2>1, <2>2
<1>11. ASSUME NEW e \in Chain, NEW i \in Invoices, Under(e, i)'
       PROVE  Under(e, i)
  <2>1. CASE InStream(e, i)'
    BY <1>4, <1>8, <2>1 DEF Under, InStream, In
  <2>2. CASE InBatch(e, i)'
    <3>1. Range(Tail(batch)) \subseteq Range(stream[c])
      BY <1>4, <1>5, TailRange
    <3> QED BY <1>6, <1>8, <2>2, <3>1 DEF Under, InBatch, InStream, In
  <2>3. ASSUME NEW d \in Consumers, InHand(d, e, i)'
        PROVE  Under(e, i)
    <3>1. CASE d # c
      BY <1>8, <2>3, <3>1 DEF Under, InHand, CallOf, InvoiceOf
    <3>2. CASE d = c
      <4>1. Head(batch) \in Range(stream[c])
        BY <1>4, <1>5, TailRange
      <4>2. e = c /\ Head(batch).invoice = i
        BY <1>6, <1>8, <2>3, <3>2 DEF InHand, CallOf, InvoiceOf
      <4> QED BY <4>1, <4>2 DEF Under, InStream, In
    <3> QED BY <3>1, <3>2
  <2> QED BY <1>11, <2>1, <2>2, <2>3 DEF Under
<1> QED BY <1>1, <1>9, <1>10, <1>11, QuietOrderly

LEMMA RestartOrderly ==
    ASSUME TInv, Orderly, faults = 0, UNCHANGED <<mem, disk, stream, uploads>>,
           consumer' = [c \in Consumers |-> Reading]
    PROVE  Orderly'
<1> DEFINE first == "InvoiceUploaded"
<1>1. \A c \in Consumers : consumer'[c].at = "read" /\ consumer'[c].inbox = <<>>
  BY DEF Reading
<1>2. Calm'
  BY <1>1 DEF Orderly, Calm
<1>3. \A e \in Chain, i \in Invoices : Under(e, i)' => Under(e, i)
  BY <1>1 DEF Under, InStream, InBatch, InHand
<1>4. ASSUME NEW i \in Invoices
      PROVE  /\ Once(Todo, i) => Once(Todo', i)
             /\ In(Todo', i) => In(Todo, i)
  <2>1. CASE first \notin Consumers
    BY <2>1 DEF Todo
  <2>2. CASE first \in Consumers
    <3>1. PICK s \in Seq(Entry) : Todo = s \o stream[first] /\ stream[first] \in Seq(Entry)
      <4>1. /\ stream[first] \in Seq(Entry) /\ consumer[first].inbox \in Seq(Entry)
            /\ consumer[first].at = "handle" => consumer[first].inbox # <<>>
        BY <2>2 DEF TInv, Typed, Sound, ConsumerState, Inboxes, Working
      <4>2. consumer[first].at = "handle" => Tail(consumer[first].inbox) \in Seq(Entry)
        BY <4>1, TailRange
      <4> QED BY <2>2, <4>1, <4>2 DEF Todo
    <3>2. Todo' = stream[first]
      <4>1. Todo' = <<>> \o stream[first]
        BY <1>1, <2>2 DEF Todo
      <4> QED BY <3>1, <4>1
    <3>3. Range(stream[first]) \subseteq Range(Todo)
      BY <3>1, RangeConcatenation
    <3> QED BY <3>1, <3>2, <3>3, OnceSuffix DEF In
  <2> QED BY <2>1, <2>2
<1> QED BY <1>2, <1>3, <1>4, QuietOrderly

\* The web process adds uploads, and decisions, which are no events of the chain.
LEMMA WebOrderly ==
    ASSUME TInv, Orderly, WebStep, faults = 0
    PROVE  Orderly'
<1> DEFINE first == "InvoiceUploaded"
<1>1. UNCHANGED <<mem, disk, consumer, faults>>
  BY WebMoves DEF stores
<1>2. Calm'
  BY <1>1 DEF Orderly, Calm, CallOf
<1>3. ASSUME NEW event, event \notin Chain, NEW x \in Entry, Add(event, x)
      PROVE  \A e \in Chain, i \in Invoices : Under(e, i)' => Under(e, i)
  <2>1. \A e \in Chain : e \in Consumers => stream'[e] = stream[e]
    BY <1>3 DEF Add, TInv, Typed
  <2>2. \A e \in Chain, i \in Invoices : InStream(e, i)' => InStream(e, i)
    BY <2>1 DEF InStream
  <2> QED BY <1>1, <2>2 DEF Under, InBatch, InHand, CallOf, InvoiceOf
<1>4. ASSUME NEW i \in Invoices, AddUpload(i)
      PROVE  Orderly'
  <2>1. PICK x : x = EntryOf(i) /\ x \in Entry /\ x.invoice = i
    <3>1. EntryOf(i) \in Entry /\ EntryOf(i).invoice = i
      BY DEF EntryOf, Entry, RecommendationActions
    <3> QED BY <3>1
  <2>2. /\ Add(first, x) /\ first \notin Chain
        /\ uploads' = [uploads EXCEPT ![i] = @ + 1]
    BY <1>4, <2>1 DEF AddUpload, Chain
  <2>3. \A e \in Chain, j \in Invoices : Under(e, j)' => Under(e, j)
    BY <1>3, <2>1, <2>2
  <2>4. Todo \in Seq(Entry) /\ (Todo' = Todo \/ Todo' = Append(Todo, x))
    <3>1. CASE first \in Consumers /\ stream' = [stream EXCEPT ![first] = Append(@, x)]
      <4>1. PICK s \in Seq(Entry) : /\ stream[first] \in Seq(Entry)
                                    /\ Todo = s \o stream[first]
                                    /\ Todo' = s \o stream'[first]
        <5>1. /\ stream[first] \in Seq(Entry) /\ consumer[first].inbox \in Seq(Entry)
              /\ consumer[first].at = "handle" => consumer[first].inbox # <<>>
          BY <3>1 DEF TInv, Typed, Sound, ConsumerState, Inboxes, Working
        <5>2. consumer[first].at = "handle" => Tail(consumer[first].inbox) \in Seq(Entry)
          BY <5>1, TailRange
        <5> QED BY <1>1, <3>1, <5>1, <5>2 DEF Todo
      <4>2. stream'[first] = Append(stream[first], x)
        BY <3>1 DEF TInv, Typed
      <4>3. s \o Append(stream[first], x) = Append(s \o stream[first], x)
        BY <2>1, <4>1
      <4> QED BY <4>1, <4>2, <4>3, TodoTyped
    <3>2. CASE UNCHANGED stream
      BY <1>1, <3>2, TodoTyped DEF Todo
    <3> QED BY <2>1, <2>2, <3>1, <3>2, AddAppends
  <2>5. Range(Append(Todo, x)) = Range(Todo) \cup {x}
    BY <2>1, <2>4, AppendRange
  <2>6. \A j \in Invoices : uploads[j] \in Nat
    BY DEF TInv, Typed
  <2> SUFFICES ASSUME NEW j \in Invoices, uploads'[j] <= 1
               PROVE  OrderlyFor(j)'
    BY <1>2 DEF Orderly
  <2>7. CASE j # i
    <3>1. OrderlyFor(j) /\ uploads'[j] = uploads[j]
      BY <2>2, <2>7 DEF Orderly, TInv, Typed
    <3>2. Once(Todo', j) /\ (In(Todo', j) => In(Todo, j))
      BY <2>1, <2>4, <2>5, <2>7, <3>1, OnceAppend DEF OrderlyFor, In
    <3> QED BY <1>1, <2>3, <3>1, <3>2 DEF OrderlyFor
  <2>8. CASE j = i
    <3>1. uploads[j] = 0 /\ uploads'[j] = 1
      BY <2>2, <2>6, <2>8 DEF TInv, Typed
    <3>2. OrderlyFor(j)
      BY <3>1 DEF Orderly
    <3>3. Once(Todo', j)
      BY <2>1, <2>4, <2>8, <3>1, <3>2, OnceAppend DEF OrderlyFor
    <3>4. \A e \in Chain : ~Under(e, j)'
      BY <2>3, <3>1, <3>2 DEF OrderlyFor
    <3> QED BY <3>1, <3>3, <3>4 DEF OrderlyFor
  <2> QED BY <2>7, <2>8
<1>5. ASSUME NEW i \in Invoices, NEW a \in {"APPROVE", "REJECT"}, AddDecision(i, a)
      PROVE  Orderly'
  <2>1. PICK x \in Entry : Add("HumanApproved", x) /\ uploads' = uploads
    BY <1>5 DEF AddDecision, Entry, RecommendationActions
  <2>2. "HumanApproved" \notin Chain
    BY DEF Chain
  <2>3. \A e \in Chain, j \in Invoices : Under(e, j)' => Under(e, j)
    BY <1>3, <2>1, <2>2
  <2>4. first \in Consumers => stream'[first] = stream[first]
    BY <2>1 DEF Add, TInv, Typed
  <2>5. Todo' = Todo
    BY <1>1, <2>4 DEF Todo
  <2> QED BY <1>1, <1>2, <2>1, <2>3, <2>5, QuietOrderly
<1>6. CASE RestartWeb
  <2>1. stream' = stream /\ uploads' = uploads
    BY <1>6 DEF RestartWeb, queues
  <2> QED BY <1>1, <1>2, <2>1, QuietOrderly
          DEF Todo, Under, InStream, InBatch, InHand, CallOf, InvoiceOf
<1> QED BY <1>4, <1>5, <1>6 DEF WebStep

LEMMA OrderlyInductive == TInv /\ Orderly /\ [Next]_vars => Orderly'
<1> SUFFICES ASSUME TInv, Orderly, [Next]_vars, faults' = 0 PROVE Orderly'
  BY DEF Orderly
<1>0. faults = 0 /\ Calm
  BY FaultsStay DEF Orderly
<1>1. CASE UNCHANGED vars
  BY <1>0, <1>1, QuietOrderly DEF vars, stores, queues, inputs, Orderly, Calm,
     Todo, Under, InStream, InBatch, InHand, CallOf, InvoiceOf
<1>2. ASSUME NEW c \in Consumers, HandlerStep(c)
      PROVE  Orderly'
  BY <1>0, <1>2, CalmHandlers, CalmOrderly
<1>3. ASSUME NEW c \in Consumers, BusStep(c)
      PROVE  Orderly'
  <2>1. ReadGroup(c)
    BY <1>0, <1>3 DEF BusStep, TimeOut, Wake, Bury, BuryBreaks, Calm
  <2> QED BY <1>0, <2>1, ReadOrderly
<1>4. CASE NextRound
  BY <1>0, <1>4, RestartOrderly DEF NextRound, stores, queues, inputs
<1>5. CASE Die
  <2>1. mem' = disk
    <3>1. ~Failing(1)
      BY StillCalm
    <3> QED BY <1>5, <3>1 DEF Die
  <2> QED BY <1>0, <1>5, <2>1, RestartOrderly DEF Die, Calm, inputs
<1> QED BY <1>0, <1>1, <1>2, <1>3, <1>4, <1>5, WebOrderly DEF Next

(***************************************************************************)
(* While no call fails, an invoice whose upload is delivered once is posted *)
(* by itself only if it is clean and all the agents have looked at it:     *)
(* whatever the batches, whichever streams are read beside local dispatch, *)
(* and however the worker dies in between.                                 *)
(***************************************************************************)
THEOREM RedisPostingsAreClean == Spec => []AutoPostIsClean
<1>1. Init => Orderly
  <2> SUFFICES ASSUME Init PROVE Orderly
    OBVIOUS
  <2>1. /\ \A c \in Consumers : consumer[c].at = "read" /\ consumer[c].inbox = <<>>
        /\ \A c \in Consumers : stream[c] = <<>>
        /\ mem = disk
    BY DEF Init, Reading
  <2>2. Range(<<>>) = {} /\ <<>> \o <<>> = <<>>
    BY DEF Range
  <2>3. Calm
    BY <2>1 DEF Calm
  <2>4. Todo = <<>>
    BY <2>1, <2>2 DEF Todo
  <2>5. \A e \in Chain, i \in Invoices : ~Under(e, i)
    BY <2>1, <2>2 DEF Under, InStream, InBatch, InHand, In
  <2> QED BY <2>2, <2>3, <2>4, <2>5 DEF Orderly, OrderlyFor, Once, In
<1>2. TInv /\ Orderly => AutoPostIsClean
  <2> SUFFICES ASSUME TInv, Orderly, NEW c \in Consumers, Recommended(c, "APPROVE"),
                      faults = 0, uploads[InvoiceOf(c)] <= 1
               PROVE  /\ Clean(DataOf(c).invoice_extraction)
                      /\ DataOf(c).validation_result.ran
                      /\ DataOf(c).supplier_risk.ran
                      /\ DataOf(c).pricing_comparison.ran
    BY DEF AutoPostIsClean
  <2>1. /\ consumer[c].at = "handle" /\ CallOf(c).event = "RecommendationCreated"
        /\ DataOf(c).recommendation_result.action = "APPROVE"
    BY DEF Recommended, Handling
  <2>2. InvoiceOf(c) \in Invoices /\ DataOf(c) \in StateData
    BY <2>1, AtWork, DataTyped DEF Working
  <2>3. "RecommendationCreated" \in Chain
    BY DEF Chain, Events
  <2>4. Under("RecommendationCreated", InvoiceOf(c))
    BY <2>1 DEF Under, InHand
  <2>5. Judged(DataOf(c))
    BY <2>2, <2>3, <2>4 DEF Orderly, OrderlyFor, Reached, DataOf
  <2> QED BY <2>1, <2>2, <2>5, ApprovedIsClean
<1> QED BY <1>1, <1>2, TInvInitially, TInvInductive, OrderlyInductive, PTL DEF Spec

-----------------------------------------------------------------------------
(***************************************************************************)
(* Payments: the worker refines PaymentPromise, as the engine on the       *)
(* in-memory bus does.                                                     *)
(*                                                                         *)
(* A handler that finds the invoice in the registry only records it, so    *)
(* that the record is true needs an invariant: what is in the registry is  *)
(* in the ERP's log.                                                       *)
(***************************************************************************)
Backed == \A i \in posted : Len(erp[i]) > 0

Recorded == {i \in Invoices : disk[i].status = "COMPLETED"}

\* The store's row of invoice i is replaced by one with a status of S, or is not.
Rewrites(i, S) ==
    \/ UNCHANGED disk
    \/ \E x : x.status \in S /\ disk' = [disk EXCEPT ![i] = x]

Undecided == Statuses \ {"COMPLETED"}

LEMMA BackedInductive == TInv /\ Ledger /\ Backed /\ [Next]_vars => Backed'
<1> SUFFICES ASSUME TInv, Ledger, Backed, [Next]_vars PROVE Backed'
  OBVIOUS
<1>0. posted' \subseteq Invoices
  BY TInvInductive DEF TInv, Typed
<1>1. CASE Bystander
  BY <1>1 DEF Bystander, Backed
<1>2. CASE NewLife
  BY <1>2 DEF NewLife, Backed
<1>3. ASSUME NEW i, NEW x, Posts(i, x), NEW j \in posted'
      PROVE  Len(erp'[j]) > 0
  <2>1. CASE j \in posted
    <3>1. Len(erp[j]) > 0 /\ (erp'[j] = erp[j] \/ i # j)
      BY <1>3, <2>1 DEF Posts, Backed
    <3>2. erp'[j] = erp[j]
      BY <1>3, <2>1, <3>1 DEF Posts, Ledger
    <3> QED BY <3>1, <3>2
  <2>2. CASE j \notin posted
    <3>1. j = i /\ erp' = [erp EXCEPT ![i] = Append(@, x)]
      BY <1>3, <2>2 DEF Posts
    <3>2. erp'[j] = Append(erp[j], x) /\ IsSeq(erp[j])
      BY <1>0, <1>3, <3>1 DEF Ledger
    <3>3. Len(erp'[j]) = Len(erp[j]) + 1 /\ Len(erp[j]) \in Nat
      BY <3>2, AppendToSeq
    <3> QED BY <3>3
  <2> QED BY <2>1, <2>2
<1> QED BY <1>1, <1>2, <1>3, StepKinds DEF Backed, vars, stores, Bystander

LEMMA SaveRewrites ==
    ASSUME NEW i, NEW S, NEW status \in S, NEW data, NEW ok, Save(i, status, data, ok)
    PROVE  Rewrites(i, S)
<1> DEFINE x == [status |-> status, state_data |-> data]
<1>1. x.status \in S
  OBVIOUS
<1>2. disk' = disk \/ disk' = [disk EXCEPT ![i] = x]
  BY DEF Save
<1> HIDE DEF x
<1> QED BY <1>1, <1>2 DEF Rewrites

LEMMA CatchRewrites ==
    ASSUME NEW c, NEW calls, NEW n, Catch(c, calls, n)
    PROVE  Rewrites(InvoiceOf(c), Undecided)
<1>1. CASE Head(calls).event = "InvoiceUploaded"
  <2>1. PICK ok : Save(InvoiceOf(c), "FAILED", NoData, ok)
    BY <1>1 DEF Catch
  <2> QED BY <2>1, SaveRewrites DEF Undecided, Statuses
<1>2. CASE Head(calls).event # "InvoiceUploaded"
  BY <1>2 DEF Catch, Rewrites
<1> QED BY <1>1, <1>2

\* A step that posts nothing and writes no COMPLETED; it may overwrite one.
LEMMA RewriteRevokes ==
    ASSUME TInv, NEW i \in Invoices, UNCHANGED <<posted, erp, deaths>>, Rewrites(i, Undecided)
    PROVE  [Payments!PNext]_(Payments!pvars)
<1>1. \A j \in Invoices \ {i} : disk'[j] = disk[j]
  BY DEF Rewrites, TInv, Typed
<1>2. disk'[i] = disk[i] \/ disk'[i].status # "COMPLETED"
  BY DEF Rewrites, TInv, Typed, Undecided
<1>3. Recorded' = Recorded \/ Recorded' = Recorded \ {i}
  BY <1>1, <1>2 DEF Recorded
<1>4. CASE Recorded' = Recorded
  BY <1>4 DEF Recorded, Payments!pvars
<1>5. CASE Recorded' = Recorded \ {i}
  BY <1>5 DEF Recorded, Payments!Revoke, Payments!PNext
<1> QED BY <1>3, <1>4, <1>5

\* _finalize_and_post_erp, with its save.
LEMMA FinalizePays ==
    ASSUME TInv, Backed, NEW c \in Consumers, consumer[c].at = "handle", Finalize(c),
           UNCHANGED deaths
    PROVE  [Payments!PNext]_(Payments!pvars)
<1> DEFINE paid == [j \in Invoices |-> Len(erp[j])]
<1> PICK i \in Invoices : i = InvoiceOf(c)
  BY AtWork DEF Working
<1>1. PICK ok : Save(i, "COMPLETED", DataOf(c), ok)
  BY DEF Finalize, SaveAndPublish
<1>2. Rewrites(i, {"COMPLETED"})
  BY <1>1, SaveRewrites
<1>3. \A j \in Invoices \ {i} : disk'[j] = disk[j]
  BY <1>2 DEF Rewrites, TInv, Typed
<1>4. disk'[i] = disk[i] \/ disk'[i].status = "COMPLETED"
  BY <1>2 DEF Rewrites, TInv, Typed
<1>5. Recorded' \in {Recorded, Recorded \cup {i}}
  BY <1>3, <1>4 DEF Recorded
<1>6. posted' = posted \cup {i} /\ deaths' = deaths
  BY DEF Finalize
<1>7. CASE i \in posted
  <2>1. UNCHANGED <<posted, erp, deaths>>
    BY <1>6, <1>7 DEF Finalize
  <2>2. Len(erp[i]) > 0
    BY <1>7 DEF Backed
  <2>3. CASE Recorded' = Recorded
    BY <2>1, <2>3 DEF Recorded, Payments!pvars
  <2>4. CASE Recorded' = Recorded \cup {i}
    BY <2>1, <2>2, <2>4 DEF Recorded, Payments!Record, Payments!PNext
  <2> QED BY <1>5, <2>3, <2>4
<1>8. CASE i \notin posted
  <2>1. PICK x : x \in Posting /\ erp' = [erp EXCEPT ![i] = Append(@, x)]
    <3>1. PostingOf(DataOf(c)) \in Posting
      BY DataTyped, PostingTyped DEF Working
    <3> QED BY <1>8, <3>1 DEF Finalize
  <2>2. erp \in [Invoices -> Logs]
    BY DEF TInv, Typed
  <2>3. Len(Append(erp[i], x)) = Len(erp[i]) + 1
    BY <2>1, <2>2 DEF Logs
  <2>4. paid' = [paid EXCEPT ![i] = @ + 1]
    BY <2>1, <2>2, <2>3
  <2>5. Payments!Pay(i)
    BY <1>5, <1>6, <1>8, <2>4 DEF Payments!Pay, Recorded
  <2> QED BY <2>5 DEF Payments!PNext
<1> QED BY <1>7, <1>8

LEMMA HandlersPay ==
    ASSUME TInv, Backed, NEW c \in Consumers, HandlerStep(c)
    PROVE  [Payments!PNext]_(Payments!pvars)
<1>1. consumer[c].at = "handle" /\ InvoiceOf(c) \in Invoices
  <2>1. consumer[c].at = "handle"
    BY DEF HandlerStep, HandleInvoiceUploaded, ExtractionFails, Unknown,
           HandleInvoiceParsed, HandleInvoiceValidated, HandleSupplierChecked,
           HandlePricingCompleted, AgentStep, PauseForHuman, AutoReject, AutoApprove,
           Recommended, IgnoreDuplicateApproval, HumanApproves, HumanRejects, Handling
  <2> QED BY <2>1, AtWork DEF Working
<1>2. CASE AutoApprove(c) \/ HumanApproves(c)
  BY <1>1, <1>2, FinalizePays DEF AutoApprove, HumanApproves
<1>3. ASSUME UNCHANGED <<posted, erp, deaths>>, NEW status \in Undecided, NEW data, NEW ok,
             Save(InvoiceOf(c), status, data, ok)
      PROVE  [Payments!PNext]_(Payments!pvars)
  BY <1>1, <1>3, SaveRewrites, RewriteRevokes
<1>4. CASE HandleInvoiceUploaded(c)
  <2>1. \E data, ok : Save(InvoiceOf(c), "PARSED", data, ok)
    BY <1>4 DEF HandleInvoiceUploaded, SaveAndPublish
  <2> QED BY <1>3, <1>4, <2>1 DEF HandleInvoiceUploaded, Undecided, Statuses
<1>5. CASE ExtractionFails(c)
  BY <1>1, <1>5, CatchRewrites, RewriteRevokes DEF ExtractionFails
<1>6. CASE Unknown(c) \/ IgnoreDuplicateApproval(c)
  BY <1>6 DEF Unknown, IgnoreDuplicateApproval, stores, Payments!pvars
<1>7. CASE \/ HandleInvoiceParsed(c) \/ HandleInvoiceValidated(c)
           \/ HandleSupplierChecked(c) \/ HandlePricingCompleted(c)
  <2>1. PICK event, key, results, status :
            status \in Undecided /\ AgentStep(c, event, key, results, status)
    BY <1>7 DEF HandleInvoiceParsed, HandleInvoiceValidated, HandleSupplierChecked,
                HandlePricingCompleted, Undecided, Statuses
  <2>2. \E data, ok : Save(InvoiceOf(c), status, data, ok)
    BY <2>1 DEF AgentStep, SaveAndPublish
  <2> QED BY <1>3, <2>1, <2>2 DEF AgentStep
<1>8. CASE PauseForHuman(c) \/ AutoReject(c) \/ HumanRejects(c)
  <2>1. PICK status \in Undecided : SaveAndReturn(c, status, DataOf(c))
    BY <1>8 DEF PauseForHuman, AutoReject, HumanRejects, Undecided, Statuses
  <2>2. \E ok : Save(InvoiceOf(c), status, DataOf(c), ok)
    BY <2>1 DEF SaveAndReturn
  <2>3. UNCHANGED <<posted, erp, deaths>>
    BY <1>8 DEF PauseForHuman, AutoReject, HumanRejects
  <2> QED BY <1>3, <2>2, <2>3
<1> QED BY <1>2, <1>4, <1>5, <1>6, <1>7, <1>8 DEF HandlerStep

LEMMA PaymentStep ==
    ASSUME TInv, Backed, [Next]_vars
    PROVE  [Payments!PNext]_(Payments!pvars)
<1>1. CASE \E c \in Consumers : HandlerStep(c)
  BY <1>1, HandlersPay
<1>2. ASSUME NEW c \in Consumers, TimeOut(c) \/ BuryBreaks(c)
      PROVE  [Payments!PNext]_(Payments!pvars)
  <2>1. /\ \E calls, n : Catch(c, calls, n)
        /\ UNCHANGED <<posted, erp, deaths>> /\ consumer[c].at \in Working
    BY <1>2 DEF TimeOut, BuryBreaks, Working
  <2> QED BY <2>1, AtWork, CatchRewrites, RewriteRevokes
<1>3. CASE Die
  BY <1>3 DEF Die, Payments!Restart, Payments!PNext
<1>4. CASE \/ WebStep \/ NextRound \/ UNCHANGED vars
           \/ \E c \in Consumers : Wake(c) \/ Bury(c) \/ ReadGroup(c)
  <2>1. UNCHANGED <<disk, posted, erp, deaths>>
    BY <1>4 DEF WebStep, AddUpload, AddDecision, RestartWeb, NextRound, Wake, Bury,
                ReadGroup, vars, stores
  <2> QED BY <2>1 DEF Payments!pvars
<1> QED BY <1>1, <1>2, <1>3, <1>4 DEF Next, BusStep

LEMMA PaymentInit == Init => Backed /\ Payments!PInit
  BY DEF Init, NoCheckpoint, Backed, Payments!PInit

(***************************************************************************)
(* Whatever is delivered twice, retried, unanswered or lost, one life of   *)
(* the worker pays an invoice at most once, no payment is undone, and the  *)
(* store says COMPLETED only of what has been paid.                        *)
(***************************************************************************)
THEOREM RedisPaymentsAreSafe == Spec => ImplementsPayments
<1>1. TInv /\ Backed /\ [Next]_vars => [Payments!PNext]_(Payments!pvars)
  BY PaymentStep
<1> QED
  BY <1>1, PaymentInit, LedgerInitially, LedgerInductive, BackedInductive,
     TInvInitially, TInvInductive, PTL
  DEF Spec, ImplementsPayments, Payments!SafePayments
-----------------------------------------------------------------------------
(***************************************************************************)
(* No entry is handled without end.  Climbs is what a step makes of a      *)
(* consumer that stays at its entry: the handler on top dispatches the     *)
(* next one inside it, moves on in its attempt, wakes for another, or the  *)
(* one below it takes over.  Ladder, which those steps keep, says that a   *)
(* handler in progress is further along the chain than those below it, so  *)
(* that no event is on the stack twice.                                    *)
(***************************************************************************)
Ladder(s) == \A k, l \in DOMAIN s : k < l => Stage[s[k].event] > Stage[s[l].event]

Laddered == \A c \in Consumers : Ladder(consumer[c].calls)

Begins(r, s) ==
    \E n \in Events :
        /\ r.at = "handle" /\ s.at = "handle"
        /\ Stage[n] = Stage[Head(r.calls).event] + 1
        /\ s.calls = <<NewCall(n)>> \o r.calls

Shifts(r, s) == s.calls = r.calls /\ PlacesLeft[s.at] < PlacesLeft[r.at]

Wakes(r, s) ==
    /\ r.at = "sleep" /\ s.at = "handle"
    /\ s.calls = <<[Head(r.calls) EXCEPT !.attempt = @ + 1]>> \o Tail(r.calls)

Breaks(r, s) ==
    /\ r.at = "bury" /\ s.at \in {"sleep", "bury"}
    /\ Len(r.calls) > 1 /\ s.calls = Tail(r.calls)

Climbs(r, s) ==
    /\ r.at \in Working /\ s.at \in Working
    /\ s.inbox = r.inbox
    /\ Begins(r, s) \/ Shifts(r, s) \/ Wakes(r, s) \/ Breaks(r, s)

LEMMA CallTyped ==
    ASSUME NEW x \in Call
    PROVE  /\ x.event \in Events /\ Stage[x.event] \in Nat
           /\ x.attempt \in Nat /\ x.attempt <= MaxRetries /\ MaxRetries \in Nat
<1>1. x.event \in Events /\ x.attempt \in 0 .. MaxRetries
  BY DEF Call
<1> QED BY <1>1, RedisAssumption DEF Events, Stage

\* What is left at an event whose handler is at position k of the stack.
LEMMA StepsLeftAt ==
    ASSUME NEW r \in ConsumerState, Ladder(r.calls), NEW k \in DOMAIN r.calls
    PROVE  StepsLeft(r, r.calls[k].event) =
               4 * (MaxRetries - r.calls[k].attempt)
                   + (IF k > 1 THEN 2 ELSE PlacesLeft[r.at])
<1> DEFINE e == r.calls[k].event
           here(l) == l \in DOMAIN r.calls /\ r.calls[l].event = e
<1>1. r.calls \in Seq(Call)
  BY DEF ConsumerState, Stacks
<1>2. ASSUME NEW l \in DOMAIN r.calls, r.calls[l].event = e
      PROVE  l = k
  <2>1. k \in Nat /\ l \in Nat /\ r.calls[k] \in Call
    BY <1>1
  <2> QED BY <1>2, <2>1, CallTyped DEF Ladder
<1>3. (CHOOSE l \in DOMAIN r.calls : r.calls[l].event = e) = k
  BY <1>2
<1> QED BY <1>3 DEF StepsLeft

LEMMA StepsLeftOff ==
    ASSUME NEW r, NEW e, \A k \in DOMAIN r.calls : r.calls[k].event # e
    PROVE  StepsLeft(r, e) = 4 * (MaxRetries + 1)
  BY DEF StepsLeft

\* Event e keeps its place below the head, or stays off the stack.
Keeps(r, s, e) ==
    /\ \A k \in DOMAIN r.calls : r.calls[k].event = e =>
          \E l \in DOMAIN s.calls :
              /\ s.calls[l] = r.calls[k]
              /\ k > 1 /\ l > 1
    /\ \A l \in DOMAIN s.calls : s.calls[l].event = e =>
          \E k \in DOMAIN r.calls : r.calls[k].event = e

LEMMA StepsLeftSame ==
    ASSUME NEW r \in ConsumerState, NEW s \in ConsumerState,
           Ladder(r.calls), Ladder(s.calls), NEW e, Keeps(r, s, e)
    PROVE  StepsLeft(s, e) = StepsLeft(r, e)
<1>1. CASE \E k \in DOMAIN r.calls : r.calls[k].event = e
  <2>1. PICK k \in DOMAIN r.calls : r.calls[k].event = e
    BY <1>1
  <2>2. PICK l \in DOMAIN s.calls : s.calls[l] = r.calls[k] /\ k > 1 /\ l > 1
    BY <2>1 DEF Keeps
  <2> QED BY <2>1, <2>2, StepsLeftAt
<1>2. CASE ~ \E k \in DOMAIN r.calls : r.calls[k].event = e
  BY <1>2, StepsLeftOff DEF Keeps
<1> QED BY <1>1, <1>2

LEMMA BeginAdvances ==
    ASSUME NEW r \in ConsumerState, NEW s \in ConsumerState,
           Ladder(r.calls), r.calls # <<>>, Begins(r, s)
    PROVE  Ladder(s.calls) /\ Advances(r, s)
<1>1. PICK n \in Events :
          /\ r.at = "handle" /\ s.at = "handle"
          /\ Stage[n] = Stage[Head(r.calls).event] + 1
          /\ s.calls = <<NewCall(n)>> \o r.calls
  BY DEF Begins
<1>2. /\ r.calls \in Seq(Call) /\ s.calls \in Seq(Call)
      /\ 1 \in DOMAIN r.calls /\ Head(r.calls) = r.calls[1]
  BY DEF ConsumerState, Stacks
<1>3. /\ s.calls[1] = NewCall(n) /\ NewCall(n).event = n
      /\ \A k \in DOMAIN r.calls : k + 1 \in DOMAIN s.calls /\ s.calls[k + 1] = r.calls[k]
      /\ \A l \in DOMAIN s.calls : l = 1 \/ l - 1 \in DOMAIN r.calls
  BY <1>1, <1>2 DEF NewCall
<1>4. \A k \in DOMAIN r.calls : r.calls[k] \in Call /\ k \in Nat /\ k >= 1
  BY <1>2
<1>5. \A k \in DOMAIN r.calls : Stage[r.calls[k].event] <= Stage[r.calls[1].event]
  BY <1>2, <1>4, CallTyped DEF Ladder
<1>6. Ladder(s.calls)
  <2> SUFFICES ASSUME NEW k \in DOMAIN s.calls, NEW l \in DOMAIN s.calls, k < l
               PROVE  Stage[s.calls[k].event] > Stage[s.calls[l].event]
    BY DEF Ladder
  <2>1. k \in Nat /\ l \in Nat /\ k >= 1 /\ l >= 1
    BY <1>2
  <2>2. l - 1 \in DOMAIN r.calls /\ s.calls[l] = r.calls[l - 1]
    BY <1>3, <2>1
  <2>3. CASE k = 1
    <3>1. Stage[s.calls[k].event] = Stage[r.calls[1].event] + 1
      BY <1>1, <1>2, <1>3, <2>3
    <3>2. /\ Stage[s.calls[l].event] <= Stage[r.calls[1].event]
          /\ Stage[s.calls[l].event] \in Nat /\ Stage[r.calls[1].event] \in Nat
      BY <1>2, <1>4, <1>5, <2>2, CallTyped
    <3> QED BY <3>1, <3>2
  <2>4. CASE k # 1
    <3>1. k - 1 \in DOMAIN r.calls /\ s.calls[k] = r.calls[k - 1] /\ k - 1 < l - 1
      BY <1>3, <2>1, <2>4
    <3> QED BY <2>2, <3>1 DEF Ladder
  <2> QED BY <2>3, <2>4
<1> DEFINE e == r.calls[1].event
<1>7. e \in Events /\ StepsLeft(s, e) \in 0 .. StepsLeft(r, e) - 1
  <2>1. StepsLeft(r, e) = 4 * (MaxRetries - r.calls[1].attempt) + 3
    BY <1>1, <1>2, StepsLeftAt DEF PlacesLeft
  <2>2. StepsLeft(s, e) = 4 * (MaxRetries - r.calls[1].attempt) + 2
    BY <1>2, <1>3, <1>6, StepsLeftAt
  <2> QED BY <1>2, <1>4, <2>1, <2>2, CallTyped
<1>8. ASSUME NEW f \in Events, Stage[f] < Stage[e]
      PROVE  StepsLeft(s, f) = StepsLeft(r, f)
  <2>1. f # n /\ f # e
    BY <1>1, <1>2, <1>4, <1>8, CallTyped
  <2>2. ASSUME NEW k \in DOMAIN r.calls, r.calls[k].event = f
        PROVE  k > 1 /\ k + 1 \in DOMAIN s.calls /\ s.calls[k + 1] = r.calls[k] /\ k + 1 > 1
    BY <1>3, <1>4, <2>1, <2>2
  <2>3. ASSUME NEW l \in DOMAIN s.calls, s.calls[l].event = f
        PROVE  \E k \in DOMAIN r.calls : r.calls[k].event = f
    BY <1>2, <1>3, <2>1, <2>3
  <2>4. Keeps(r, s, f)
    BY <2>2, <2>3 DEF Keeps
  <2> QED BY <1>6, <2>4, StepsLeftSame
<1> QED BY <1>6, <1>7, <1>8 DEF Advances

LEMMA ShiftAdvances ==
    ASSUME NEW r \in ConsumerState, NEW s \in ConsumerState,
           r.at \in Working, s.at \in Working,
           Ladder(r.calls), r.calls # <<>>, Shifts(r, s)
    PROVE  Ladder(s.calls) /\ Advances(r, s)
<1>1. s.calls = r.calls /\ PlacesLeft[s.at] < PlacesLeft[r.at]
  BY DEF Shifts
<1>2. r.calls \in Seq(Call) /\ 1 \in DOMAIN r.calls /\ r.calls[1] \in Call
  BY DEF ConsumerState, Stacks
<1>3. PlacesLeft[s.at] \in Nat /\ PlacesLeft[r.at] \in Nat
  BY DEF Working, PlacesLeft
<1> DEFINE e == r.calls[1].event
<1>4. e \in Events /\ StepsLeft(s, e) \in 0 .. StepsLeft(r, e) - 1
  <2> DEFINE n == 4 * (MaxRetries - r.calls[1].attempt)
  <2>1. /\ StepsLeft(r, e) = n + PlacesLeft[r.at]
        /\ StepsLeft(s, e) = n + PlacesLeft[s.at]
    BY <1>1, <1>2, StepsLeftAt
  <2>2. n \in Nat /\ e \in Events
    BY <1>2, CallTyped
  <2> HIDE DEF n
  <2> QED BY <1>1, <1>3, <2>1, <2>2
<1>5. ASSUME NEW f \in Events, Stage[f] < Stage[e]
      PROVE  StepsLeft(s, f) = StepsLeft(r, f)
  <2>1. f # e
    BY <1>2, <1>5, CallTyped
  <2>2. \A k \in DOMAIN r.calls : r.calls[k].event = f => k > 1
    BY <1>2, <2>1
  <2>3. Keeps(r, s, f)
    BY <1>1, <2>2 DEF Keeps
  <2> QED BY <1>1, <2>3, StepsLeftSame
<1> QED BY <1>1, <1>4, <1>5 DEF Advances

LEMMA WakeAdvances ==
    ASSUME NEW r \in ConsumerState, NEW s \in ConsumerState,
           Sound(r), Ladder(r.calls), r.calls # <<>>, Wakes(r, s)
    PROVE  Ladder(s.calls) /\ Advances(r, s)
<1> DEFINE woken == [r.calls[1] EXCEPT !.attempt = @ + 1]
<1>1. /\ r.calls \in Seq(Call) /\ s.calls \in Seq(Call)
      /\ 1 \in DOMAIN r.calls /\ Head(r.calls) = r.calls[1] /\ r.calls[1] \in Call
  BY DEF ConsumerState, Stacks
<1>2. r.at = "sleep" /\ s.at = "handle" /\ s.calls = <<woken>> \o Tail(r.calls)
  BY <1>1 DEF Wakes
<1>3. /\ woken.event = r.calls[1].event /\ woken.attempt = r.calls[1].attempt + 1
      /\ r.calls[1].attempt < MaxRetries
  BY <1>1, <1>2 DEF Sound, Call
<1> HIDE DEF woken
<1>4. /\ DOMAIN s.calls = DOMAIN r.calls /\ s.calls[1] = woken
      /\ \A k \in DOMAIN r.calls : k > 1 => s.calls[k] = r.calls[k]
      /\ \A k \in DOMAIN r.calls : k \in Nat /\ k >= 1
  BY <1>1, <1>2
<1>5. \A k \in DOMAIN r.calls : s.calls[k].event = r.calls[k].event
  BY <1>3, <1>4
<1>6. Ladder(s.calls)
  BY <1>4, <1>5 DEF Ladder
<1> DEFINE e == r.calls[1].event
<1>7. e \in Events /\ StepsLeft(s, e) \in 0 .. StepsLeft(r, e) - 1
  <2>1. StepsLeft(r, e) = 4 * (MaxRetries - r.calls[1].attempt) + 1
    BY <1>1, <1>2, StepsLeftAt DEF PlacesLeft
  <2>2. StepsLeft(s, e) = 4 * (MaxRetries - woken.attempt) + 3
    <3>1. 1 \in DOMAIN s.calls /\ s.calls[1].event = e /\ s.calls[1] = woken
      BY <1>1, <1>4, <1>5
    <3>2. StepsLeft(s, s.calls[1].event) =
              4 * (MaxRetries - s.calls[1].attempt) + PlacesLeft[s.at]
      BY <1>6, <3>1, StepsLeftAt
    <3>3. PlacesLeft[s.at] = 3
      BY <1>2 DEF PlacesLeft
    <3> QED BY <3>1, <3>2, <3>3
  <2> DEFINE n == MaxRetries - r.calls[1].attempt
  <2>3. /\ e \in Events /\ n \in Nat /\ n > 0
        /\ MaxRetries - woken.attempt = n - 1
    BY <1>1, <1>3, CallTyped
  <2>4. StepsLeft(r, e) = 4 * n + 1 /\ StepsLeft(s, e) = 4 * (n - 1) + 3
    BY <2>1, <2>2, <2>3
  <2> HIDE DEF n
  <2> QED BY <2>3, <2>4
<1>8. ASSUME NEW f \in Events, Stage[f] < Stage[e]
      PROVE  StepsLeft(s, f) = StepsLeft(r, f)
  <2>1. f # e
    BY <1>1, <1>8, CallTyped
  <2>2. \A k \in DOMAIN r.calls :
            r.calls[k].event = f => k > 1 /\ s.calls[k] = r.calls[k]
    BY <1>4, <2>1
  <2>3. Keeps(r, s, f)
    BY <1>4, <1>5, <2>2 DEF Keeps
  <2> QED BY <1>6, <2>3, StepsLeftSame
<1> QED BY <1>6, <1>7, <1>8 DEF Advances

LEMMA BreakAdvances ==
    ASSUME NEW r \in ConsumerState, NEW s \in ConsumerState,
           Ladder(r.calls), Breaks(r, s)
    PROVE  Ladder(s.calls) /\ Advances(r, s)
<1>1. /\ s.at \in {"sleep", "bury"} /\ Len(r.calls) > 1 /\ s.calls = Tail(r.calls)
      /\ r.calls \in Seq(Call) /\ s.calls \in Seq(Call)
  BY DEF Breaks, ConsumerState, Stacks
<1>2. /\ 2 \in DOMAIN r.calls /\ 1 \in DOMAIN s.calls
      /\ \A k \in DOMAIN r.calls : k > 1 =>
            k - 1 \in DOMAIN s.calls /\ s.calls[k - 1] = r.calls[k]
      /\ \A l \in DOMAIN s.calls :
            l \in Nat /\ l + 1 \in DOMAIN r.calls /\ r.calls[l + 1] = s.calls[l]
      /\ \A k \in DOMAIN r.calls : r.calls[k] \in Call /\ k \in Nat /\ k >= 1
  BY <1>1
<1>3. Ladder(s.calls)
  <2> SUFFICES ASSUME NEW k \in DOMAIN s.calls, NEW l \in DOMAIN s.calls, k < l
               PROVE  Stage[s.calls[k].event] > Stage[s.calls[l].event]
    BY DEF Ladder
  <2>1. k + 1 < l + 1
    BY <1>2
  <2> QED BY <1>2, <2>1 DEF Ladder
<1> DEFINE e == r.calls[2].event
<1>4. s.calls[1] = r.calls[2]
  BY <1>2
<1>5. e \in Events /\ StepsLeft(s, e) \in 0 .. StepsLeft(r, e) - 1
  <2>1. StepsLeft(r, e) = 4 * (MaxRetries - r.calls[2].attempt) + 2
    BY <1>2, StepsLeftAt
  <2>2. StepsLeft(s, e) = 4 * (MaxRetries - r.calls[2].attempt) + PlacesLeft[s.at]
    <3>1. StepsLeft(s, s.calls[1].event) =
              4 * (MaxRetries - s.calls[1].attempt) + PlacesLeft[s.at]
      BY <1>2, <1>3, StepsLeftAt
    <3> QED BY <1>4, <3>1
  <2>3. PlacesLeft[s.at] \in {0, 1}
    BY <1>1 DEF PlacesLeft
  <2> QED BY <1>2, <2>1, <2>2, <2>3, CallTyped
<1>6. ASSUME NEW f \in Events, Stage[f] < Stage[e]
      PROVE  StepsLeft(s, f) = StepsLeft(r, f)
  <2>1. Stage[r.calls[1].event] > Stage[e]
    <3>1. 1 \in DOMAIN r.calls /\ 1 < 2
      BY <1>1
    <3> QED BY <1>2, <3>1 DEF Ladder
  <2>2. f # e /\ f # r.calls[1].event
    <3>1. /\ Stage[f] \in Nat /\ Stage[e] \in Nat
          /\ Stage[r.calls[1].event] \in Nat
      BY <1>1, <1>2, CallTyped DEF Events, Stage
    <3> QED BY <1>6, <2>1, <3>1
  <2>3. ASSUME NEW k \in DOMAIN r.calls, r.calls[k].event = f
        PROVE  /\ k > 1 /\ k - 1 > 1
               /\ k - 1 \in DOMAIN s.calls /\ s.calls[k - 1] = r.calls[k]
    BY <1>2, <2>2, <2>3
  <2>4. Keeps(r, s, f)
    BY <1>2, <2>3 DEF Keeps
  <2> QED BY <1>3, <2>4, StepsLeftSame
<1> QED BY <1>3, <1>5, <1>6 DEF Advances

LEMMA ClimbAdvances ==
    ASSUME NEW r \in ConsumerState, NEW s \in ConsumerState,
           Sound(r), Ladder(r.calls), Climbs(r, s)
    PROVE  Ladder(s.calls) /\ Advances(r, s)
<1>1. r.calls # <<>>
  BY DEF Sound, Climbs
<1> QED
  BY <1>1, BeginAdvances, ShiftAdvances, WakeAdvances, BreakAdvances DEF Climbs

-----------------------------------------------------------------------------
\* The steps of a consumer at its entry, in its handlers and in the bus.
Stays(c) ==
    \E s \in ConsumerState :
        consumer' = [consumer EXCEPT ![c] = s] /\ Climbs(consumer[c], s)

\* What a consumer is after a move to place p, with the stack k.
Arrives(s, c, p, k) ==
    /\ s.at = p /\ s.calls = k /\ s.inbox = consumer[c].inbox
    /\ consumer' = [consumer EXCEPT ![c] = s]

LEMMA MoveArrives ==
    ASSUME TInv, NEW c \in Consumers, NEW p \in Working, NEW k \in Stacks,
           consumer' = [consumer EXCEPT ![c].at = p, ![c].calls = k]
    PROVE  \E s \in ConsumerState : Arrives(s, c, p, k)
<1> DEFINE s == [consumer[c] EXCEPT !.at = p, !.calls = k]
<1>1. /\ consumer \in [Consumers -> ConsumerState]
      /\ consumer[c] \in ConsumerState /\ p \in Places
  BY DEF TInv, Typed, Working, Places
<1>2. /\ s \in ConsumerState /\ s.at = p /\ s.calls = k
      /\ s.inbox = consumer[c].inbox
  BY <1>1 DEF ConsumerState
<1>3. consumer' = [consumer EXCEPT ![c] = s]
  BY <1>1
<1> HIDE DEF s
<1> QED BY <1>2, <1>3 DEF Arrives

LEMMA GotoStays ==
    ASSUME TInv, NEW c \in Consumers, consumer[c].at = "handle",
           Goto(c, "unanswered")
    PROVE  Stays(c)
<1>1. consumer[c].calls \in Stacks /\ consumer[c].at \in Working
  BY AtWork DEF Working
<1>2. consumer' = [consumer EXCEPT ![c].at = "unanswered",
                                   ![c].calls = consumer[c].calls]
  BY <1>1, AtWork DEF Goto, ConsumerState
<1>3. "unanswered" \in Working /\ PlacesLeft["unanswered"] < PlacesLeft["handle"]
  BY DEF Working, PlacesLeft
<1>4. PICK s \in ConsumerState : Arrives(s, c, "unanswered", consumer[c].calls)
  BY <1>1, <1>2, <1>3, MoveArrives
<1> QED BY <1>1, <1>3, <1>4 DEF Arrives, Stays, Climbs, Shifts

\* An exception reaches the handler on top, or the one below it.
LEMMA RaiseStays ==
    ASSUME TInv, NEW c \in Consumers, NEW calls, Raise(c, calls),
           \/ consumer[c].at \in {"handle", "unanswered"} /\ calls = consumer[c].calls
           \/ /\ consumer[c].at = "bury" /\ Len(consumer[c].calls) > 1
              /\ calls = Tail(consumer[c].calls)
    PROVE  Stays(c)
<1> DEFINE place == IF Head(calls).attempt < MaxRetries THEN "sleep" ELSE "bury"
<1>1. place \in {"sleep", "bury"} /\ place \in Working
  BY DEF Working
<1>2. consumer' = [consumer EXCEPT ![c].at = place, ![c].calls = calls]
  BY DEF Raise
<1>3. consumer[c].at \in Working
  BY DEF Working
<1>4. calls \in Stacks
  BY <1>3, AtWork, TailRange DEF Stacks
<1> HIDE DEF place
<1>5. PICK s \in ConsumerState : Arrives(s, c, place, calls)
  BY <1>1, <1>2, <1>4, MoveArrives
<1>6. CASE consumer[c].at \in {"handle", "unanswered"} /\ calls = consumer[c].calls
  <2>1. PlacesLeft[place] < PlacesLeft[consumer[c].at]
    BY <1>1, <1>6 DEF PlacesLeft
  <2> QED BY <1>1, <1>3, <1>5, <1>6, <2>1 DEF Arrives, Stays, Climbs, Shifts
<1>7. CASE consumer[c].at = "bury" /\ Len(consumer[c].calls) > 1
           /\ calls = Tail(consumer[c].calls)
  BY <1>1, <1>3, <1>5, <1>7 DEF Arrives, Stays, Climbs, Breaks
<1> QED BY <1>6, <1>7

LEMMA AnsweredStays ==
    ASSUME TInv, NEW c \in Consumers, consumer[c].at = "handle",
           Answered(c, NextEvent[CallOf(c).event])
    PROVE  Return(c) \/ Stays(c)
<1> DEFINE next == NextEvent[CallOf(c).event]
<1>0. consumer[c].at \in Working
  BY DEF Working
<1>1. CASE LocalDispatch /\ next \in Events
  <2> DEFINE k == <<NewCall(next)>> \o consumer[c].calls
  <2>1. k \in Stacks
    BY <1>0, <1>1, AtWork, NewCallTyped, PushRange DEF Stacks
  <2>2. consumer' = [consumer EXCEPT ![c].at = "handle", ![c].calls = k]
    BY <1>0, <1>1, AtWork DEF Answered, ConsumerState
  <2>3. Stage[next] = Stage[CallOf(c).event] + 1
    BY <1>0, <1>1, AtWork DEF NextEvent, Stage, Events
  <2>4. "handle" \in Working
    BY DEF Working
  <2>5. PICK s \in ConsumerState : Arrives(s, c, "handle", k)
    BY <2>1, <2>2, <2>4, MoveArrives
  <2>6. Begins(consumer[c], s)
    BY <1>1, <2>3, <2>5 DEF Arrives, Begins, CallOf
  <2> QED BY <1>0, <2>4, <2>5, <2>6 DEF Arrives, Stays, Climbs
<1>2. CASE ~(LocalDispatch /\ next \in Events)
  BY <1>2 DEF Answered
<1> QED BY <1>1, <1>2

LEMMA WakeStays ==
    ASSUME TInv, NEW c \in Consumers, Wake(c)
    PROVE  Stays(c)
<1> DEFINE old == consumer[c].calls
           top == [Head(old) EXCEPT !.attempt = @ + 1]
           k == <<top>> \o Tail(old)
<1>1. consumer[c].at = "sleep" /\ consumer[c].at \in Working
  BY DEF Wake, Working
<1>2. Head(old).attempt < MaxRetries
  BY <1>1 DEF TInv, Sound
<1>3. top \in Call
  BY <1>1, <1>2, AtWork, RedisAssumption DEF CallOf, Call
<1>4. k \in Stacks
  BY <1>1, <1>3, AtWork, TailRange, PushRange DEF Stacks
<1>5. consumer' = [consumer EXCEPT ![c].at = "handle", ![c].calls = k]
  BY <1>1, AtWork DEF Wake, ConsumerState, CallOf
<1>6. "handle" \in Working
  BY DEF Working
<1>7. PICK s \in ConsumerState : Arrives(s, c, "handle", k)
  BY <1>4, <1>5, <1>6, MoveArrives
<1>8. Wakes(consumer[c], s)
  BY <1>1, <1>7 DEF Arrives, Wakes
<1> QED BY <1>1, <1>6, <1>7, <1>8 DEF Arrives, Stays, Climbs

LEMMA CatchStays ==
    ASSUME TInv, NEW c \in Consumers, NEW calls, NEW n, Catch(c, calls, n),
           \/ consumer[c].at \in {"handle", "unanswered"} /\ calls = consumer[c].calls
           \/ /\ consumer[c].at = "bury" /\ Len(consumer[c].calls) > 1
              /\ calls = Tail(consumer[c].calls)
    PROVE  Return(c) \/ Stays(c)
<1>1. Return(c) \/ Raise(c, calls)
  BY DEF Catch
<1> QED BY <1>1, RaiseStays

LEMMA WorkStays ==
    ASSUME TInv, NEW c \in Consumers,
           HandlerStep(c) \/ (BusStep(c) /\ ~ReadGroup(c))
    PROVE  Return(c) \/ Stays(c)
<1>1. CASE HandlerStep(c)
  <2>1. consumer[c].at = "handle"
    BY <1>1 DEF HandlerStep, HandleInvoiceUploaded, ExtractionFails, Unknown,
           HandleInvoiceParsed, HandleInvoiceValidated, HandleSupplierChecked,
           HandlePricingCompleted, AgentStep, PauseForHuman, AutoReject, AutoApprove,
           Recommended, IgnoreDuplicateApproval, HumanApproves, HumanRejects, Handling
  <2>2. CASE ExtractionFails(c)
    BY <2>1, <2>2, CatchStays DEF ExtractionFails
  <2>3. CASE Unknown(c) \/ IgnoreDuplicateApproval(c)
    BY <2>3 DEF Unknown, IgnoreDuplicateApproval
  <2>4. CASE PauseForHuman(c) \/ AutoReject(c) \/ HumanRejects(c)
    <3>1. PICK status, data : SaveAndReturn(c, status, data)
      BY <2>4 DEF PauseForHuman, AutoReject, HumanRejects
    <3>2. Return(c) \/ Raise(c, consumer[c].calls)
      BY <3>1 DEF SaveAndReturn
    <3> QED BY <2>1, <3>2, RaiseStays
  <2>5. CASE \E status, data, outcomes :
                 outcomes \subseteq Outcomes /\ SaveAndPublish(c, status, data, outcomes)
    <3>1. \/ Answered(c, NextEvent[CallOf(c).event])
          \/ Raise(c, consumer[c].calls)
          \/ Goto(c, "unanswered")
      BY <2>5 DEF SaveAndPublish, Outcomes
    <3> QED BY <2>1, <3>1, AnsweredStays, RaiseStays, GotoStays
  <2>6. CASE HandleInvoiceUploaded(c)
    BY <2>5, <2>6 DEF HandleInvoiceUploaded
  <2>7. CASE \/ HandleInvoiceParsed(c) \/ HandleInvoiceValidated(c)
             \/ HandleSupplierChecked(c) \/ HandlePricingCompleted(c)
    <3>1. PICK event, key, results, status :
              AgentStep(c, event, key, results, status)
      BY <2>7 DEF HandleInvoiceParsed, HandleInvoiceValidated, HandleSupplierChecked,
                  HandlePricingCompleted
    <3> QED BY <2>5, <3>1 DEF AgentStep
  <2>8. CASE AutoApprove(c) \/ HumanApproves(c)
    BY <2>5, <2>8 DEF AutoApprove, HumanApproves, Finalize
  <2> QED BY <1>1, <2>2, <2>3, <2>4, <2>6, <2>7, <2>8 DEF HandlerStep
<1>2. CASE TimeOut(c)
  BY <1>2, CatchStays DEF TimeOut
<1>3. CASE BuryBreaks(c)
  BY <1>3, CatchStays DEF BuryBreaks
<1>4. CASE Bury(c)
  BY <1>4 DEF Bury
<1>5. CASE Wake(c)
  BY <1>5, WakeStays
<1> QED BY <1>1, <1>2, <1>3, <1>4, <1>5 DEF BusStep

LEMMA ShortLadder ==
    /\ Ladder(<<>>)
    /\ \A e : Ladder(<<NewCall(e)>>)
  BY DEF Ladder

\* A step of a consumer's own.
LEMMA OwnStep ==
    ASSUME TInv, Laddered, NEW c \in Consumers, HandlerStep(c) \/ BusStep(c)
    PROVE  /\ \A d \in Consumers \ {c} : consumer'[d] = consumer[d]
           /\ Ladder(consumer'[c].calls)
           /\ consumer[c].inbox # <<>> =>
                 \/ consumer'[c].inbox = Tail(consumer[c].inbox)
                 \/ /\ consumer'[c].inbox = consumer[c].inbox
                    /\ Advances(consumer[c], consumer'[c])
<1>1. consumer \in [Consumers -> ConsumerState] /\ Sound(consumer[c])
  BY DEF TInv, Typed
<1>2. CASE Stays(c)
  <2>1. PICK s \in ConsumerState :
            consumer' = [consumer EXCEPT ![c] = s] /\ Climbs(consumer[c], s)
    BY <1>2 DEF Stays
  <2>2. Ladder(s.calls) /\ Advances(consumer[c], s) /\ s.inbox = consumer[c].inbox
    BY <1>1, <2>1, ClimbAdvances DEF Laddered, Climbs
  <2> QED BY <1>1, <2>1, <2>2
<1>3. CASE Return(c)
  BY <1>1, <1>3, ShortLadder DEF Return, Through, Reading
<1>4. CASE ReadGroup(c)
  <2>1. consumer[c].inbox = <<>>
    BY <1>1, <1>4 DEF ReadGroup, Sound, Idle
  <2> QED BY <1>1, <1>4, <2>1, ShortLadder DEF ReadGroup
<1> QED BY <1>2, <1>3, <1>4, WorkStays

LEMMA LadderedInductive == TInv /\ Laddered /\ [Next]_vars => Laddered'
<1> SUFFICES ASSUME TInv, Laddered, [Next]_vars PROVE Laddered'
  OBVIOUS
<1>1. ASSUME NEW c \in Consumers, HandlerStep(c) \/ BusStep(c)
      PROVE  Laddered'
  BY <1>1, OwnStep DEF Laddered
<1>2. CASE NextRound \/ Die
  BY <1>2, ShortLadder DEF NextRound, Die, Reading, Laddered
<1>3. CASE WebStep \/ UNCHANGED vars
  BY <1>3 DEF WebStep, AddUpload, AddDecision, RestartWeb, vars, Laddered
<1> QED BY <1>1, <1>2, <1>3 DEF Next

\* The body of EveryStepCounts.
Counts(c) ==
    LET old == consumer[c]
        new == consumer'[c]
    IN  old.inbox # <<>> /\ new # old /\ deaths' = deaths =>
           \/ new.inbox = Tail(old.inbox)
           \/ new.inbox = old.inbox /\ Advances(old, new)

LEMMA CountStep ==
    TInv /\ Laddered /\ [Next]_vars => \A c \in Consumers : Counts(c)
<1> SUFFICES ASSUME TInv, Laddered, [Next]_vars, NEW c \in Consumers,
                    consumer[c].inbox # <<>>, consumer'[c] # consumer[c],
                    deaths' = deaths
             PROVE  \/ consumer'[c].inbox = Tail(consumer[c].inbox)
                    \/ /\ consumer'[c].inbox = consumer[c].inbox
                       /\ Advances(consumer[c], consumer'[c])
  BY DEF Counts
<1>1. ASSUME NEW d \in Consumers, HandlerStep(d) \/ BusStep(d)
      PROVE  c = d
  BY <1>1, OwnStep
<1>2. ~NextRound
  BY DEF NextRound, TInv, Sound, Idle
<1>3. ~Die
  BY DEF Die, TInv, Typed
<1>4. ~WebStep /\ ~UNCHANGED vars
  BY DEF WebStep, AddUpload, AddDecision, RestartWeb, vars
<1>5. HandlerStep(c) \/ BusStep(c)
  BY <1>1, <1>2, <1>3, <1>4 DEF Next
<1> QED BY <1>5, OwnStep

LEMMA LadderedInitially == Init => Laddered
  BY ShortLadder DEF Init, Reading, Laddered

(***************************************************************************)
(* No entry is handled without end, for every retry budget and whatever    *)
(* the handlers nested for it raise: each step of a consumer at work       *)
(* finishes its entry, or uses up something of what the handlers in        *)
(* progress may still do, in an order in which nothing can grow for ever.  *)
(***************************************************************************)
THEOREM HandlingRunsOut == Spec => EveryStepCounts
<1>1. TInv /\ Laddered /\ [Next]_vars => \A c \in Consumers : Counts(c)
  BY CountStep
<1>2. Spec => [][\A c \in Consumers : Counts(c)]_vars
  BY <1>1, TInvInitially, TInvInductive, LadderedInitially, LadderedInductive,
     PTL DEF Spec
<1> QED BY <1>2 DEF EveryStepCounts, Counts
=============================================================================
