----------------------------- MODULE Extraction -----------------------------
(***************************************************************************)
(* How handle_invoice_uploaded gets from an uploaded file to extracted     *)
(* data: the parser (src/src/infrastructure/pdf_parser.py), the retries of *)
(* the agent (src/src/agents/base.py), the two ways of asking the model    *)
(* (src/src/infrastructure/llm_client.py) and the retries of the event bus *)
(* around it all.  WorkflowEngine and RedisWorker have one step for this,  *)
(* and say what the handler leaves; here the subject is what it asks of    *)
(* the provider on the way.                                                *)
(*                                                                         *)
(* The provider is external: it may fail, time out, or answer anything.    *)
(* (litellm's own num_retries repeats each request inside one call.)       *)
(***************************************************************************)
EXTENDS Integers

CONSTANTS
    LLMRetries,      \* RetryPolicy.max_retries
    EventRetries,    \* settings.EVENT_MAX_RETRIES
    MaxFaults        \* bound on failing writes of the checkpoint store

ASSUME ExtractionAssumption == {LLMRetries, EventRetries, MaxFaults} \subseteq Nat

VARIABLES
    file,        \* what is at file_path
    at,          \* where the handler is
    dispatch,    \* attempt of the event bus, from 0
    attempt,     \* attempt of the agent, from 0
    schemas,     \* JSON schemas appended to the prompt the agent holds
    sent,        \* JSON schemas in the prompt of the request under way
    calls,       \* requests to the provider for this event
    status,      \* the stored status of the invoice
    faults

prompt == <<schemas, sent>>
vars == <<file, at, dispatch, attempt, prompt, calls, status, faults>>

Files == {"missing", "unreadable", "readable"}
Places == {"parse", "ask", "structured", "fallback", "backoff", "answered",
           "except", "sleep", "done", "dead"}

Init ==
    /\ file \in Files
    /\ at = "parse"
    /\ dispatch = 0 /\ attempt = 0
    /\ schemas = 0 /\ sent = 0
    /\ calls = 0
    /\ status = "NONE"
    /\ faults = 0

Goto(place) == at' = place

-----------------------------------------------------------------------------
(* parse_pdf.                                                              *)

\* Only a missing file is an error: the text of a file that cannot be read is the
\* error message, and the model is asked about that.
Parse ==
    /\ at = "parse"
    /\ Goto(IF file = "missing" THEN "except" ELSE "ask")
    /\ attempt' = 0
    /\ schemas' = 0
    /\ UNCHANGED <<file, dispatch, sent, calls, status, faults>>

-----------------------------------------------------------------------------
(* generate_structured.                                                    *)

Ask ==
    /\ at = "ask"
    /\ Goto("structured")
    /\ calls' = calls + 1
    /\ sent' = schemas
    /\ UNCHANGED <<file, dispatch, attempt, schemas, status, faults>>

\* A valid answer, as text or decoded.
StructuredAnswers ==
    /\ at = "structured"
    /\ Goto("answered")
    /\ UNCHANGED <<file, dispatch, attempt, prompt, calls, status, faults>>

\* Faulty variant: the schema is appended to the agent's own messages.
AskAgainInPlace ==
    /\ at = "structured"
    /\ Goto("fallback")
    /\ calls' = calls + 1
    /\ schemas' = schemas + 1
    /\ sent' = schemas + 1
    /\ UNCHANGED <<file, dispatch, attempt, status, faults>>

\* Any failure, of the provider or of the validation: ask for plain JSON, with
\* the schema appended to a copy of the messages.
AskAgain ==
    /\ at = "structured"
    /\ Goto("fallback")
    /\ calls' = calls + 1
    /\ sent' = schemas + 1
    /\ UNCHANGED <<file, dispatch, attempt, schemas, status, faults>>

\* Here only a text will do.
FallbackAnswers ==
    /\ at = "fallback"
    /\ Goto("answered")
    /\ UNCHANGED <<file, dispatch, attempt, prompt, calls, status, faults>>

-----------------------------------------------------------------------------
(* invoke_llm_with_retry.                                                  *)

\* Faulty variant: one attempt less.
FallbackFailsEarly ==
    /\ at = "fallback"
    /\ Goto(IF attempt + 1 >= LLMRetries THEN "except" ELSE "backoff")
    /\ attempt' = attempt + 1
    /\ UNCHANGED <<file, dispatch, prompt, calls, status, faults>>

\* Faulty variant: one attempt more.
FallbackFailsLate ==
    /\ at = "fallback"
    /\ Goto(IF attempt > LLMRetries THEN "except" ELSE "backoff")
    /\ attempt' = attempt + 1
    /\ UNCHANGED <<file, dispatch, prompt, calls, status, faults>>

\* Faulty variant: the attempt is not counted.
FallbackFailsUncounted ==
    /\ at = "fallback"
    /\ Goto(IF attempt + 1 > LLMRetries THEN "except" ELSE "backoff")
    /\ UNCHANGED <<file, dispatch, attempt, prompt, calls, status, faults>>

\* generate_structured raises: the attempt is counted, and after the last the
\* agent gives up with an error.
FallbackFails ==
    /\ at = "fallback"
    /\ Goto(IF attempt + 1 > LLMRetries THEN "except" ELSE "backoff")
    /\ attempt' = attempt + 1
    /\ UNCHANGED <<file, dispatch, prompt, calls, status, faults>>

BackOff ==
    /\ at = "backoff"
    /\ Goto("ask")
    /\ UNCHANGED <<file, dispatch, attempt, prompt, calls, status, faults>>

-----------------------------------------------------------------------------
(* handle_invoice_uploaded and the dispatch around it.                     *)

\* The next handler takes over once PARSED is saved.
SaveParsed ==
    /\ at = "answered"
    /\ \/ Goto("done") /\ status' = "PARSED" /\ UNCHANGED faults
       \/ /\ Goto("except")
          /\ faults < MaxFaults
          /\ faults' = faults + 1
          /\ UNCHANGED status
    /\ UNCHANGED <<file, dispatch, attempt, prompt, calls>>

\* Faulty variant: a second failure is swallowed.
SaveFailedSwallowed ==
    /\ at = "except"
    /\ \/ Goto("done") /\ status' = "FAILED" /\ UNCHANGED faults
       \/ /\ Goto("done")
          /\ faults < MaxFaults
          /\ faults' = faults + 1
          /\ UNCHANGED status
    /\ UNCHANGED <<file, dispatch, attempt, prompt, calls>>

\* except Exception: FAILED is saved, and if that fails too the bus dispatches
\* the event again, parser and model included.
SaveFailed ==
    /\ at = "except"
    /\ \/ Goto("done") /\ status' = "FAILED" /\ UNCHANGED faults
       \/ /\ Goto(IF dispatch < EventRetries THEN "sleep" ELSE "dead")
          /\ faults < MaxFaults
          /\ faults' = faults + 1
          /\ UNCHANGED status
    /\ UNCHANGED <<file, dispatch, attempt, prompt, calls>>

\* The retry delay is over.
Wake ==
    /\ at = "sleep"
    /\ Goto("parse")
    /\ dispatch' = dispatch + 1
    /\ UNCHANGED <<file, attempt, prompt, calls, status, faults>>

Next ==
    \/ Parse
    \/ Ask \/ StructuredAnswers \/ AskAgain \/ FallbackAnswers
    \/ FallbackFails \/ BackOff
    \/ SaveParsed \/ SaveFailed \/ Wake

Spec == Init /\ [][Next]_vars

\* Every request to the provider ends (settings.LLM_TIMEOUT), and so does every
\* sleep.
FairSpec == Spec /\ WF_vars(Next)

-----------------------------------------------------------------------------
Requests == 2 * (LLMRetries + 1)

TypeOK ==
    /\ file \in Files
    /\ at \in Places
    /\ dispatch \in 0 .. EventRetries
    /\ attempt \in 0 .. LLMRetries + 1
    /\ schemas \in Nat /\ sent \in Nat /\ calls \in Nat
    /\ status \in {"NONE", "PARSED", "FAILED"}
    /\ faults \in 0 .. MaxFaults

(***************************************************************************)
(* The retries of the bus, of the agent and of the client multiply, and    *)
(* still one event costs a bounded number of requests: two for every       *)
(* attempt of the agent, that for every dispatch.                          *)
(***************************************************************************)
CallsAreBounded == calls <= Requests * (dispatch + 1)

(***************************************************************************)
(* An invoice whose file is there is not given up before the model has     *)
(* been asked in both ways in every attempt the policy allows, unless the  *)
(* checkpoint store failed.                                                *)
(***************************************************************************)
GivesUpOnlyWhenSpent ==
    at = "except" /\ file # "missing" /\ faults = 0 => calls = Requests

(***************************************************************************)
(* However often the model is asked again, a prompt carries the schema at  *)
(* most once: the fallback does not change what the next attempt sends.    *)
(***************************************************************************)
SchemaIsSentOnce == sent <= 1

\* Steps one dispatch may take: four for every attempt of the agent, and those
\* before and after them.
DispatchSteps == 4 * LLMRetries + 9

DispatchLeft ==
    CASE at = "parse" -> 4 * (LLMRetries + 1) + 4
      [] at = "backoff" -> 4 * (LLMRetries + 1 - attempt) + 4
      [] at = "ask" -> 4 * (LLMRetries + 1 - attempt) + 3
      [] at = "structured" -> 4 * (LLMRetries + 1 - attempt) + 2
      [] at = "fallback" -> 4 * (LLMRetries + 1 - attempt) + 1
      [] at = "answered" -> 2
      [] at = "except" -> 1
      [] OTHER -> 0

StepsLeft == (EventRetries - dispatch) * DispatchSteps + DispatchLeft

(***************************************************************************)
(* Three loops are nested here, of the bus, of the agent and of the two    *)
(* ways of asking, and none can run without end: every step uses up one of *)
(* a number that the retry settings fix.                                   *)
(***************************************************************************)
EveryStepCounts == [][StepsLeft' \in 0 .. StepsLeft - 1]_vars

(***************************************************************************)
(* Every upload that is handled ends PARSED, FAILED or dead-lettered,      *)
(* however the provider and the store behave.                              *)
(***************************************************************************)
ExtractionEnds ==
    <>(\/ at = "done" /\ status \in {"PARSED", "FAILED"}
       \/ at = "dead")
=============================================================================
