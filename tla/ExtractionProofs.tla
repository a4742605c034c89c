-------------------------- MODULE ExtractionProofs --------------------------
(***************************************************************************)
(* What one upload costs, for every setting of the retries.                *)
(*                                                                         *)
(* The bound on the requests is not inductive: the invariant says how far  *)
(* the current dispatch has got, two requests for every attempt behind it  *)
(* and one or two for the one under way.                                   *)
(***************************************************************************)
EXTENDS Extraction, TLAPS

\* Requests of the current dispatch that the handler may have made here, and
\* the attempts it may have behind it.
Spent ==
    CASE at = "parse" -> 0
      [] at \in {"ask", "backoff"} -> 2 * attempt
      [] at = "structured" -> 2 * attempt + 1
      [] at = "fallback" -> 2 * attempt + 2
      [] OTHER -> Requests

\* Requests the dispatches before the current one may have made.
Before == Requests * dispatch

IInv ==
    /\ TypeOK
    /\ at \in {"ask", "structured", "fallback", "backoff"} => attempt <= LLMRetries
    /\ calls <= Before + Spent
    /\ at = "sleep" => dispatch < EventRetries
    /\ faults = 0 => /\ dispatch = 0
                     /\ at # "sleep"
                     /\ at \in {"parse", "ask", "structured", "fallback", "backoff"}
                           => calls = Spent
                     /\ at = "except" /\ file # "missing" => calls = Requests
    /\ at \in {"ask", "structured", "fallback", "backoff", "answered"} =>
          file # "missing"
    /\ schemas = 0
    /\ sent <= 1

LEMMA Naturals ==
    /\ LLMRetries \in Nat /\ EventRetries \in Nat /\ MaxFaults \in Nat
    /\ Requests \in Nat /\ Requests = 2 * LLMRetries + 2
  BY ExtractionAssumption DEF Requests

\* One dispatch more allows that many requests more.
LEMMA NextDispatch ==
    ASSUME NEW d \in Nat PROVE /\ Requests * (d + 1) = Requests * d + Requests
                               /\ Requests * d \in Nat
<1>1. Requests \in Nat
  BY Naturals
<1> HIDE DEF Requests
<1> QED
  BY <1>1

LEMMA ExtractionInit == Init => IInv
<1>1. ASSUME Init PROVE Before = 0
  BY <1>1, Naturals DEF Init, Before
<1> QED
  BY Naturals, <1>1 DEF Init, IInv, TypeOK, Files, Places, Spent

LEMMA ExtractionStep == ASSUME IInv, [Next]_vars PROVE IInv'
<1>1. Before \in Nat
  BY NextDispatch DEF IInv, TypeOK, Before
<1>2. ASSUME dispatch' = dispatch PROVE Before' = Before
  BY <1>2 DEF Before, Requests
<1>3. ASSUME dispatch' = dispatch + 1 PROVE Before' = Before + Requests
  BY <1>3, NextDispatch DEF Before, Requests, IInv, TypeOK
<1> HIDE DEF Requests, Before
<1> USE Naturals DEF IInv, TypeOK, Places, Files, Spent, Goto
<1>4. CASE Parse
  BY <1>1, <1>2, <1>4 DEF Parse, prompt
<1>5. CASE Ask
  BY <1>1, <1>2, <1>5 DEF Ask, prompt
<1>6. CASE StructuredAnswers
  BY <1>1, <1>2, <1>6 DEF StructuredAnswers, prompt
<1>7. CASE AskAgain
  BY <1>1, <1>2, <1>7 DEF AskAgain, prompt
<1>8. CASE FallbackAnswers
  BY <1>1, <1>2, <1>8 DEF FallbackAnswers, prompt
<1>9. CASE FallbackFails
  BY <1>1, <1>2, <1>9 DEF FallbackFails, prompt
<1>10. CASE BackOff
  BY <1>1, <1>2, <1>10 DEF BackOff, prompt
<1>11. CASE SaveParsed
  BY <1>1, <1>2, <1>11 DEF SaveParsed, prompt
<1>12. CASE SaveFailed
  BY <1>1, <1>2, <1>12 DEF SaveFailed, prompt
<1>13. CASE Wake
  BY <1>1, <1>3, <1>13 DEF Wake, prompt
<1>14. CASE UNCHANGED vars
  BY <1>1, <1>2, <1>14 DEF vars, prompt
<1> QED
  BY <1>4, <1>5, <1>6, <1>7, <1>8, <1>9, <1>10, <1>11, <1>12, <1>13, <1>14 DEF Next

LEMMA ExtractionInvariant == Spec => []IInv
  BY ExtractionInit, ExtractionStep, PTL DEF Spec

(***************************************************************************)
(* One event costs at most two requests for every attempt of every         *)
(* dispatch, whatever the retry settings.                                  *)
(***************************************************************************)
THEOREM CostIsBounded == Spec => []CallsAreBounded
<1>1. ASSUME IInv PROVE CallsAreBounded
  <2>1. Requests * (dispatch + 1) = Before + Requests /\ Before \in Nat
    BY <1>1, NextDispatch DEF IInv, TypeOK, Before
  <2> HIDE DEF Requests, Before
  <2>2. Spent <= Requests /\ Spent \in Nat
    BY <1>1, Naturals DEF IInv, TypeOK, Spent, Places
  <2> QED
    BY <1>1, <2>1, <2>2, Naturals DEF IInv, TypeOK, CallsAreBounded
<1> QED
  BY <1>1, ExtractionInvariant, PTL

(***************************************************************************)
(* The agent does not give up before every attempt is spent.               *)
(***************************************************************************)
THEOREM RetriesAreSpent == Spec => []GivesUpOnlyWhenSpent
<1>1. IInv => GivesUpOnlyWhenSpent
  BY DEF IInv, GivesUpOnlyWhenSpent
<1> QED
  BY <1>1, ExtractionInvariant, PTL

(***************************************************************************)
(* No prompt carries two schemas.                                          *)
(***************************************************************************)
THEOREM SchemaNeverRepeats == Spec => []SchemaIsSentOnce
<1>1. IInv => SchemaIsSentOnce
  BY DEF IInv, SchemaIsSentOnce
<1> QED
  BY <1>1, ExtractionInvariant, PTL

(***************************************************************************)
(* Neither retry loop runs past its budget, whatever the settings.         *)
(***************************************************************************)
THEOREM ExtractionTypeCorrect == Spec => []TypeOK
<1>1. IInv => TypeOK
  BY DEF IInv
<1> QED
  BY <1>1, ExtractionInvariant, PTL

-----------------------------------------------------------------------------
(* The steps run out.                                                      *)

\* Steps of the dispatches still to come.
Later == (EventRetries - dispatch) * DispatchSteps

LEMMA OneDispatch ==
    ASSUME NEW n \in Nat
    PROVE  /\ n * DispatchSteps \in Nat
           /\ (n + 1) * DispatchSteps = n * DispatchSteps + DispatchSteps
<1>1. DispatchSteps \in Nat
  BY Naturals DEF DispatchSteps
<1> HIDE DEF DispatchSteps
<1> QED BY <1>1

LEMMA StepUsesOne == ASSUME IInv, Next PROVE StepsLeft' \in 0 .. StepsLeft - 1
<1>1. Later \in Nat
  <2>1. EventRetries - dispatch \in Nat
    BY Naturals DEF IInv, TypeOK
  <2> QED BY <2>1, OneDispatch DEF Later
<1>2. ASSUME dispatch' = dispatch PROVE Later' = Later
  BY <1>2 DEF Later, DispatchSteps
<1>3. ASSUME dispatch' = dispatch + 1, dispatch < EventRetries
      PROVE  Later' \in Nat /\ Later = Later' + DispatchSteps
  <2>1. PICK n \in Nat : n = EventRetries - (dispatch + 1) /\ n + 1 = EventRetries - dispatch
    BY <1>3, Naturals DEF IInv, TypeOK
  <2>2. DispatchSteps' = DispatchSteps
    BY DEF DispatchSteps
  <2> QED BY <1>3, <2>1, <2>2, OneDispatch DEF Later
<1>4. StepsLeft = Later + DispatchLeft /\ StepsLeft' = Later' + DispatchLeft'
  BY DEF StepsLeft, Later
<1>0. DispatchLeft \in Nat
  BY Naturals DEF IInv, TypeOK, DispatchLeft
<1> HIDE DEF Later
<1>5. SUFFICES \/ dispatch' = dispatch /\ DispatchLeft' \in 0 .. DispatchLeft - 1
               \/ /\ dispatch' = dispatch + 1 /\ dispatch < EventRetries
                  /\ DispatchLeft' \in 0 .. DispatchSteps - 1 /\ DispatchLeft = 0
  BY <1>0, <1>1, <1>2, <1>3, <1>4, Naturals DEF DispatchSteps
<1> USE Naturals DEF IInv, TypeOK, Places, Files, DispatchLeft, Goto
<1>6. CASE Parse
  BY <1>6 DEF Parse
<1>7. CASE Ask \/ StructuredAnswers \/ AskAgain \/ FallbackAnswers
  BY <1>7 DEF Ask, StructuredAnswers, AskAgain, FallbackAnswers
<1>8. CASE FallbackFails
  BY <1>8 DEF FallbackFails
<1>9. CASE BackOff \/ SaveParsed \/ SaveFailed
  BY <1>9 DEF BackOff, SaveParsed, SaveFailed
<1>10. CASE Wake
  BY <1>10 DEF Wake, DispatchSteps
<1> QED BY <1>6, <1>7, <1>8, <1>9, <1>10 DEF Next

(***************************************************************************)
(* Every step uses up one of finitely many, whatever the settings: with    *)
(* the fairness of the event loop, the handler ends.                       *)
(***************************************************************************)
THEOREM StepsRunOut == Spec => EveryStepCounts
<1>1. IInv /\ [Next]_vars => [StepsLeft' \in 0 .. StepsLeft - 1]_vars
  BY StepUsesOne
<1> QED
  BY <1>1, ExtractionInvariant, PTL DEF Spec, EveryStepCounts
=============================================================================
