-------------------------- MODULE UploadGateProofs --------------------------
(***************************************************************************)
(* The safety of the upload, for every set of requests, documents and      *)
(* headers and any number of failures.                                     *)
(*                                                                         *)
(* The properties speak of files and rows, and of the settings a process   *)
(* runs with; what connects them is where a request is: whoever has passed *)
(* a check has passed it for good, since settings, headers and documents   *)
(* do not change, and a file exists only of a request that has passed all. *)
(***************************************************************************)
EXTENDS UploadGate, TLAPS

\* The document passed every check and was not found to be malware.
Passed(r) ==
    /\ FirstObjection(doc[r]) = "none"
    /\ TRUE \in CleanVerdicts(doc[r])

\* What a request has behind it, by its place.
Progress(r) ==
    /\ request[r] \notin {"new", "over"} => Authenticated(r)
    /\ request[r] = "scan" => FirstObjection(doc[r]) = "none"
    /\ request[r] \in {"save", "commit", "publish"} => Passed(r)
    /\ files[r] # "none" => Authenticated(r) /\ Passed(r)

\* What a request has left in the stores, by its place and its answer.
Traces(r) ==
    /\ request[r] \in {"new", "validate", "scan", "save"} =>
          files[r] = "none" /\ r \notin rows
    /\ request[r] = "commit" => files[r] = "whole" /\ r \notin rows
    /\ request[r] = "publish" => files[r] = "whole" /\ r \in rows
    /\ request[r] # "over" => answer[r] = "none"
    /\ r \in rows => files[r] = "whole"
    /\ answer[r] \in {"401", "503", "400", "413", "422"} =>
          files[r] = "none" /\ r \notin rows
    /\ answer[r] = "202" => files[r] = "whole" /\ r \in rows

IInv ==
    /\ TypeOK
    /\ ValidateProductionSecurity(settings)
    /\ \A r \in Requests : Progress(r) /\ Traces(r)

-----------------------------------------------------------------------------
\* Every place a request can be in satisfies the invariant at the start.
LEMMA GateInit == Init => IInv
<1> SUFFICES ASSUME Init PROVE IInv
  OBVIOUS
<1>1. TypeOK
  BY GateAssumption DEF Init, TypeOK, Places, Codes
<1>2. ValidateProductionSecurity(settings)
  BY DEF Init
<1>3. \A r \in Requests : Progress(r) /\ Traces(r)
  BY DEF Init, Progress, Traces
<1> QED
  BY <1>1, <1>2, <1>3 DEF IInv

\* The types survive a step: the values assigned are of the types declared.
LEMMA GateTypes == ASSUME TypeOK, [Next]_vars PROVE TypeOK'
<1>1. CASE Die
  <2>1. files' \in [Requests -> {"none", "torn", "whole"}]
    BY <1>1 DEF Die, TypeOK
  <2>2. request' \in [Requests -> Places]
    BY <1>1 DEF Die, TypeOK, Places
  <2> QED
    BY <1>1, <2>1, <2>2, GateAssumption DEF Die, TypeOK, Fault, input
<1>2. ASSUME NEW r \in Requests, RequestStep(r) PROVE TypeOK'
  <2>1. CASE Authenticate(r)
    BY <2>1 DEF Authenticate, TypeOK, Goto, Respond, Places, Codes, input, stores
  <2>2. CASE Validate(r)
    BY <2>2 DEF Validate, FirstObjection, TypeOK, Goto, Respond, Places, Codes,
                input, stores
  <2>3. CASE Scan(r)
    BY <2>3 DEF Scan, TypeOK, Goto, Respond, Places, Codes, input, stores
  <2>4. CASE SaveFile(r)
    BY <2>4, GateAssumption
       DEF SaveFile, TypeOK, Goto, Respond, Fault, Places, Codes, input
  <2>5. CASE CommitRows(r)
    BY <2>5, GateAssumption
       DEF CommitRows, TypeOK, Goto, Respond, Fault, Places, Codes, input
  <2>6. CASE PublishAndAnswer(r)
    BY <2>6, GateAssumption
       DEF PublishAndAnswer, TypeOK, Goto, Respond, Fault, Places, Codes, input,
           stores
  <2> QED
    BY <1>2, <2>1, <2>2, <2>3, <2>4, <2>5, <2>6 DEF RequestStep
<1>3. CASE UNCHANGED vars
  BY <1>3 DEF vars, input, stores, TypeOK
<1> QED
  BY <1>1, <1>2, <1>3 DEF Next

\* The checks depend on nothing that changes.
LEMMA ChecksAreStable ==
    ASSUME UNCHANGED input, NEW r \in Requests
    PROVE  /\ Authenticated(r)' <=> Authenticated(r)
           /\ (FirstObjection(doc[r]))' = FirstObjection(doc[r])
           /\ Passed(r)' <=> Passed(r)
  BY DEF input, Authenticated, FirstObjection, Passed, CleanVerdicts

LEMMA GateStep == ASSUME IInv, [Next]_vars PROVE IInv'
<1> USE DEF IInv
<1>1. TypeOK'
  BY GateTypes
<1>2. UNCHANGED input
  BY DEF Next, Die, RequestStep, Authenticate, Validate, Scan, SaveFile,
         CommitRows, PublishAndAnswer, vars
<1>3. ValidateProductionSecurity(settings)'
  BY <1>2 DEF input, ValidateProductionSecurity
<1>4. ASSUME NEW q \in Requests PROVE Progress(q)' /\ Traces(q)'
  <2> DEFINE Same(r) == /\ request'[r] = request[r]
                        /\ answer'[r] = answer[r]
                        /\ files'[r] = files[r]
                        /\ (r \in rows') <=> (r \in rows)
  <2>1. Progress(q) /\ Traces(q)
    BY <1>4
  <2>2. CASE Same(q)
    BY <1>2, <2>1, <2>2, ChecksAreStable DEF Progress, Traces
  <2>3. CASE Die
    <3>1. request[q] # "new" => request'[q] = "over"
      BY <2>3 DEF Die, TypeOK
    <3>2. files'[q] = files[q] \/ (request[q] = "save" /\ files'[q] = "torn")
      BY <2>3 DEF Die, TypeOK
    <3>3. answer' = answer /\ rows' = rows
      BY <2>3 DEF Die
    <3>4. request[q] = "new" => request'[q] = "new"
      BY <2>3 DEF Die, TypeOK
    <3>5. Progress(q)'
      BY <1>2, <2>1, <3>1, <3>2, <3>4, ChecksAreStable DEF Progress
    <3>6. Traces(q)'
      <4>1. CASE request[q] = "new"
        BY <2>1, <3>2, <3>3, <3>4, <4>1 DEF Traces
      <4>2. CASE request[q] # "new"
        BY <2>1, <3>1, <3>2, <3>3, <4>2 DEF Traces
      <4> QED
        BY <4>1, <4>2
    <3> QED
      BY <3>5, <3>6
  <2>4. ASSUME NEW r \in Requests, RequestStep(r), r # q PROVE Same(q)
    BY <2>4 DEF RequestStep, Authenticate, Validate, Scan, SaveFile, CommitRows,
                PublishAndAnswer, Goto, Respond, stores, TypeOK
  <2>5. CASE Authenticate(q)
    BY <1>2, <2>1, <2>5, ChecksAreStable
       DEF Authenticate, Progress, Traces, Goto, Respond, stores, TypeOK
  <2>6. CASE Validate(q)
    BY <1>2, <2>1, <2>6, ChecksAreStable
       DEF Validate, FirstObjection, Progress, Traces, Goto, Respond, stores,
           TypeOK
  <2>7. CASE Scan(q)
    BY <1>2, <2>1, <2>7, ChecksAreStable
       DEF Scan, Passed, Progress, Traces, Goto, Respond, stores, TypeOK
  <2>8. CASE SaveFile(q)
    BY <1>2, <2>1, <2>8, ChecksAreStable
       DEF SaveFile, Progress, Traces, Goto, Respond, TypeOK
  <2>9. CASE CommitRows(q)
    BY <1>2, <2>1, <2>9, ChecksAreStable
       DEF CommitRows, Progress, Traces, Goto, Respond, TypeOK
  <2>10. CASE PublishAndAnswer(q)
    BY <1>2, <2>1, <2>10, ChecksAreStable
       DEF PublishAndAnswer, Progress, Traces, Goto, Respond, stores, TypeOK
  <2>11. CASE UNCHANGED vars
    BY <2>2, <2>11 DEF vars, stores
  <2>12. ASSUME NEW r \in Requests, RequestStep(r)
         PROVE  Progress(q)' /\ Traces(q)'
    <3>1. CASE r = q
      BY <2>12, <3>1, <2>5, <2>6, <2>7, <2>8, <2>9, <2>10 DEF RequestStep
    <3>2. CASE r # q
      BY <2>12, <3>2, <2>2, <2>4
    <3> QED
      BY <3>1, <3>2
  <2> QED
    BY <2>3, <2>11, <2>12 DEF Next
<1> QED
  BY <1>1, <1>3, <1>4

-----------------------------------------------------------------------------
LEMMA GateInvariant == Spec => []IInv
  BY GateInit, GateStep, PTL DEF Spec

(***************************************************************************)
(* Every reachable state of the upload endpoint is well-typed.             *)
(***************************************************************************)
THEOREM GateTypeCorrect == Spec => []TypeOK
<1>1. IInv => TypeOK
  BY DEF IInv
<1> QED
  BY <1>1, GateInvariant, PTL

(***************************************************************************)
(* In production no file is ever stored unauthenticated or unscanned: for  *)
(* any requests, in any order, with any failures.                          *)
(***************************************************************************)
THEOREM NothingUnscannedInProduction == Spec => []ProductionIsScanned
<1>1. ASSUME IInv PROVE ProductionIsScanned
  <2> SUFFICES ASSUME settings.ENV = "production", NEW r \in Requests,
                      files[r] # "none"
               PROVE  /\ header[r] = "good"
                      /\ settings.VIRUS_SCANNER_TYPE = "clamd"
                      /\ ~doc[r].malware
    BY DEF ProductionIsScanned
  <2>1. settings.REQUIRE_AUTHENTICATION /\ ~settings.ALLOW_MOCK_VIRUS_SCANNER
    BY <1>1 DEF IInv, ValidateProductionSecurity
  <2>2. Authenticated(r) /\ Passed(r)
    BY <1>1 DEF IInv, Progress
  <2>3. header[r] = "good"
    BY <2>1, <2>2 DEF Authenticated
  <2>4. settings.VIRUS_SCANNER_TYPE # "mock"
    BY <2>1, <2>2 DEF Passed, FirstObjection
  <2>5. settings.VIRUS_SCANNER_TYPE = "clamd"
    BY <1>1, <2>4 DEF IInv, TypeOK, SettingsType
  <2>6. ~doc[r].malware
    BY <2>2, <2>4 DEF Passed, CleanVerdicts
  <2> QED
    BY <2>3, <2>5, <2>6
<1> QED
  BY <1>1, GateInvariant, PTL

(***************************************************************************)
(* A committed invoice has its whole file, whatever fails and whenever the *)
(* process dies.                                                           *)
(***************************************************************************)
THEOREM CommittedHasItsFile == Spec => []RowHasItsFile
<1>1. IInv => RowHasItsFile
  BY DEF IInv, TypeOK, Traces, RowHasItsFile
<1> QED
  BY <1>1, GateInvariant, PTL

(***************************************************************************)
(* What an upload is answered is true of the stores.                       *)
(***************************************************************************)
THEOREM UploadAnswersAreTrue == Spec => []AnswersAreTrue
<1>1. IInv => AnswersAreTrue
  BY DEF IInv, Traces, AnswersAreTrue
<1> QED
  BY <1>1, GateInvariant, PTL
=============================================================================
