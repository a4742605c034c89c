----------------------------- MODULE UploadGate -----------------------------
(***************************************************************************)
(* What stands between a client and the workflow: the settings a process   *)
(* starts with, authentication, the four checks of validate_upload_file,   *)
(* the file in the upload directory and the row in the database            *)
(* (src/src/api/v1/endpoints/invoices.py, src/src/auth, src/src/api/deps.py *)
(* and src/src/config/settings.py).  Outbox takes over from the commit.    *)
(*                                                                         *)
(* A request is a state machine of its own; requests share the settings,   *)
(* the process, and the two stores, which outlive the process.  The        *)
(* verdict of clamd is the one ScanPromise promises, and ClamdScan is      *)
(* shown to keep that promise.                                             *)
(***************************************************************************)
EXTENDS Integers, FiniteSets

CONSTANTS
    Requests,     \* upload requests
    Documents,    \* what may be uploaded
    Headers,      \* what the Authorization header may be
    MaxFaults     \* bound on failing writes and deaths of the process

\* A document, by what the checks can tell: its name, its size against
\* MAX_UPLOAD_SIZE_MB, its first bytes, whether the mock scanner knows it,
\* and what clamd would find in all of it.
DocumentType ==
    [pdf_name: BOOLEAN, size: {"empty", "fits", "large"}, pdf_magic: BOOLEAN,
     eicar: BOOLEAN, malware: BOOLEAN]

HeaderType == {"absent", "other scheme", "bad token", "no subject", "good"}

ASSUME GateAssumption ==
    /\ Documents \subseteq DocumentType
    /\ Headers \subseteq HeaderType
    /\ MaxFaults \in Nat

VARIABLES
    settings,    \* the settings of the process
    request,     \* where each request is
    doc,         \* the document of a request
    header,      \* its Authorization header
    answer,      \* the status code it was answered with
    files,       \* the upload directory: files of requests, whole or torn
    rows,        \* requests whose invoice and outbox row are committed
    faults

stores == <<files, rows>>
input == <<settings, doc, header>>
vars == <<input, request, answer, stores, faults>>

Places == {"new", "validate", "scan", "save", "commit", "publish", "over"}
Codes == {"none", "401", "503", "400", "413", "422", "500", "202"}

-----------------------------------------------------------------------------
(* Settings.                                                               *)

\* ENV has four values; the code only asks whether it is "production", and
\* "development" stands for the three others.
SettingsType ==
    [ENV: {"production", "development"}, REQUIRE_AUTHENTICATION: BOOLEAN,
     strong_secret: BOOLEAN, any_origin: BOOLEAN,
     ALLOW_MOCK_VIRUS_SCANNER: BOOLEAN, AUTO_CREATE_TABLES: BOOLEAN,
     VIRUS_SCANNER_TYPE: {"mock", "clamd"}]

\* Faulty variant: the scanner is not looked at.
ValidateLeniently(s) ==
    s.ENV = "production" =>
        /\ s.strong_secret
        /\ s.REQUIRE_AUTHENTICATION
        /\ ~s.any_origin
        /\ ~s.AUTO_CREATE_TABLES

\* validate_production_security: settings it refuses start no process.
ValidateProductionSecurity(s) ==
    s.ENV = "production" =>
        /\ s.strong_secret
        /\ s.REQUIRE_AUTHENTICATION
        /\ ~s.any_origin
        /\ ~s.ALLOW_MOCK_VIRUS_SCANNER
        /\ ~s.AUTO_CREATE_TABLES

Init ==
    /\ settings \in {s \in SettingsType : ValidateProductionSecurity(s)}
    /\ doc \in [Requests -> Documents]
    /\ header \in [Requests -> Headers]
    /\ request = [r \in Requests |-> "new"]
    /\ answer = [r \in Requests |-> "none"]
    /\ files = [r \in Requests |-> "none"]
    /\ rows = {}
    /\ faults = 0

-----------------------------------------------------------------------------
Goto(r, place) == request' = [request EXCEPT ![r] = place]

\* The request is over, with an HTTP status code.
Respond(r, code) ==
    /\ Goto(r, "over")
    /\ answer' = [answer EXCEPT ![r] = code]

Fault == faults < MaxFaults /\ faults' = faults + 1

-----------------------------------------------------------------------------
(* get_current_user and decode_access_token.                               *)

\* Without a header the settings decide; with one only a valid bearer token
\* that names a subject will do, whatever the settings say.
Authenticated(r) ==
    IF header[r] = "absent" THEN ~settings.REQUIRE_AUTHENTICATION
                            ELSE header[r] = "good"

Authenticate(r) ==
    /\ request[r] = "new"
    /\ IF Authenticated(r)
       THEN Goto(r, "validate") /\ UNCHANGED answer
       ELSE Respond(r, "401")
    /\ UNCHANGED <<input, stores, faults>>

-----------------------------------------------------------------------------
(* validate_upload_file.                                                   *)

\* Faulty variant: a name that is no PDF's is answered with a code of its own.
FirstObjectionByType(d) ==
    IF ~d.pdf_name THEN "415" ELSE "none"

\* The first check that fails, in the order of the code; a mock scanner that is
\* not allowed counts against every document.
FirstObjection(d) ==
    IF settings.VIRUS_SCANNER_TYPE = "mock" /\ ~settings.ALLOW_MOCK_VIRUS_SCANNER
    THEN "503"
    ELSE IF ~d.pdf_name THEN "400"
    ELSE IF d.size = "large" THEN "413"
    ELSE IF d.size = "empty" THEN "400"
    ELSE IF ~d.pdf_magic THEN "400"
    ELSE "none"

\* Faulty variant: the file is saved first and scanned where it lies.
ValidateAndSpool(r) ==
    /\ request[r] = "validate"
    /\ files' = [files EXCEPT ![r] = "whole"]
    /\ LET objection == FirstObjection(doc[r])
       IN  IF objection = "none" THEN Goto(r, "scan") /\ UNCHANGED answer
                                 ELSE Respond(r, objection)
    /\ UNCHANGED <<input, rows, faults>>

Validate(r) ==
    /\ request[r] = "validate"
    /\ LET objection == FirstObjection(doc[r])
       IN  IF objection = "none" THEN Goto(r, "scan") /\ UNCHANGED answer
                                 ELSE Respond(r, objection)
    /\ UNCHANGED <<input, stores, faults>>

\* Whether the configured scanner may call a document clean.  clamd may reject
\* any document, since a scan that fails rejects.
CleanVerdicts(d) ==
    IF settings.VIRUS_SCANNER_TYPE = "mock" THEN {~d.eicar}
    ELSE {FALSE} \cup {~d.malware}

Scan(r) ==
    /\ request[r] = "scan"
    /\ \E clean \in CleanVerdicts(doc[r]) :
          IF clean THEN Goto(r, "save") /\ UNCHANGED answer
                   ELSE Respond(r, "422")
    /\ UNCHANGED <<input, stores, faults>>

-----------------------------------------------------------------------------
(* upload_invoice.                                                         *)

\* Faulty variant: the row is committed first.
CommitBeforeSaving(r) ==
    /\ request[r] = "save"
    /\ rows' = rows \cup {r}
    /\ Goto(r, "commit")
    /\ UNCHANGED <<input, answer, files, faults>>

\* The file gets a name of its own, from a fresh invoice id.  A write that fails
\* leaves what it has written.
SaveFile(r) ==
    /\ request[r] = "save"
    /\ \/ /\ files' = [files EXCEPT ![r] = "whole"]
          /\ Goto(r, "commit")
          /\ UNCHANGED <<answer, faults>>
       \/ /\ Fault
          /\ files' = [files EXCEPT ![r] = "torn"]
          /\ Respond(r, "500")
    /\ UNCHANGED <<input, rows>>

\* The invoice and the outbox row, in one transaction.
CommitRows(r) ==
    /\ request[r] = "commit"
    /\ \/ /\ rows' = rows \cup {r}
          /\ Goto(r, "publish")
          /\ UNCHANGED <<answer, faults>>
       \/ /\ Fault
          /\ Respond(r, "500")
          /\ UNCHANGED rows
    /\ UNCHANGED <<input, files>>

\* The publication and the mark; they may fail, and the request with them.
PublishAndAnswer(r) ==
    /\ request[r] = "publish"
    /\ \/ Respond(r, "202") /\ UNCHANGED faults
       \/ Respond(r, "500") /\ Fault
    /\ UNCHANGED <<input, stores>>

\* The process dies, and is started again with the settings it had: requests in
\* flight are never answered; one that was writing its file leaves part of it.
Die ==
    /\ Fault
    /\ \E writing \in SUBSET {r \in Requests : request[r] = "save"} :
          files' = [r \in Requests |-> IF r \in writing THEN "torn" ELSE files[r]]
    /\ request' = [r \in Requests |->
                     IF request[r] = "new" THEN "new" ELSE "over"]
    /\ UNCHANGED <<input, answer, rows>>

RequestStep(r) ==
    \/ Authenticate(r) \/ Validate(r) \/ Scan(r)
    \/ SaveFile(r) \/ CommitRows(r) \/ PublishAndAnswer(r)

Next == Die \/ \E r \in Requests : RequestStep(r)

Spec == Init /\ [][Next]_vars

-----------------------------------------------------------------------------
TypeOK ==
    /\ settings \in SettingsType
    /\ doc \in [Requests -> Documents]
    /\ header \in [Requests -> Headers]
    /\ request \in [Requests -> Places]
    /\ answer \in [Requests -> Codes]
    /\ files \in [Requests -> {"none", "torn", "whole"}]
    /\ rows \subseteq Requests
    /\ faults \in 0 .. MaxFaults

(***************************************************************************)
(* In production a file reaches the upload directory, even in part, only   *)
(* from a client with a valid token and after clamd found it clean.  No    *)
(* single line says so: the settings admit the mock scanner as the type    *)
(* and only refuse to allow it, the dependency refuses a request, and the  *)
(* factory and the validation read the settings once more.                 *)
(***************************************************************************)
ProductionIsScanned ==
    settings.ENV = "production" =>
        \A r \in Requests :
            files[r] # "none" =>
                /\ header[r] = "good"
                /\ settings.VIRUS_SCANNER_TYPE = "clamd"
                /\ ~doc[r].malware

(***************************************************************************)
(* Whatever write fails and wherever the process dies, an invoice whose    *)
(* row is committed - and whose event will be published - has its whole    *)
(* file; a crash may leave a file without a row, never a row without one.  *)
(***************************************************************************)
RowHasItsFile == \A r \in rows : files[r] = "whole"

(***************************************************************************)
(* An upload that was answered with a refusal has left nothing behind, and *)
(* one that was accepted has left its file and its row.  (An upload that   *)
(* was answered with 500, or not at all, may have left either.)            *)
(***************************************************************************)
AnswersAreTrue ==
    \A r \in Requests :
        /\ answer[r] \in {"401", "503", "400", "413", "422"} =>
              files[r] = "none" /\ r \notin rows
        /\ answer[r] = "202" => files[r] = "whole" /\ r \in rows
=============================================================================
