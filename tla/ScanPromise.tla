----------------------------- MODULE ScanPromise -----------------------------
(***************************************************************************)
(* What a virus scan promises the upload that awaits it: it ends, and it   *)
(* clears the file only if the daemon has examined all of it and found     *)
(* nothing.  A scan that clears nothing rejects: it is fail-closed.        *)
(***************************************************************************)

VARIABLES
    finding,    \* what the daemon has found in the whole file
    verdict     \* what the caller is told

svars == <<finding, verdict>>

SInit == finding = "unknown" /\ verdict = "pending"

\* The daemon has seen the whole file.
Examine ==
    /\ finding = "unknown"
    /\ finding' \in {"harmless", "malware"}
    /\ UNCHANGED verdict

Clear ==
    /\ verdict = "pending"
    /\ finding = "harmless"
    /\ verdict' = "clean"
    /\ UNCHANGED finding

\* Malware, a transport error, a timeout, an answer nobody understands.
Reject ==
    /\ verdict = "pending"
    /\ verdict' = "rejected"
    /\ UNCHANGED finding

SNext == Examine \/ Clear \/ Reject

SafeScan == SInit /\ [][SNext]_svars

PromptScan == SafeScan /\ WF_svars(Clear \/ Reject)
=============================================================================
