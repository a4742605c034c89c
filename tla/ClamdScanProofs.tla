--------------------------- MODULE ClamdScanProofs ---------------------------
(***************************************************************************)
(* A scan is fail-closed for files, sockets and buffers of every size.     *)
(*                                                                         *)
(* The argument counts messages: what clamd has taken, what is in the      *)
(* socket and what the transport still holds add up to the file, so that   *)
(* clamd's finding, made when it takes the last one, is never revised.     *)
(***************************************************************************)
EXTENDS ClamdScan, TLAPS

\* No message is lost or invented while the connection stands.
Conserved ==
    \/ /\ at \in {"connect", "done"}
       /\ unsent = 0 /\ inflight = 0 /\ taken = 0
    \/ /\ at # "connect"
       /\ taken + inflight + unsent = Messages

IInv ==
    /\ TypeOK
    /\ Conserved
    /\ finding # "unknown" => taken = Messages
    /\ reply = "OK" => finding = "harmless"
    /\ outcome = "clean" => finding = "harmless"
    /\ at # "done" => verdict = "pending"
    /\ at \in {"close", "done"} => outcome # "pending"

LEMMA Sizes ==
    /\ Messages \in Nat /\ Messages > 0
    /\ SocketRoom \in Nat
  BY ScanAssumption

LEMMA ScanInit == Init => IInv
<1> SUFFICES ASSUME Init PROVE IInv
  OBVIOUS
<1>1. paused \in BOOLEAN /\ broken \in BOOLEAN
  BY Zenon DEF Init
<1>2. /\ unsent \in 0 .. Messages /\ inflight \in 0 .. Messages
      /\ taken \in 0 .. Messages
  BY Sizes DEF Init
<1>3. at \in Places /\ reply \in Replies
  BY DEF Init, Places, Replies
<1> QED
  BY <1>1, <1>2, <1>3 DEF Init, IInv, TypeOK, Conserved

LEMMA ScanStepKeeps == ASSUME IInv, [Next]_vars PROVE IInv'
<1> USE Sizes DEF IInv, TypeOK, Places, Replies, Conserved
<1>1. CASE CannotConnect
  BY <1>1 DEF CannotConnect, wire, daemon
<1>2. CASE ConnectAndWrite
  BY <1>2 DEF ConnectAndWrite, daemon
<1>3. CASE Drained
  BY <1>3 DEF Drained, wire, daemon
<1>4. CASE DrainFails \/ ReadTimesOut
  BY <1>4 DEF DrainFails, ReadTimesOut, Fail, wire, daemon
<1>5. CASE Read
  BY <1>5 DEF Read, Understand, wire, daemon
<1>6. CASE CloseAndReturn
  BY <1>6 DEF CloseAndReturn, wire, daemon
<1>7. CASE Flush
  BY <1>7 DEF Flush, daemon
<1>8. CASE Take
  BY <1>8 DEF Take
<1>9. CASE Answer
  BY <1>9 DEF Answer, wire
<1>10. CASE Break
  BY <1>10 DEF Break, wire
<1>11. CASE UNCHANGED vars
  BY <1>11 DEF vars, wire, daemon
<1> QED
  BY <1>1, <1>2, <1>3, <1>4, <1>5, <1>6, <1>7, <1>8, <1>9, <1>10, <1>11
     DEF Next, ScanStep

LEMMA ScanInvariant == Spec => []IInv
  BY ScanInit, ScanStepKeeps, PTL DEF Spec

\* A step of the scan is a step of the promise, or none.
LEMMA ScanSimulates ==
    ASSUME IInv, [Next]_vars PROVE [Promise!SNext]_(Promise!svars)
<1> USE DEF IInv, Promise!SNext, Promise!svars
<1>1. CASE CannotConnect
  BY <1>1 DEF CannotConnect, daemon, Promise!Reject
<1>2. CASE \/ ConnectAndWrite \/ Drained \/ DrainFails \/ ReadTimesOut
           \/ Read \/ Flush \/ Answer \/ Break \/ UNCHANGED vars
  BY <1>2 DEF ConnectAndWrite, Drained, DrainFails, ReadTimesOut, Fail, Read,
              Flush, Answer, Break, vars, wire, daemon
<1>3. CASE CloseAndReturn
  <2>1. outcome \in {"clean", "rejected"} /\ verdict = "pending"
    BY <1>3 DEF CloseAndReturn, TypeOK
  <2> QED
    BY <1>3, <2>1 DEF CloseAndReturn, daemon, Promise!Clear, Promise!Reject
<1>4. CASE Take
  <2>1. finding = "unknown" \/ finding' = finding
    BY <1>4, Sizes DEF Take, TypeOK, Conserved
  <2>2. finding' # finding => finding' \in {"harmless", "malware"}
    BY <1>4 DEF Take
  <2> QED
    BY <1>4, <2>1, <2>2 DEF Take, Promise!Examine
<1> QED
  BY <1>1, <1>2, <1>3, <1>4 DEF Next, ScanStep

(***************************************************************************)
(* A scan clears only what clamd has examined in full and found harmless,  *)
(* whatever breaks, and never revises its verdict.                         *)
(***************************************************************************)
THEOREM ScanFailsClosed == Spec => FailsClosed
<1>1. Init => Promise!SInit
  BY DEF Init, Promise!SInit
<1> QED
  BY <1>1, ScanInvariant, ScanSimulates, PTL
     DEF Spec, FailsClosed, Promise!SafeScan

(***************************************************************************)
(* Buffers, socket and verdicts keep their types: no message of the file   *)
(* is counted twice on its way from the writer to clamd.                   *)
(***************************************************************************)
THEOREM ScanTypeCorrect == Spec => []TypeOK
<1>1. IInv => TypeOK
  BY DEF IInv
<1> QED
  BY <1>1, ScanInvariant, PTL
=============================================================================
