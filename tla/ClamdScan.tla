------------------------------ MODULE ClamdScan ------------------------------
(***************************************************************************)
(* One scan of ClamAVScanner (src/src/infrastructure/virus_scanner.py):    *)
(* the file goes to clamd over TCP as a series of chunks and a terminator, *)
(* and the answer comes back on the same connection.                       *)
(*                                                                         *)
(* writer.write never waits: what the socket does not take stays in the    *)
(* transport's buffer, which the event loop empties as the socket has      *)
(* room, and the socket has room as clamd reads.  Only drain() and         *)
(* wait_closed() wait for that buffer, and neither has a timeout.          *)
(*                                                                         *)
(* Sizes are counted in messages.  The transport pauses its writer above   *)
(* one limit and resumes it at another (asyncio's write buffer limits).    *)
(***************************************************************************)
EXTENDS Integers

CONSTANTS
    Messages,      \* chunks of the file, with the terminator
    SocketRoom,    \* messages the socket takes ahead of clamd
    HighWater,     \* the transport's buffer pauses the writer above this ...
    LowWater       \* ... and resumes it at this

ASSUME ScanAssumption ==
    /\ {Messages, SocketRoom} \subseteq Nat \ {0}
    /\ {LowWater, HighWater} \subseteq Nat
    /\ LowWater <= HighWater

VARIABLES
    at,          \* where scan_bytes is
    unsent,      \* messages in the transport's buffer
    paused,      \* the transport has paused its writer
    inflight,    \* messages in the socket, not read by clamd
    taken,       \* messages clamd has read
    finding,     \* what clamd found in the file, once it has read it all
    reply,       \* what clamd has answered
    broken,      \* clamd's end of the connection is closed or lost
    outcome,     \* what scan_bytes will return
    verdict      \* what it has returned

wire == <<unsent, paused, inflight>>
daemon == <<taken, finding, reply>>
vars == <<at, wire, daemon, broken, outcome, verdict>>

Places == {"connect", "drain", "read", "close", "done"}
Replies == {"none", "OK", "FOUND", "ERROR"}

Init ==
    /\ at = "connect"
    /\ unsent = 0 /\ paused = FALSE /\ inflight = 0
    /\ taken = 0 /\ finding = "unknown" /\ reply = "none"
    /\ broken = FALSE
    /\ outcome = "pending" /\ verdict = "pending"

-----------------------------------------------------------------------------
(* scan_bytes.                                                             *)

\* Nobody listens, or nobody accepts before the timeout.
CannotConnect ==
    /\ at = "connect"
    /\ at' = "done"
    /\ outcome' = "rejected"
    /\ verdict' = "rejected"
    /\ UNCHANGED <<wire, daemon, broken>>

\* All the writes come in one go; the socket takes some of them at once.
ConnectAndWrite ==
    /\ at = "connect"
    /\ at' = "drain"
    /\ \E n \in 0 .. SocketRoom :
          /\ n <= Messages
          /\ inflight' = n
          /\ unsent' = Messages - n
          /\ paused' = (Messages - n > HighWater)
    /\ UNCHANGED <<daemon, broken, outcome, verdict>>

\* drain() raises on a lost connection, and returns on one that is only at its
\* end of file.
Drained ==
    /\ at = "drain"
    /\ ~paused
    /\ at' = "read"
    /\ UNCHANGED <<wire, daemon, broken, outcome, verdict>>

\* The except clause: the scan is over, the connection is still to be closed.
Fail(place) ==
    /\ at = place
    /\ at' = "close"
    /\ outcome' = "rejected"
    /\ UNCHANGED <<wire, daemon, broken, verdict>>

DrainFails == broken /\ Fail("drain")

\* Faulty variant: the answer is awaited without a timeout.
ReadNeverTimesOut == broken /\ Fail("read")

ReadTimesOut == Fail("read")

\* Faulty variant: whatever does not say FOUND is clean.
UnderstandFailOpen(text, whole) ==
    IF whole /\ text = "FOUND" THEN "rejected" ELSE "clean"

\* Faulty variant: what is not OK is handed on as it is.
UnderstandVerbatim(text, whole) ==
    IF whole /\ text = "OK" THEN "clean" ELSE text

\* The text must begin with "stream:" and say ": OK"; a read may return the
\* answer in part, or nothing at the end of the stream.  ": OK" is looked for
\* before FOUND, so that telling the answers apart takes for granted that no
\* signature's name begins with OK.
Understand(text, whole) ==
    IF whole /\ text = "OK" THEN "clean" ELSE "rejected"

Read ==
    /\ at = "read"
    /\ reply # "none" \/ broken
    /\ \E whole \in BOOLEAN : outcome' = Understand(reply, whole)
    /\ at' = "close"
    /\ UNCHANGED <<wire, daemon, broken, verdict>>

\* writer.close(); await writer.wait_closed(), in the finally clause: the
\* connection is closed once the transport's buffer is empty.
CloseAndReturn ==
    /\ at = "close"
    /\ unsent = 0 \/ broken
    /\ at' = "done"
    /\ verdict' = outcome
    /\ UNCHANGED <<wire, daemon, broken, outcome>>

-----------------------------------------------------------------------------
(* The event loop, the socket and clamd.                                   *)

\* The event loop moves a message into the socket and may resume the writer.
Flush ==
    /\ unsent > 0
    /\ inflight < SocketRoom
    /\ ~broken
    /\ unsent' = unsent - 1
    /\ inflight' = inflight + 1
    /\ paused' = (paused /\ unsent - 1 > LowWater)
    /\ UNCHANGED <<at, daemon, broken, outcome, verdict>>

\* clamd reads a message; with the terminator it has all of the file.
Take ==
    /\ inflight > 0
    /\ ~broken
    /\ inflight' = inflight - 1
    /\ taken' = taken + 1
    /\ finding' \in IF taken + 1 < Messages THEN {finding}
                    ELSE {"harmless", "malware"}
    /\ UNCHANGED <<at, unsent, paused, reply, broken, outcome, verdict>>

Answer ==
    /\ finding # "unknown"
    /\ reply = "none"
    /\ ~broken
    /\ reply' = IF finding = "harmless" THEN "OK" ELSE "FOUND"
    /\ UNCHANGED <<at, wire, taken, finding, broken, outcome, verdict>>

\* clamd gives up (its size limit, an error of its own) or dies; the connection
\* goes down with or without a word.
Break ==
    /\ at # "connect"
    /\ ~broken
    /\ broken' = TRUE
    /\ reply' \in IF reply = "none" THEN {"none", "ERROR"} ELSE {reply}
    /\ UNCHANGED <<at, wire, taken, finding, outcome, verdict>>

-----------------------------------------------------------------------------
ScanStep ==
    \/ CannotConnect \/ ConnectAndWrite
    \/ Drained \/ DrainFails
    \/ Read \/ ReadTimesOut
    \/ CloseAndReturn

Next == ScanStep \/ Flush \/ Take \/ Answer \/ Break

Spec == Init /\ [][Next]_vars

\* The event loop runs: a coroutine that can go on does, and the transport's
\* buffer is emptied while the socket has room.  Connecting and reading go on
\* because they time out.
LoopSpec == Spec /\ WF_vars(ScanStep) /\ WF_vars(Flush)

\* ... and clamd, external to this code, reads what it is sent.
ServedSpec == LoopSpec /\ WF_vars(Take)

-----------------------------------------------------------------------------
TypeOK ==
    /\ at \in Places
    /\ unsent \in 0 .. Messages
    /\ paused \in BOOLEAN
    /\ inflight \in 0 .. Messages
    /\ taken \in 0 .. Messages
    /\ finding \in {"unknown", "harmless", "malware"}
    /\ reply \in Replies
    /\ broken \in BOOLEAN
    /\ outcome \in {"pending", "clean", "rejected"}
    /\ verdict \in {"pending", "clean", "rejected"}

Promise == INSTANCE ScanPromise

(***************************************************************************)
(* Whatever is lost, late or cut short on the way - the connection, the    *)
(* stream, the answer - the scan does what it promises: it clears a file   *)
(* only after clamd has read every chunk and the terminator and found      *)
(* nothing, and its verdict is final.                                      *)
(***************************************************************************)
FailsClosed == Promise!SafeScan

(***************************************************************************)
(* A scan ends as long as clamd reads what it is sent, whether or not it   *)
(* ever answers.                                                           *)
(***************************************************************************)
EndsWhenServed == Promise!PromptScan
=============================================================================
