--------------------------- MODULE ReconnectingStream ---------------------------
(***************************************************************************)
(* The reconnecting stream of crates/ttl-live-ws: ReconnectingConnection   *)
(* (reconnect.rs) over one LiveConnection at a time (lib.rs). The caller   *)
(* awaits next_message() or drops it at any of its awaits, as the select!  *)
(* and the timeout of the crate's callers do. A delay is a timer that      *)
(* fires some time; every attempt signs a new URI.                         *)
(***************************************************************************)
EXTENDS Integers

CONSTANTS
    MaxAttempts,   \* the largest ReconnectPolicy.max_attempts
    MaxBatches,    \* bound: batches the server sends
    MaxLosses,     \* bound: connections lost
    MaxDrops       \* bound: calls the caller drops

ASSUME StreamAssumption == {MaxAttempts, MaxBatches, MaxLosses, MaxDrops} \subseteq Nat

VARIABLES
    attempts,            \* ReconnectPolicy.max_attempts
    connection,          \* ReconnectingConnection.connection is Some
    call,                \* where the caller's await stands
    attempt,             \* of the loop in reconnect(); 0 during open()
    result,              \* what the last call that handed answered
    batch,               \* the batch that is being acknowledged
    sent, losses, drops, \* counters for the bounds
    acked, handed,       \* batches acknowledged to the server, and handed to the caller
    explained,           \* history: an error ended the stream
    cut,                 \* history: a call was dropped while there was no connection
    abandoned            \* history: batches whose call was dropped

batchVars == <<batch, sent, acked, handed, abandoned>>
streamVars == <<attempts, connection, call, attempt, result, batchVars, losses, drops, explained,
                cut>>

StreamInit ==
    /\ attempts \in 0 .. MaxAttempts
    /\ connection = FALSE /\ call = "signing" /\ attempt = 0 /\ result = "none"
    /\ batch = 0 /\ sent = 0 /\ losses = 0 /\ drops = 0
    /\ acked = {} /\ handed = {} /\ abandoned = {}
    /\ explained = FALSE /\ cut = FALSE

(* The call answers; an error leaves the stream without a connection. *)
Reply(answer) ==
    /\ call' = "idle"
    /\ result' = answer

ReturnNothing(answer) ==
    /\ Reply("end")
    /\ UNCHANGED explained
    /\ connection' = FALSE
ReturnError(answer) ==
    /\ Reply(answer)
    /\ explained' = TRUE
    /\ connection' = FALSE

--------------------------------------------------------------------------------
(* The caller. *)

NextMessage ==
    /\ call = "idle"
    /\ \/ ~connection /\ Reply("end")
       \/ connection /\ call' = "reading" /\ UNCHANGED result
    /\ UNCHANGED <<attempts, connection, attempt, batchVars, losses, drops, explained, cut>>

(* The future is dropped: what its last await had done stays done. *)
Drop ==
    /\ call \notin {"idle", "closed"} /\ drops < MaxDrops
    /\ drops' = drops + 1
    /\ call' = IF attempt = 0 /\ ~connection THEN "closed" ELSE "idle"
    /\ cut' = (cut \/ ~connection)
    /\ batch' = 0
    /\ \/ call = "acking" /\ abandoned' = abandoned \cup {batch}
          /\ acked' \in {acked, acked \cup {batch}}
       \/ call # "acking" /\ UNCHANGED <<abandoned, acked>>
    /\ UNCHANGED <<attempts, connection, attempt, result, sent, handed, losses, explained>>

Close ==
    /\ call = "idle"
    /\ call' = "closed" /\ connection' = FALSE
    /\ UNCHANGED <<attempts, attempt, result, batchVars, losses, drops, explained, cut>>

--------------------------------------------------------------------------------
(* reconnect(): takes the connection away, and waits before each attempt. *)

Reconnect ==
    /\ \/ attempts = 0 /\ ReturnError("exhausted") /\ UNCHANGED attempt
       \/ /\ attempts > 0
          /\ connection' = FALSE
          /\ attempt' = 1
          /\ call' = "waiting"
          /\ UNCHANGED <<result, explained>>

(* The server closes, or a heartbeat or an acknowledgement is not sent. *)
Lost ==
    /\ call \in {"reading", "acking"} /\ losses < MaxLosses
    /\ losses' = losses + 1
    /\ batch' = 0
    /\ Reconnect
    /\ UNCHANGED <<attempts, sent, acked, handed, abandoned, drops, cut>>

(* handle_frame() of an event frame that cannot be decoded, of one that    *)
(* wants no acknowledgement and of one that does. Other frames change      *)
(* nothing.                                                                *)
MalformedAcked ==
    /\ call = "reading" /\ sent < MaxBatches /\ losses < MaxLosses
    /\ sent' = sent + 1 /\ losses' = losses + 1
    /\ acked' = acked \cup {sent'}
    /\ Reconnect
    /\ UNCHANGED <<attempts, batch, handed, abandoned, drops, cut>>
Malformed ==
    /\ call = "reading" /\ sent < MaxBatches /\ losses < MaxLosses
    /\ sent' = sent + 1 /\ losses' = losses + 1
    /\ Reconnect
    /\ UNCHANGED <<attempts, batch, acked, handed, abandoned, drops, cut>>

Plain ==
    /\ call = "reading" /\ sent < MaxBatches
    /\ sent' = sent + 1
    /\ handed' = handed \cup {sent'}
    /\ Reply("message")
    /\ UNCHANGED <<attempts, connection, attempt, batch, acked, abandoned, losses, drops, explained,
                   cut>>

WantsAck ==
    /\ call = "reading" /\ sent < MaxBatches
    /\ sent' = sent + 1
    /\ batch' = sent' /\ call' = "acking"
    /\ UNCHANGED <<attempts, connection, attempt, result, acked, handed, abandoned, losses,
                   drops, explained, cut>>

AckSent ==
    /\ call = "acking"
    /\ acked' = acked \cup {batch} /\ handed' = handed \cup {batch}
    /\ batch' = 0
    /\ Reply("message")
    /\ UNCHANGED <<attempts, connection, attempt, sent, abandoned, losses, drops, explained, cut>>

Wake ==
    /\ call = "waiting"
    /\ call' = "signing"
    /\ UNCHANGED <<attempts, connection, attempt, result, batchVars, losses, drops, explained, cut>>

(* connect_once(): the signer answers, ... *)
Signed ==
    /\ call = "signing"
    /\ call' = "handshake"
    /\ UNCHANGED <<attempts, connection, attempt, result, batchVars, losses, drops, explained, cut>>

NotSigned(answer) ==
    /\ call = "signing"
    /\ \/ attempt > 0 /\ ReturnError(answer)
       \/ attempt = 0 /\ call' = "closed" /\ result' = answer /\ UNCHANGED <<explained, connection>>
    /\ UNCHANGED <<attempts, attempt, batchVars, losses, drops, cut>>

(* ... and the handshake and the room entry succeed, ... *)
SocketOpened ==
    /\ call = "handshake"
    /\ connection' = TRUE
    /\ call' = IF attempt = 0 THEN "idle" ELSE "reading"
    /\ UNCHANGED <<attempts, attempt, result, batchVars, losses, drops, explained, cut>>

(* ... or fail, with HTTP 200 or otherwise: the next attempt, if any. *)
NextAttemptForever == /\ call' = "waiting" /\ UNCHANGED <<attempt, result, explained, connection>>
NextAttempt ==
    \/ /\ attempt = 0
       /\ call' = "closed" /\ result' = "connect"
       /\ UNCHANGED <<attempt, explained, connection>>
    \/ /\ attempt \in 1 .. attempts - 1
       /\ attempt' = attempt + 1
       /\ call' = "waiting"
       /\ UNCHANGED <<result, explained, connection>>
    \/ /\ attempt > 0 /\ attempt = attempts
       /\ ReturnError("exhausted")
       /\ UNCHANGED attempt

NotOpened ==
    /\ call = "handshake"
    /\ NextAttempt
    /\ UNCHANGED <<attempts, batchVars, losses, drops, cut>>

--------------------------------------------------------------------------------
StreamNext ==
    \/ NextMessage \/ Drop \/ Close
    \/ Lost \/ Malformed \/ Plain \/ WantsAck \/ AckSent
    \/ Wake \/ Signed \/ \E answer \in {"refused", "signer"} : NotSigned(answer)
    \/ SocketOpened \/ NotOpened

StreamSpec == StreamInit /\ [][StreamNext]_streamVars

(* A sleep ends. Nothing in the crate bounds a signature or a handshake.   *)
StreamFairness == WF_streamVars(Wake)

--------------------------------------------------------------------------------
(* Properties *)

(* A stream says why it ends before it answers None, unless a call was     *)
(* dropped while it reconnected: reconnect() has taken the connection away *)
(* by then, and the next call takes that for an end.                       *)
EndIsTold == result = "end" => explained \/ cut

(* A batch that was acknowledged, which the server will not send again,    *)
(* was handed to the caller, or the call that acknowledged it was dropped. *)
AckedIsReturned == acked \subseteq handed \cup abandoned

(* Nothing is lost without a word: neither the stream nor a batch. *)
NothingLostSilently == EndIsTold /\ AckedIsReturned

(* Reconnecting comes to an end, whatever fails: the stream is open again, *)
(* the caller has an answer or has dropped the call, or a signature or a   *)
(* handshake never ends.                                                   *)
RetriesEnd ==
    call = "waiting" ~> \/ call \in {"reading", "idle", "closed"}
                        \/ [](call \in {"signing", "handshake"})
================================================================================
