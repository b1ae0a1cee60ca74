----------------------------- MODULE AndroidHandoff -----------------------------
(***************************************************************************)
(* The Android live client: LiveClient.kt and the queue it hands native    *)
(* callbacks to the main thread with, MainEventHandoff.kt. Four threads    *)
(* meet here: the coroutine that opens the native client, the native       *)
(* thread that calls back, the main thread that runs the queue's pump, and *)
(* the cleanup coroutine of requestShutdown(). The application may call    *)
(* disconnect() from any thread once it was given the client; its          *)
(* listeners may throw. Steps are synchronized blocks, atomic operations   *)
(* and calls of user code. How many bytes a notice has is left open.       *)
(***************************************************************************)
EXTENDS Integers, Sequences

CONSTANTS
    HandoffCapacity,   \* DeliveryOptions.capacity
    PumpBatch,         \* DeliveryOptions.batchSize
    MaxCallbacks       \* bound: native callbacks in a behaviour

VARIABLES
    notices, scheduled, stopped, consumers,   \* queue, scheduled, stopped, the consumers are set
    posted,                                   \* pump runs the main looper still owes
    shut, handle, shutdownJob,                \* LiveClient: closed, handle, shutdownJob
    native,                                   \* the native client
    opener, nativeThread, main, pumpLeft,     \* what each thread is doing; repeat()'s turns left
    current,                                  \* the notice a thread has in hand
    disconnect,                               \* the application's disconnect()
    callbacks                                 \* native callbacks so far

handoffQueue == <<notices, scheduled, stopped, consumers, posted>>
clientVars == <<shut, handle, shutdownJob>>
mainVars == <<main, pumpLeft>>
handoffVars == <<handoffQueue, clientVars, native, opener, nativeThread, mainVars, current,
                 disconnect, callbacks>>

HandoffInit ==
    /\ notices = <<>> /\ scheduled = FALSE /\ stopped = FALSE /\ consumers = TRUE
    /\ posted = 0
    /\ shut = FALSE /\ handle = FALSE /\ shutdownJob = "none"
    /\ native = "none"
    /\ opener = "connect" /\ nativeThread = "idle" /\ main = "idle" /\ pumpLeft = 0
    /\ current = [native |-> "none", main |-> "none"]
    /\ disconnect = "none"
    /\ callbacks = 0

--------------------------------------------------------------------------------
(* LiveClient.kt *)

(* requestShutdown(): everybody shares one job. *)
RequestShutdownAnew ==
    /\ shut' = TRUE
    /\ shutdownJob' = "launched"
    /\ UNCHANGED handle
RequestShutdown ==
    /\ shut' = TRUE
    /\ shutdownJob' = IF shutdownJob = "none" THEN "launched" ELSE shutdownJob
    /\ UNCHANGED handle

(* nConnect returns a handle; the native thread is running by then. *)
NativeOpens ==
    /\ opener = "connect"
    /\ native' = "open"
    /\ opener' = "set"
    /\ UNCHANGED <<handoffQueue, clientVars, nativeThread, mainVars, current, disconnect, callbacks>>

(* nConnect returns no handle: connect() throws, and nobody is given the   *)
(* client it had built.                                                    *)
NativeOpenFails ==
    /\ opener = "connect"
    /\ opener' = "failed"
    /\ UNCHANGED <<handoffQueue, clientVars, native, nativeThread, mainVars, current, disconnect,
                   callbacks>>

(* setHandle(), which must not miss a shutdown that came before it. *)
HandleIsSet ==
    /\ opener = "set"
    /\ handle' = TRUE
    /\ opener' = "check"
    /\ UNCHANGED <<handoffQueue, shut, shutdownJob, native, nativeThread, mainVars, current,
                   disconnect, callbacks>>

HandleUnchecked ==
    /\ opener = "check"
    /\ opener' = "done"
    /\ UNCHANGED <<handoffQueue, clientVars, native, nativeThread, mainVars, current, disconnect,
                   callbacks>>
HandleChecked ==
    /\ opener = "check"
    /\ IF shut /\ handle
       THEN handle' = FALSE /\ native' = "stopping" /\ opener' = "join"
       ELSE opener' = "done" /\ UNCHANGED <<handle, native>>
    /\ UNCHANGED <<handoffQueue, shut, shutdownJob, nativeThread, mainVars, current, disconnect,
                   callbacks>>

OpenerJoined ==
    /\ opener = "join" /\ native = "closed"
    /\ opener' = "done"
    /\ UNCHANGED <<handoffQueue, clientVars, native, nativeThread, mainVars, current, disconnect,
                   callbacks>>

(* The job takes the handle, if there is one yet, and joins the native side. *)
JobTakesHandle ==
    /\ shutdownJob = "launched"
    /\ handle' = FALSE
    /\ IF handle
       THEN native' = "stopping" /\ shutdownJob' = "joining"
       ELSE shutdownJob' = "done" /\ UNCHANGED native
    /\ UNCHANGED <<handoffQueue, shut, opener, nativeThread, mainVars, current, disconnect,
                   callbacks>>

JobEnds ==
    /\ shutdownJob = "joining" /\ native = "closed"
    /\ shutdownJob' = "done"
    /\ UNCHANGED <<handoffQueue, shut, handle, native, opener, nativeThread, mainVars, current,
                   disconnect, callbacks>>

(* disconnect() of the application, which connect() has given the client. *)
DisconnectCalled ==
    /\ disconnect = "none" /\ opener = "done"
    /\ RequestShutdown
    /\ disconnect' = "close"
    /\ UNCHANGED <<handoffQueue, native, opener, nativeThread, mainVars, current, callbacks>>

DisconnectReturns ==
    /\ disconnect = "join" /\ shutdownJob = "done"
    /\ disconnect' = "returned"
    /\ UNCHANGED <<handoffQueue, clientVars, native, opener, nativeThread, mainVars, current,
                   callbacks>>

--------------------------------------------------------------------------------
(* MainEventHandoff.kt: offer(), on the native thread *)

(* The callback object looks at closed before it offers. *)
NativeCallback(kind) ==
    /\ native \in {"open", "stopping"} /\ nativeThread = "idle"
    /\ callbacks < MaxCallbacks
    /\ callbacks' = callbacks + 1
    /\ ~shut
    /\ nativeThread' = "offer"
    /\ current' = [current EXCEPT !.native = kind]
    /\ UNCHANGED <<handoffQueue, clientVars, native, opener, mainVars, disconnect>>

SchedulePump ==
    /\ scheduled' = TRUE
    /\ posted' = IF scheduled THEN posted ELSE posted + 1

OfferIgnored ==
    /\ nativeThread = "offer" /\ stopped
    /\ nativeThread' = "idle"
    /\ current' = [current EXCEPT !.native = "none"]
    /\ UNCHANGED <<handoffQueue, clientVars, native, opener, mainVars, disconnect, callbacks>>

OfferQueued ==
    /\ nativeThread = "offer" /\ ~stopped
    /\ Len(notices) < HandoffCapacity
    /\ notices' = Append(notices, current.native)
    /\ SchedulePump
    /\ nativeThread' = "idle"
    /\ current' = [current EXCEPT !.native = "none"]
    /\ UNCHANGED <<stopped, consumers, clientVars, native, opener, mainVars, disconnect,
                   callbacks>>

(* The queue is full, or the notice too large for what maxBytes leaves. *)
OfferOverflows ==
    /\ nativeThread = "offer" /\ ~stopped
    /\ notices' = <<"overflow">>
    /\ stopped' = TRUE
    /\ SchedulePump
    /\ nativeThread' = IF consumers THEN "stop" ELSE "idle"
    /\ current' = [current EXCEPT !.native = "none"]
    /\ UNCHANGED <<consumers, clientVars, native, opener, mainVars, disconnect, callbacks>>

OverflowStops ==
    /\ nativeThread = "stop"
    /\ RequestShutdown
    /\ nativeThread' = "idle"
    /\ UNCHANGED <<handoffQueue, native, opener, mainVars, current, disconnect, callbacks>>

(* The native side ends once it was told to and no callback runs. *)
NativeEnds ==
    /\ native = "stopping" /\ nativeThread = "idle"
    /\ native' = "closed"
    /\ UNCHANGED <<handoffQueue, clientVars, opener, nativeThread, mainVars, current, disconnect,
                   callbacks>>

--------------------------------------------------------------------------------
(* The pump and close(), on the main thread *)

CloseQueue ==
    /\ notices' = <<>>
    /\ stopped' = TRUE
    /\ scheduled' = FALSE
    /\ posted' = 0
    /\ consumers' = FALSE

(* disconnect() closes the queue between two tasks of the main thread, or  *)
(* inside a listener that called it.                                       *)
DisconnectCloses ==
    /\ disconnect = "close"
    /\ main \in {"idle", "listener", "failed"}
    /\ CloseQueue
    /\ disconnect' = "join"
    /\ UNCHANGED <<clientVars, native, opener, nativeThread, mainVars, current, callbacks>>

PumpStarts ==
    /\ main = "idle" /\ posted > 0
    /\ posted' = posted - 1
    /\ main' = "pump"
    /\ pumpLeft' = PumpBatch
    /\ UNCHANGED <<notices, scheduled, stopped, consumers, clientVars, native, opener,
                   nativeThread, current, disconnect, callbacks>>

(* One turn of repeat(): an empty queue makes it a turn without effect. An *)
(* event is dropped when the client was shut down meanwhile.               *)
PumpTurn ==
    /\ main = "pump" /\ pumpLeft > 0
    /\ pumpLeft' = pumpLeft - 1
    /\ IF notices = <<>>
       THEN UNCHANGED <<notices, main, current>>
       ELSE /\ notices' = Tail(notices)
            /\ IF consumers /\ ~(Head(notices) = "event" /\ shut)
               THEN main' = "listener" /\ current' = [current EXCEPT !.main = Head(notices)]
               ELSE UNCHANGED <<main, current>>
    /\ UNCHANGED <<scheduled, stopped, consumers, posted, clientVars, native, opener,
                   nativeThread, disconnect, callbacks>>

ListenerReturns ==
    /\ main = "listener"
    /\ main' = "pump"
    /\ current' = [current EXCEPT !.main = "none"]
    /\ UNCHANGED <<handoffQueue, clientVars, native, opener, nativeThread, pumpLeft, disconnect,
                   callbacks>>

(* A listener throws: the client is shut down, the listener is told and    *)
(* the queue closed, and repeat() goes on.                                 *)
ListenerThrows ==
    /\ main = "listener"
    /\ IF consumers THEN RequestShutdown ELSE UNCHANGED clientVars
    /\ main' = "failed"
    /\ current' = [current EXCEPT !.main = "none"]
    /\ UNCHANGED <<handoffQueue, native, opener, nativeThread, pumpLeft, disconnect, callbacks>>

FailureCloses ==
    /\ main = "failed"
    /\ CloseQueue
    /\ main' = "pump"
    /\ UNCHANGED <<clientVars, native, opener, nativeThread, pumpLeft, current, disconnect,
                   callbacks>>

PumpForgets ==
    /\ main = "pump" /\ pumpLeft = 0
    /\ scheduled' = FALSE
    /\ main' = "idle"
    /\ UNCHANGED <<notices, stopped, consumers, posted, clientVars, native, opener, nativeThread,
                   pumpLeft, current, disconnect, callbacks>>
PumpEnds ==
    /\ main = "pump" /\ pumpLeft = 0
    /\ scheduled' = (notices # <<>>)
    /\ posted' = IF notices # <<>> THEN posted + 1 ELSE posted
    /\ main' = "idle"
    /\ UNCHANGED <<notices, stopped, consumers, clientVars, native, opener, nativeThread,
                   pumpLeft, current, disconnect, callbacks>>

--------------------------------------------------------------------------------
Opener == NativeOpens \/ NativeOpenFails \/ HandleIsSet \/ HandleChecked \/ OpenerJoined
Job == JobTakesHandle \/ JobEnds
Offer == OfferIgnored \/ OfferQueued \/ OfferOverflows \/ OverflowStops
Main == PumpStarts \/ PumpTurn \/ ListenerReturns \/ ListenerThrows \/ FailureCloses \/ PumpEnds

HandoffNext ==
    \/ Opener \/ Job \/ Offer \/ Main
    \/ \E kind \in {"event", "state"} : NativeCallback(kind)
    \/ NativeEnds
    \/ DisconnectCalled \/ DisconnectCloses \/ DisconnectReturns

HandoffSpec == HandoffInit /\ [][HandoffNext]_handoffVars

(* The threads run, listeners return or throw, and the native side stops   *)
(* when it is told to (LiveRun's Stops). Nothing makes the application     *)
(* disconnect.                                                             *)
HandoffFairness ==
    /\ WF_handoffVars(Opener) /\ WF_handoffVars(Job) /\ WF_handoffVars(Offer)
    /\ WF_handoffVars(Main) /\ WF_handoffVars(NativeEnds)

--------------------------------------------------------------------------------
(* Properties *)

(* "One scheduled main-thread task": offers, drains, a listener that       *)
(* throws and close() never leave two pumps behind, nor queued notices     *)
(* without one.                                                            *)
OnePump ==
    /\ posted + (IF main = "idle" THEN 0 ELSE 1) <= 1
    /\ notices # <<>> => posted = 1 \/ main # "idle"

(* When disconnect() returns the native side has ended and nothing is left *)
(* for the main thread, also if an overflow or a failed listener had begun *)
(* the shutdown, or had found no handle yet.                               *)
DisconnectComplete ==
    disconnect = "returned" => native = "closed" /\ ~handle /\ posted = 0 /\ notices = <<>>

(* What the handoff promises while it runs and when it is shut down. *)
HandoffContract == OnePump /\ DisconnectComplete

(* A client that was shut down releases its native side, even when the     *)
(* overflow came before the opener knew the handle.                        *)
NativeReleased == shut ~> native = "closed"
================================================================================
