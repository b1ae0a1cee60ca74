------------------------------- MODULE JavaClient -------------------------------
(***************************************************************************)
(* The Java live client, TikTokLive.java. Its fields are guarded by the    *)
(* client's monitor, so they are one record and a critical section is one  *)
(* step, in which emit() may overflow and stop everything half way. What   *)
(* waits for the monitor is outside of it: answers of the provider and of  *)
(* the gift list, the WebSocket's callbacks, the timer that fired, frames  *)
(* between the two checks of receive(), the executor of the callbacks, the *)
(* completions of futures and the calls of the application. A token is the *)
(* generation a connection attempt was started in, and names its socket.   *)
(***************************************************************************)
EXTENDS Integers, Sequences

CONSTANTS
    Setups,        \* providers and options: whether the room is confirmed, gifts are fetched
    TaskCapacity,      \* tasks the callback executor's queue holds
    RetryAttempts,      \* ReconnectPolicy.attempts
    MaxConnects,   \* bound: operations connect() starts in a behaviour
    MaxCalls,      \* bound: other calls of the application, and exceptions
    MaxFaults,     \* bound: failures of the network
    MaxTrouble,    \* bound: such calls and failures together
    MaxBatches,    \* bound: batches received
    MaxBatch       \* bound: tasks one batch emits

ASSUME JavaAssumption ==
    /\ Setups \subseteq [confirm : BOOLEAN, gifts : BOOLEAN]
    /\ TaskCapacity \in Nat \ {0} /\ MaxBatch \in Nat \ {0}
    /\ {RetryAttempts, MaxConnects, MaxCalls, MaxFaults, MaxTrouble, MaxBatches}
          \subseteq Nat

NoToken == 0
Timers == {"heartbeat", "deadline", "reconnect"}

VARIABLES
    setup,        \* requiresRoomConfirmation() and fetchGifts of this client
    client,       \* the fields under the monitor; history: stray and dropped
    lookups,      \* tokens whose acquisition has not called back
    catalogs,     \* tokens whose gift list has not called back
    timer,        \* the task the timer thread has started, which may wait for the monitor
    reading,      \* tokens of the sockets that are inside receive()
    cancelling,   \* futures the application cancelled whose handler has not run
    calls, faults, batches,   \* counters for the bounds
    told,         \* history: the last of connected and disconnected that was called back
    excused,      \* history: since then the application acted, or delivery overflowed
    unreported    \* history: an overflow not called back, the application silent since

threadVars == <<lookups, catalogs, timer, reading, cancelling>>
countVars == <<calls, faults, batches>>
historyVars == <<told, excused, unreported>>
javaVars == <<setup, client, threadVars, countVars, historyVars>>

JavaInit ==
    /\ setup \in Setups
    /\ client = [active |-> FALSE, closed |-> FALSE, stopped |-> FALSE,
                 generation |-> 0, retries |-> 0, connected |-> FALSE,
                 queue |-> <<>>, socket |-> NoToken, sockets |-> {},
                 timers |-> [k \in Timers |-> NoToken],
                 pending |-> 0, future |-> [f \in 1 .. MaxConnects |-> "none"],
                 completing |-> {}, stray |-> {}, dropped |-> {}]
    /\ lookups = {} /\ catalogs = {} /\ reading = {} /\ cancelling = {}
    /\ timer = [kind |-> "none", token |-> 0]
    /\ calls = 0 /\ faults = 0 /\ batches = 0
    /\ told = "none" /\ excused = FALSE /\ unreported = FALSE

--------------------------------------------------------------------------------
(* The methods that run with the monitor held, from one record to the next. *)

Valid(c, t) == ~c.closed /\ c.active /\ c.generation = t

PendingOpen(c) == c.pending > 0 /\ c.future[c.pending] = "open"

CancelSocket(c, t) ==
    [c EXCEPT !.sockets = {IF s.token = t THEN [s EXCEPT !.cancelled = TRUE] ELSE s : s \in @}]

StopSocket(c) ==
    [CancelSocket(c, c.socket) EXCEPT !.timers = [k \in Timers |-> NoToken], !.socket = NoToken]

(* What disconnect() and an overflow share. A lookup or a gift list that   *)
(* is cancelled may have its answer waiting for the monitor already.       *)
Abandon(c) ==
    [StopSocket([c EXCEPT !.active = FALSE, !.generation = @ + 1, !.queue = <<>>])
        EXCEPT !.connected = FALSE]

(* Cancelling the pending future runs its handler, which disconnects again. *)
CancelPending(c) ==
    IF PendingOpen(c) THEN Abandon([c EXCEPT !.future[c.pending] = "cancelled"]) ELSE c

PutTask(c, name, from) ==
    [c EXCEPT !.queue = Append(@, [name |-> name, token |-> c.generation, from |-> from])]

OverflowEarly(c) ==
    LET d == PutTask(Abandon([c EXCEPT !.stopped = TRUE]), "overload", NoToken)
    IN  [CancelPending(d) EXCEPT !.queue = d.queue]
Overflow(c) == PutTask(CancelPending(Abandon([c EXCEPT !.stopped = TRUE])), "overload", NoToken)

EmitFrom(c, name, from) ==
    IF c.closed \/ c.stopped THEN c
    ELSE IF Len(c.queue) < TaskCapacity THEN PutTask(c, name, from)
    ELSE Overflow(c)

Emit(c, name) == EmitFrom(c, name, c.generation)

(* n emits for the messages of one batch: the first that finds no room    *)
(* overflows, whatever was queued before it, and the rest emit nothing.    *)
EmitBatch(c, n, from) ==
    IF c.closed \/ c.stopped THEN c
    ELSE IF Len(c.queue) + n > TaskCapacity THEN Overflow(c)
    ELSE [c EXCEPT !.queue = @ \o [i \in 1 .. n |-> [name |-> "event", token |-> c.generation,
                                                    from |-> from]]]

Complete(c, result) ==
    [c EXCEPT !.completing = @ \cup {[future |-> c.pending, result |-> result]}]

(* The failure of an attempt: tell, then give up or arm the next attempt. *)
GiveUpSilent(c) == [c EXCEPT !.active = FALSE]
GiveUp(c) ==
    [(IF PendingOpen(c) THEN Complete(c, "failed") ELSE c) EXCEPT !.active = FALSE]

Retry(c) ==
    [Emit([c EXCEPT !.retries = @ + 1], "reconnecting")
        EXCEPT !.timers["reconnect"] = c.generation]

TellEarly(c) ==
    StopSocket([Emit(Emit([c EXCEPT !.connected = FALSE], "error"), "disconnected")
                EXCEPT !.generation = @ + 1])
Tell(c) ==
    Emit(Emit([StopSocket([c EXCEPT !.generation = @ + 1]) EXCEPT !.connected = FALSE],
              "error"), "disconnected")

Fail(c, t, retryable) ==
    LET d == Tell(c)
    IN  IF ~Valid(c, t) THEN c
        ELSE IF ~retryable \/ d.retries >= RetryAttempts THEN GiveUp(d) ELSE Retry(d)

Disconnect(c) ==
    LET d == CancelPending(Abandon(c))
    IN  IF c.closed THEN c ELSE IF c.active THEN Emit(d, "disconnected") ELSE d

(* startHeartbeat(): not guarded either. A heartbeat of the same interval  *)
(* stays, whichever connection armed it.                                   *)
StartHeartbeat(c, t, same) ==
    IF same /\ c.timers["heartbeat"] # NoToken THEN c ELSE [c EXCEPT !.timers["heartbeat"] = t]

(* open(): not guarded, its callers check the token before they come here. *)
Open(c, t) ==
    [c EXCEPT !.socket = t,
              !.sockets = @ \cup {[token |-> t, phase |-> "connecting", cancelled |-> FALSE]}]

--------------------------------------------------------------------------------
(* A critical section ends with the record d; an overflow in it excuses a  *)
(* missing callback, and starts the wait for its report.                   *)
Overflowed(d) == d.stopped /\ ~client.stopped

Leave(d) ==
    /\ client' = d
    /\ excused' = (excused \/ Overflowed(d))
    /\ unreported' = (unreported \/ Overflowed(d))
    /\ UNCHANGED <<setup, told>>

LeaveCall(d, overflowed) ==
    /\ client' = d
    /\ excused' = TRUE /\ unreported' = overflowed
    /\ UNCHANGED <<setup, told>>

MayAct == calls < MaxCalls /\ calls + faults < MaxTrouble

Fault ==
    /\ faults < MaxFaults /\ calls + faults < MaxTrouble
    /\ faults' = faults + 1
    /\ UNCHANGED <<calls, batches>>

(* request(): the provider takes the attempt, or throws. *)
Request(c, t) ==
    \/ /\ Leave(c)
       /\ lookups' = lookups \cup {t}
       /\ UNCHANGED countVars
    \/ /\ Fault
       /\ \E retryable \in BOOLEAN : Leave(Fail(c, t, retryable))
       /\ UNCHANGED lookups

--------------------------------------------------------------------------------
(* Calls of the application, from its own threads or inside a callback. *)

Connect ==
    /\ ~client.closed /\ ~client.active
    /\ client.pending < MaxConnects
    /\ LET f == client.pending + 1
           c == [client EXCEPT !.stopped = FALSE, !.active = TRUE, !.retries = 0,
                               !.generation = @ + 1, !.pending = f, !.future[f] = "open"]
       IN  \/ /\ LeaveCall(c, FALSE)
              /\ lookups' = lookups \cup {c.generation}
              /\ UNCHANGED countVars
           \/ /\ Fault
              /\ \E retryable \in BOOLEAN :
                     LET d == Fail(c, c.generation, retryable) IN LeaveCall(d, d.stopped)
              /\ UNCHANGED lookups
    /\ UNCHANGED <<catalogs, timer, reading, cancelling>>

DisconnectCall ==
    /\ ~client.closed
    /\ MayAct
    /\ calls' = calls + 1
    /\ LeaveCall(Disconnect(client), FALSE)
    /\ UNCHANGED <<threadVars, faults, batches>>

(* close(): the timers' and the callbacks' threads end with their queues. *)
CloseCall ==
    /\ ~client.closed
    /\ MayAct
    /\ calls' = calls + 1
    /\ LeaveCall([Disconnect(client) EXCEPT !.closed = TRUE, !.queue = <<>>], FALSE)
    /\ UNCHANGED <<threadVars, faults, batches>>

(* The application cancels the future; its handler takes the monitor. *)
CancelFuture(f) ==
    /\ client.future[f] = "open"
    /\ MayAct
    /\ calls' = calls + 1
    /\ client' = [client EXCEPT !.future[f] = "cancelled"]
    /\ cancelling' = cancelling \cup {f}
    /\ UNCHANGED <<setup, lookups, catalogs, timer, reading, faults, batches,
                   historyVars>>

CancelHandler(f) ==
    /\ f \in cancelling
    /\ cancelling' = cancelling \ {f}
    /\ LeaveCall(IF client.pending = f THEN Disconnect(client) ELSE client, FALSE)
    /\ UNCHANGED <<lookups, catalogs, timer, reading, countVars>>

(* complete(): the future is completed later, on a thread of the pool. *)
Completion(r) ==
    /\ r \in client.completing
    /\ client' = [client EXCEPT !.completing = @ \ {r},
                                !.future[r.future] = IF @ = "open" THEN r.result ELSE @]
    /\ UNCHANGED <<setup, threadVars, countVars, historyVars>>

--------------------------------------------------------------------------------
(* The provider and the gift list answer. *)

AcquisitionFails(t) ==
    /\ t \in lookups
    /\ Fault
    /\ \E retryable \in BOOLEAN : Leave(Fail(client, t, retryable))
    /\ lookups' = lookups \ {t}
    /\ UNCHANGED <<catalogs, timer, reading, cancelling>>

Acquired(t, live) ==
    /\ t \in lookups
    /\ lookups' = lookups \ {t}
    /\ \/ /\ ~Valid(client, t)
          /\ Leave(client)
          /\ UNCHANGED catalogs
       \/ /\ Valid(client, t) /\ ~live
          /\ Leave(Emit(Complete([client EXCEPT !.active = FALSE, !.connected = FALSE],
                                 "value"), "offline"))
          /\ UNCHANGED catalogs
       \/ /\ Valid(client, t) /\ live /\ setup.gifts
          /\ Leave(client)
          /\ catalogs' = catalogs \cup {t}
       \/ /\ Valid(client, t) /\ live /\ ~setup.gifts
          /\ Leave(Open(client, t))
          /\ UNCHANGED catalogs
    /\ UNCHANGED <<timer, reading, cancelling, countVars>>

(* The request for the gift list cannot be built (a header with a line     *)
(* break): the exception ends in the stage whenComplete() returned, which  *)
(* nobody looks at, and the attempt is dropped where it is.                *)
CatalogThrows(t) ==
    /\ t \in lookups /\ setup.gifts /\ Valid(client, t)
    /\ Fault
    /\ lookups' = lookups \ {t}
    /\ Leave([client EXCEPT !.dropped = {t}])
    /\ UNCHANGED <<catalogs, timer, reading, cancelling>>

(* The socket cannot be created. *)
OpenThrows(t) ==
    /\ \/ t \in lookups /\ ~setup.gifts /\ lookups' = lookups \ {t} /\ UNCHANGED catalogs
       \/ t \in catalogs /\ catalogs' = catalogs \ {t} /\ UNCHANGED lookups
    /\ Fault
    /\ Leave(Fail(client, t, TRUE))
    /\ UNCHANGED <<timer, reading, cancelling>>

CatalogLoaded(t) ==
    /\ t \in catalogs
    /\ catalogs' = catalogs \ {t}
    /\ Leave(IF Valid(client, t) THEN Open(client, t) ELSE client)
    /\ UNCHANGED <<lookups, timer, reading, cancelling, countVars>>

(* The socket is opened without the list, even if the report overflowed. *)
CatalogFails(t) ==
    /\ t \in catalogs
    /\ Fault
    /\ catalogs' = catalogs \ {t}
    /\ Leave(IF Valid(client, t) THEN Open(Emit(client, "error"), t) ELSE client)
    /\ UNCHANGED <<lookups, timer, reading, cancelling>>

--------------------------------------------------------------------------------
(* The WebSocket's callbacks. A cancelled socket may have one on its way. *)

Move(c, s, phase) == [c EXCEPT !.sockets = (@ \ {s}) \cup {[s EXCEPT !.phase = phase]}]

Entered(c, t, same) ==
    LET d == StartHeartbeat([c EXCEPT !.socket = t], t, same)
    IN  IF setup.confirm THEN [d EXCEPT !.timers["deadline"] = t, !.connected = FALSE]
        ELSE Emit(Complete([d EXCEPT !.connected = TRUE, !.retries = 0], "value"), "connected")

OnOpenUnchecked(s, same) ==
    /\ s.phase = "connecting"
    /\ Leave(Entered(Move(client, s, "open"), s.token, same))
    /\ UNCHANGED <<threadVars, countVars>>
OnOpen(s, same) ==
    /\ s.phase = "connecting"
    /\ LET c == Move(client, s, "open")
       IN  Leave(IF Valid(c, s.token) THEN Entered(c, s.token, same)
                 ELSE CancelSocket(c, s.token))
    /\ UNCHANGED <<threadVars, countVars>>

(* The room entry cannot be sent. *)
OnOpenFails(s) ==
    /\ s.phase = "connecting" /\ Valid(client, s.token)
    /\ Fault
    /\ LET c == [Move(client, s, "open") EXCEPT !.socket = s.token]
       IN  Leave(Fail(c, s.token, TRUE))
    /\ UNCHANGED threadVars

(* onClosed and onFailure. The end of a cancelled socket is no fault. *)
OnEnd(s) ==
    /\ \/ s.cancelled /\ UNCHANGED countVars
       \/ ~s.cancelled /\ Fault
    /\ Leave(Fail([client EXCEPT !.sockets = @ \ {s}], s.token, TRUE))
    /\ UNCHANGED threadVars

--------------------------------------------------------------------------------
(* receive(): the first check, then a decoded frame outside the monitor.   *)

ReceiveStarts(s) ==
    /\ s.phase = "open" /\ s.token \notin reading
    /\ Valid(client, s.token) /\ client.socket = s.token
    /\ batches < MaxBatches
    /\ batches' = batches + 1
    /\ reading' = reading \cup {s.token}
    /\ UNCHANGED <<setup, client, lookups, catalogs, timer, cancelling, calls, faults,
                   historyVars>>

(* A frame that is too large or cannot be decoded is reported, whatever    *)
(* the client does by then.                                                *)
ReceiveMalformed(t) ==
    /\ t \in reading
    /\ reading' = reading \ {t}
    /\ Leave(EmitFrom(client, "error", t))
    /\ UNCHANGED <<lookups, catalogs, timer, cancelling, countVars>>

AckFails(t) ==
    /\ t \in reading
    /\ Fault
    /\ reading' = reading \ {t}
    /\ Leave(Fail(client, t, TRUE))
    /\ UNCHANGED <<lookups, catalogs, timer, cancelling>>

Confirmed(c) ==
    IF setup.confirm /\ ~c.connected
    THEN Emit(Complete([c EXCEPT !.timers["deadline"] = NoToken, !.retries = 0,
                                 !.connected = TRUE], "value"), "connected")
    ELSE c

(* The batch may ask for a heartbeat, of the same interval as the one that *)
(* runs or of another. It is armed even if telling of the confirmation has *)
(* just overflowed and stopped everything: then it is a stray one.         *)
Beats == {"none", "same", "other"}
Beaten(c, t, beat) ==
    LET d == StartHeartbeat(c, t, beat = "same")
    IN  IF beat = "none" THEN c ELSE IF Overflowed(c) THEN [d EXCEPT !.stray = {t}] ELSE d

(* The batch is acknowledged if it asks to be, and its messages emitted. *)
ApplyUnchecked(t, n, beat) ==
    /\ t \in reading
    /\ reading' = reading \ {t}
    /\ Leave(EmitBatch(Beaten(Confirmed(client), t, beat), n, t))
    /\ UNCHANGED <<lookups, catalogs, timer, cancelling, countVars>>
Apply(t, n, beat) ==
    /\ t \in reading
    /\ reading' = reading \ {t}
    /\ Leave(IF Valid(client, t) THEN EmitBatch(Beaten(Confirmed(client), t, beat), n, t)
             ELSE client)
    /\ UNCHANGED <<lookups, catalogs, timer, cancelling, countVars>>

--------------------------------------------------------------------------------
(* The timer thread: a task that was started cannot be cancelled any more. *)
(* Of the heartbeats only the ones that cannot be sent do anything.        *)

TimerStarts(k) ==
    /\ timer.kind = "none" /\ ~client.closed
    /\ client.timers[k] # NoToken
    /\ timer' = [kind |-> k, token |-> client.timers[k]]
    /\ \/ /\ k = "heartbeat" /\ Fault
          /\ UNCHANGED client
       \/ /\ k # "heartbeat"
          /\ client' = [client EXCEPT !.timers[k] = NoToken]
          /\ UNCHANGED countVars
    /\ UNCHANGED <<setup, lookups, catalogs, reading, cancelling, historyVars>>

TimerEnds ==
    /\ timer' = [kind |-> "none", token |-> 0]
    /\ UNCHANGED <<catalogs, reading, cancelling>>

HeartbeatRuns ==
    /\ timer.kind = "heartbeat"
    /\ Leave(Fail(client, timer.token, TRUE))
    /\ TimerEnds
    /\ UNCHANGED <<lookups, countVars>>

DeadlineRuns ==
    /\ timer.kind = "deadline"
    /\ Leave(IF client.connected THEN client ELSE Fail(client, timer.token, TRUE))
    /\ TimerEnds
    /\ UNCHANGED <<lookups, countVars>>

ReconnectRuns ==
    /\ timer.kind = "reconnect"
    /\ \/ Valid(client, timer.token) /\ Request(client, timer.token)
       \/ ~Valid(client, timer.token) /\ Leave(client) /\ UNCHANGED <<lookups, countVars>>
    /\ TimerEnds

--------------------------------------------------------------------------------
(* The executor of the callbacks: one thread, which takes no monitor. A    *)
(* callback is one step: what happens while it runs may as well happen     *)
(* while it still waits.                                                   *)

Current(task) ==
    /\ ~client.closed /\ task.token = client.generation
    /\ task.name = "overload" \/ ~client.stopped

(* A listener's exception becomes an error event of the same connection. *)
TakeTask ==
    /\ client.queue # <<>>
    /\ LET task == Head(client.queue)
           c == [client EXCEPT !.queue = Tail(@)]
       IN  /\ \/ client' = c /\ UNCHANGED calls
              \/ /\ Current(task) /\ task.name \notin {"error", "overload"}
                 /\ MayAct
                 /\ calls' = calls + 1
                 /\ client' = Emit(c, "error")
           /\ IF Current(task) /\ task.name \in {"connected", "disconnected"}
              THEN told' = task.name /\ excused' = FALSE
              ELSE UNCHANGED <<told, excused>>
           /\ unreported' = (unreported /\ ~(Current(task) /\ task.name = "overload"))
    /\ UNCHANGED <<setup, threadVars, faults, batches>>

--------------------------------------------------------------------------------
Application ==
    \/ Connect \/ DisconnectCall \/ CloseCall
    \/ \E f \in 1 .. MaxConnects : CancelFuture(f)

Pool ==
    \/ \E f \in cancelling : CancelHandler(f)
    \/ \E r \in client.completing : Completion(r)

Answers ==
    \/ \E t \in lookups : \/ AcquisitionFails(t) \/ CatalogThrows(t)
                          \/ \E live \in BOOLEAN : Acquired(t, live)
    \/ \E t \in catalogs : CatalogLoaded(t) \/ CatalogFails(t)
    \/ \E t \in lookups \cup catalogs : OpenThrows(t)

Handshake ==
    \E s \in client.sockets : OnOpenFails(s) \/ \E same \in BOOLEAN : OnOpen(s, same)

Frames ==
    \E t \in reading :
        \/ ReceiveMalformed(t) \/ AckFails(t)
        \/ \E n \in 0 .. MaxBatch : \E beat \in Beats : Apply(t, n, beat)

Network ==
    \/ Answers \/ Handshake \/ Frames
    \/ \E s \in client.sockets : OnEnd(s) \/ ReceiveStarts(s)

TimerThread ==
    \/ \E k \in Timers : TimerStarts(k)
    \/ HeartbeatRuns \/ DeadlineRuns \/ ReconnectRuns

JavaNext == Application \/ Pool \/ Network \/ TimerThread \/ TakeTask

(* Threads run, callbacks return, requests and handshakes end (OkHttp's    *)
(* call timeout): something of this happens as long as something can.      *)
(* Nothing makes a server send or close, or the application call.          *)
Internal == Pool \/ Answers \/ Handshake \/ Frames \/ TimerThread \/ TakeTask

JavaSpec == JavaInit /\ [][JavaNext]_javaVars

--------------------------------------------------------------------------------
(* Properties *)

(* A socket that is open and not cancelled, and a heartbeat or a deadline  *)
(* that is armed, belong to the connection the client is in: none outlives *)
(* a disconnect(), a failure, an overflow or close(), whichever callback   *)
(* was waiting for the monitor meanwhile; and an open socket has a         *)
(* heartbeat. There is one exception, the stray heartbeat of a connection  *)
(* whose own "connected" overflowed: it stays, and a later connection may  *)
(* do with it, and send none. A closed client has no callback left to run. *)
OwnedHandles(c) ==
    /\ \A s \in c.sockets :
           s.phase = "open" /\ ~s.cancelled =>
               /\ Valid(c, s.token) /\ c.socket = s.token
               /\ c.timers["heartbeat"] \in {s.token} \cup c.stray
    /\ c.timers["heartbeat"] \notin {NoToken} \cup c.stray => Valid(c, c.timers["heartbeat"])
    /\ c.timers["deadline"] # NoToken => Valid(c, c.timers["deadline"])
    /\ c.closed => c.queue = <<>>

(* A message is called back in the connection it was received in: the      *)
(* second check of receive() and the token of emit() keep a batch that was *)
(* being decoded out of the next connection.                               *)
FromThisConnection ==
    \A i \in DOMAIN client.queue :
        LET task == client.queue[i]
        IN  Current(task) /\ task.name = "event" => task.from = task.token

(* What a connection holds and what it delivers are its own. *)
Ownership == OwnedHandles(client) /\ FromThisConnection

(* An application that was told "connected" is told "disconnected" before  *)
(* it is told "connected" again, however many attempts fail in between,    *)
(* unless it acted itself (connect() after a failure that was final, and   *)
(* not yet called back, makes its callbacks stale) or delivery overflowed. *)
ToldInTurn ==
    [][TakeTask /\ Current(Head(client.queue)) /\ Head(client.queue).name = "connected"
           => told # "connected" \/ excused]_javaVars

(* "connect() ... resolves after WebSocket open and EnterRoom, or with     *)
(* OFFLINE" (sdk/java/README.md): a future is completed, failed or         *)
(* cancelled in the end, whatever fails, overflows or is cancelled, unless *)
(* its attempt was dropped with the request for the gift list.             *)
FuturesComplete ==
    \A f \in 1 .. MaxConnects :
        client.future[f] = "open"
            ~> client.future[f] # "open" \/ \E t \in client.dropped : Valid(client, t)

(* "overload stops the connection" (docs/EMBEDDED_JAVA.md), and the        *)
(* application is told so, unless it connects, disconnects, cancels or     *)
(* closes first.                                                           *)
OverloadTold == unreported ~> ~unreported

(* Whoever waits for the client learns how it went. *)
Settles == FuturesComplete /\ OverloadTold
================================================================================
