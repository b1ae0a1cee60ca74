------------------------------ MODULE TicketClient ------------------------------
(***************************************************************************)
(* The client that connects with a broker's ticket, class TikTokLive of    *)
(* packages/live-sdk/src/client.ts, with its broker request (api.ts), its  *)
(* socket (transport.ts) and its retry rules (reconnect.ts, errors.ts).    *)
(*                                                                         *)
(* A flow is one #connectFromApi; it, the promise connect() returns and    *)
(* the socket it opens are named by the generation that started it. As in  *)
(* LiveClient, one callback runs at a time and promise continuations run   *)
(* before the next network answer or timer (Quiet); user code runs in the  *)
(* listeners (frame) and between callbacks. Delays are left out but for    *)
(* their order: a timer armed with the broker's retryAfterMs fires after   *)
(* the penalty it stands for has passed.                                   *)
(***************************************************************************)
EXTENDS Integers

CONSTANTS
    FetchGifts,      \* options.fetchGifts
    Attempts,        \* options.reconnect.attempts
    MaxGen           \* bound: the last generation a connect() may start

ASSUME TicketAssumption ==
    FetchGifts \in BOOLEAN /\ Attempts \in Nat /\ MaxGen \in Nat

VARIABLES
    closing, gen, connecting,                     \* #closing, #generation, #connecting
    status, socketOpen, heartbeat, socket, cancelOpen,
    attempt, timer, covers,                       \* #attempt, #reconnectTimer, and whether it was
                                                  \* armed with retryAfterMs
    flow, wire, reconn,                           \* flows, sockets, #reconnect() calls
    frame,                                        \* the listener that is running, and for whom
    penalty,                                      \* the broker's latest answer to a flow that was
                                                  \* not cancelled asked for a delay that has not
                                                  \* passed
    listenersConnect,                             \* the user connects from inside the client's
                                                  \* own steps: in 'offline', 'disconnected' and
                                                  \* 'error' listeners, or in a continuation that
                                                  \* runs before the client's
    auto, told                                    \* history: flows the client started itself;
                                                  \* whether the user knows, or holds a promise
                                                  \* that will tell, how the reconnecting ended

ownerVars == <<closing, gen, connecting>>
socketVars == <<status, socketOpen, heartbeat, socket, cancelOpen>>
retryVars == <<attempt, timer, covers, penalty>>
historyVars == <<listenersConnect, auto, told>>
vars == <<ownerVars, socketVars, retryVars, flow, wire, reconn, frame, historyVars>>

Gens == 1 .. MaxGen
None == 0

(* How a flow ends. isRetryable and retryAfterMs of the error it throws:   *)
(* "error" and "cancelled" are retryable, "limited" is retryable after a   *)
(* delay, "fatal" is not retryable.                                        *)
Failed == {"error", "limited", "fatal", "cancelled"}
Settled == Failed \cup {"ok", "offline"}
IsRetryable(outcome) == outcome # "fatal"

NoFrame == [at |-> "none", g |-> None]
Listener(name, g) == [at |-> name, g |-> g]

Init ==
    /\ closing = FALSE /\ gen = 0 /\ connecting = None
    /\ status = "offline" /\ socketOpen = FALSE /\ heartbeat = FALSE
    /\ socket = None /\ cancelOpen = None
    /\ attempt = 0 /\ timer = None /\ covers = FALSE /\ penalty = FALSE
    /\ flow = [g \in Gens |-> "none"]
    /\ wire = [g \in Gens |-> "none"]
    /\ reconn = [g \in Gens |-> FALSE]
    /\ frame = NoFrame
    /\ listenersConnect \in BOOLEAN
    /\ auto = {} /\ told = FALSE

Connected == socketOpen /\ status = "live"

(* #checkGeneration(g) throws. *)
Stale(g) == closing \/ g # gen

Quiet == frame = NoFrame /\ \A g \in Gens : reconn[g] => flow[g] \notin Settled

(* The promise of flow g settles, and connect() stops sharing it. *)
Settle(g, outcome) ==
    /\ flow' = [flow EXCEPT ![g] = outcome]
    /\ connecting' = IF connecting = g THEN None ELSE connecting

Advance(g, stage) ==
    /\ flow' = [flow EXCEPT ![g] = stage]
    /\ UNCHANGED connecting

--------------------------------------------------------------------------------
(* connect(), disconnect() *)

(* connect() when nothing is up or under way: the broker is asked. *)
StartKeepsTimer ==
    /\ gen < MaxGen
    /\ closing' = FALSE
    /\ gen' = gen + 1
    /\ connecting' = gen + 1
    /\ flow' = [flow EXCEPT ![gen + 1] = "api"]
    /\ UNCHANGED <<timer, covers>>
StartConnect ==
    /\ gen < MaxGen
    /\ closing' = FALSE
    /\ timer' = None /\ covers' = FALSE
    /\ gen' = gen + 1
    /\ connecting' = gen + 1
    /\ flow' = [flow EXCEPT ![gen + 1] = "api"]

(* connect() by the user; one that finds the client connected or           *)
(* connecting changes nothing.                                             *)
Connect ==
    /\ ~Connected /\ connecting = None
    /\ frame.at \in {"offline", "disconnected", "error", "gifts"} => listenersConnect
    /\ frame = NoFrame => listenersConnect \/ Quiet
    /\ StartConnect
    /\ told' = TRUE
    /\ UNCHANGED <<socketVars, attempt, penalty, wire, reconn, frame, listenersConnect, auto>>

(* disconnect(), with the open it cancels. *)
Drop(cancelled, outcome) ==
    /\ closing' = TRUE
    /\ gen' = gen + 1
    /\ connecting' = None
    /\ flow' = [g \in Gens |-> IF g = cancelled /\ flow[g] = "opening" THEN outcome ELSE flow[g]]
    /\ cancelOpen' = None
    /\ socketOpen' = FALSE
    /\ timer' = None /\ covers' = FALSE
    /\ heartbeat' = FALSE
    /\ wire' = [g \in Gens |-> IF g = socket /\ wire[g] # "closed" THEN "closing" ELSE wire[g]]
    /\ socket' = None

Disconnect ==
    /\ gen < MaxGen
    /\ Drop(cancelOpen, "cancelled")
    /\ UNCHANGED <<status, attempt, penalty, reconn, frame, historyVars>>

--------------------------------------------------------------------------------
(* #connectFromApi *)

AfterTicket == IF FetchGifts THEN "gifts" ELSE "create"

(* The broker answers, or the request fails (disconnect() aborts it). A    *)
(* live answer whose descriptor does not validate is a ProtocolError       *)
(* ("fatal").                                                              *)
Ticket(g, answer) ==
    /\ Quiet
    /\ flow[g] = "api"
    /\ \/ /\ answer \in Failed
          /\ Settle(g, answer) /\ UNCHANGED <<status, heartbeat, frame>>
       \/ /\ answer \notin Failed /\ Stale(g)
          /\ Settle(g, "cancelled") /\ UNCHANGED <<status, heartbeat, frame>>
       \/ /\ answer = "offline" /\ ~Stale(g)
          /\ status' = "offline" /\ heartbeat' = FALSE
          /\ frame' = Listener("offline", g)
          /\ UNCHANGED <<flow, connecting>>
       \/ /\ answer = "live" /\ ~Stale(g)
          /\ status' = "live" /\ Advance(g, AfterTicket) /\ UNCHANGED <<heartbeat, frame>>
    /\ penalty' = IF Stale(g) THEN penalty
                  ELSE answer = "limited" \/ (penalty /\ answer \in Failed)
    /\ UNCHANGED <<closing, gen, socketOpen, socket, cancelOpen, attempt, timer, covers, wire,
                   reconn, historyVars>>

(* The 'offline' listeners return and the flow resolves with the state.    *)
OfflineReturns ==
    /\ frame.at = "offline"
    /\ frame' = NoFrame
    /\ Settle(frame.g, "offline")
    /\ UNCHANGED <<closing, gen, socketVars, retryVars, wire, reconn, historyVars>>

(* giftList answers or fails; the failure runs the 'error' listeners.      *)
Gifts(g, ok) ==
    /\ Quiet
    /\ flow[g] = "gifts"
    /\ IF Stale(g) THEN Settle(g, "cancelled") /\ UNCHANGED frame
       ELSE IF ok THEN Advance(g, "create") /\ UNCHANGED frame
       ELSE frame' = Listener("gifts", g) /\ UNCHANGED <<flow, connecting>>
    /\ UNCHANGED <<closing, gen, socketVars, retryVars, wire, reconn, historyVars>>

GiftsErrorReturns ==
    /\ frame.at = "gifts"
    /\ frame' = NoFrame
    /\ IF Stale(frame.g) THEN Settle(frame.g, "cancelled") ELSE Advance(frame.g, "create")
    /\ UNCHANGED <<closing, gen, socketVars, retryVars, wire, reconn, historyVars>>

(* #open starts: the constructor of the socket, which is user code when    *)
(* WebSocketImpl is given, runs.                                           *)
CreateSocket(g) ==
    /\ Quiet
    /\ flow[g] = "create"
    /\ IF Stale(g) THEN Settle(g, "cancelled") /\ UNCHANGED frame
       ELSE frame' = Listener("socket", g) /\ UNCHANGED <<flow, connecting>>
    /\ UNCHANGED <<closing, gen, socketVars, retryVars, wire, reconn, historyVars>>

(* The constructor throws, or returns a socket the client may still want.  *)
SocketCreatedUnchecked(throws) ==
    LET g == frame.g
    IN  /\ frame.at = "socket"
        /\ frame' = NoFrame
        /\ IF throws
           THEN Settle(g, "error") /\ UNCHANGED <<wire, socket, cancelOpen>>
           ELSE /\ Advance(g, "opening")
                /\ wire' = [wire EXCEPT ![g] = "connecting"]
                /\ socket' = g /\ cancelOpen' = g
        /\ UNCHANGED <<closing, gen, status, socketOpen, heartbeat, retryVars, reconn,
                       historyVars>>
SocketCreated(throws) ==
    LET g == frame.g
    IN  /\ frame.at = "socket"
        /\ frame' = NoFrame
        /\ IF throws
           THEN Settle(g, "error") /\ UNCHANGED <<wire, socket, cancelOpen>>
           ELSE IF Stale(g)
           THEN /\ Settle(g, "cancelled")
                /\ wire' = [wire EXCEPT ![g] = "closing"]
                /\ UNCHANGED <<socket, cancelOpen>>
           ELSE /\ Advance(g, "opening")
                /\ wire' = [wire EXCEPT ![g] = "connecting"]
                /\ socket' = g /\ cancelOpen' = g
        /\ UNCHANGED <<closing, gen, status, socketOpen, heartbeat, retryVars, reconn,
                       historyVars>>
--------------------------------------------------------------------------------
(* The socket *)

(* 'open' of a socket whose promise is pending: the enter-room frame is    *)
(* sent, its send throws, or it meets a full write buffer (#send then      *)
(* forgets #cancelOpen, disconnects, and the listener rejects).            *)
SocketOpens(g, sent) ==
    /\ Quiet
    /\ wire[g] = "connecting" /\ flow[g] = "opening" /\ socket = g /\ ~Stale(g)
    /\ \/ /\ sent = "ok"
          /\ wire' = [wire EXCEPT ![g] = "open"]
          /\ heartbeat' = TRUE /\ status' = "live" /\ socketOpen' = TRUE
          /\ attempt' = 0
          /\ Settle(g, "ok")
          /\ cancelOpen' = None
          /\ UNCHANGED <<closing, gen, socket, timer, covers, penalty>>
       \/ /\ sent = "throws"
          /\ wire' = [wire EXCEPT ![g] = "closing"]
          /\ Settle(g, "error")
          /\ UNCHANGED <<closing, gen, socketVars, attempt, timer, covers, penalty>>
       \/ /\ sent = "overflow"
          /\ Drop(g, "error") /\ UNCHANGED <<status, attempt, penalty>>
    /\ UNCHANGED <<reconn, frame, historyVars>>

(* An acknowledgement or a heartbeat meets a full write buffer: #send      *)
(* disconnects and the error is emitted.                                   *)
WriteOverflows ==
    /\ Quiet
    /\ Connected
    /\ Drop(None, "error")
    /\ told' = TRUE
    /\ UNCHANGED <<status, attempt, penalty, reconn, frame, listenersConnect, auto>>

(* The socket did not open within OPEN_TIMEOUT_MS. *)
OpenTimeout(g) ==
    /\ Quiet
    /\ flow[g] = "opening"
    /\ wire' = [wire EXCEPT ![g] = "closing"]
    /\ Settle(g, "error")
    /\ UNCHANGED <<closing, gen, socketVars, retryVars, reconn, frame, historyVars>>

(* 'close' on a socket that is no longer the client's. *)
StaleSocketCloses(g) ==
    /\ Quiet
    /\ wire[g] = "closing" /\ socket # g
    /\ wire' = [wire EXCEPT ![g] = "closed"]
    /\ UNCHANGED <<ownerVars, socketVars, retryVars, flow, reconn, frame, historyVars>>

(* 'close' before 'open'. *)
HandshakeFails(g) ==
    /\ Quiet
    /\ socket = g
    /\ wire[g] \in {"connecting", "closing"}
    /\ wire' = [wire EXCEPT ![g] = "closed"]
    /\ socket' = None /\ cancelOpen' = None /\ socketOpen' = FALSE /\ heartbeat' = FALSE
    /\ IF flow[g] = "opening" THEN Settle(g, "error") ELSE UNCHANGED <<flow, connecting>>
    /\ UNCHANGED <<closing, gen, status, retryVars, reconn, frame, historyVars>>

(* 'close' after 'open': the 'disconnected' listeners run, and             *)
(* #scheduleReconnect after them (DisconnectedReturns).                    *)
SocketCloses(g) ==
    /\ Quiet
    /\ socket = g
    /\ wire[g] = "open"
    /\ wire' = [wire EXCEPT ![g] = "closed"]
    /\ socket' = None /\ cancelOpen' = None /\ socketOpen' = FALSE /\ heartbeat' = FALSE
    /\ status' = "live"
    /\ frame' = Listener("disconnected", g)
    /\ told' = FALSE
    /\ UNCHANGED <<ownerVars, retryVars, flow, reconn, listenersConnect, auto>>

--------------------------------------------------------------------------------
(* Reconnecting *)

(* #scheduleReconnect: nothing when closing or armed, the final error when *)
(* the budget is spent, else the 'reconnecting' listeners; the delay of    *)
(* the timer they precede covers retryAfterMs when it is given.            *)
ScheduleIgnoresRetryAfter(retryAfter) ==
    /\ IF closing \/ timer # None \/ attempt >= Attempts
       THEN frame' = NoFrame /\ UNCHANGED <<attempt, covers>>
       ELSE /\ frame' = Listener("reconnecting", gen)
            /\ attempt' = attempt + 1
            /\ covers' = FALSE
    /\ told' = (told \/ (~closing /\ timer = None /\ attempt >= Attempts))
ScheduleReconnect(retryAfter) ==
    /\ IF closing \/ timer # None \/ attempt >= Attempts
       THEN frame' = NoFrame /\ UNCHANGED <<attempt, covers>>
       ELSE /\ frame' = Listener("reconnecting", gen)
            /\ attempt' = attempt + 1
            /\ covers' = retryAfter
    /\ told' = (told \/ (~closing /\ timer = None /\ attempt >= Attempts))
DisconnectedReturns ==
    /\ frame.at = "disconnected"
    /\ ScheduleReconnect(FALSE)
    /\ UNCHANGED <<ownerVars, socketVars, timer, penalty, flow, wire, reconn, listenersConnect,
                   auto>>

(* The 'reconnecting' listeners return: the timer is armed unless one of   *)
(* them connected or disconnected.                                         *)
ArmNever ==
    /\ frame.at = "reconnecting"
    /\ frame' = NoFrame
    /\ UNCHANGED <<ownerVars, socketVars, retryVars, flow, wire, reconn, historyVars>>
ArmTimer ==
    /\ frame.at = "reconnecting"
    /\ frame' = NoFrame
    /\ timer' = IF Stale(frame.g) THEN timer ELSE frame.g
    /\ UNCHANGED <<ownerVars, socketVars, attempt, covers, penalty, flow, wire, reconn,
                   historyVars>>
(* The timer fires; #reconnect calls connect() and awaits its promise,     *)
(* which is a running one, or resolved when the client is connected.       *)
TimerFires ==
    /\ Quiet
    /\ timer # None
    /\ covers => ~penalty
    /\ \/ /\ Stale(timer) \/ Connected
          /\ timer' = None /\ covers' = FALSE
          /\ UNCHANGED <<ownerVars, flow, reconn, auto>>
       \/ /\ ~Stale(timer) /\ ~Connected /\ connecting # None
          /\ timer' = None /\ covers' = FALSE
          /\ reconn' = [reconn EXCEPT ![connecting] = TRUE]
          /\ UNCHANGED <<ownerVars, flow, auto>>
       \/ /\ ~Stale(timer) /\ ~Connected /\ connecting = None
          /\ StartConnect
          /\ reconn' = [reconn EXCEPT ![gen + 1] = TRUE]
          /\ auto' = auto \cup {gen + 1}
    /\ UNCHANGED <<socketVars, attempt, penalty, wire, frame, listenersConnect, told>>

(* #reconnect resumes. After an offline answer it schedules again without  *)
(* comparing generations; after a failure of the current generation it     *)
(* runs the 'error' listeners first.                                       *)
ReconnectResumes(g) ==
    /\ frame = NoFrame
    /\ reconn[g] /\ flow[g] \in Settled
    /\ reconn' = [reconn EXCEPT ![g] = FALSE]
    /\ \/ /\ flow[g] = "offline" /\ ~closing
          /\ ScheduleReconnect(FALSE)
       \/ /\ flow[g] = "ok" \/ (flow[g] = "offline" /\ closing) \/ (flow[g] \in Failed /\ Stale(g))
          /\ UNCHANGED <<frame, attempt, covers, told>>
       \/ /\ flow[g] \in Failed /\ ~Stale(g)
          /\ frame' = Listener("error", g)
          /\ told' = (told \/ ~IsRetryable(flow[g]))
          /\ UNCHANGED <<attempt, covers>>
    /\ UNCHANGED <<ownerVars, socketVars, timer, penalty, flow, wire, listenersConnect, auto>>

(* The 'error' listeners return: a retryable failure is retried.           *)
ErrorReturns ==
    /\ frame.at = "error"
    /\ IF ~closing /\ IsRetryable(flow[frame.g])
       THEN ScheduleReconnect(flow[frame.g] = "limited")
       ELSE frame' = NoFrame /\ UNCHANGED <<attempt, covers, told>>
    /\ UNCHANGED <<ownerVars, socketVars, timer, penalty, flow, wire, reconn, listenersConnect,
                   auto>>

(* retryAfterMs passes. *)
PenaltyPasses ==
    /\ Quiet
    /\ penalty
    /\ penalty' = FALSE
    /\ UNCHANGED <<ownerVars, socketVars, attempt, timer, covers, flow, wire, reconn, frame,
                   historyVars>>

--------------------------------------------------------------------------------

Answers == {"live", "offline", "error", "limited", "fatal"}
Sends == {"ok", "throws", "overflow"}

(* What the program, its timers and the bounded requests of the network do *)
(* by themselves.                                                          *)
Progress ==
    \/ \E g \in Gens :
         \/ \E answer \in Answers : Ticket(g, answer)
         \/ \E ok \in BOOLEAN : Gifts(g, ok)
         \/ CreateSocket(g)
         \/ \E sent \in Sends : SocketOpens(g, sent)
         \/ OpenTimeout(g)
         \/ StaleSocketCloses(g)
         \/ HandshakeFails(g)
         \/ ReconnectResumes(g)
    \/ \E throws \in BOOLEAN : SocketCreated(throws)
    \/ OfflineReturns
    \/ GiftsErrorReturns
    \/ DisconnectedReturns
    \/ ErrorReturns
    \/ ArmTimer
    \/ TimerFires
    \/ PenaltyPasses

Next ==
    \/ Progress
    \/ Connect
    \/ Disconnect
    \/ WriteOverflows
    \/ \E g \in Gens : SocketCloses(g)

Spec == Init /\ [][Next]_vars

(* Listeners return, continuations run, timers fire and every request has  *)
(* a deadline. Nothing is assumed of the user or of an open connection.    *)
FairSpec == Spec /\ WF_vars(Progress)

--------------------------------------------------------------------------------
(* Properties *)

TypeOK ==
    /\ closing \in BOOLEAN /\ gen \in Nat /\ connecting \in 0 .. MaxGen
    /\ status \in {"live", "offline"} /\ socketOpen \in BOOLEAN /\ heartbeat \in BOOLEAN
    /\ socket \in 0 .. MaxGen /\ cancelOpen \in 0 .. MaxGen
    /\ attempt \in 0 .. Attempts /\ timer \in 0 .. MaxGen
    /\ covers \in BOOLEAN /\ penalty \in BOOLEAN
    /\ flow \in [Gens -> {"none", "api", "gifts", "create", "opening"} \cup Settled]
    /\ wire \in [Gens -> {"none", "connecting", "open", "closing", "closed"}]
    /\ reconn \in [Gens -> BOOLEAN]
    /\ frame \in [at : {"none", "offline", "gifts", "socket", "disconnected", "reconnecting",
                        "error"}, g : 0 .. MaxGen]
    /\ listenersConnect \in BOOLEAN /\ auto \subseteq Gens /\ told \in BOOLEAN

(* At most one retry loop is alive: an armed timer belongs to the current  *)
(* generation and no #reconnect() awaits that generation, whatever the     *)
(* listeners do; two loops would each spend the budget and ask the broker. *)
OneRetryLoop == timer # None => timer = gen /\ ~reconn[gen]

(* A client that is closed, or that reports 'connected', is what it says:  *)
(* every live socket is the one disconnect() will close; connected means   *)
(* the current generation's socket is open with its heartbeat; and after   *)
(* disconnect() no socket, heartbeat, timer or pending open is left that   *)
(* could bring it back ("Disconnect aborts pending broker/gift HTTP        *)
(* requests, invalidates stale sockets and clears ... timers").            *)
Ownership ==
    /\ TypeOK /\ OneRetryLoop
    /\ \A g \in Gens : wire[g] \in {"connecting", "open"} => socket = g
    /\ Connected => ~closing /\ socket = gen /\ wire[gen] = "open"
    /\ heartbeat <=> Connected
    /\ closing => /\ socket = None /\ timer = None /\ connecting = None /\ cancelOpen = None
                  /\ \A g \in Gens : flow[g] # "opening"

(* The client never asks the broker again on its own before retryAfterMs   *)
(* of the latest answer has passed (Math.max with minDelayMs), unless the  *)
(* user connects from inside the client's own steps.                       *)
RetryAfterHonoured ==
    [][~listenersConnect => \A g \in auto' \ auto : ~penalty]_vars

(* A connection that is lost does not leave the client hanging: it is      *)
(* connected again, closed, or has told the user why it stopped trying.    *)
Resolves == frame.at = "disconnected" ~> Connected \/ closing \/ told \/ gen >= MaxGen
================================================================================
