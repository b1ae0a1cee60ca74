------------------------------- MODULE LiveClient -------------------------------
(***************************************************************************)
(* The connection lifecycle of the Node client, class TikTokLive of        *)
(* packages/tiktok-live/src/client.ts: connect() and disconnect(), the     *)
(* staged #connect, the guest identity and its one refresh, the socket's   *)
(* listeners, and the reconnect loop.                                      *)
(*                                                                         *)
(* Every connect() that does not join another one starts a flow and raises *)
(* #generation, so a flow, the promise connect() returns, and the socket   *)
(* the flow opens are all named by the generation that started them. A     *)
(* cancelled flow keeps running until its next #checkGeneration, so        *)
(* several may be under way.                                               *)
(*                                                                         *)
(* JavaScript runs one callback at a time and drains promise continuations *)
(* before the next one: network answers, timers and socket events wait     *)
(* until the client is Quiet. User code runs in listeners (frame names the *)
(* one that is running), in continuations, and between callbacks: connect()*)
(* and disconnect() may come at any time.                                  *)
(***************************************************************************)
EXTENDS Integers, Sequences

CONSTANTS
    RoomGiven,         \* options.roomId was given
    FetchRoomInfo, FetchGifts,
    Attempts,          \* options.reconnect.attempts
    MaxGen             \* bound: the last generation a connect() may start

ASSUME ClientAssumption ==
    /\ {RoomGiven, FetchRoomInfo, FetchGifts} \subseteq BOOLEAN
    /\ Attempts \in Nat
    /\ MaxGen \in Nat

VARIABLES
    closing, gen, connecting,                \* #closing, #generation, #connecting
    connected, heartbeat, socket, cancelOpen,
    cookie, signer, guest, guestMode, refreshed,
                                             \* #options.cookie, the identity #signer was built
                                             \* for, #guestSession, #guestMode,
                                             \* #guestRefreshAttempted
    attempt, timer,                          \* #attempt, #reconnectTimer
    roomKnown,                               \* roomId is set
    flow, wire, boots, reconn,               \* flows, sockets, bootstraps, #reconnect() calls
    frame, armFor,                           \* the listener that is running, and the
                                             \* generation #scheduleReconnect captured
    listenersConnect,                        \* listeners of 'disconnected' and 'error' may call
                                             \* connect()
    auto, refusals, told                     \* history: flows the client started itself, the
                                             \* identities the server refused last, whether
                                             \* the user has been told, or holds a promise that will tell,
                                             \* how the reconnecting ended

ownerVars == <<closing, gen, connecting>>
socketVars == <<connected, heartbeat, socket, cancelOpen>>
identityVars == <<cookie, signer, guest, guestMode, refreshed>>
retryVars == <<attempt, timer, armFor>>
historyVars == <<listenersConnect, auto, refusals, told>>
vars == <<ownerVars, socketVars, identityVars, retryVars, roomKnown,
          flow, wire, boots, reconn, frame, historyVars>>

Gens == 1 .. MaxGen
None == 0                \* no flow, no socket, no bootstrap
NoIdentity == -1         \* an empty cookie, or no signer
SuppliedIdentity == 0    \* the supplied one; the i-th bootstrap yields identity i

Settled == {"ok", "refused", "error", "cancelled"}
NoFlow == [pc |-> "none", boot |-> None, identity |-> NoIdentity]

Init ==
    /\ closing = FALSE /\ gen = 0 /\ connecting = None
    /\ connected = FALSE /\ heartbeat = FALSE /\ socket = None /\ cancelOpen = None
    /\ cookie \in {SuppliedIdentity, NoIdentity}   \* supplied by the caller or the session file, or not
    /\ signer = NoIdentity /\ guest = None /\ guestMode = FALSE /\ refreshed = FALSE
    /\ attempt = 0 /\ timer = None
    /\ roomKnown = RoomGiven
    /\ flow = [g \in Gens |-> NoFlow]
    /\ wire = [g \in Gens |-> "none"]
    /\ boots = <<>>
    /\ reconn = [g \in Gens |-> NoFlow]
    /\ frame = "none" /\ armFor = 0
    /\ listenersConnect \in BOOLEAN
    /\ auto = {} /\ refusals = {} /\ told = FALSE

(* #checkGeneration(g) throws. *)
Stale(g) == closing \/ g # gen

BootDone(b) == boots[b].state # "pending"

Quiet ==
    /\ frame = "none"
    /\ \A g \in Gens :
         /\ flow[g].pc = "session" => flow[g].boot # None /\ ~BootDone(flow[g].boot)
         /\ reconn[g].pc \in {"await", "last"} => flow[g].pc \notin Settled
         /\ reconn[g].pc = "session" => ~BootDone(reconn[g].boot)

(* The promise of flow g settles; connect() stops sharing it. *)
Settle(g, outcome) ==
    /\ flow' = [flow EXCEPT ![g].pc = outcome]
    /\ connecting' = IF connecting = g THEN None ELSE connecting

Advance(g, stage) ==
    /\ flow' = [flow EXCEPT ![g].pc = stage]
    /\ UNCHANGED connecting

--------------------------------------------------------------------------------
(* connect(), disconnect() *)

(* The part of connect() that runs when nothing is up or under way, with   *)
(* the synchronous part of #ensureSession for an identity c.               *)
StartConnect(c) ==
    LET g == gen + 1
        bootstrap == c = NoIdentity /\ guest = None
        b == Len(boots) + 1
    IN  /\ gen < MaxGen
        /\ closing' = FALSE
        /\ timer' = None
        /\ gen' = g
        /\ connecting' = g
        /\ flow' = [flow EXCEPT ![g] =
                       [NoFlow EXCEPT !.pc = "session",
                                      !.boot = IF c # NoIdentity THEN None
                                               ELSE IF bootstrap THEN b ELSE guest]]
        /\ guest' = IF bootstrap THEN b ELSE guest
        /\ guestMode' = (guestMode \/ bootstrap)
        /\ boots' = IF bootstrap THEN Append(boots, [gen |-> g, state |-> "pending"])
                                 ELSE boots

(* connect() by the user; a connect() that finds the client connected or   *)
(* connecting changes nothing.                                             *)
Connect ==
    /\ ~connected /\ connecting = None
    /\ frame \in {"disconnected", "error"} => listenersConnect
    /\ StartConnect(cookie)
    /\ told' = TRUE
    /\ UNCHANGED <<socketVars, cookie, signer, refreshed, attempt, armFor, roomKnown, wire,
                   reconn, frame, auto, refusals, listenersConnect>>

(* disconnect(), with n generations spent: a send that fails on a full     *)
(* write buffer disconnects once in #send and once in its caller.          *)
DropLeavesSocket(n) ==
    /\ closing' = TRUE
    /\ guest' = None
    /\ gen' = gen + n
    /\ connecting' = None
    /\ timer' = None
    /\ cancelOpen' = None
    /\ heartbeat' = FALSE
    /\ UNCHANGED wire
    /\ socket' = None
    /\ connected' = FALSE
Drop(n) ==
    /\ closing' = TRUE
    /\ guest' = None
    /\ gen' = gen + n
    /\ connecting' = None
    /\ timer' = None
    /\ cancelOpen' = None
    /\ heartbeat' = FALSE
    /\ wire' = [g \in Gens |-> IF g = socket /\ wire[g] # "closed" THEN "closing" ELSE wire[g]]
    /\ socket' = None
    /\ connected' = FALSE

(* disconnect() by the user. #cancelOpen rejects an open that is pending.  *)
Disconnect ==
    /\ gen < MaxGen
    /\ Drop(1)
    /\ flow' = [g \in Gens |-> IF g = cancelOpen /\ flow[g].pc = "opening"
                               THEN [flow[g] EXCEPT !.pc = "cancelled"] ELSE flow[g]]
    /\ UNCHANGED <<cookie, signer, guestMode, refreshed, attempt, armFor, roomKnown, boots,
                   reconn, frame, historyVars>>

--------------------------------------------------------------------------------
(* #connect *)

(* bootstrapGuestSession answers; its .then stores the identity only for   *)
(* the generation that started it.                                         *)
Bootstrap(b, ok) ==
    LET kept == ok /\ ~Stale(boots[b].gen)
    IN  /\ Quiet
        /\ ~BootDone(b)
        /\ boots' = [boots EXCEPT ![b].state = IF kept THEN "stored"
                                               ELSE IF ok THEN "cancelled" ELSE "error"]
        /\ cookie' = IF kept THEN b ELSE cookie
        /\ guest' = IF ~kept /\ guest = b THEN None ELSE guest
        /\ UNCHANGED <<ownerVars, socketVars, signer, guestMode, refreshed, retryVars,
                       roomKnown, flow, wire, reconn, frame, historyVars>>

AfterInfo == IF FetchGifts THEN "gifts" ELSE "signer"
AfterRoom == IF FetchRoomInfo THEN "info" ELSE AfterInfo

(* await #ensureSession returns or throws. *)
SessionReady(g) ==
    LET b == flow[g].boot
    IN  /\ frame = "none"
        /\ flow[g].pc = "session"
        /\ b # None => BootDone(b)
        /\ IF b # None /\ boots[b].state # "stored" THEN Settle(g, boots[b].state)
           ELSE IF Stale(g) THEN Settle(g, "cancelled")
           ELSE Advance(g, IF roomKnown THEN AfterRoom ELSE "lookup")
        /\ UNCHANGED <<closing, gen, socketVars, identityVars, retryVars, roomKnown, wire,
                       boots, reconn, frame, historyVars>>

(* roomLookup answers: the creator is live, is not, or the request fails. *)
RoomLookup(g, live) ==
    /\ Quiet
    /\ flow[g].pc = "lookup"
    /\ IF Stale(g) THEN Settle(g, "cancelled")
       ELSE IF live THEN Advance(g, AfterRoom) ELSE Settle(g, "error")
    /\ roomKnown' = (roomKnown \/ (live /\ ~Stale(g)))
    /\ UNCHANGED <<closing, gen, socketVars, identityVars, retryVars, wire, boots,
                   reconn, frame, historyVars>>

(* roomInfo or giftList answers; their failures are swallowed. *)
Metadata(g) ==
    /\ Quiet
    /\ flow[g].pc \in {"info", "gifts"}
    /\ IF Stale(g) THEN Settle(g, "cancelled")
       ELSE Advance(g, IF flow[g].pc = "info" THEN AfterInfo ELSE "signer")
    /\ UNCHANGED <<closing, gen, socketVars, identityVars, retryVars, roomKnown, wire,
                   boots, reconn, frame, historyVars>>

(* #ensureSigner: a signer that is there is used; otherwise Signer.create  *)
(* starts with the identity of the moment.                                 *)
CreateSigner(g) ==
    /\ Quiet
    /\ flow[g].pc = "signer"
    /\ signer = NoIdentity
    /\ flow' = [flow EXCEPT ![g].pc = "creating", ![g].identity = cookie]
    /\ UNCHANGED <<ownerVars, socketVars, identityVars, retryVars, roomKnown, wire,
                   boots, reconn, frame, historyVars>>

(* The signer is there, or has just been created; the signer signs the     *)
(* URL, which is user code when the caller supplied the signer.            *)
SignerReady(g) ==
    /\ Quiet
    /\ \/ flow[g].pc = "signer" /\ signer # NoIdentity
       \/ flow[g].pc = "creating"
    /\ IF Stale(g) THEN Settle(g, "cancelled") /\ UNCHANGED <<frame, signer>>
       ELSE /\ Advance(g, "signing")
            /\ frame' = "signing"
            /\ signer' = IF flow[g].pc = "creating" THEN flow[g].identity ELSE signer
    /\ UNCHANGED <<closing, gen, socketVars, cookie, guest, guestMode, refreshed, retryVars,
                   roomKnown, wire, boots, reconn, historyVars>>

SignerFails(g) ==
    /\ Quiet
    /\ flow[g].pc = "creating"
    /\ Settle(g, "error")
    /\ UNCHANGED <<closing, gen, socketVars, identityVars, retryVars, roomKnown, wire,
                   boots, reconn, frame, historyVars>>

(* #open: the signature is there and the socket is created. Both sign()    *)
(* and the WebSocket constructor are user code: a generation that passed   *)
(* in the first opens no socket, one that passed in the second closes the  *)
(* socket it has just made, before anything listens to it.                 *)
Open(g) ==
    /\ frame = "signing"
    /\ flow[g].pc = "signing"
    /\ frame' = "none"
    /\ IF Stale(g)
       THEN /\ Settle(g, "cancelled")
            /\ \E made \in {"none", "closing"} : wire' = [wire EXCEPT ![g] = made]
            /\ UNCHANGED <<socket, cancelOpen>>
       ELSE /\ flow' = [flow EXCEPT ![g].pc = "opening", ![g].identity = cookie]
            /\ wire' = [wire EXCEPT ![g] = "connecting"]
            /\ socket' = g
            /\ cancelOpen' = g
            /\ UNCHANGED connecting
    /\ UNCHANGED <<closing, gen, connected, heartbeat, identityVars, retryVars, roomKnown,
                   boots, reconn, historyVars>>

(* sign() or the WebSocket constructor throws, whatever it did before. *)
OpenThrows(g) ==
    /\ frame = "signing"
    /\ flow[g].pc = "signing"
    /\ frame' = "none"
    /\ Settle(g, "error")
    /\ UNCHANGED <<closing, gen, socketVars, identityVars, retryVars, roomKnown, wire,
                   boots, reconn, historyVars>>

--------------------------------------------------------------------------------
(* The socket *)

(* 'open', and the enter-room frame is sent. *)
SocketOpens(g) ==
    /\ Quiet
    /\ wire[g] = "connecting" /\ flow[g].pc = "opening" /\ ~Stale(g) /\ socket = g
    /\ wire' = [wire EXCEPT ![g] = "open"]
    /\ heartbeat' = TRUE
    /\ connected' = TRUE
    /\ attempt' = 0
    /\ refreshed' = FALSE
    /\ Settle(g, "ok")
    /\ cancelOpen' = None
    /\ refusals' = refusals \ {flow[g].identity}
    /\ UNCHANGED <<closing, gen, socket, cookie, signer, guest, guestMode, timer, armFor, roomKnown,
                   boots, reconn, frame, auto, told, listenersConnect>>

(* 'open', but the enter-room frame cannot be sent. *)
EnterRoomFails(g) ==
    /\ Quiet
    /\ wire[g] = "connecting" /\ flow[g].pc = "opening" /\ ~Stale(g) /\ socket = g
    /\ \E n \in 1 .. 2 : Drop(n)
    /\ flow' = [flow EXCEPT ![g].pc = "error"]
    /\ UNCHANGED <<cookie, signer, guestMode, refreshed, attempt, armFor, roomKnown, boots, reconn,
                   frame, historyVars>>

(* A send on the open socket meets a full write buffer: an ACK or a        *)
(* heartbeat; #send disconnects and the error is emitted.                  *)
WriteOverflows ==
    /\ Quiet
    /\ connected
    /\ Drop(1)
    /\ UNCHANGED <<cookie, signer, guestMode, refreshed, attempt, armFor, roomKnown, flow, boots,
                   reconn, frame, historyVars>>

(* The socket did not open within OPEN_TIMEOUT_MS. *)
OpenTimeout(g) ==
    /\ Quiet
    /\ flow[g].pc = "opening"
    /\ wire' = [wire EXCEPT ![g] = "closing"]
    /\ Settle(g, "error")
    /\ UNCHANGED <<closing, gen, socketVars, identityVars, retryVars, roomKnown, boots,
                   reconn, frame, historyVars>>

(* 'close' on a socket that is no longer the client's. *)
StaleSocketCloses(g) ==
    /\ Quiet
    /\ wire[g] = "closing" /\ socket # g
    /\ wire' = [wire EXCEPT ![g] = "closed"]
    /\ UNCHANGED <<ownerVars, socketVars, identityVars, retryVars, roomKnown, flow, boots,
                   reconn, frame, historyVars>>

(* 'close' before 'open': the handshake was refused by the server, or the  *)
(* network failed; the listener cannot tell which. After a timeout the     *)
(* promise is settled and only the socket is forgotten.                    *)
HandshakeFails(g, cause) ==
    /\ Quiet
    /\ socket = g
    /\ wire[g] \in {"connecting", "closing"}
    /\ wire' = [wire EXCEPT ![g] = "closed"]
    /\ socket' = None /\ cancelOpen' = None /\ connected' = FALSE /\ heartbeat' = FALSE
    /\ IF flow[g].pc = "opening"
       THEN /\ Settle(g, "refused")
            /\ refusals' = IF cause = "refusal" THEN refusals \cup {flow[g].identity}
                                                ELSE refusals
       ELSE UNCHANGED <<flow, connecting, refusals>>
    /\ UNCHANGED <<closing, gen, identityVars, retryVars, roomKnown, boots, reconn, frame,
                   auto, told, listenersConnect>>

(* 'close' on the open socket: the 'disconnected' listeners run, then the  *)
(* reconnect is scheduled (ScheduleReconnect).                             *)
SocketCloses(g) ==
    /\ Quiet
    /\ socket = g
    /\ wire[g] = "open"
    /\ wire' = [wire EXCEPT ![g] = "closed"]
    /\ socket' = None /\ cancelOpen' = None /\ connected' = FALSE /\ heartbeat' = FALSE
    /\ frame' = "disconnected"
    /\ told' = FALSE
    /\ UNCHANGED <<ownerVars, identityVars, retryVars, roomKnown, flow, boots, reconn,
                   auto, refusals, listenersConnect>>

--------------------------------------------------------------------------------
(* Reconnecting *)

(* The 'disconnected' or 'error' listeners return and #scheduleReconnect   *)
(* runs: nothing when closing or armed, the final error when the budget is *)
(* spent, else the 'reconnecting' listeners.                               *)
ScheduleForgetsAttempt ==
    /\ frame \in {"disconnected", "error"}
    /\ IF closing \/ timer # None
       THEN frame' = "none" /\ UNCHANGED <<attempt, armFor>>
       ELSE frame' = "reconnecting" /\ attempt' = attempt + 1 /\ armFor' = gen
    /\ UNCHANGED <<ownerVars, socketVars, identityVars, timer, roomKnown, flow, wire,
                   boots, reconn, auto, refusals, told, listenersConnect>>
ScheduleReconnect ==
    /\ frame \in {"disconnected", "error"}
    /\ IF closing \/ timer # None \/ attempt >= Attempts
       THEN frame' = "none" /\ UNCHANGED <<attempt, armFor>>
       ELSE frame' = "reconnecting" /\ attempt' = attempt + 1 /\ armFor' = gen
    /\ told' = (told \/ (~closing /\ timer = None /\ attempt >= Attempts))
    /\ UNCHANGED <<ownerVars, socketVars, identityVars, timer, roomKnown, flow, wire,
                   boots, reconn, auto, refusals, listenersConnect>>

(* The 'reconnecting' listeners return: the timer is armed unless one of   *)
(* them connected or disconnected.                                         *)
ArmNever ==
    /\ frame = "reconnecting"
    /\ frame' = "none"
    /\ armFor' = 0
    /\ UNCHANGED <<ownerVars, socketVars, identityVars, attempt, timer, roomKnown, flow, wire,
                   boots, reconn, historyVars>>
ArmTimer ==
    /\ frame = "reconnecting"
    /\ frame' = "none"
    /\ timer' = IF Stale(armFor) THEN timer ELSE armFor
    /\ armFor' = 0
    /\ UNCHANGED <<ownerVars, socketVars, identityVars, attempt, roomKnown, flow, wire,
                   boots, reconn, historyVars>>

(* The timer fires; #reconnect calls connect() and awaits its promise.     *)
TimerFires ==
    /\ Quiet
    /\ timer # None
    /\ \/ /\ Stale(timer) \/ connected
          /\ timer' = None
          /\ UNCHANGED <<ownerVars, guest, guestMode, flow, boots, reconn, auto>>
       \/ /\ ~Stale(timer) /\ ~connected /\ connecting # None
          /\ timer' = None
          /\ reconn' = [reconn EXCEPT ![connecting].pc = "await"]
          /\ UNCHANGED <<ownerVars, guest, guestMode, flow, boots, auto>>
       \/ /\ ~Stale(timer) /\ ~connected /\ connecting = None
          /\ StartConnect(cookie)
          /\ reconn' = [reconn EXCEPT ![gen + 1].pc = "await"]
          /\ auto' = auto \cup {gen + 1}
    /\ UNCHANGED <<socketVars, cookie, signer, refreshed, attempt, armFor, roomKnown,
                   wire, frame, refusals, told, listenersConnect>>

(* #reconnect resumes after success, or after its generation has passed.   *)
ReconnectReturns(g) ==
    /\ frame = "none"
    /\ reconn[g].pc = "await"
    /\ flow[g].pc = "ok" \/ (flow[g].pc \in Settled /\ Stale(g))
    /\ reconn' = [reconn EXCEPT ![g] = NoFlow]
    /\ UNCHANGED <<ownerVars, socketVars, identityVars, retryVars, roomKnown, flow, wire,
                   boots, frame, historyVars>>

(* #reconnect resumes after a failure that is not a refusal: the 'error'   *)
(* listeners run, then the next attempt is scheduled.                      *)
ReconnectRetriesRefusal(g) ==
    /\ frame = "none"
    /\ reconn[g].pc = "await"
    /\ flow[g].pc \in {"error", "cancelled", "refused"} /\ ~Stale(g)
    /\ reconn' = [reconn EXCEPT ![g] = NoFlow]
    /\ frame' = "error"
    /\ UNCHANGED <<ownerVars, socketVars, identityVars, retryVars, roomKnown, flow, wire,
                   boots, historyVars>>
ReconnectFails(g) ==
    /\ frame = "none"
    /\ reconn[g].pc = "await"
    /\ flow[g].pc \in {"error", "cancelled"} /\ ~Stale(g)
    /\ reconn' = [reconn EXCEPT ![g] = NoFlow]
    /\ frame' = "error"
    /\ UNCHANGED <<ownerVars, socketVars, identityVars, retryVars, roomKnown, flow, wire,
                   boots, historyVars>>

(* #reconnect resumes after a refusal that is final: it emits the error.   *)
ReconnectRefused(g) ==
    /\ frame = "none"
    /\ reconn[g].pc = "await"
    /\ flow[g].pc = "refused" /\ ~Stale(g)
    /\ ~guestMode \/ refreshed
    /\ told' = TRUE
    /\ reconn' = [reconn EXCEPT ![g] = NoFlow]
    /\ UNCHANGED <<ownerVars, socketVars, identityVars, retryVars, roomKnown, flow, wire,
                   boots, frame, auto, refusals, listenersConnect>>

(* #reconnect resumes after the first refusal of a guest identity: the     *)
(* identity and the signer are dropped and a new bootstrap starts.         *)
RefreshKeepsSigner(g) ==
    /\ frame = "none"
    /\ reconn[g].pc = "await"
    /\ flow[g].pc = "refused" /\ ~Stale(g)
    /\ guestMode /\ ~refreshed
    /\ refreshed' = TRUE
    /\ cookie' = NoIdentity
    /\ boots' = Append(boots, [gen |-> g, state |-> "pending"])
    /\ guest' = Len(boots) + 1
    /\ reconn' = [reconn EXCEPT ![g].pc = "session", ![g].boot = Len(boots) + 1]
    /\ UNCHANGED <<ownerVars, socketVars, signer, guestMode, retryVars, roomKnown, flow,
                   wire, frame, historyVars>>
RefreshGuestSession(g) ==
    /\ frame = "none"
    /\ reconn[g].pc = "await"
    /\ flow[g].pc = "refused" /\ ~Stale(g)
    /\ guestMode /\ ~refreshed
    /\ refreshed' = TRUE
    /\ cookie' = NoIdentity
    /\ signer' = NoIdentity
    /\ boots' = Append(boots, [gen |-> g, state |-> "pending"])
    /\ guest' = Len(boots) + 1
    /\ reconn' = [reconn EXCEPT ![g].pc = "session", ![g].boot = Len(boots) + 1]
    /\ UNCHANGED <<ownerVars, socketVars, guestMode, retryVars, roomKnown, flow, wire,
                   frame, historyVars>>

(* The refresh resumes with its bootstrap: #ensureSigner starts, or the    *)
(* failure is emitted and #reconnect ends.                                 *)
RefreshSession(g) ==
    LET b == reconn[g].boot
    IN  /\ frame = "none"
        /\ reconn[g].pc = "session"
        /\ BootDone(b)
        /\ told' = (told \/ (boots[b].state # "stored" /\ ~closing))
        /\ reconn' = [reconn EXCEPT ![g] =
                         IF boots[b].state = "stored"
                         THEN [NoFlow EXCEPT !.pc = "creating", !.identity = cookie]
                         ELSE NoFlow]
        /\ UNCHANGED <<ownerVars, socketVars, identityVars, retryVars, roomKnown, flow,
                       wire, boots, frame, auto, refusals, listenersConnect>>

(* The refreshed signer is there: #reconnect connects once more and awaits *)
(* the outcome.                                                            *)
RefreshedConnect(g) ==
    /\ Quiet
    /\ reconn[g].pc = "creating"
    /\ ~Stale(g)
    /\ signer' = IF signer = NoIdentity THEN reconn[g].identity ELSE signer
    /\ StartConnect(cookie)
    /\ reconn' = [reconn EXCEPT ![g] = NoFlow, ![gen + 1].pc = "last"]
    /\ auto' = auto \cup {gen + 1}
    /\ UNCHANGED <<socketVars, cookie, refreshed, attempt, armFor, roomKnown, wire, frame,
                   refusals, told, listenersConnect>>

(* That connect() settles: a failure is emitted, and never retried.        *)
LastAttemptReturns(g) ==
    /\ frame = "none"
    /\ reconn[g].pc = "last"
    /\ flow[g].pc \in Settled
    /\ reconn' = [reconn EXCEPT ![g] = NoFlow]
    /\ told' = (told \/ (flow[g].pc # "ok" /\ ~closing))
    /\ UNCHANGED <<ownerVars, socketVars, identityVars, retryVars, roomKnown, flow, wire,
                   boots, frame, auto, refusals, listenersConnect>>

(* The signer cannot be built, or the generation has passed meanwhile.     *)
RefreshEnds(g) ==
    /\ Quiet
    /\ reconn[g].pc = "creating"
    /\ told' = (told \/ ~closing)
    /\ reconn' = [reconn EXCEPT ![g] = NoFlow]
    /\ UNCHANGED <<ownerVars, socketVars, identityVars, retryVars, roomKnown, flow, wire,
                   boots, frame, auto, refusals, listenersConnect>>

--------------------------------------------------------------------------------

(* What the program, its timers and the bounded requests of the network do *)
(* by themselves.                                                          *)
Progress ==
    \/ \E b \in DOMAIN boots, ok \in BOOLEAN : Bootstrap(b, ok)
    \/ \E g \in Gens :
         \/ SessionReady(g)
         \/ \E live \in BOOLEAN : RoomLookup(g, live)
         \/ Metadata(g)
         \/ CreateSigner(g)
         \/ SignerReady(g)
         \/ SignerFails(g)
         \/ Open(g)
         \/ OpenThrows(g)
         \/ SocketOpens(g)
         \/ EnterRoomFails(g)
         \/ OpenTimeout(g)
         \/ StaleSocketCloses(g)
         \/ \E cause \in {"refusal", "network"} : HandshakeFails(g, cause)
         \/ ReconnectReturns(g)
         \/ ReconnectFails(g)
         \/ ReconnectRefused(g)
         \/ RefreshGuestSession(g)
         \/ RefreshSession(g)
         \/ RefreshedConnect(g)
         \/ RefreshEnds(g)
         \/ LastAttemptReturns(g)
    \/ ScheduleReconnect
    \/ ArmTimer
    \/ TimerFires

Next ==
    \/ Progress
    \/ Connect
    \/ Disconnect
    \/ WriteOverflows
    \/ \E g \in Gens : SocketCloses(g)

Spec == Init /\ [][Next]_vars

(* Continuations and listeners run, timers fire, and every request has a   *)
(* deadline. Nothing is assumed of the user or of an open connection.      *)
FairSpec == Spec /\ WF_vars(Progress)

--------------------------------------------------------------------------------
(* Properties *)

FlowStages == Settled \cup
    {"none", "session", "lookup", "info", "gifts", "signer", "creating", "signing", "opening"}
Identities == Int

TypeOK ==
    /\ closing \in BOOLEAN /\ gen \in Nat /\ connecting \in 0 .. MaxGen
    /\ connected \in BOOLEAN /\ heartbeat \in BOOLEAN
    /\ socket \in 0 .. MaxGen /\ cancelOpen \in 0 .. MaxGen
    /\ cookie \in Identities /\ signer \in Identities
    /\ guest \in 0 .. Len(boots) /\ guestMode \in BOOLEAN /\ refreshed \in BOOLEAN
    /\ attempt \in 0 .. Attempts /\ timer \in Nat /\ armFor \in Nat
    /\ roomKnown \in BOOLEAN
    /\ flow \in [Gens -> [pc : FlowStages, boot : 0 .. Len(boots), identity : Identities]]
    /\ wire \in [Gens -> {"none", "connecting", "open", "closing", "closed"}]
    /\ boots \in Seq([gen : Gens, state : {"pending", "stored", "cancelled", "error"}])
    /\ reconn \in [Gens -> [pc : {"none", "await", "session", "creating", "last"},
                            boot : 0 .. Len(boots), identity : Identities]]
    /\ frame \in {"none", "signing", "disconnected", "error", "reconnecting"}
    /\ auto \subseteq Gens /\ refusals \subseteq Identities
    /\ listenersConnect \in BOOLEAN /\ told \in BOOLEAN

(* No socket outlives its client: every socket that is connecting or open  *)
(* is the one in #socket, so that disconnect() will close it.              *)
NoLeakedSocket == \A g \in Gens : wire[g] \in {"connecting", "open"} => socket = g

(* connected means what state() tells the user: the current generation's   *)
(* socket is open and has its heartbeat; and the heartbeat interval never  *)
(* survives the connection it belongs to.                                  *)
ConnectedIsReal ==
    /\ connected => ~closing /\ socket = gen /\ wire[socket] = "open"
    /\ heartbeat <=> connected

(* After disconnect() nothing is left that could bring the client back:    *)
(* no timer, no socket, no pending open, no promise to share.              *)
ClosedIsQuiet ==
    closing => /\ ~connected /\ ~heartbeat
               /\ timer = None /\ socket = None /\ cancelOpen = None /\ connecting = None
               /\ \A g \in Gens : flow[g].pc # "opening"

(* The client holds at most the attempts it was given, and at most one     *)
(* #reconnect() is alive for the current generation.                       *)
Budget ==
    /\ attempt <= Attempts
    /\ timer # None => timer = gen /\ reconn[gen].pc = "none"

(* A client owns exactly what it shows, whatever listeners, timers and     *)
(* late answers do: its sockets are the ones disconnect() will close,      *)
(* state() is true, one loop at most retries, and a closed client stays    *)
(* closed.                                                                 *)
Ownership == TypeOK /\ NoLeakedSocket /\ ConnectedIsReal /\ ClosedIsQuiet /\ Budget

(* The signer always belongs to the identity the cookie carries, through   *)
(* refreshes and cancelled flows: no socket is opened with one identity    *)
(* and signed for another.                                                 *)
SignerMatchesIdentity == signer # NoIdentity => signer = cookie

(* The client never offers a refused identity again on its own: "Never     *)
(* cycle a rejected identity ... supplied/stored identities stop           *)
(* immediately on refusal".                                                *)
NeverCyclesIdentity ==
    [][\A g \in auto : wire[g] = "none" /\ wire'[g] = "connecting"
                        => flow'[g].identity \notin refusals]_vars

(* The same of a client whose 'disconnected' and 'error' listeners leave   *)
(* connect() alone: a refusal stops a supplied identity, and a guest one   *)
(* is replaced before the next attempt, whatever connect() and             *)
(* disconnect() come from outside the listeners.                           *)
RefusalIsFinal ==
    [][~listenersConnect =>
         \A g \in auto : wire[g] = "none" /\ wire'[g] = "connecting"
                         => flow'[g].identity \notin refusals]_vars

(* A connection that is lost does not leave the client hanging: it is      *)
(* connected again, closed, or has told the user why it stopped trying.    *)
Resolves == frame = "disconnected" ~> connected \/ closing \/ told \/ gen >= MaxGen
================================================================================
