--------------------------- MODULE TicketClientProofs ---------------------------
(***************************************************************************)
(* Ownership and RetryAfterHonoured of the ticket client, for any budget   *)
(* of attempts and any number of generations, and that it never stops      *)
(* reconnecting without a word (Driven).                                   *)
(***************************************************************************)
EXTENDS TicketClient, TLAPS

(* Why Ownership holds. A flow under way is the current generation's, or   *)
(* nobody waits for it any more; a flow with a socket in its handshake is  *)
(* one that disconnect() can cancel.                                       *)
UnderWay == {"api", "gifts", "create", "opening"}
FlowsOwned ==
    /\ ~closing => gen <= MaxGen
    /\ connecting # None => connecting = gen /\ ~closing /\ flow[gen] \in UnderWay
    /\ gen \in Gens /\ flow[gen] \in UnderWay => connecting = gen
    /\ \A g \in Gens : g > gen => flow[g] = "none" /\ ~reconn[g]
    /\ \A g \in Gens : flow[g] = "opening" =>
           g = gen /\ ~closing /\ socket = g /\ cancelOpen = g /\ wire[g] = "connecting"

SocketsOwned ==
    /\ \A g \in Gens : wire[g] = "connecting" => flow[g] = "opening"
    /\ \A g \in Gens : wire[g] = "open" => socket = g /\ socketOpen
    /\ socketOpen => /\ socket = gen /\ ~closing /\ status = "live"
                     /\ wire[gen] = "open" /\ flow[gen] = "ok"
    /\ heartbeat <=> socketOpen
    /\ closing => socket = None /\ timer = None /\ cancelOpen = None

(* A listener that #connectFromApi runs is at the stage its flow is in. *)
FramesOwned ==
    /\ frame.g <= gen /\ (frame.at = "none" => frame = NoFrame)
    /\ frame.at \in {"offline", "gifts", "socket"} => frame.g \in Gens
    /\ frame.at = "offline" => flow[frame.g] = "api"
    /\ frame.at = "gifts" => flow[frame.g] = "gifts"
    /\ frame.at = "socket" => flow[frame.g] = "create"

(* A step that leads to an armed timer has no other loop beside it: not    *)
(* even an offline answer, which is retried whatever its generation.       *)
RetriesOwned ==
    /\ OneRetryLoop
    /\ gen \in Gens /\ reconn[gen] =>
           /\ frame.at \notin {"disconnected", "error", "reconnecting"}
           /\ frame.at = "offline" => frame.g = gen
           /\ \A g \in Gens : reconn[g] /\ flow[g] = "offline" => g = gen

OwnershipInv == TypeOK /\ FlowsOwned /\ SocketsOwned /\ FramesOwned /\ RetriesOwned

(* Why RetryAfterHonoured holds. Unless the user connects inside the       *)
(* client's own steps, an armed timer, or a step that leads to one, has no *)
(* flow under way beside it, and the delay is still owed only if that      *)
(* timer covers it; a flow that the broker answered without asking for a   *)
(* delay owes nothing.                                                     *)
PenaltyInv ==
    ~listenersConnect =>
        /\ timer # None => connecting = None /\ (penalty => covers)
        /\ frame.at = "reconnecting" /\ ~Stale(frame.g) => connecting = None /\ (penalty => covers)
        /\ frame.at \in {"offline", "error"} /\ ~closing => frame.g = gen
        /\ frame.at \in {"disconnected", "error"} /\ ~closing => connecting = None
        /\ frame.at = "error" /\ ~closing /\ penalty => flow[gen] = "limited"
        /\ frame.at \in {"disconnected", "offline"} /\ ~closing => ~penalty
        /\ frame.at \in {"socket", "reconnecting", "error", "disconnected"} =>
               \A g \in Gens : reconn[g] => flow[g] # "offline"
        /\ ~closing => \A g \in Gens : reconn[g] /\ flow[g] = "offline" => g = gen
        /\ ~closing /\ gen \in Gens =>
               /\ flow[gen] \in {"gifts", "create", "opening", "ok", "offline"} => ~penalty
               /\ reconn[gen] /\ penalty => flow[gen] = "limited"

TicketInv == OwnershipInv /\ PenaltyInv

--------------------------------------------------------------------------------
(* A part of the invariant survives a step that leaves what it speaks of. *)
LEMMA FlowsFrame ==
    ASSUME FlowsOwned, UNCHANGED <<closing, gen, connecting, flow, reconn, socket,
           cancelOpen, wire>>
    PROVE  FlowsOwned'
BY DEF FlowsOwned

LEMMA SocketsFrame ==
    ASSUME SocketsOwned, UNCHANGED <<wire, flow, socket, socketOpen, gen, closing,
           status, heartbeat, timer, cancelOpen>>
    PROVE  SocketsOwned'
BY DEF SocketsOwned

LEMMA FramesFrame ==
    ASSUME FramesOwned, UNCHANGED <<frame, flow, gen>>
    PROVE  FramesOwned'
BY DEF FramesOwned

LEMMA RetriesFrame ==
    ASSUME RetriesOwned, UNCHANGED <<timer, gen, reconn, frame, flow>>
    PROVE  RetriesOwned'
BY DEF RetriesOwned, OneRetryLoop

LEMMA PenaltyFrame ==
    ASSUME PenaltyInv, UNCHANGED <<listenersConnect, timer, connecting, penalty,
           covers, frame, closing, gen, flow, reconn>>
    PROVE  PenaltyInv'
BY DEF PenaltyInv, Stale

LEMMA NextGen ==
    ASSUME TypeOK, gen < MaxGen
    PROVE  gen + 1 \in Nat /\ gen + 1 \in 0 .. MaxGen /\ gen + 1 \in Gens
BY TicketAssumption DEF TypeOK, Gens

LEMMA InitHolds == Init => TicketInv
<1> SUFFICES ASSUME Init PROVE TicketInv
  OBVIOUS
<1> USE TicketAssumption DEF Init
<1>1. TypeOK
  <2>1. flow \in [Gens -> {"none", "api", "gifts", "create", "opening"} \cup Settled]
    OBVIOUS
  <2>2. frame \in [at : {"none", "offline", "gifts", "socket", "disconnected", "reconnecting",
                      "error"}, g : 0 .. MaxGen]
    BY DEF NoFrame, None
  <2>3. gen \in Nat /\ connecting \in 0 .. MaxGen /\ socket \in 0 .. MaxGen
        /\ cancelOpen \in 0 .. MaxGen /\ attempt \in 0 .. Attempts /\ timer \in 0 .. MaxGen
    BY DEF None
  <2>4. wire \in [Gens -> {"none", "connecting", "open", "closing", "closed"}]
        /\ reconn \in [Gens -> BOOLEAN]
    OBVIOUS
  <2> QED
    BY <2>1, <2>2, <2>3, <2>4 DEF TypeOK
<1>2. FlowsOwned
  BY DEF FlowsOwned, UnderWay, None, Gens
<1>3. SocketsOwned
  BY DEF SocketsOwned, None, Gens
<1>4. FramesOwned /\ RetriesOwned /\ PenaltyInv
  BY DEF FramesOwned, RetriesOwned, OneRetryLoop, PenaltyInv, NoFrame, None, Gens
<1> QED
  BY <1>1, <1>2, <1>3, <1>4 DEF TicketInv, OwnershipInv

LEMMA TicketKeeps ==
    ASSUME TicketInv, NEW g \in Gens, NEW answer \in Answers, Ticket(g, answer)
    PROVE  TicketInv'
<1>1. TypeOK'
  <2> USE TicketAssumption DEF TicketInv, OwnershipInv, TypeOK, None
  <2>1. (closing \in BOOLEAN)'
    BY DEF Ticket, Quiet, Stale, Settle, Advance, AfterTicket, Listener, NoFrame,
       Answers, historyVars
  <2>2. (gen \in Nat /\ connecting \in 0 .. MaxGen)'
    BY DEF Ticket, Quiet, Stale, Settle, Advance, AfterTicket, Listener, NoFrame,
       Answers, historyVars
  <2>3. (status \in {"live", "offline"} /\ socketOpen \in BOOLEAN /\ heartbeat \in BOOLEAN)'
    BY DEF Ticket, Quiet, Stale, Settle, Advance, AfterTicket, Listener, NoFrame,
       Answers, historyVars
  <2>4. (socket \in 0 .. MaxGen /\ cancelOpen \in 0 .. MaxGen)'
    BY DEF Ticket, Quiet, Stale, Settle, Advance, AfterTicket, Listener, NoFrame,
       Answers, historyVars
  <2>5. (attempt \in 0 .. Attempts /\ timer \in 0 .. MaxGen)'
    BY DEF Ticket, Quiet, Stale, Settle, Advance, AfterTicket, Listener, NoFrame,
       Answers, historyVars, FlowsOwned
  <2>6. (covers \in BOOLEAN /\ penalty \in BOOLEAN)'
    BY DEF Ticket, Quiet, Stale, Settle, Advance, AfterTicket, Listener, NoFrame,
       Answers, historyVars
  <2>7. (flow \in [Gens -> {"none", "api", "gifts", "create", "opening"} \cup Settled])'
    BY DEF Ticket, Quiet, Stale, Settle, Advance, AfterTicket, Listener, NoFrame,
       Answers, historyVars, Gens, Settled, Failed
  <2>8. (wire \in [Gens -> {"none", "connecting", "open", "closing", "closed"}]
         /\ reconn \in [Gens -> BOOLEAN])'
    BY DEF Ticket, Quiet, Stale, Settle, Advance, AfterTicket, Listener, NoFrame,
       Answers, historyVars, Gens
  <2>9. (frame \in [at : {"none", "offline", "gifts", "socket", "disconnected", "reconnecting",
                         "error"}, g : 0 .. MaxGen])'
    BY DEF Ticket, Quiet, Stale, Settle, Advance, AfterTicket, Listener, NoFrame,
       Answers, historyVars, FlowsOwned
  <2>10. (listenersConnect \in BOOLEAN /\ auto \subseteq Gens /\ told \in BOOLEAN)'
    BY DEF Ticket, Quiet, Stale, Settle, Advance, AfterTicket, Listener, NoFrame,
       Answers, historyVars
  <2> QED
    BY <2>1, <2>2, <2>3, <2>4, <2>5, <2>6, <2>7, <2>8, <2>9, <2>10
<1>2. FlowsOwned'
  BY TicketAssumption DEF TicketInv, OwnershipInv, TypeOK, FlowsOwned, SocketsOwned,
     FramesOwned, RetriesOwned, OneRetryLoop, UnderWay, Settled, Failed, Ticket,
     Quiet, Stale, Settle, Advance, AfterTicket, Listener, NoFrame, Answers,
     historyVars, Gens, None
<1>3. SocketsOwned'
  BY TicketAssumption DEF TicketInv, OwnershipInv, TypeOK, FlowsOwned, SocketsOwned,
     FramesOwned, RetriesOwned, OneRetryLoop, UnderWay, Settled, Failed, Ticket,
     Quiet, Stale, Settle, Advance, AfterTicket, Listener, NoFrame, Answers,
     historyVars, Gens, None
<1>4. FramesOwned'
  BY TicketAssumption DEF TicketInv, OwnershipInv, TypeOK, FlowsOwned, SocketsOwned,
     FramesOwned, RetriesOwned, OneRetryLoop, UnderWay, Settled, Failed, Ticket,
     Quiet, Stale, Settle, Advance, AfterTicket, Listener, NoFrame, Answers,
     historyVars, Gens, None
<1>5. RetriesOwned'
  BY TicketAssumption DEF TicketInv, OwnershipInv, TypeOK, FlowsOwned, SocketsOwned,
     FramesOwned, RetriesOwned, OneRetryLoop, UnderWay, Settled, Failed, Ticket,
     Quiet, Stale, Settle, Advance, AfterTicket, Listener, NoFrame, Answers,
     historyVars, Gens, None
<1>6. PenaltyInv'
  BY TicketAssumption DEF TicketInv, OwnershipInv, TypeOK, FlowsOwned, SocketsOwned,
     FramesOwned, RetriesOwned, PenaltyInv, UnderWay, Settled, Failed, Ticket,
     Quiet, Stale, Settle, Advance, AfterTicket, Listener, NoFrame, Answers,
     historyVars, Gens, None
<1> QED
  BY <1>1, <1>2, <1>3, <1>4, <1>5, <1>6 DEF TicketInv, OwnershipInv

LEMMA GiftsKeeps ==
    ASSUME TicketInv, NEW g \in Gens, NEW ok \in BOOLEAN, Gifts(g, ok)
    PROVE  TicketInv'
<1>1. TypeOK'
  BY TicketAssumption DEF TicketInv, OwnershipInv, TypeOK, FlowsOwned, FramesOwned,
     Settled, Failed, Gifts, Quiet, Stale, Settle, Advance, Listener, NoFrame,
     socketVars, retryVars, historyVars, Gens, None
<1>2. FlowsOwned'
  BY TicketAssumption DEF TicketInv, OwnershipInv, TypeOK, FlowsOwned, SocketsOwned,
     FramesOwned, RetriesOwned, OneRetryLoop, UnderWay, Settled, Failed, Gifts,
     Quiet, Stale, Settle, Advance, Listener, NoFrame, socketVars, retryVars,
     historyVars, Gens, None
<1>3. SocketsOwned'
  BY TicketAssumption DEF TicketInv, OwnershipInv, TypeOK, FlowsOwned, SocketsOwned,
     FramesOwned, RetriesOwned, OneRetryLoop, UnderWay, Settled, Failed, Gifts,
     Quiet, Stale, Settle, Advance, Listener, NoFrame, socketVars, retryVars,
     historyVars, Gens, None
<1>4. FramesOwned'
  BY TicketAssumption DEF TicketInv, OwnershipInv, TypeOK, FlowsOwned, SocketsOwned,
     FramesOwned, RetriesOwned, OneRetryLoop, UnderWay, Settled, Failed, Gifts,
     Quiet, Stale, Settle, Advance, Listener, NoFrame, socketVars, retryVars,
     historyVars, Gens, None
<1>5. RetriesOwned'
  BY TicketAssumption DEF TicketInv, OwnershipInv, TypeOK, FlowsOwned, SocketsOwned,
     FramesOwned, RetriesOwned, OneRetryLoop, UnderWay, Settled, Failed, Gifts,
     Quiet, Stale, Settle, Advance, Listener, NoFrame, socketVars, retryVars,
     historyVars, Gens, None
<1>6. PenaltyInv'
  BY TicketAssumption DEF TicketInv, OwnershipInv, TypeOK, FlowsOwned, SocketsOwned,
     FramesOwned, RetriesOwned, PenaltyInv, UnderWay, Settled, Failed, Gifts, Quiet,
     Stale, Settle, Advance, Listener, NoFrame, socketVars, retryVars, historyVars,
     Gens, None
<1> QED
  BY <1>1, <1>2, <1>3, <1>4, <1>5, <1>6 DEF TicketInv, OwnershipInv

LEMMA CreateSocketKeeps ==
    ASSUME TicketInv, NEW g \in Gens, CreateSocket(g)
    PROVE  TicketInv'
<1>1. TypeOK'
  BY TicketAssumption DEF TicketInv, OwnershipInv, TypeOK, FlowsOwned, FramesOwned,
     Settled, Failed, CreateSocket, Quiet, Stale, Settle, Listener, NoFrame,
     socketVars, retryVars, historyVars, Gens, None
<1>2. FlowsOwned'
  BY TicketAssumption DEF TicketInv, OwnershipInv, TypeOK, FlowsOwned, SocketsOwned,
     FramesOwned, RetriesOwned, OneRetryLoop, UnderWay, Settled, Failed,
     CreateSocket, Quiet, Stale, Settle, Listener, NoFrame, socketVars, retryVars,
     historyVars, Gens, None
<1>3. SocketsOwned'
  BY TicketAssumption DEF TicketInv, OwnershipInv, TypeOK, FlowsOwned, SocketsOwned,
     FramesOwned, RetriesOwned, OneRetryLoop, UnderWay, Settled, Failed,
     CreateSocket, Quiet, Stale, Settle, Listener, NoFrame, socketVars, retryVars,
     historyVars, Gens, None
<1>4. FramesOwned'
  BY TicketAssumption DEF TicketInv, OwnershipInv, TypeOK, FlowsOwned, SocketsOwned,
     FramesOwned, RetriesOwned, OneRetryLoop, UnderWay, Settled, Failed,
     CreateSocket, Quiet, Stale, Settle, Listener, NoFrame, socketVars, retryVars,
     historyVars, Gens, None
<1>5. RetriesOwned'
  BY TicketAssumption DEF TicketInv, OwnershipInv, TypeOK, FlowsOwned, SocketsOwned,
     FramesOwned, RetriesOwned, OneRetryLoop, UnderWay, Settled, Failed,
     CreateSocket, Quiet, Stale, Settle, Listener, NoFrame, socketVars, retryVars,
     historyVars, Gens, None
<1>6. PenaltyInv'
  BY TicketAssumption DEF TicketInv, OwnershipInv, TypeOK, FlowsOwned, SocketsOwned,
     FramesOwned, RetriesOwned, PenaltyInv, UnderWay, Settled, Failed, CreateSocket,
     Quiet, Stale, Settle, Listener, NoFrame, socketVars, retryVars, historyVars,
     Gens, None
<1> QED
  BY <1>1, <1>2, <1>3, <1>4, <1>5, <1>6 DEF TicketInv, OwnershipInv

LEMMA SocketOpensKeeps ==
    ASSUME TicketInv, NEW g \in Gens, NEW sent \in Sends, SocketOpens(g, sent)
    PROVE  TicketInv'
<1>1. TypeOK'
  <2> USE TicketAssumption DEF TicketInv, OwnershipInv, TypeOK, None
  <2>1. (closing \in BOOLEAN)'
    BY DEF SocketOpens, Stale, Settle, Drop, Sends, socketVars, historyVars
  <2>2. (gen \in Nat /\ connecting \in 0 .. MaxGen)'
    BY DEF SocketOpens, Stale, Settle, Drop, Sends, socketVars, historyVars
  <2>3. (status \in {"live", "offline"} /\ socketOpen \in BOOLEAN /\ heartbeat \in BOOLEAN)'
    BY DEF SocketOpens, Quiet, Stale, Settle, Drop, NoFrame, Sends, socketVars,
       historyVars
  <2>4. (socket \in 0 .. MaxGen /\ cancelOpen \in 0 .. MaxGen)'
    BY DEF SocketOpens, Quiet, Stale, Settle, Drop, NoFrame, Sends, socketVars,
       historyVars
  <2>5. (attempt \in 0 .. Attempts /\ timer \in 0 .. MaxGen)'
    BY DEF SocketOpens, Quiet, Stale, Settle, Drop, NoFrame, Sends, socketVars,
       historyVars, FlowsOwned
  <2>6. (covers \in BOOLEAN /\ penalty \in BOOLEAN)'
    BY DEF SocketOpens, Quiet, Stale, Settle, Drop, NoFrame, Sends, socketVars,
       historyVars
  <2>7. (flow \in [Gens -> {"none", "api", "gifts", "create", "opening"} \cup Settled])'
    BY DEF SocketOpens, Quiet, Stale, Settle, Drop, NoFrame, Sends, socketVars,
       historyVars, Gens, Settled, Failed
  <2>8. (wire \in [Gens -> {"none", "connecting", "open", "closing", "closed"}]
         /\ reconn \in [Gens -> BOOLEAN])'
    <3>1. (wire \in [Gens -> {"none", "connecting", "open", "closing", "closed"}])'
      BY DEF SocketOpens, Drop
    <3>2. reconn' = reconn
      BY Zenon DEF SocketOpens
    <3>3. QED
      BY <3>1, <3>2, Zenon
  <2>9. (frame \in [at : {"none", "offline", "gifts", "socket", "disconnected", "reconnecting",
                         "error"}, g : 0 .. MaxGen])'
    BY DEF SocketOpens, Quiet, Stale, Settle, Drop, NoFrame, Sends, socketVars,
       historyVars, FlowsOwned
  <2>10. (listenersConnect \in BOOLEAN /\ auto \subseteq Gens /\ told \in BOOLEAN)'
    BY DEF SocketOpens, Stale, Settle, Drop, Sends, socketVars, historyVars
  <2> QED
    BY <2>1, <2>2, <2>3, <2>4, <2>5, <2>6, <2>7, <2>8, <2>9, <2>10
<1>2. FlowsOwned'
  BY TicketAssumption DEF TicketInv, OwnershipInv, TypeOK, FlowsOwned, SocketsOwned,
     FramesOwned, RetriesOwned, OneRetryLoop, UnderWay, Settled, Failed,
     SocketOpens, Quiet, Stale, Settle, Drop, NoFrame, Sends, socketVars,
     historyVars, Gens, None
<1>3. SocketsOwned'
  <2> USE TicketAssumption DEF TicketInv, OwnershipInv, TypeOK, None
  <2>1. CASE sent = "ok"
    <3>1. /\ wire' = [wire EXCEPT ![g] = "open"] /\ flow' = [flow EXCEPT ![g] = "ok"]
          /\ heartbeat' = TRUE /\ status' = "live" /\ socketOpen' = TRUE
          /\ closing' = closing /\ gen' = gen /\ socket' = socket /\ timer' = timer
          /\ cancelOpen' = None
          /\ wire[g] = "connecting" /\ socket = g /\ g = gen /\ ~closing
      BY <2>1 DEF SocketOpens, Settle, Stale
    <3>2. QED
      BY <3>1 DEF SocketsOwned, FlowsOwned
  <2>2. CASE sent = "throws"
    <3>1. /\ wire' = [wire EXCEPT ![g] = "closing"] /\ flow' = [flow EXCEPT ![g] = "error"]
          /\ heartbeat' = heartbeat /\ status' = status /\ socketOpen' = socketOpen
          /\ closing' = closing /\ gen' = gen /\ socket' = socket /\ timer' = timer
          /\ cancelOpen' = cancelOpen
          /\ wire[g] = "connecting" /\ flow[g] = "opening" /\ socket = g
      BY <2>2 DEF SocketOpens, Settle, socketVars
    <3>2. QED
      BY <3>1 DEF SocketsOwned, FlowsOwned
  <2>3. CASE sent = "overflow"
    <3>1. Drop(g, "error") /\ socket = g /\ flow[g] = "opening"
      BY <2>3 DEF SocketOpens
    <3>2. QED
      BY <3>1 DEF SocketsOwned, FlowsOwned, Drop, Gens
  <2> QED
    BY <2>1, <2>2, <2>3 DEF Sends
<1>4. FramesOwned'
  BY TicketAssumption DEF TicketInv, OwnershipInv, TypeOK, FlowsOwned, SocketsOwned,
     FramesOwned, RetriesOwned, OneRetryLoop, UnderWay, Settled, Failed,
     SocketOpens, Quiet, Stale, Settle, Drop, NoFrame, Sends, socketVars,
     historyVars, Gens, None
<1>5. RetriesOwned'
  BY TicketAssumption DEF TicketInv, OwnershipInv, TypeOK, FlowsOwned, SocketsOwned,
     FramesOwned, RetriesOwned, OneRetryLoop, UnderWay, Settled, Failed,
     SocketOpens, Quiet, Stale, Settle, Drop, NoFrame, Sends, socketVars,
     historyVars, Gens, None
<1>6. PenaltyInv'
  BY TicketAssumption DEF TicketInv, OwnershipInv, TypeOK, FlowsOwned, SocketsOwned,
     FramesOwned, RetriesOwned, PenaltyInv, UnderWay, Settled, Failed, SocketOpens,
     Quiet, Stale, Settle, Drop, NoFrame, Sends, socketVars, historyVars, Gens, None
<1> QED
  BY <1>1, <1>2, <1>3, <1>4, <1>5, <1>6 DEF TicketInv, OwnershipInv

LEMMA OpenTimeoutKeeps ==
    ASSUME TicketInv, NEW g \in Gens, OpenTimeout(g)
    PROVE  TicketInv'
<1>1. TypeOK'
  BY TicketAssumption DEF TicketInv, OwnershipInv, TypeOK, FlowsOwned, FramesOwned,
     Settled, Failed, OpenTimeout, Quiet, Settle, NoFrame, socketVars, retryVars,
     historyVars, Gens, None
<1>2. FlowsOwned'
  BY TicketAssumption DEF TicketInv, OwnershipInv, TypeOK, FlowsOwned, SocketsOwned,
     FramesOwned, RetriesOwned, OneRetryLoop, UnderWay, Settled, Failed,
     OpenTimeout, Quiet, Settle, NoFrame, socketVars, retryVars, historyVars, Gens,
     None
<1>3. SocketsOwned'
  BY TicketAssumption DEF TicketInv, OwnershipInv, TypeOK, FlowsOwned, SocketsOwned,
     FramesOwned, RetriesOwned, OneRetryLoop, UnderWay, Settled, Failed,
     OpenTimeout, Quiet, Settle, NoFrame, socketVars, retryVars, historyVars, Gens,
     None
<1>4. FramesOwned'
  BY TicketAssumption DEF TicketInv, OwnershipInv, TypeOK, FlowsOwned, SocketsOwned,
     FramesOwned, RetriesOwned, OneRetryLoop, UnderWay, Settled, Failed,
     OpenTimeout, Quiet, Settle, NoFrame, socketVars, retryVars, historyVars, Gens,
     None
<1>5. RetriesOwned'
  BY TicketAssumption DEF TicketInv, OwnershipInv, TypeOK, FlowsOwned, SocketsOwned,
     FramesOwned, RetriesOwned, OneRetryLoop, UnderWay, Settled, Failed,
     OpenTimeout, Quiet, Settle, NoFrame, socketVars, retryVars, historyVars, Gens,
     None
<1>6. PenaltyInv'
  BY TicketAssumption DEF TicketInv, OwnershipInv, TypeOK, FlowsOwned, SocketsOwned,
     FramesOwned, RetriesOwned, PenaltyInv, UnderWay, Settled, Failed, OpenTimeout,
     Quiet, Settle, NoFrame, socketVars, retryVars, historyVars, Stale, Gens, None
<1> QED
  BY <1>1, <1>2, <1>3, <1>4, <1>5, <1>6 DEF TicketInv, OwnershipInv

LEMMA StaleSocketClosesKeeps ==
    ASSUME TicketInv, NEW g \in Gens, StaleSocketCloses(g)
    PROVE  TicketInv'
<1>1. TypeOK'
  BY TicketAssumption DEF TicketInv, OwnershipInv, TypeOK, FlowsOwned, FramesOwned,
     Settled, Failed, StaleSocketCloses, Quiet, NoFrame, ownerVars, socketVars,
     retryVars, historyVars, Gens, None
<1>2. FlowsOwned'
  BY TicketAssumption DEF TicketInv, OwnershipInv, TypeOK, FlowsOwned, SocketsOwned,
     FramesOwned, RetriesOwned, OneRetryLoop, UnderWay, Settled, Failed,
     StaleSocketCloses, Quiet, NoFrame, ownerVars, socketVars, retryVars,
     historyVars, Gens, None
<1>3. SocketsOwned'
  BY TicketAssumption DEF TicketInv, OwnershipInv, TypeOK, FlowsOwned, SocketsOwned,
     FramesOwned, RetriesOwned, OneRetryLoop, UnderWay, Settled, Failed,
     StaleSocketCloses, Quiet, NoFrame, ownerVars, socketVars, retryVars,
     historyVars, Gens, None
<1>4. FramesOwned'
  BY FramesFrame DEF TicketInv, OwnershipInv, StaleSocketCloses, Quiet, NoFrame,
     ownerVars, socketVars, retryVars, historyVars
<1>5. RetriesOwned'
  BY RetriesFrame DEF TicketInv, OwnershipInv, StaleSocketCloses, Quiet, NoFrame,
     ownerVars, socketVars, retryVars, historyVars
<1>6. PenaltyInv'
  BY PenaltyFrame DEF TicketInv, OwnershipInv, StaleSocketCloses, Quiet, NoFrame,
     ownerVars, socketVars, retryVars, historyVars
<1> QED
  BY <1>1, <1>2, <1>3, <1>4, <1>5, <1>6 DEF TicketInv, OwnershipInv

LEMMA HandshakeFailsKeeps ==
    ASSUME TicketInv, NEW g \in Gens, HandshakeFails(g)
    PROVE  TicketInv'
<1>1. TypeOK'
  <2> USE DEF TicketInv, OwnershipInv, TypeOK
  <2>1. (flow \in [Gens -> {"none", "api", "gifts", "create", "opening"} \cup Settled])'
    BY DEF HandshakeFails, Settle, Settled, Failed
  <2>2. (connecting \in 0 .. MaxGen)'
    BY TicketAssumption DEF HandshakeFails, Settle, None
  <2>3. (wire \in [Gens -> {"none", "connecting", "open", "closing", "closed"}])'
    BY DEF HandshakeFails
  <2>4. /\ (socket \in 0 .. MaxGen /\ cancelOpen \in 0 .. MaxGen)'
        /\ (socketOpen \in BOOLEAN /\ heartbeat \in BOOLEAN)'
    <3>1. socket' = 0 /\ cancelOpen' = 0 /\ 0 \in 0 .. MaxGen
      BY TicketAssumption DEF HandshakeFails, None
    <3>2. socketOpen' = FALSE /\ heartbeat' = FALSE
      BY Zenon DEF HandshakeFails
    <3> QED
      BY <3>1, <3>2, Zenon
  <2>5. UNCHANGED <<closing, gen, status, attempt, timer, covers, penalty, reconn, frame,
                    listenersConnect, auto, told>>
    BY Zenon DEF HandshakeFails, retryVars, historyVars
  <2> QED
    BY <2>1, <2>2, <2>3, <2>4, <2>5, Zenon
<1>2. FlowsOwned'
  BY TicketAssumption DEF TicketInv, OwnershipInv, TypeOK, FlowsOwned, SocketsOwned,
     FramesOwned, RetriesOwned, OneRetryLoop, UnderWay, Settled, Failed,
     HandshakeFails, Quiet, Settle, NoFrame, retryVars, historyVars, Gens, None
<1>3. SocketsOwned'
  BY TicketAssumption DEF TicketInv, OwnershipInv, TypeOK, FlowsOwned, SocketsOwned,
     FramesOwned, RetriesOwned, OneRetryLoop, UnderWay, Settled, Failed,
     HandshakeFails, Quiet, Settle, NoFrame, retryVars, historyVars, Gens, None
<1>4. FramesOwned'
  BY TicketAssumption DEF TicketInv, OwnershipInv, TypeOK, FlowsOwned, SocketsOwned,
     FramesOwned, RetriesOwned, OneRetryLoop, UnderWay, Settled, Failed,
     HandshakeFails, Quiet, Settle, NoFrame, retryVars, historyVars, Gens, None
<1>5. RetriesOwned'
  BY TicketAssumption DEF TicketInv, OwnershipInv, TypeOK, FlowsOwned, SocketsOwned,
     FramesOwned, RetriesOwned, OneRetryLoop, UnderWay, Settled, Failed,
     HandshakeFails, Quiet, Settle, NoFrame, retryVars, historyVars, Gens, None
<1>6. PenaltyInv'
  BY TicketAssumption DEF TicketInv, OwnershipInv, TypeOK, FlowsOwned, SocketsOwned,
     FramesOwned, RetriesOwned, PenaltyInv, UnderWay, Settled, Failed,
     HandshakeFails, Quiet, Settle, NoFrame, retryVars, historyVars, Stale, Gens,
     None
<1> QED
  BY <1>1, <1>2, <1>3, <1>4, <1>5, <1>6 DEF TicketInv, OwnershipInv

LEMMA ReconnectResumesKeeps ==
    ASSUME TicketInv, NEW g \in Gens, ReconnectResumes(g)
    PROVE  TicketInv'
<1>1. TypeOK'
  <2> USE TicketAssumption DEF TicketInv, OwnershipInv, TypeOK, None
  <2>1. (closing \in BOOLEAN)'
    BY DEF ReconnectResumes, ScheduleReconnect, Stale, Listener, NoFrame, ownerVars,
       socketVars
  <2>2. (gen \in Nat /\ connecting \in 0 .. MaxGen)'
    BY DEF ReconnectResumes, ScheduleReconnect, Stale, Listener, NoFrame, ownerVars,
       socketVars
  <2>3. (status \in {"live", "offline"} /\ socketOpen \in BOOLEAN /\ heartbeat \in BOOLEAN)'
    BY DEF ReconnectResumes, ScheduleReconnect, Stale, Listener, NoFrame, ownerVars,
       socketVars
  <2>4. (socket \in 0 .. MaxGen /\ cancelOpen \in 0 .. MaxGen)'
    BY DEF ReconnectResumes, ScheduleReconnect, Stale, Listener, NoFrame, ownerVars,
       socketVars
  <2>5. (attempt \in 0 .. Attempts /\ timer \in 0 .. MaxGen)'
    BY DEF ReconnectResumes, ScheduleReconnect, Stale, Listener, NoFrame, ownerVars,
       socketVars, FlowsOwned
  <2>6. (covers \in BOOLEAN /\ penalty \in BOOLEAN)'
    BY DEF ReconnectResumes, ScheduleReconnect, Stale, Listener, NoFrame, ownerVars,
       socketVars
  <2>7. (flow \in [Gens -> {"none", "api", "gifts", "create", "opening"} \cup Settled])'
    BY DEF ReconnectResumes, ScheduleReconnect, Stale, Listener, NoFrame, ownerVars,
       socketVars, Gens, Settled, Failed
  <2>8. (wire \in [Gens -> {"none", "connecting", "open", "closing", "closed"}]
         /\ reconn \in [Gens -> BOOLEAN])'
    BY DEF ReconnectResumes, ScheduleReconnect, Stale, Listener, NoFrame, ownerVars,
       socketVars, Gens
  <2>9. (frame \in [at : {"none", "offline", "gifts", "socket", "disconnected", "reconnecting",
                         "error"}, g : 0 .. MaxGen])'
    BY DEF ReconnectResumes, ScheduleReconnect, Stale, Listener, NoFrame, ownerVars,
       socketVars, FlowsOwned
  <2>10. (listenersConnect \in BOOLEAN /\ auto \subseteq Gens /\ told \in BOOLEAN)'
    BY DEF ReconnectResumes, ScheduleReconnect, Stale, Listener, NoFrame, ownerVars,
       socketVars
  <2> QED
    BY <2>1, <2>2, <2>3, <2>4, <2>5, <2>6, <2>7, <2>8, <2>9, <2>10
<1>2. FlowsOwned'
  BY TicketAssumption DEF TicketInv, OwnershipInv, TypeOK, FlowsOwned, SocketsOwned,
     FramesOwned, RetriesOwned, OneRetryLoop, UnderWay, Settled, Failed,
     ReconnectResumes, ScheduleReconnect, Stale, Listener, NoFrame, ownerVars,
     socketVars, Gens, None
<1>3. SocketsOwned'
  BY SocketsFrame DEF TicketInv, OwnershipInv, ReconnectResumes, ScheduleReconnect,
     Stale, Listener, NoFrame, ownerVars, socketVars
<1>4. FramesOwned'
  BY TicketAssumption DEF TicketInv, OwnershipInv, TypeOK, FlowsOwned, SocketsOwned,
     FramesOwned, RetriesOwned, OneRetryLoop, UnderWay, Settled, Failed,
     ReconnectResumes, ScheduleReconnect, Stale, Listener, NoFrame, ownerVars,
     socketVars, Gens, None
<1>5. RetriesOwned'
  BY TicketAssumption DEF TicketInv, OwnershipInv, TypeOK, FlowsOwned, SocketsOwned,
     FramesOwned, RetriesOwned, OneRetryLoop, UnderWay, Settled, Failed,
     ReconnectResumes, ScheduleReconnect, Stale, Listener, NoFrame, ownerVars,
     socketVars, Gens, None
<1>6. PenaltyInv'
  BY TicketAssumption DEF TicketInv, OwnershipInv, TypeOK, FlowsOwned, SocketsOwned,
     FramesOwned, RetriesOwned, PenaltyInv, UnderWay, Settled, Failed,
     ReconnectResumes, ScheduleReconnect, Stale, Listener, NoFrame, ownerVars,
     socketVars, Gens, None
<1> QED
  BY <1>1, <1>2, <1>3, <1>4, <1>5, <1>6 DEF TicketInv, OwnershipInv

LEMMA SocketCreatedKeeps ==
    ASSUME TicketInv, NEW throws \in BOOLEAN, SocketCreated(throws)
    PROVE  TicketInv'
<1>1. TypeOK'
  <2> USE TicketAssumption DEF TicketInv, OwnershipInv, TypeOK, None
  <2>1. (closing \in BOOLEAN)'
    BY DEF SocketCreated, Stale, Settle, Advance, NoFrame, retryVars, historyVars
  <2>2. (gen \in Nat /\ connecting \in 0 .. MaxGen)'
    BY DEF SocketCreated, Stale, Settle, Advance, NoFrame, retryVars, historyVars
  <2>3. (status \in {"live", "offline"} /\ socketOpen \in BOOLEAN /\ heartbeat \in BOOLEAN)'
    BY DEF SocketCreated, Stale, Settle, Advance, NoFrame, retryVars, historyVars
  <2>4. (socket \in 0 .. MaxGen /\ cancelOpen \in 0 .. MaxGen)'
    BY DEF SocketCreated, Stale, Settle, Advance, NoFrame, retryVars, historyVars
  <2>5. (attempt \in 0 .. Attempts /\ timer \in 0 .. MaxGen)'
    BY DEF SocketCreated, Stale, Settle, Advance, NoFrame, retryVars, historyVars,
       FlowsOwned
  <2>6. (covers \in BOOLEAN /\ penalty \in BOOLEAN)'
    BY DEF SocketCreated, Stale, Settle, Advance, NoFrame, retryVars, historyVars
  <2>7. (flow \in [Gens -> {"none", "api", "gifts", "create", "opening"} \cup Settled])'
    BY DEF SocketCreated, Stale, Settle, Advance, NoFrame, retryVars, historyVars,
       Gens, Settled, Failed
  <2>8. (wire \in [Gens -> {"none", "connecting", "open", "closing", "closed"}]
         /\ reconn \in [Gens -> BOOLEAN])'
    BY DEF SocketCreated, Stale, Settle, Advance, NoFrame, retryVars, historyVars,
       Gens
  <2>9. (frame \in [at : {"none", "offline", "gifts", "socket", "disconnected", "reconnecting",
                         "error"}, g : 0 .. MaxGen])'
    BY DEF SocketCreated, Stale, Settle, Advance, NoFrame, retryVars, historyVars,
       FlowsOwned
  <2>10. (listenersConnect \in BOOLEAN /\ auto \subseteq Gens /\ told \in BOOLEAN)'
    BY DEF SocketCreated, Stale, Settle, Advance, NoFrame, retryVars, historyVars
  <2> QED
    BY <2>1, <2>2, <2>3, <2>4, <2>5, <2>6, <2>7, <2>8, <2>9, <2>10
<1>2. FlowsOwned'
  BY TicketAssumption DEF TicketInv, OwnershipInv, TypeOK, FlowsOwned, SocketsOwned,
     FramesOwned, RetriesOwned, OneRetryLoop, UnderWay, Settled, Failed,
     SocketCreated, Stale, Settle, Advance, NoFrame, retryVars, historyVars, Gens,
     None
<1>3. SocketsOwned'
  BY TicketAssumption DEF TicketInv, OwnershipInv, TypeOK, FlowsOwned, SocketsOwned,
     FramesOwned, RetriesOwned, OneRetryLoop, UnderWay, Settled, Failed,
     SocketCreated, Stale, Settle, Advance, NoFrame, retryVars, historyVars, Gens,
     None
<1>4. FramesOwned'
  BY TicketAssumption DEF TicketInv, OwnershipInv, TypeOK, FlowsOwned, SocketsOwned,
     FramesOwned, RetriesOwned, OneRetryLoop, UnderWay, Settled, Failed,
     SocketCreated, Stale, Settle, Advance, NoFrame, retryVars, historyVars, Gens,
     None
<1>5. RetriesOwned'
  BY TicketAssumption DEF TicketInv, OwnershipInv, TypeOK, FlowsOwned, SocketsOwned,
     FramesOwned, RetriesOwned, OneRetryLoop, UnderWay, Settled, Failed,
     SocketCreated, Stale, Settle, Advance, NoFrame, retryVars, historyVars, Gens,
     None
<1>6. PenaltyInv'
  BY TicketAssumption DEF TicketInv, OwnershipInv, TypeOK, FlowsOwned, SocketsOwned,
     FramesOwned, RetriesOwned, PenaltyInv, UnderWay, Settled, Failed,
     SocketCreated, Stale, Settle, Advance, NoFrame, retryVars, historyVars, Gens,
     None
<1> QED
  BY <1>1, <1>2, <1>3, <1>4, <1>5, <1>6 DEF TicketInv, OwnershipInv

LEMMA OfflineReturnsKeeps ==
    ASSUME TicketInv, OfflineReturns
    PROVE  TicketInv'
<1>1. TypeOK'
  BY TicketAssumption DEF TicketInv, OwnershipInv, TypeOK, FlowsOwned, FramesOwned,
     Settled, Failed, OfflineReturns, Settle, NoFrame, socketVars, retryVars,
     historyVars, Gens, None
<1>2. FlowsOwned'
  BY TicketAssumption DEF TicketInv, OwnershipInv, TypeOK, FlowsOwned, SocketsOwned,
     FramesOwned, RetriesOwned, OneRetryLoop, UnderWay, Settled, Failed,
     OfflineReturns, Settle, NoFrame, socketVars, retryVars, historyVars, Gens, None
<1>3. SocketsOwned'
  BY TicketAssumption DEF TicketInv, OwnershipInv, TypeOK, FlowsOwned, SocketsOwned,
     FramesOwned, RetriesOwned, OneRetryLoop, UnderWay, Settled, Failed,
     OfflineReturns, Settle, NoFrame, socketVars, retryVars, historyVars, Gens, None
<1>4. FramesOwned'
  BY TicketAssumption DEF TicketInv, OwnershipInv, TypeOK, FlowsOwned, SocketsOwned,
     FramesOwned, RetriesOwned, OneRetryLoop, UnderWay, Settled, Failed,
     OfflineReturns, Settle, NoFrame, socketVars, retryVars, historyVars, Gens, None
<1>5. RetriesOwned'
  BY TicketAssumption DEF TicketInv, OwnershipInv, TypeOK, FlowsOwned, SocketsOwned,
     FramesOwned, RetriesOwned, OneRetryLoop, UnderWay, Settled, Failed,
     OfflineReturns, Settle, NoFrame, socketVars, retryVars, historyVars, Gens, None
<1>6. PenaltyInv'
  BY TicketAssumption DEF TicketInv, OwnershipInv, TypeOK, FlowsOwned, SocketsOwned,
     FramesOwned, RetriesOwned, PenaltyInv, UnderWay, Settled, Failed,
     OfflineReturns, Settle, NoFrame, socketVars, retryVars, historyVars, Stale,
     Gens, None
<1> QED
  BY <1>1, <1>2, <1>3, <1>4, <1>5, <1>6 DEF TicketInv, OwnershipInv

LEMMA GiftsErrorReturnsKeeps ==
    ASSUME TicketInv, GiftsErrorReturns
    PROVE  TicketInv'
<1>1. TypeOK'
  <2> USE TicketAssumption DEF TicketInv, OwnershipInv, TypeOK, None
  <2>1. (closing \in BOOLEAN)'
    BY DEF GiftsErrorReturns, Stale, Settle, Advance, NoFrame, socketVars,
       retryVars, historyVars
  <2>2. (gen \in Nat /\ connecting \in 0 .. MaxGen)'
    BY DEF GiftsErrorReturns, Stale, Settle, Advance, NoFrame, socketVars,
       retryVars, historyVars
  <2>3. (status \in {"live", "offline"} /\ socketOpen \in BOOLEAN /\ heartbeat \in BOOLEAN)'
    BY DEF GiftsErrorReturns, Stale, Settle, Advance, NoFrame, socketVars,
       retryVars, historyVars
  <2>4. (socket \in 0 .. MaxGen /\ cancelOpen \in 0 .. MaxGen)'
    BY DEF GiftsErrorReturns, Stale, Settle, Advance, NoFrame, socketVars,
       retryVars, historyVars
  <2>5. (attempt \in 0 .. Attempts /\ timer \in 0 .. MaxGen)'
    BY DEF GiftsErrorReturns, Stale, Settle, Advance, NoFrame, socketVars,
       retryVars, historyVars, FlowsOwned
  <2>6. (covers \in BOOLEAN /\ penalty \in BOOLEAN)'
    BY DEF GiftsErrorReturns, Stale, Settle, Advance, NoFrame, socketVars,
       retryVars, historyVars
  <2>7. (flow \in [Gens -> {"none", "api", "gifts", "create", "opening"} \cup Settled])'
    BY DEF GiftsErrorReturns, Stale, Settle, Advance, NoFrame, socketVars,
       retryVars, historyVars, Gens, Settled, Failed
  <2>8. (wire \in [Gens -> {"none", "connecting", "open", "closing", "closed"}]
         /\ reconn \in [Gens -> BOOLEAN])'
    BY DEF GiftsErrorReturns, Stale, Settle, Advance, NoFrame, socketVars,
       retryVars, historyVars, Gens
  <2>9. (frame \in [at : {"none", "offline", "gifts", "socket", "disconnected", "reconnecting",
                         "error"}, g : 0 .. MaxGen])'
    BY DEF GiftsErrorReturns, Stale, Settle, Advance, NoFrame, socketVars,
       retryVars, historyVars, FlowsOwned
  <2>10. (listenersConnect \in BOOLEAN /\ auto \subseteq Gens /\ told \in BOOLEAN)'
    BY DEF GiftsErrorReturns, Stale, Settle, Advance, NoFrame, socketVars,
       retryVars, historyVars
  <2> QED
    BY <2>1, <2>2, <2>3, <2>4, <2>5, <2>6, <2>7, <2>8, <2>9, <2>10
<1>2. FlowsOwned'
  BY TicketAssumption DEF TicketInv, OwnershipInv, TypeOK, FlowsOwned, SocketsOwned,
     FramesOwned, RetriesOwned, OneRetryLoop, UnderWay, Settled, Failed,
     GiftsErrorReturns, Stale, Settle, Advance, NoFrame, socketVars, retryVars,
     historyVars, Gens, None
<1>3. SocketsOwned'
  BY TicketAssumption DEF TicketInv, OwnershipInv, TypeOK, FlowsOwned, SocketsOwned,
     FramesOwned, RetriesOwned, OneRetryLoop, UnderWay, Settled, Failed,
     GiftsErrorReturns, Stale, Settle, Advance, NoFrame, socketVars, retryVars,
     historyVars, Gens, None
<1>4. FramesOwned'
  BY TicketAssumption DEF TicketInv, OwnershipInv, TypeOK, FlowsOwned, SocketsOwned,
     FramesOwned, RetriesOwned, OneRetryLoop, UnderWay, Settled, Failed,
     GiftsErrorReturns, Stale, Settle, Advance, NoFrame, socketVars, retryVars,
     historyVars, Gens, None
<1>5. RetriesOwned'
  BY TicketAssumption DEF TicketInv, OwnershipInv, TypeOK, FlowsOwned, SocketsOwned,
     FramesOwned, RetriesOwned, OneRetryLoop, UnderWay, Settled, Failed,
     GiftsErrorReturns, Stale, Settle, Advance, NoFrame, socketVars, retryVars,
     historyVars, Gens, None
<1>6. PenaltyInv'
  BY TicketAssumption DEF TicketInv, OwnershipInv, TypeOK, FlowsOwned, SocketsOwned,
     FramesOwned, RetriesOwned, PenaltyInv, UnderWay, Settled, Failed,
     GiftsErrorReturns, Stale, Settle, Advance, NoFrame, socketVars, retryVars,
     historyVars, Gens, None
<1> QED
  BY <1>1, <1>2, <1>3, <1>4, <1>5, <1>6 DEF TicketInv, OwnershipInv

LEMMA DisconnectedReturnsKeeps ==
    ASSUME TicketInv, DisconnectedReturns
    PROVE  TicketInv'
<1>1. TypeOK'
  <2> USE TicketAssumption DEF TicketInv, OwnershipInv, TypeOK, None
  <2>1. (closing \in BOOLEAN)'
    BY DEF DisconnectedReturns, ScheduleReconnect, Listener, NoFrame, ownerVars,
       socketVars
  <2>2. (gen \in Nat /\ connecting \in 0 .. MaxGen)'
    BY DEF DisconnectedReturns, ScheduleReconnect, Listener, NoFrame, ownerVars,
       socketVars
  <2>3. (status \in {"live", "offline"} /\ socketOpen \in BOOLEAN /\ heartbeat \in BOOLEAN)'
    BY DEF DisconnectedReturns, ScheduleReconnect, Listener, NoFrame, ownerVars,
       socketVars
  <2>4. (socket \in 0 .. MaxGen /\ cancelOpen \in 0 .. MaxGen)'
    BY DEF DisconnectedReturns, ScheduleReconnect, Listener, NoFrame, ownerVars,
       socketVars
  <2>5. (attempt \in 0 .. Attempts /\ timer \in 0 .. MaxGen)'
    BY DEF DisconnectedReturns, ScheduleReconnect, Listener, NoFrame, ownerVars,
       socketVars, FlowsOwned
  <2>6. (covers \in BOOLEAN /\ penalty \in BOOLEAN)'
    BY DEF DisconnectedReturns, ScheduleReconnect, Listener, NoFrame, ownerVars,
       socketVars
  <2>7. (flow \in [Gens -> {"none", "api", "gifts", "create", "opening"} \cup Settled])'
    BY DEF DisconnectedReturns, ScheduleReconnect, Listener, NoFrame, ownerVars,
       socketVars, Gens, Settled, Failed
  <2>8. (wire \in [Gens -> {"none", "connecting", "open", "closing", "closed"}]
         /\ reconn \in [Gens -> BOOLEAN])'
    BY DEF DisconnectedReturns, ScheduleReconnect, Listener, NoFrame, ownerVars,
       socketVars, Gens
  <2>9. (frame \in [at : {"none", "offline", "gifts", "socket", "disconnected", "reconnecting",
                         "error"}, g : 0 .. MaxGen])'
    BY DEF DisconnectedReturns, ScheduleReconnect, Listener, NoFrame, ownerVars,
       socketVars, FlowsOwned
  <2>10. (listenersConnect \in BOOLEAN /\ auto \subseteq Gens /\ told \in BOOLEAN)'
    BY DEF DisconnectedReturns, ScheduleReconnect, Listener, NoFrame, ownerVars,
       socketVars
  <2> QED
    BY <2>1, <2>2, <2>3, <2>4, <2>5, <2>6, <2>7, <2>8, <2>9, <2>10
<1>2. FlowsOwned'
  BY FlowsFrame DEF TicketInv, OwnershipInv, DisconnectedReturns, ScheduleReconnect,
     Listener, NoFrame, ownerVars, socketVars
<1>3. SocketsOwned'
  BY SocketsFrame DEF TicketInv, OwnershipInv, DisconnectedReturns,
     ScheduleReconnect, Listener, NoFrame, ownerVars, socketVars
<1>4. FramesOwned'
  BY TicketAssumption DEF TicketInv, OwnershipInv, TypeOK, FlowsOwned, SocketsOwned,
     FramesOwned, RetriesOwned, OneRetryLoop, UnderWay, Settled, Failed,
     DisconnectedReturns, ScheduleReconnect, Listener, NoFrame, ownerVars,
     socketVars, Gens, None
<1>5. RetriesOwned'
  BY TicketAssumption DEF TicketInv, OwnershipInv, TypeOK, FlowsOwned, SocketsOwned,
     FramesOwned, RetriesOwned, OneRetryLoop, UnderWay, Settled, Failed,
     DisconnectedReturns, ScheduleReconnect, Listener, NoFrame, ownerVars,
     socketVars, Gens, None
<1>6. PenaltyInv'
  BY TicketAssumption DEF TicketInv, OwnershipInv, TypeOK, FlowsOwned, SocketsOwned,
     FramesOwned, RetriesOwned, PenaltyInv, UnderWay, Settled, Failed,
     DisconnectedReturns, ScheduleReconnect, Listener, NoFrame, ownerVars,
     socketVars, Stale, Gens, None
<1> QED
  BY <1>1, <1>2, <1>3, <1>4, <1>5, <1>6 DEF TicketInv, OwnershipInv

LEMMA ErrorReturnsKeeps ==
    ASSUME TicketInv, ErrorReturns
    PROVE  TicketInv'
<1>1. TypeOK'
  <2> USE TicketAssumption DEF TicketInv, OwnershipInv, TypeOK, None
  <2>1. (closing \in BOOLEAN)'
    BY DEF ErrorReturns, ScheduleReconnect, IsRetryable, Listener, NoFrame,
       ownerVars, socketVars
  <2>2. (gen \in Nat /\ connecting \in 0 .. MaxGen)'
    BY DEF ErrorReturns, ScheduleReconnect, IsRetryable, Listener, NoFrame,
       ownerVars, socketVars
  <2>3. (status \in {"live", "offline"} /\ socketOpen \in BOOLEAN /\ heartbeat \in BOOLEAN)'
    BY DEF ErrorReturns, ScheduleReconnect, IsRetryable, Listener, NoFrame,
       ownerVars, socketVars
  <2>4. (socket \in 0 .. MaxGen /\ cancelOpen \in 0 .. MaxGen)'
    BY DEF ErrorReturns, ScheduleReconnect, IsRetryable, Listener, NoFrame,
       ownerVars, socketVars
  <2>5. (attempt \in 0 .. Attempts /\ timer \in 0 .. MaxGen)'
    BY DEF ErrorReturns, ScheduleReconnect, IsRetryable, Listener, NoFrame,
       ownerVars, socketVars, FlowsOwned
  <2>6. (covers \in BOOLEAN /\ penalty \in BOOLEAN)'
    BY DEF ErrorReturns, ScheduleReconnect, IsRetryable, Listener, NoFrame,
       ownerVars, socketVars
  <2>7. (flow \in [Gens -> {"none", "api", "gifts", "create", "opening"} \cup Settled])'
    BY DEF ErrorReturns, ScheduleReconnect, IsRetryable, Listener, NoFrame,
       ownerVars, socketVars, Gens, Settled, Failed
  <2>8. (wire \in [Gens -> {"none", "connecting", "open", "closing", "closed"}]
         /\ reconn \in [Gens -> BOOLEAN])'
    BY DEF ErrorReturns, ScheduleReconnect, IsRetryable, Listener, NoFrame,
       ownerVars, socketVars, Gens
  <2>9. (frame \in [at : {"none", "offline", "gifts", "socket", "disconnected", "reconnecting",
                         "error"}, g : 0 .. MaxGen])'
    BY DEF ErrorReturns, ScheduleReconnect, IsRetryable, Listener, NoFrame,
       ownerVars, socketVars, FlowsOwned
  <2>10. (listenersConnect \in BOOLEAN /\ auto \subseteq Gens /\ told \in BOOLEAN)'
    BY DEF ErrorReturns, ScheduleReconnect, IsRetryable, Listener, NoFrame,
       ownerVars, socketVars
  <2> QED
    BY <2>1, <2>2, <2>3, <2>4, <2>5, <2>6, <2>7, <2>8, <2>9, <2>10
<1>2. FlowsOwned'
  BY FlowsFrame DEF TicketInv, OwnershipInv, ErrorReturns, ScheduleReconnect,
     IsRetryable, Listener, NoFrame, ownerVars, socketVars
<1>3. SocketsOwned'
  BY SocketsFrame DEF TicketInv, OwnershipInv, ErrorReturns, ScheduleReconnect,
     IsRetryable, Listener, NoFrame, ownerVars, socketVars
<1>4. FramesOwned'
  BY TicketAssumption DEF TicketInv, OwnershipInv, TypeOK, FlowsOwned, SocketsOwned,
     FramesOwned, RetriesOwned, OneRetryLoop, UnderWay, Settled, Failed,
     ErrorReturns, ScheduleReconnect, IsRetryable, Listener, NoFrame, ownerVars,
     socketVars, Gens, None
<1>5. RetriesOwned'
  BY TicketAssumption DEF TicketInv, OwnershipInv, TypeOK, FlowsOwned, SocketsOwned,
     FramesOwned, RetriesOwned, OneRetryLoop, UnderWay, Settled, Failed,
     ErrorReturns, ScheduleReconnect, IsRetryable, Listener, NoFrame, ownerVars,
     socketVars, Gens, None
<1>6. PenaltyInv'
  BY TicketAssumption DEF TicketInv, OwnershipInv, TypeOK, FlowsOwned, SocketsOwned,
     FramesOwned, RetriesOwned, PenaltyInv, UnderWay, Settled, Failed, ErrorReturns,
     ScheduleReconnect, IsRetryable, Listener, NoFrame, ownerVars, socketVars,
     Stale, Gens, None
<1> QED
  BY <1>1, <1>2, <1>3, <1>4, <1>5, <1>6 DEF TicketInv, OwnershipInv

LEMMA ArmTimerKeeps ==
    ASSUME TicketInv, ArmTimer
    PROVE  TicketInv'
<1>1. TypeOK'
  BY TicketAssumption DEF TicketInv, OwnershipInv, TypeOK, FlowsOwned, FramesOwned,
     Settled, Failed, ArmTimer, Stale, NoFrame, ownerVars, socketVars, historyVars,
     Gens, None
<1>2. FlowsOwned'
  BY FlowsFrame DEF TicketInv, OwnershipInv, ArmTimer, Stale, NoFrame, ownerVars,
     socketVars, historyVars
<1>3. SocketsOwned'
  BY TicketAssumption DEF TicketInv, OwnershipInv, TypeOK, FlowsOwned, SocketsOwned,
     FramesOwned, RetriesOwned, OneRetryLoop, UnderWay, Settled, Failed, ArmTimer,
     Stale, NoFrame, ownerVars, socketVars, historyVars, Gens, None
<1>4. FramesOwned'
  BY TicketAssumption DEF TicketInv, OwnershipInv, TypeOK, FlowsOwned, SocketsOwned,
     FramesOwned, RetriesOwned, OneRetryLoop, UnderWay, Settled, Failed, ArmTimer,
     Stale, NoFrame, ownerVars, socketVars, historyVars, Gens, None
<1>5. RetriesOwned'
  BY TicketAssumption DEF TicketInv, OwnershipInv, TypeOK, FlowsOwned, SocketsOwned,
     FramesOwned, RetriesOwned, OneRetryLoop, UnderWay, Settled, Failed, ArmTimer,
     Stale, NoFrame, ownerVars, socketVars, historyVars, Gens, None
<1>6. PenaltyInv'
  BY TicketAssumption DEF TicketInv, OwnershipInv, TypeOK, FlowsOwned, SocketsOwned,
     FramesOwned, RetriesOwned, PenaltyInv, UnderWay, Settled, Failed, ArmTimer,
     Stale, NoFrame, ownerVars, socketVars, historyVars, Gens, None
<1> QED
  BY <1>1, <1>2, <1>3, <1>4, <1>5, <1>6 DEF TicketInv, OwnershipInv

LEMMA TimerFiresKeeps ==
    ASSUME TicketInv, TimerFires
    PROVE  TicketInv'
<1>1. TypeOK'
  <2> USE TicketAssumption DEF TicketInv, OwnershipInv, TypeOK, None
  <2>1. (closing \in BOOLEAN)'
    BY DEF TimerFires, Stale, StartConnect, ownerVars, socketVars
  <2>2. (gen \in Nat /\ connecting \in 0 .. MaxGen)'
    BY NextGen DEF TimerFires, Stale, StartConnect, ownerVars, socketVars
  <2>3. (status \in {"live", "offline"} /\ socketOpen \in BOOLEAN /\ heartbeat \in BOOLEAN)'
    BY DEF TimerFires, Quiet, Stale, Connected, StartConnect, NoFrame, ownerVars,
       socketVars
  <2>4. (socket \in 0 .. MaxGen /\ cancelOpen \in 0 .. MaxGen)'
    BY DEF TimerFires, Quiet, Stale, Connected, StartConnect, NoFrame, ownerVars,
       socketVars
  <2>5. (attempt \in 0 .. Attempts /\ timer \in 0 .. MaxGen)'
    BY DEF TimerFires, Quiet, Stale, Connected, StartConnect, NoFrame, ownerVars,
       socketVars, FlowsOwned
  <2>6. (covers \in BOOLEAN /\ penalty \in BOOLEAN)'
    BY DEF TimerFires, Quiet, Stale, Connected, StartConnect, NoFrame, ownerVars,
       socketVars
  <2>7. (flow \in [Gens -> {"none", "api", "gifts", "create", "opening"} \cup Settled])'
    BY DEF TimerFires, Quiet, Stale, Connected, StartConnect, NoFrame, ownerVars,
       socketVars, Gens, Settled, Failed
  <2>8. (wire \in [Gens -> {"none", "connecting", "open", "closing", "closed"}]
         /\ reconn \in [Gens -> BOOLEAN])'
    BY DEF TimerFires, Quiet, Stale, Connected, StartConnect, NoFrame, ownerVars,
       socketVars, Gens
  <2>9. (frame \in [at : {"none", "offline", "gifts", "socket", "disconnected", "reconnecting",
                         "error"}, g : 0 .. MaxGen])'
    BY DEF TimerFires, Quiet, Stale, Connected, StartConnect, NoFrame, ownerVars,
       socketVars, FlowsOwned
  <2>10. (listenersConnect \in BOOLEAN /\ auto \subseteq Gens /\ told \in BOOLEAN)'
    BY NextGen DEF TimerFires, Stale, StartConnect, ownerVars, socketVars
  <2> QED
    BY <2>1, <2>2, <2>3, <2>4, <2>5, <2>6, <2>7, <2>8, <2>9, <2>10
<1>2. FlowsOwned'
  BY TicketAssumption DEF TicketInv, OwnershipInv, TypeOK, FlowsOwned, SocketsOwned,
     FramesOwned, RetriesOwned, OneRetryLoop, UnderWay, Settled, Failed, TimerFires,
     Quiet, Stale, Connected, StartConnect, NoFrame, ownerVars, socketVars, Gens,
     None
<1>3. SocketsOwned'
  BY TicketAssumption DEF TicketInv, OwnershipInv, TypeOK, FlowsOwned, SocketsOwned,
     FramesOwned, RetriesOwned, OneRetryLoop, UnderWay, Settled, Failed, TimerFires,
     Quiet, Stale, Connected, StartConnect, NoFrame, ownerVars, socketVars, Gens,
     None
<1>4. FramesOwned'
  BY TicketAssumption DEF TicketInv, OwnershipInv, TypeOK, FlowsOwned, SocketsOwned,
     FramesOwned, RetriesOwned, OneRetryLoop, UnderWay, Settled, Failed, TimerFires,
     Quiet, Stale, Connected, StartConnect, NoFrame, ownerVars, socketVars, Gens,
     None
<1>5. RetriesOwned'
  BY TicketAssumption DEF TicketInv, OwnershipInv, TypeOK, FlowsOwned, SocketsOwned,
     FramesOwned, RetriesOwned, OneRetryLoop, UnderWay, Settled, Failed, TimerFires,
     Quiet, Stale, Connected, StartConnect, NoFrame, ownerVars, socketVars, Gens,
     None
<1>6. PenaltyInv'
  BY TicketAssumption DEF TicketInv, OwnershipInv, TypeOK, FlowsOwned, SocketsOwned,
     FramesOwned, RetriesOwned, PenaltyInv, UnderWay, Settled, Failed, TimerFires,
     Quiet, Stale, Connected, StartConnect, NoFrame, ownerVars, socketVars, Gens,
     None
<1> QED
  BY <1>1, <1>2, <1>3, <1>4, <1>5, <1>6 DEF TicketInv, OwnershipInv

LEMMA PenaltyPassesKeeps ==
    ASSUME TicketInv, PenaltyPasses
    PROVE  TicketInv'
<1>1. TypeOK'
  BY TicketAssumption DEF TicketInv, OwnershipInv, TypeOK, FlowsOwned, FramesOwned,
     Settled, Failed, PenaltyPasses, Quiet, NoFrame, ownerVars, socketVars,
     historyVars, Gens, None
<1>2. FlowsOwned'
  BY FlowsFrame DEF TicketInv, OwnershipInv, PenaltyPasses, Quiet, NoFrame,
     ownerVars, socketVars, historyVars
<1>3. SocketsOwned'
  BY SocketsFrame DEF TicketInv, OwnershipInv, PenaltyPasses, Quiet, NoFrame,
     ownerVars, socketVars, historyVars
<1>4. FramesOwned'
  BY FramesFrame DEF TicketInv, OwnershipInv, PenaltyPasses, Quiet, NoFrame,
     ownerVars, socketVars, historyVars
<1>5. RetriesOwned'
  BY RetriesFrame DEF TicketInv, OwnershipInv, PenaltyPasses, Quiet, NoFrame,
     ownerVars, socketVars, historyVars
<1>6. PenaltyInv'
  BY TicketAssumption DEF TicketInv, OwnershipInv, TypeOK, FlowsOwned, SocketsOwned,
     FramesOwned, RetriesOwned, PenaltyInv, UnderWay, Settled, Failed,
     PenaltyPasses, Quiet, NoFrame, ownerVars, socketVars, historyVars, Stale, Gens,
     None
<1> QED
  BY <1>1, <1>2, <1>3, <1>4, <1>5, <1>6 DEF TicketInv, OwnershipInv

LEMMA ConnectKeeps ==
    ASSUME TicketInv, Connect
    PROVE  TicketInv'
<1>1. TypeOK'
  <2> USE TicketAssumption DEF TicketInv, OwnershipInv, TypeOK, None
  <2>1. (closing \in BOOLEAN)'
    BY DEF Connect, StartConnect, socketVars
  <2>2. (gen \in Nat /\ connecting \in 0 .. MaxGen)'
    BY NextGen DEF Connect, StartConnect, socketVars
  <2>3. (status \in {"live", "offline"} /\ socketOpen \in BOOLEAN /\ heartbeat \in BOOLEAN)'
    BY DEF Connect, Connected, Quiet, StartConnect, NoFrame, socketVars
  <2>4. (socket \in 0 .. MaxGen /\ cancelOpen \in 0 .. MaxGen)'
    BY DEF Connect, Connected, Quiet, StartConnect, NoFrame, socketVars
  <2>5. (attempt \in 0 .. Attempts /\ timer \in 0 .. MaxGen)'
    BY DEF Connect, Connected, Quiet, StartConnect, NoFrame, socketVars, FlowsOwned
  <2>6. (covers \in BOOLEAN /\ penalty \in BOOLEAN)'
    BY DEF Connect, Connected, Quiet, StartConnect, NoFrame, socketVars
  <2>7. (flow \in [Gens -> {"none", "api", "gifts", "create", "opening"} \cup Settled])'
    BY DEF Connect, Connected, Quiet, StartConnect, NoFrame, socketVars, Gens,
       Settled, Failed
  <2>8. (wire \in [Gens -> {"none", "connecting", "open", "closing", "closed"}]
         /\ reconn \in [Gens -> BOOLEAN])'
    BY DEF Connect, Connected, Quiet, StartConnect, NoFrame, socketVars, Gens
  <2>9. (frame \in [at : {"none", "offline", "gifts", "socket", "disconnected", "reconnecting",
                         "error"}, g : 0 .. MaxGen])'
    BY DEF Connect, Connected, Quiet, StartConnect, NoFrame, socketVars, FlowsOwned
  <2>10. (listenersConnect \in BOOLEAN /\ auto \subseteq Gens /\ told \in BOOLEAN)'
    BY NextGen DEF Connect, StartConnect, socketVars
  <2> QED
    BY <2>1, <2>2, <2>3, <2>4, <2>5, <2>6, <2>7, <2>8, <2>9, <2>10
<1>2. FlowsOwned'
  BY TicketAssumption DEF TicketInv, OwnershipInv, TypeOK, FlowsOwned, SocketsOwned,
     FramesOwned, RetriesOwned, OneRetryLoop, UnderWay, Settled, Failed, Connect,
     Connected, Quiet, StartConnect, NoFrame, socketVars, Gens, None
<1>3. SocketsOwned'
  BY TicketAssumption DEF TicketInv, OwnershipInv, TypeOK, FlowsOwned, SocketsOwned,
     FramesOwned, RetriesOwned, OneRetryLoop, UnderWay, Settled, Failed, Connect,
     Connected, Quiet, StartConnect, NoFrame, socketVars, Gens, None
<1>4. FramesOwned'
  BY TicketAssumption DEF TicketInv, OwnershipInv, TypeOK, FlowsOwned, SocketsOwned,
     FramesOwned, RetriesOwned, OneRetryLoop, UnderWay, Settled, Failed, Connect,
     Connected, Quiet, StartConnect, NoFrame, socketVars, Gens, None
<1>5. RetriesOwned'
  BY TicketAssumption DEF TicketInv, OwnershipInv, TypeOK, FlowsOwned, SocketsOwned,
     FramesOwned, RetriesOwned, OneRetryLoop, UnderWay, Settled, Failed, Connect,
     Connected, Quiet, StartConnect, NoFrame, socketVars, Gens, None
<1>6. PenaltyInv'
  <2> SUFFICES ASSUME ~listenersConnect PROVE PenaltyInv'
    BY DEF PenaltyInv, Connect
  <2>1. frame.at \notin {"offline", "disconnected", "error", "gifts"} /\ (frame = NoFrame => Quiet)
    BY DEF Connect
  <2>2. \A g \in Gens : reconn[g] => flow[g] # "offline"
    BY <2>1 DEF TicketInv, OwnershipInv, TypeOK, FramesOwned, PenaltyInv, Quiet, Settled
  <2>3. gen + 1 \in Gens /\ ~reconn[gen + 1] /\ gen + 1 # gen
    BY NextGen DEF TicketInv, OwnershipInv, TypeOK, FlowsOwned, Connect, StartConnect
  <2>4. /\ gen' = gen + 1 /\ timer' = None /\ flow' = [flow EXCEPT ![gen + 1] = "api"]
        /\ UNCHANGED <<frame, reconn, penalty, listenersConnect>>
    BY DEF Connect, StartConnect
  <2>5. frame.at = "reconnecting" => frame.g # gen + 1
    BY DEF TicketInv, OwnershipInv, TypeOK, FramesOwned
  <2> QED
    BY <2>1, <2>2, <2>3, <2>4, <2>5 DEF PenaltyInv, Stale, TicketInv, OwnershipInv, TypeOK

<1> QED
  BY <1>1, <1>2, <1>3, <1>4, <1>5, <1>6 DEF TicketInv, OwnershipInv

LEMMA DisconnectKeeps ==
    ASSUME TicketInv, Disconnect
    PROVE  TicketInv'
<1>1. TypeOK'
  <2> USE TicketAssumption DEF TicketInv, OwnershipInv, TypeOK, None
  <2>1. (closing \in BOOLEAN)'
    BY DEF Disconnect, Drop, historyVars
  <2>2. (gen \in Nat /\ connecting \in 0 .. MaxGen)'
    BY DEF Disconnect, Drop, historyVars
  <2>3. (status \in {"live", "offline"} /\ socketOpen \in BOOLEAN /\ heartbeat \in BOOLEAN)'
    BY DEF Disconnect, Drop, historyVars
  <2>4. (socket \in 0 .. MaxGen /\ cancelOpen \in 0 .. MaxGen)'
    BY DEF Disconnect, Drop, historyVars
  <2>5. (attempt \in 0 .. Attempts /\ timer \in 0 .. MaxGen)'
    BY DEF Disconnect, Drop, historyVars, FlowsOwned
  <2>6. (covers \in BOOLEAN /\ penalty \in BOOLEAN)'
    BY DEF Disconnect, Drop, historyVars
  <2>7. (flow \in [Gens -> {"none", "api", "gifts", "create", "opening"} \cup Settled])'
    BY DEF Disconnect, Drop, historyVars, Gens, Settled, Failed
  <2>8. (wire \in [Gens -> {"none", "connecting", "open", "closing", "closed"}]
         /\ reconn \in [Gens -> BOOLEAN])'
    BY DEF Disconnect, Drop, historyVars, Gens
  <2>9. (frame \in [at : {"none", "offline", "gifts", "socket", "disconnected", "reconnecting",
                         "error"}, g : 0 .. MaxGen])'
    BY DEF Disconnect, Drop, historyVars, FlowsOwned
  <2>10. (listenersConnect \in BOOLEAN /\ auto \subseteq Gens /\ told \in BOOLEAN)'
    BY DEF Disconnect, Drop, historyVars
  <2> QED
    BY <2>1, <2>2, <2>3, <2>4, <2>5, <2>6, <2>7, <2>8, <2>9, <2>10
<1>2. FlowsOwned'
  BY TicketAssumption DEF TicketInv, OwnershipInv, TypeOK, FlowsOwned, SocketsOwned,
     FramesOwned, RetriesOwned, OneRetryLoop, UnderWay, Settled, Failed, Disconnect,
     Drop, historyVars, Gens, None
<1>3. SocketsOwned'
  BY TicketAssumption DEF TicketInv, OwnershipInv, TypeOK, FlowsOwned, SocketsOwned,
     FramesOwned, RetriesOwned, OneRetryLoop, UnderWay, Settled, Failed, Disconnect,
     Drop, historyVars, Gens, None
<1>4. FramesOwned'
  BY TicketAssumption DEF TicketInv, OwnershipInv, TypeOK, FlowsOwned, SocketsOwned,
     FramesOwned, RetriesOwned, OneRetryLoop, UnderWay, Settled, Failed, Disconnect,
     Drop, historyVars, NoFrame, Gens, None
<1>5. RetriesOwned'
  BY TicketAssumption DEF TicketInv, OwnershipInv, TypeOK, FlowsOwned, SocketsOwned,
     FramesOwned, RetriesOwned, OneRetryLoop, UnderWay, Settled, Failed, Disconnect,
     Drop, historyVars, Gens, None
<1>6. PenaltyInv'
  BY TicketAssumption DEF TicketInv, OwnershipInv, TypeOK, FlowsOwned, SocketsOwned,
     FramesOwned, RetriesOwned, PenaltyInv, UnderWay, Settled, Failed, Disconnect,
     Drop, historyVars, Stale, Gens, None
<1> QED
  BY <1>1, <1>2, <1>3, <1>4, <1>5, <1>6 DEF TicketInv, OwnershipInv

LEMMA WriteOverflowsKeeps ==
    ASSUME TicketInv, WriteOverflows
    PROVE  TicketInv'
<1>1. TypeOK'
  <2> USE TicketAssumption DEF TicketInv, OwnershipInv, TypeOK, None
  <2>1. (closing \in BOOLEAN)'
    BY DEF WriteOverflows, Quiet, Connected, Drop, NoFrame
  <2>2. (gen \in Nat /\ connecting \in 0 .. MaxGen)'
    BY DEF WriteOverflows, Quiet, Connected, Drop, NoFrame
  <2>3. (status \in {"live", "offline"} /\ socketOpen \in BOOLEAN /\ heartbeat \in BOOLEAN)'
    BY DEF WriteOverflows, Quiet, Connected, Drop, NoFrame
  <2>4. (socket \in 0 .. MaxGen /\ cancelOpen \in 0 .. MaxGen)'
    BY DEF WriteOverflows, Quiet, Connected, Drop, NoFrame
  <2>5. (attempt \in 0 .. Attempts /\ timer \in 0 .. MaxGen)'
    BY DEF WriteOverflows, Quiet, Connected, Drop, NoFrame, FlowsOwned
  <2>6. (covers \in BOOLEAN /\ penalty \in BOOLEAN)'
    BY DEF WriteOverflows, Quiet, Connected, Drop, NoFrame
  <2>7. (flow \in [Gens -> {"none", "api", "gifts", "create", "opening"} \cup Settled])'
    BY DEF WriteOverflows, Quiet, Connected, Drop, NoFrame, Gens, Settled, Failed
  <2>8. (wire \in [Gens -> {"none", "connecting", "open", "closing", "closed"}]
         /\ reconn \in [Gens -> BOOLEAN])'
    BY DEF WriteOverflows, Quiet, Connected, Drop, NoFrame, Gens
  <2>9. (frame \in [at : {"none", "offline", "gifts", "socket", "disconnected", "reconnecting",
                         "error"}, g : 0 .. MaxGen])'
    BY DEF WriteOverflows, Quiet, Connected, Drop, NoFrame, FlowsOwned
  <2>10. (listenersConnect \in BOOLEAN /\ auto \subseteq Gens /\ told \in BOOLEAN)'
    BY DEF WriteOverflows, Quiet, Connected, Drop, NoFrame
  <2> QED
    BY <2>1, <2>2, <2>3, <2>4, <2>5, <2>6, <2>7, <2>8, <2>9, <2>10
<1>2. FlowsOwned'
  BY TicketAssumption DEF TicketInv, OwnershipInv, TypeOK, FlowsOwned, SocketsOwned,
     FramesOwned, RetriesOwned, OneRetryLoop, UnderWay, Settled, Failed,
     WriteOverflows, Quiet, Connected, Drop, NoFrame, Gens, None
<1>3. SocketsOwned'
  BY TicketAssumption DEF TicketInv, OwnershipInv, TypeOK, FlowsOwned, SocketsOwned,
     FramesOwned, RetriesOwned, OneRetryLoop, UnderWay, Settled, Failed,
     WriteOverflows, Quiet, Connected, Drop, NoFrame, Gens, None
<1>4. FramesOwned'
  BY TicketAssumption DEF TicketInv, OwnershipInv, TypeOK, FlowsOwned, SocketsOwned,
     FramesOwned, RetriesOwned, OneRetryLoop, UnderWay, Settled, Failed,
     WriteOverflows, Quiet, Connected, Drop, NoFrame, Gens, None
<1>5. RetriesOwned'
  BY TicketAssumption DEF TicketInv, OwnershipInv, TypeOK, FlowsOwned, SocketsOwned,
     FramesOwned, RetriesOwned, OneRetryLoop, UnderWay, Settled, Failed,
     WriteOverflows, Quiet, Connected, Drop, NoFrame, Gens, None
<1>6. PenaltyInv'
  BY TicketAssumption DEF TicketInv, OwnershipInv, TypeOK, FlowsOwned, SocketsOwned,
     FramesOwned, RetriesOwned, PenaltyInv, UnderWay, Settled, Failed,
     WriteOverflows, Quiet, Connected, Drop, NoFrame, Stale, Gens, None
<1> QED
  BY <1>1, <1>2, <1>3, <1>4, <1>5, <1>6 DEF TicketInv, OwnershipInv

LEMMA SocketClosesKeeps ==
    ASSUME TicketInv, NEW g \in Gens, SocketCloses(g)
    PROVE  TicketInv'
<1>1. TypeOK'
  BY TicketAssumption DEF TicketInv, OwnershipInv, TypeOK, FlowsOwned, FramesOwned,
     Settled, Failed, SocketCloses, Quiet, Listener, NoFrame, ownerVars, retryVars,
     Gens, None
<1>2. FlowsOwned'
  BY TicketAssumption DEF TicketInv, OwnershipInv, TypeOK, FlowsOwned, SocketsOwned,
     FramesOwned, RetriesOwned, OneRetryLoop, UnderWay, Settled, Failed,
     SocketCloses, Quiet, Listener, NoFrame, ownerVars, retryVars, Gens, None
<1>3. SocketsOwned'
  BY TicketAssumption DEF TicketInv, OwnershipInv, TypeOK, FlowsOwned, SocketsOwned,
     FramesOwned, RetriesOwned, OneRetryLoop, UnderWay, Settled, Failed,
     SocketCloses, Quiet, Listener, NoFrame, ownerVars, retryVars, Gens, None
<1>4. FramesOwned'
  BY TicketAssumption DEF TicketInv, OwnershipInv, TypeOK, FlowsOwned, SocketsOwned,
     FramesOwned, RetriesOwned, OneRetryLoop, UnderWay, Settled, Failed,
     SocketCloses, Quiet, Listener, NoFrame, ownerVars, retryVars, Gens, None
<1>5. RetriesOwned'
  BY TicketAssumption DEF TicketInv, OwnershipInv, TypeOK, FlowsOwned, SocketsOwned,
     FramesOwned, RetriesOwned, OneRetryLoop, UnderWay, Settled, Failed,
     SocketCloses, Quiet, Listener, NoFrame, ownerVars, retryVars, Gens, None
<1>6. PenaltyInv'
  BY TicketAssumption DEF TicketInv, OwnershipInv, TypeOK, FlowsOwned, SocketsOwned,
     FramesOwned, RetriesOwned, PenaltyInv, UnderWay, Settled, Failed, SocketCloses,
     Quiet, Listener, NoFrame, ownerVars, retryVars, Stale, Gens, None
<1> QED
  BY <1>1, <1>2, <1>3, <1>4, <1>5, <1>6 DEF TicketInv, OwnershipInv

LEMMA NextKeeps ==
    ASSUME TicketInv, Next
    PROVE  TicketInv'
<1>1. CASE Progress
  BY <1>1, TicketKeeps, GiftsKeeps, CreateSocketKeeps, SocketOpensKeeps, OpenTimeoutKeeps,
     StaleSocketClosesKeeps, HandshakeFailsKeeps, ReconnectResumesKeeps, SocketCreatedKeeps,
     OfflineReturnsKeeps, GiftsErrorReturnsKeeps, DisconnectedReturnsKeeps, ErrorReturnsKeeps,
     ArmTimerKeeps, TimerFiresKeeps, PenaltyPassesKeeps DEF Progress
<1> QED
  BY <1>1, ConnectKeeps, DisconnectKeeps, WriteOverflowsKeeps, SocketClosesKeeps DEF Next

(* Who owns the flows, sockets, listeners and retries of a TikTokLive of   *)
(* live-sdk, and what a delay that the broker asked for implies, hold in   *)
(* every state of the client.                                              *)
THEOREM TicketInvHolds == Spec => []TicketInv
<1>1. TicketInv /\ UNCHANGED vars => TicketInv'
  <2> SUFFICES ASSUME TicketInv, UNCHANGED vars PROVE TicketInv'
    OBVIOUS
  <2>1. TypeOK'
    BY DEF TicketInv, OwnershipInv, TypeOK, vars, ownerVars, socketVars, retryVars, historyVars
  <2> QED
    BY <2>1, FlowsFrame, SocketsFrame, FramesFrame, RetriesFrame, PenaltyFrame
       DEF TicketInv, OwnershipInv, vars, ownerVars, socketVars, retryVars, historyVars
<1> QED
  BY <1>1, InitHolds, NextKeeps, PTL DEF Spec

(* Ownership: whatever listeners, timers, answers and sockets do, the live *)
(* socket is the one disconnect() closes, 'connected' is true, one retry   *)
(* loop is alive, and a closed client has nothing left that could reopen.  *)
THEOREM OwnershipHolds == Spec => []Ownership
<1>1. TicketInv => Ownership
  <2> SUFFICES ASSUME TicketInv PROVE Ownership
    OBVIOUS
  <2>1. Connected <=> socketOpen
    BY DEF TicketInv, OwnershipInv, SocketsOwned, Connected
  <2>2. \A g \in Gens : wire[g] \in {"connecting", "open"} => socket = g
    BY DEF TicketInv, OwnershipInv, FlowsOwned, SocketsOwned
  <2>3. closing => connecting = None /\ \A g \in Gens : flow[g] # "opening"
    BY DEF TicketInv, OwnershipInv, FlowsOwned
  <2> QED
    BY <2>1, <2>2, <2>3 DEF TicketInv, OwnershipInv, SocketsOwned, RetriesOwned, Ownership
<1> QED
  BY <1>1, TicketInvHolds, PTL

LEMMA StepHonours ==
    ASSUME TicketInv, [Next]_vars
    PROVE  ~listenersConnect => \A g \in auto' \ auto : ~penalty
<1>1. auto' = auto \/ TimerFires
  <2>1. CASE Progress
    BY <2>1 DEF Progress, Ticket, Gifts, CreateSocket, SocketOpens, OpenTimeout,
       StaleSocketCloses, HandshakeFails, ReconnectResumes, SocketCreated, OfflineReturns,
       GiftsErrorReturns, DisconnectedReturns, ErrorReturns, ArmTimer, PenaltyPasses, historyVars
  <2>2. CASE Connect \/ Disconnect \/ WriteOverflows \/ \E g \in Gens : SocketCloses(g)
    BY <2>2 DEF Connect, Disconnect, WriteOverflows, SocketCloses, historyVars
  <2>3. CASE UNCHANGED vars
    BY <2>3 DEF vars, historyVars
  <2> QED
    BY <2>1, <2>2, <2>3 DEF Next
<1>2. CASE TimerFires
  BY <1>2 DEF TimerFires, TicketInv, PenaltyInv
<1> QED
  BY <1>1, <1>2

(* #reconnect of live-sdk never asks the broker before the retryAfterMs of *)
(* its latest answer has passed, unless the user's own connect() came      *)
(* between: for any budget of attempts.                                    *)
THEOREM RetryAfterHolds == Spec => RetryAfterHonoured
<1>1. TicketInv /\ [Next]_vars => [~listenersConnect => \A g \in auto' \ auto : ~penalty]_vars
  BY StepHonours
<1> QED
  BY <1>1, TicketInvHolds, PTL DEF Spec, RetryAfterHonoured

--------------------------------------------------------------------------------
(* What Resolves rests on                                                  *)

(* The user who was not told yet how the reconnecting ended still has      *)
(* somebody who works on it: an open connection, the listeners before the  *)
(* schedule or before the timer, the timer, or a #reconnect() under way.   *)
(* Hence no offline answer, delay or failed attempt drops the reconnecting *)
(* without a word.                                                         *)
Driven ==
    ~told /\ ~closing /\ gen \in Gens =>
        \/ Connected
        \/ frame.at \in {"disconnected", "error"}
        \/ frame.at = "reconnecting" /\ frame.g = gen
        \/ timer = gen
        \/ reconn[gen]

(* The success that #reconnect() is about to return is an open connection, *)
(* and an error that will not be retried has been reported.                *)
OkIsUp == ~closing /\ gen \in Gens /\ flow[gen] = "ok" /\ reconn[gen] => Connected
FinalIsTold == frame.at = "error" /\ ~closing => told \/ IsRetryable(flow[frame.g])

DrivenInv == Driven /\ OkIsUp /\ FinalIsTold

(* Flows, their listeners and penalties move without touching what drives  *)
(* the reconnecting.                                                       *)
LEMMA DrivenFlows ==
    ASSUME TicketInv, DrivenInv,
           \/ \E g \in Gens :
                 \/ (\E answer \in Answers : Ticket(g, answer)) \/ (\E ok \in BOOLEAN : Gifts(g, ok))
                 \/ CreateSocket(g) \/ OpenTimeout(g) \/ StaleSocketCloses(g)
           \/ PenaltyPasses \/ (\E throws \in BOOLEAN : SocketCreated(throws))
           \/ OfflineReturns \/ GiftsErrorReturns
    PROVE  DrivenInv'
<1>1. /\ TypeOK /\ frame.at \in {"none", "offline", "gifts", "socket"}
      /\ frame'.at \in {"none", "offline", "gifts", "socket"}
  BY DEF TicketInv, OwnershipInv, TypeOK, Ticket, Gifts, CreateSocket, OpenTimeout, StaleSocketCloses,
     PenaltyPasses, SocketCreated, OfflineReturns, GiftsErrorReturns, Quiet, NoFrame, Listener
<1>2. UNCHANGED <<closing, gen, socketOpen, timer, reconn, told>>
  BY Zenon DEF Ticket, Gifts, CreateSocket, OpenTimeout, StaleSocketCloses, PenaltyPasses,
     SocketCreated, OfflineReturns, GiftsErrorReturns, ownerVars, socketVars, retryVars, historyVars
<1>3. Connected => Connected'
  BY <1>1, <1>2 DEF Ticket, Gifts, CreateSocket, OpenTimeout, StaleSocketCloses, PenaltyPasses,
     SocketCreated, OfflineReturns, GiftsErrorReturns, Connected, socketVars, TicketInv,
     OwnershipInv, SocketsOwned, FlowsOwned, UnderWay, Settled, Stale
<1>4. \A h \in Gens : flow'[h] = "ok" => flow[h] = "ok"
  BY <1>1 DEF Ticket, Gifts, CreateSocket, OpenTimeout, StaleSocketCloses, PenaltyPasses,
     SocketCreated, OfflineReturns, GiftsErrorReturns, Settle, Advance, AfterTicket, TypeOK, Failed
<1> QED
  BY <1>1, <1>2, <1>3, <1>4 DEF DrivenInv, Driven, OkIsUp, FinalIsTold

(* The socket opens, fails before it is open, or is lost: 'close' on the   *)
(* open socket comes after the #reconnect() that waited for it has         *)
(* returned, and before its listeners run.                                 *)
LEMMA DrivenSockets ==
    ASSUME TicketInv, DrivenInv, NEW g \in Gens,
           (\E sent \in Sends : SocketOpens(g, sent)) \/ HandshakeFails(g) \/ SocketCloses(g)
    PROVE  DrivenInv'
<1>1. TypeOK /\ frame = NoFrame /\ NoFrame.at = "none"
  BY DEF TicketInv, OwnershipInv, SocketOpens, HandshakeFails, SocketCloses, Quiet, NoFrame
<1>2. ASSUME NEW sent \in Sends, SocketOpens(g, sent) PROVE DrivenInv'
  <2>1. CASE sent = "ok"
    BY <1>1, <1>2, <2>1 DEF SocketOpens, DrivenInv, Driven, OkIsUp, FinalIsTold, Connected
  <2>2. CASE sent = "throws"
    BY <1>1, <1>2, <2>2 DEF SocketOpens, Settle, socketVars, historyVars, TypeOK, Connected, DrivenInv,
       Driven, OkIsUp, FinalIsTold
  <2>3. CASE sent = "overflow"
    BY <1>1, <1>2, <2>3 DEF SocketOpens, Drop, DrivenInv, Driven, OkIsUp, FinalIsTold
  <2> QED
    BY <1>2, <2>1, <2>2, <2>3 DEF Sends
<1>3. CASE HandshakeFails(g)
  <2>1. ~Connected
    BY <1>1, <1>3 DEF HandshakeFails, TicketInv, OwnershipInv, SocketsOwned, Connected
  <2> QED
    BY <1>1, <1>3, <2>1 DEF HandshakeFails, Settle, retryVars, historyVars, TypeOK, DrivenInv, Driven,
       OkIsUp, FinalIsTold
<1>4. CASE SocketCloses(g)
  <2>1. g = gen /\ flow[gen] = "ok" /\ ~reconn[gen]
    BY <1>1, <1>4 DEF SocketCloses, Quiet, Settled, TicketInv, OwnershipInv, SocketsOwned
  <2>2. frame'.at = "disconnected"
    BY <1>4 DEF SocketCloses, Listener
  <2> QED
    BY <1>4, <2>1, <2>2 DEF SocketCloses, ownerVars, DrivenInv, Driven, OkIsUp, FinalIsTold
<1> QED
  BY <1>2, <1>3, <1>4

(* #scheduleReconnect finds the budget spent and says so, or leads to the  *)
(* timer, unless something is armed already.                               *)
LEMMA DrivenSchedule ==
    ASSUME TypeOK, OneRetryLoop, NEW retryAfter \in BOOLEAN, ScheduleReconnect(retryAfter),
           UNCHANGED <<closing, gen, timer>>
    PROVE  /\ frame'.at \in {"none", "reconnecting"}
           /\ ~told' /\ ~closing' /\ gen' \in Gens =>
                 (frame'.at = "reconnecting" /\ frame'.g = gen') \/ timer' = gen'
<1>1. CASE closing \/ timer # None \/ attempt >= Attempts
  <2>1. frame' = NoFrame /\ told' = (told \/ (~closing /\ timer = None /\ attempt >= Attempts))
    BY <1>1 DEF ScheduleReconnect
  <2> QED
    BY <1>1, <2>1 DEF TypeOK, OneRetryLoop, NoFrame
<1>2. CASE ~(closing \/ timer # None \/ attempt >= Attempts)
  <2>1. frame' = Listener("reconnecting", gen)
    BY <1>2 DEF ScheduleReconnect
  <2> QED
    BY <2>1 DEF Listener
<1> QED
  BY <1>1, <1>2

LEMMA DrivenListeners ==
    ASSUME TicketInv, DrivenInv, DisconnectedReturns \/ ErrorReturns \/ ArmTimer
    PROVE  DrivenInv'
<1>1. /\ TypeOK /\ OneRetryLoop /\ UNCHANGED <<closing, gen, flow, reconn, socketOpen, status>>
  BY DEF TicketInv, OwnershipInv, RetriesOwned, DisconnectedReturns, ErrorReturns, ArmTimer, ownerVars,
     socketVars
<1>2. OkIsUp'
  BY <1>1 DEF DrivenInv, OkIsUp, Connected
<1>3. CASE DisconnectedReturns
  <2>1. ScheduleReconnect(FALSE) /\ timer' = timer
    BY <1>3 DEF DisconnectedReturns
  <2> QED
    BY <1>1, <1>2, <2>1, DrivenSchedule DEF DrivenInv, Driven, FinalIsTold
<1>4. CASE ErrorReturns
  <2>1. timer' = timer /\ (told' => told' \in BOOLEAN)
    BY <1>4 DEF ErrorReturns
  <2>2. CASE ~closing /\ IsRetryable(flow[frame.g])
    <3>1. ScheduleReconnect(flow[frame.g] = "limited")
      BY <1>4, <2>2 DEF ErrorReturns
    <3>2. (flow[frame.g] = "limited") \in BOOLEAN
      OBVIOUS
    <3> QED
      BY <1>1, <1>2, <2>1, <3>1, <3>2, DrivenSchedule DEF DrivenInv, Driven, FinalIsTold
  <2>3. CASE closing \/ ~IsRetryable(flow[frame.g])
    <3>1. frame' = NoFrame /\ told' = told /\ frame.at = "error"
      BY <1>4, <2>3 DEF ErrorReturns
    <3>2. closing \/ told
      BY <2>3, <3>1 DEF DrivenInv, FinalIsTold
    <3> QED
      BY <1>1, <1>2, <3>1, <3>2 DEF DrivenInv, Driven, FinalIsTold, NoFrame
  <2> QED
    BY <2>2, <2>3
<1>5. CASE ArmTimer
  BY <1>1, <1>2, <1>5 DEF ArmTimer, historyVars, Stale, NoFrame, Connected, DrivenInv, Driven,
     FinalIsTold, OneRetryLoop
<1> QED
  BY <1>3, <1>4, <1>5

(* connect() by the user hands out a promise; connect() by #reconnect() is *)
(* awaited by it.                                                          *)
LEMMA DrivenConnects ==
    ASSUME TicketInv, DrivenInv, Connect \/ TimerFires
    PROVE  DrivenInv'
<1>1. TypeOK /\ FlowsOwned /\ OneRetryLoop
  BY DEF TicketInv, OwnershipInv, RetriesOwned
<1>2. ASSUME StartConnect PROVE gen' = gen + 1 /\ gen + 1 \in Gens /\ flow'[gen + 1] = "api"
  <2>1. gen < MaxGen /\ gen' = gen + 1 /\ flow' = [flow EXCEPT ![gen + 1] = "api"]
    BY <1>2 DEF StartConnect
  <2> QED
    BY <1>1, <2>1, NextGen DEF TypeOK
<1>3. CASE Connect
  BY <1>2, <1>3 DEF Connect, DrivenInv, Driven, OkIsUp, FinalIsTold
<1>4. CASE TimerFires
  <2>0. frame'.at = "none" /\ Connected' = Connected
    BY <1>4 DEF TimerFires, Quiet, NoFrame, Connected, socketVars
  <2>1. CASE Stale(timer) \/ Connected
    BY <1>1, <1>4, <2>0, <2>1 DEF TimerFires, Stale, ownerVars, OneRetryLoop, DrivenInv, Driven, OkIsUp,
       FinalIsTold
  <2>2. CASE ~Stale(timer) /\ ~Connected /\ connecting # None
    <3>1. connecting = gen /\ flow[gen] # "ok"
      BY <1>1, <2>2 DEF FlowsOwned, UnderWay
    <3>2. UNCHANGED <<closing, gen, flow>> /\ reconn' = [reconn EXCEPT ![gen] = TRUE]
      BY <1>4, <2>2, <3>1 DEF TimerFires, ownerVars
    <3> QED
      BY <1>1, <2>0, <3>1, <3>2 DEF TypeOK, DrivenInv, Driven, OkIsUp, FinalIsTold
  <2>3. CASE ~Stale(timer) /\ ~Connected /\ connecting = None
    <3>1. StartConnect /\ reconn' = [reconn EXCEPT ![gen + 1] = TRUE]
      BY <1>4, <2>3 DEF TimerFires
    <3> QED
      BY <1>1, <1>2, <2>0, <3>1 DEF TypeOK, DrivenInv, Driven, OkIsUp, FinalIsTold
  <2> QED
    BY <2>1, <2>2, <2>3
<1> QED
  BY <1>3, <1>4

(* #reconnect() returns with an open connection, schedules again, or goes  *)
(* through its 'error' listeners.                                          *)
LEMMA DrivenResumes ==
    ASSUME TicketInv, DrivenInv, NEW g \in Gens, ReconnectResumes(g)
    PROVE  DrivenInv'
<1>1. TypeOK /\ OneRetryLoop /\ frame.at = "none"
  BY DEF TicketInv, OwnershipInv, RetriesOwned, ReconnectResumes, NoFrame
<1>2. /\ UNCHANGED <<closing, gen, timer, flow, socketOpen, status>>
      /\ reconn[g] /\ reconn' = [reconn EXCEPT ![g] = FALSE]
  BY DEF ReconnectResumes, ownerVars, socketVars
<1>3. OkIsUp'
  BY <1>1, <1>2 DEF TypeOK, DrivenInv, OkIsUp, Connected
<1>4. CASE ScheduleReconnect(FALSE)
  BY <1>1, <1>2, <1>3, <1>4, DrivenSchedule DEF DrivenInv, Driven, FinalIsTold
<1>5. CASE /\ flow[g] = "ok" \/ (flow[g] = "offline" /\ closing) \/ (flow[g] \in Failed /\ Stale(g))
           /\ UNCHANGED <<frame, told>>
  BY <1>1, <1>2, <1>3, <1>5 DEF TypeOK, Stale, Connected, DrivenInv, Driven, OkIsUp, FinalIsTold
<1>6. CASE frame' = Listener("error", g) /\ told' = (told \/ ~IsRetryable(flow[g]))
  BY <1>2, <1>3, <1>6 DEF Listener, DrivenInv, Driven, FinalIsTold
<1> QED
  BY <1>4, <1>5, <1>6 DEF ReconnectResumes

LEMMA DrivenNext == TicketInv /\ DrivenInv /\ [Next]_vars => DrivenInv'
<1> SUFFICES ASSUME TicketInv, DrivenInv, [Next]_vars PROVE DrivenInv'
  OBVIOUS
<1>1. CASE UNCHANGED vars
  BY <1>1 DEF vars, ownerVars, socketVars, retryVars, historyVars, DrivenInv, Driven, OkIsUp,
     FinalIsTold, Connected
<1>2. CASE \E g \in Gens :
             \/ (\E answer \in Answers : Ticket(g, answer)) \/ (\E ok \in BOOLEAN : Gifts(g, ok))
             \/ CreateSocket(g) \/ OpenTimeout(g) \/ StaleSocketCloses(g)
  BY <1>2, DrivenFlows, Zenon
<1>3. CASE \/ PenaltyPasses \/ (\E throws \in BOOLEAN : SocketCreated(throws))
           \/ OfflineReturns \/ GiftsErrorReturns
  BY <1>3, DrivenFlows, Zenon
<1>4. ASSUME NEW g \in Gens,
             (\E sent \in Sends : SocketOpens(g, sent)) \/ HandshakeFails(g) \/ SocketCloses(g)
      PROVE  DrivenInv'
  BY <1>4, DrivenSockets
<1>5. CASE Disconnect \/ WriteOverflows
  <2>1. closing' = TRUE
    BY <1>5, Zenon DEF Disconnect, WriteOverflows, Drop
  <2> QED
    BY <2>1 DEF DrivenInv, Driven, OkIsUp, FinalIsTold
<1>6. CASE DisconnectedReturns \/ ErrorReturns \/ ArmTimer
  BY <1>6, DrivenListeners
<1>7. CASE Connect \/ TimerFires
  BY <1>7, DrivenConnects
<1>8. CASE \E g \in Gens : ReconnectResumes(g)
  BY <1>8, DrivenResumes
<1> QED
  BY <1>1, <1>2, <1>3, <1>4, <1>5, <1>6, <1>7, <1>8, Zenon DEF Next, Progress

(* A ticket client whose reconnecting has not been reported never stops    *)
(* trying: the safety half of Resolves, for any budget of attempts.        *)
THEOREM DrivenHolds == Spec => []Driven
<1>1. Init => DrivenInv
  BY DEF Init, DrivenInv, Driven, OkIsUp, FinalIsTold, Gens, NoFrame
<1>2. Spec => []DrivenInv
  BY <1>1, TicketInvHolds, DrivenNext, PTL DEF Spec
<1>3. DrivenInv => Driven
  BY DEF DrivenInv
<1> QED
  BY <1>2, <1>3, PTL
================================================================================
