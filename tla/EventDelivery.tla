----------------------------- MODULE EventDelivery -----------------------------
(***************************************************************************)
(* The event delivery of the Node client: the bounded ring of              *)
(* packages/tiktok-live/src/delivery.ts, the receive loop that fills it    *)
(* and the dispatcher that empties it (#receive and #dispatch of           *)
(* client.ts), and the owner's calls that invalidate what it holds.        *)
(*                                                                         *)
(* JavaScript runs one callback at a time, so pc names what the running    *)
(* callback is doing; "idle" means that the event loop picks the next one. *)
(* A listener is user code: while one runs (pc is "event", "typed" or      *)
(* "error") it may call connect() and disconnect() as often as it likes.   *)
(***************************************************************************)
EXTENDS Integers, Sequences

CONSTANTS
    Capacity,    \* eventDelivery.capacity, where it is not 0
    MaxBytes,    \* eventDelivery.maxBytes
    BatchSize,   \* eventDelivery.batchSize
    Charges,     \* the byte charges an event may have
    MaxBatch,    \* bound: messages in one received frame
    MaxEvents,   \* bound: events received in a behaviour
    MaxGen       \* bound: the connection generation a user call may reach

(* The checks of the constructor. *)
ASSUME OptionsAssumption ==
    /\ Capacity \in Nat \ {0}
    /\ MaxBytes \in Nat \ {0}
    /\ BatchSize \in Nat \ {0}
    /\ Charges \subseteq Nat
    /\ MaxBatch \in Nat
    /\ MaxEvents \in Nat
    /\ MaxGen \in Nat

VARIABLES
    mode,                           \* "queued", or "sync" when eventDelivery.capacity is 0
    ring, head, depth, bytes,       \* #queue, #head, #depth, #bytes
    timer,                          \* #timer
    immediates,                     \* setImmediate callbacks not yet run or cancelled
    received, dispatched, discarded, rejections,
    pc, cur, count, left, rgen,     \* the running callback and its locals
    closing, gen, link,             \* the owner: #closing, #generation, its socket
    cutoff,                         \* history: received when disconnect() last ran
    last                            \* history: the event 'event' listeners saw last

queueVars == <<ring, head, depth, bytes, timer, immediates>>
metricVars == <<received, dispatched, discarded, rejections>>
localVars == <<pc, cur, count, left, rgen>>
ownerVars == <<closing, gen, link>>
vars == <<mode, queueVars, metricVars, localVars, ownerVars, cutoff, last>>

Slots == 0 .. Capacity - 1
Empty == [id |-> 0, gen |-> 0, bytes |-> 0]
Entry == [id : Nat, gen : Nat, bytes : Nat]
NoEntries == [s \in Slots |-> Empty]

(* What runs when consume() returns: the receive loop or the drain loop. *)
Resume == IF mode = "sync" THEN "receive" ELSE "drain"

Listening == {"event", "typed", "error"}

Init ==
    /\ mode \in {"sync", "queued"}
    /\ ring = NoEntries /\ head = 0 /\ depth = 0 /\ bytes = 0
    /\ timer = "null" /\ immediates = 0
    /\ received = 0 /\ dispatched = 0 /\ discarded = 0 /\ rejections = 0
    /\ pc = "idle" /\ cur = Empty /\ count = 0 /\ left = 0 /\ rgen = 0
    /\ closing = FALSE /\ gen = 0 /\ link = "down"
    /\ cutoff = 0 /\ last = 0

--------------------------------------------------------------------------------
(* delivery.ts *)

(* #schedule with the depth the caller leaves behind. *)
Schedule(d) ==
    IF timer = "armed" \/ d = 0
    THEN UNCHANGED <<timer, immediates>>
    ELSE timer' = "armed" /\ immediates' = immediates + 1

(* clear() on a queue from which lost events were already dropped. *)
ClearKeepsImmediate(lost) ==
    /\ timer' = "null"
    /\ UNCHANGED immediates
    /\ discarded' = discarded + depth + lost
    /\ ring' = NoEntries /\ depth' = 0 /\ head' = 0 /\ bytes' = 0
ClearForgetsCount(lost) ==
    /\ timer' = "null"
    /\ immediates' = IF timer = "armed" THEN immediates - 1 ELSE immediates
    /\ discarded' = discarded + lost
    /\ ring' = NoEntries /\ depth' = 0 /\ head' = 0 /\ bytes' = 0
ClearForgetsBytes(lost) ==
    /\ timer' = "null"
    /\ immediates' = IF timer = "armed" THEN immediates - 1 ELSE immediates
    /\ discarded' = discarded + depth + lost
    /\ ring' = NoEntries /\ depth' = 0 /\ head' = 0
    /\ UNCHANGED bytes
Clear(lost) ==
    /\ timer' = "null"
    /\ immediates' = IF timer = "armed" THEN immediates - 1 ELSE immediates
    /\ discarded' = discarded + depth + lost
    /\ ring' = NoEntries /\ depth' = 0 /\ head' = 0 /\ bytes' = 0

(* disconnect(): as far as delivery sees it. *)
InvalidateOwner ==
    /\ closing' = TRUE
    /\ gen' = gen + 1
    /\ link' = "down"

(* consume(), that is #dispatch: a stale event is refused, a current one   *)
(* goes to the 'event' listeners.                                          *)
Dispatch(e) ==
    \/ /\ closing \/ e.gen # gen
       /\ discarded' = discarded + 1
       /\ pc' = Resume
       /\ cur' = Empty
       /\ UNCHANGED last
    \/ /\ ~closing /\ e.gen = gen
       /\ pc' = "event"
       /\ cur' = e
       /\ last' = e.id
       /\ UNCHANGED discarded

(* submit() when the queue is synchronous. *)
SubmitNow(e) ==
    /\ mode = "sync"
    /\ Dispatch(e)
    /\ UNCHANGED <<queueVars, dispatched, rejections, count, ownerVars, cutoff>>

Fits(e) == depth # Capacity /\ e.bytes <= MaxBytes - bytes

(* submit() when there is room. *)
SubmitAtHead(e) ==
    /\ mode = "queued"
    /\ Fits(e)
    /\ ring' = [ring EXCEPT ![(head + depth + Capacity - 1) % Capacity] = e]
    /\ depth' = depth + 1
    /\ bytes' = bytes + e.bytes
    /\ Schedule(depth + 1)
    /\ UNCHANGED <<head, dispatched, discarded, rejections, pc, cur, count,
                   ownerVars, cutoff, last>>
SubmitQueued(e) ==
    /\ mode = "queued"
    /\ Fits(e)
    /\ ring' = [ring EXCEPT ![(head + depth) % Capacity] = e]
    /\ depth' = depth + 1
    /\ bytes' = bytes + e.bytes
    /\ Schedule(depth + 1)
    /\ UNCHANGED <<head, dispatched, discarded, rejections, pc, cur, count,
                   ownerVars, cutoff, last>>

(* submit() at the limit: the queue is dropped, the owner disconnects and  *)
(* tells its 'error' listeners.                                            *)
SubmitOverflow(e) ==
    /\ mode = "queued"
    /\ ~Fits(e)
    /\ rejections' = rejections + 1
    /\ Clear(1)
    /\ InvalidateOwner
    /\ cutoff' = received + 1
    /\ pc' = "error"
    /\ UNCHANGED <<dispatched, cur, count, last>>

(* The setImmediate callback starts. *)
Immediate ==
    /\ pc = "idle"
    /\ immediates > 0
    /\ immediates' = immediates - 1
    /\ timer' = "null"
    /\ pc' = "drain"
    /\ count' = 0
    /\ UNCHANGED <<mode, ring, head, depth, bytes, metricVars, cur, left, rgen,
                   ownerVars, cutoff, last>>

(* One turn of its loop. *)
DrainStep ==
    /\ pc = "drain"
    /\ depth > 0
    /\ count < BatchSize
    /\ count' = count + 1
    /\ ring' = [ring EXCEPT ![head] = Empty]
    /\ head' = (head + 1) % Capacity
    /\ depth' = depth - 1
    /\ bytes' = bytes - ring[head].bytes
    /\ Dispatch(ring[head])
    /\ UNCHANGED <<mode, timer, immediates, received, dispatched, rejections, left, rgen,
                   ownerVars, cutoff>>

(* The loop ends: the queue or the batch is exhausted, or the time budget  *)
(* is spent, which is only looked at once something was consumed.          *)
DrainEndWithoutSchedule ==
    /\ pc = "drain"
    /\ depth = 0 \/ count > 0
    /\ pc' = "idle"
    /\ count' = 0
    /\ UNCHANGED <<mode, ring, head, depth, bytes, timer, immediates, metricVars, cur,
                   left, rgen, ownerVars, cutoff, last>>
DrainEnd ==
    /\ pc = "drain"
    /\ depth = 0 \/ count > 0
    /\ Schedule(depth)
    /\ pc' = "idle"
    /\ count' = 0
    /\ UNCHANGED <<mode, ring, head, depth, bytes, metricVars, cur, left, rgen,
                   ownerVars, cutoff, last>>

--------------------------------------------------------------------------------
(* client.ts *)

(* A frame of n messages arrives on the current socket. *)
Receive(n) ==
    /\ pc = "idle"
    /\ link = "up" /\ ~closing
    /\ received + n <= MaxEvents
    /\ pc' = "receive"
    /\ left' = n
    /\ rgen' = gen
    /\ UNCHANGED <<mode, queueVars, metricVars, cur, count, ownerVars, cutoff, last>>

(* One turn of the loop over the frame's messages, charged b bytes. *)
ReceiveStep(b) ==
    LET e == [id |-> received + 1, gen |-> rgen, bytes |-> b]
    IN  /\ pc = "receive"
        /\ left > 0
        /\ ~closing /\ rgen = gen
        /\ received' = received + 1
        /\ left' = left - 1
        /\ SubmitNow(e) \/ SubmitQueued(e) \/ SubmitOverflow(e)
        /\ UNCHANGED <<mode, rgen>>

(* The loop ends: no message is left, or a listener invalidated the rest. *)
ReceiveEnd ==
    /\ pc = "receive"
    /\ left = 0 \/ closing \/ rgen # gen
    /\ pc' = "idle"
    /\ left' = 0 /\ rgen' = 0
    /\ UNCHANGED <<mode, queueVars, metricVars, cur, count, ownerVars, cutoff, last>>

(* #dispatch between the 'event' listeners and the typed ones. *)
EmitTypedUnchecked ==
    /\ pc = "event"
    /\ pc' = "typed"
    /\ UNCHANGED <<mode, queueVars, metricVars, cur, count, left, rgen, ownerVars, cutoff, last>>
EmitTyped ==
    /\ pc = "event"
    /\ ~closing /\ cur.gen = gen
    /\ pc' = "typed"
    /\ UNCHANGED <<mode, queueVars, metricVars, cur, count, left, rgen, ownerVars, cutoff, last>>

(* #dispatch returns true. *)
DispatchReturns ==
    /\ \/ pc = "typed"
       \/ pc = "event" /\ (closing \/ cur.gen # gen)
    /\ dispatched' = dispatched + 1
    /\ pc' = Resume
    /\ cur' = Empty
    /\ UNCHANGED <<mode, queueVars, received, discarded, rejections, count, left, rgen,
                   ownerVars, cutoff, last>>

(* The 'error' listeners of an overflow return to the receive loop. *)
ErrorReturns ==
    /\ pc = "error"
    /\ pc' = "receive"
    /\ UNCHANGED <<mode, queueVars, metricVars, cur, count, left, rgen, ownerVars, cutoff, last>>

(* The owner's disconnect(), from a listener or from outside. *)
Disconnect ==
    /\ pc \in Listening \cup {"idle"}
    /\ gen < MaxGen
    /\ InvalidateOwner
    /\ Clear(0)
    /\ cutoff' = received
    /\ UNCHANGED <<mode, received, dispatched, rejections, localVars, last>>

(* connect(), from a listener, from outside or from the reconnect timer. *)
Connect ==
    /\ pc \in Listening \cup {"idle"}
    /\ link = "down"
    /\ gen < MaxGen
    /\ closing' = FALSE
    /\ gen' = gen + 1
    /\ link' = "connecting"
    /\ UNCHANGED <<mode, queueVars, metricVars, localVars, cutoff, last>>

(* The socket opens, or closes on its own. *)
Opened ==
    /\ pc = "idle"
    /\ link = "connecting"
    /\ link' = "up"
    /\ UNCHANGED <<mode, queueVars, metricVars, localVars, closing, gen, cutoff, last>>

RemoteClose ==
    /\ pc = "idle"
    /\ link \in {"connecting", "up"}
    /\ link' = "down"
    /\ UNCHANGED <<mode, queueVars, metricVars, localVars, closing, gen, cutoff, last>>

(* The steps the program takes by itself once a callback runs. *)
Internal ==
    \/ Immediate
    \/ DrainStep
    \/ DrainEnd
    \/ \E b \in Charges : ReceiveStep(b)
    \/ ReceiveEnd
    \/ EmitTyped
    \/ DispatchReturns
    \/ ErrorReturns

Next ==
    \/ Internal
    \/ \E n \in 1 .. MaxBatch : Receive(n)
    \/ Disconnect
    \/ Connect
    \/ Opened
    \/ RemoteClose

Spec == Init /\ [][Next]_vars

(* Callbacks run to their end, and every turn of the event loop runs the   *)
(* immediates that wait for it, however busy the socket is. Nothing is     *)
(* assumed of the network or of the user's calls.                          *)
FairSpec == Spec /\ WF_vars(Internal) /\ SF_vars(Immediate)

--------------------------------------------------------------------------------
(* Properties *)

TypeOK ==
    /\ mode \in {"sync", "queued"}
    /\ ring \in [Slots -> Entry]
    /\ head \in Nat /\ depth \in Nat /\ bytes \in Int
    /\ timer \in {"null", "armed"} /\ immediates \in Nat
    /\ received \in Nat /\ dispatched \in Nat /\ discarded \in Nat /\ rejections \in Nat
    /\ pc \in {"idle", "receive", "error", "drain", "event", "typed"}
    /\ cur \in Entry /\ count \in Nat /\ left \in Nat /\ rgen \in Nat
    /\ closing \in BOOLEAN /\ gen \in Nat /\ link \in {"down", "connecting", "up"}
    /\ cutoff \in Nat /\ last \in Nat

(* An event a listener is looking at. *)
InFlight == IF pc \in {"event", "typed"} THEN 1 ELSE 0

(* Every event is counted once: the metrics of deliveryMetrics() add up to *)
(* the events received whatever listeners did while the queue was drained. *)
Accounting == received = dispatched + discarded + depth + InFlight

(* The queue never outgrows its two limits, and its byte charge is that of *)
(* the entries it still holds, so no sequence of clears and drains leaks   *)
(* charge until every event is refused: partial sums over the slots grow   *)
(* from nothing to the charge.                                             *)
Charged(entries, total) ==
    \E sum \in [0 .. Capacity -> 0 .. MaxBytes] :
       /\ sum[0] = 0
       /\ sum[Capacity] = total
       /\ \A i, j \in DOMAIN sum : i <= j => sum[i] <= sum[j]
       /\ \A s \in Slots : sum[s + 1] = sum[s] + entries[s].bytes
Budget == depth <= Capacity /\ Charged(ring, bytes)

(* Queued work always has exactly one immediate on the way, unless its     *)
(* callback is the one running: #schedule never leaves the queue stranded  *)
(* and never owns two immediates ("One bounded FIFO and one owned          *)
(* immediate").                                                            *)
OneImmediate ==
    /\ immediates = IF timer = "armed" THEN 1 ELSE 0
    /\ depth > 0 /\ timer = "null" => pc = "drain" \/ (mode = "queued" /\ pc \in {"event", "typed"})

(* No listener, generic or typed, starts with an event that was received   *)
(* before the latest disconnect(): #generation and #closing are re-checked *)
(* wherever a listener may have run.                                       *)
NothingAfterDisconnect ==
    [][pc' # pc /\ pc' \in {"event", "typed"} => cur'.id > cutoff]_vars

(* Every queued event leaves the queue, dispatched or discarded. *)
Queued(n) == \E s \in Slots : ring[s].id = n
EventuallyLeaves == \A n \in 1 .. MaxEvents : Queued(n) ~> ~Queued(n)

(* The ring implements the ordered stream: no event is seen twice, out of  *)
(* order, or after it was dropped.                                         *)
Pending == [i \in 1 .. depth |-> ring[(head + i - 1) % Capacity].id]
Stream == INSTANCE EventStream WITH accepted <- received, pending <- Pending
InOrder == Stream!Spec
================================================================================
