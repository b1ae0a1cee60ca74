-------------------------------- MODULE LiveRun --------------------------------
(***************************************************************************)
(* The transport loop that the native and mobile clients share: run of     *)
(* crates/ttl-live-core/src/lib.rs, and around it the bounded callback     *)
(* dispatcher of buffered.rs.                                              *)
(*                                                                         *)
(* Three actors: the transport, which produces notices (states, errors,    *)
(* batches, metrics) and never waits for the consumer; the dispatcher      *)
(* thread, which calls the consumer; and run_buffered, which forwards a    *)
(* stop and joins the two. A notice carries the number of its production,  *)
(* and its estimated cost.                                                 *)
(***************************************************************************)
EXTENDS Integers, Sequences

CONSTANTS
    MaxRetries,     \* max_retries
    Capacity,       \* QUEUE_CAPACITY
    ByteBudget,     \* QUEUE_ESTIMATED_BYTES
    BatchCosts,     \* what a batch may cost (estimated_retained_bytes)
    StateCost,      \* what a state costs
    NoteCost,       \* what an error or a metric costs
    MaxNotices      \* bound: notices produced before the last message or retry

ASSUME RunAssumption ==
    /\ MaxRetries \in Nat
    /\ Capacity \in Nat \ {0}
    /\ ByteBudget \in Nat
    /\ BatchCosts \subseteq Nat /\ StateCost \in Nat /\ NoteCost \in Nat
    /\ MaxNotices \in Nat

VARIABLES
    at, failures, reconnecting,    \* run: where it is, and its locals
    out,                           \* notices it is about to hand to the sink
    queue, bytes, overloaded,      \* Proxy: the channel, the reserved bytes, the flag
    stop, cancel,                  \* the caller's watch channel, and the inner one
    worker, current,               \* the dispatcher, and the notice its callback has
    returned,                      \* run_buffered has returned
    produced, delivered,           \* history: how many notices
    opens,                         \* history: attempts since the last connected socket
    seen, verdict, told            \* history: the consumer's last state, the last error
                                   \* since that state, whether Backpressure was reported

runVars == <<at, failures, reconnecting>>
queueVars == <<queue, bytes, overloaded>>
workerVars == <<worker, current>>
viewVars == <<delivered, seen, verdict, told>>
vars == <<runVars, out, queueVars, stop, cancel, workerVars, returned, produced, opens, viewVars>>

States == {"Connecting", "Connected", "Reconnecting", "Error", "Disconnected"}
Errors == {"retryable", "final"}
Kinds == States \cup Errors \cup {"decode", "batch", "metric"}
Costs == BatchCosts \cup {StateCost, NoteCost}
Notice == [kind : Kinds, cost : Costs, id : Nat]
NoNotice == [kind |-> "metric", cost |-> NoteCost, id |-> 0]

Note(kind) ==
    [kind |-> kind, cost |-> IF kind \in States THEN StateCost ELSE NoteCost, id |-> 0]

Init ==
    /\ at = "top" /\ failures = 0 /\ reconnecting = FALSE
    /\ out = <<>>
    /\ queue = <<>> /\ bytes = 0 /\ overloaded = FALSE
    /\ stop = FALSE /\ cancel = FALSE
    /\ worker = "recv" /\ current = NoNotice
    /\ returned = FALSE
    /\ produced = 0 /\ delivered = 0 /\ opens = 0
    /\ seen = "none" /\ verdict = "none" /\ told = FALSE

--------------------------------------------------------------------------------
(* run *)

(* The transport goes on when the sink has taken what it had to say.       *)
Running(place) == at = place /\ out = <<>>

Say(kinds) == out' = [i \in DOMAIN kinds |-> Note(kinds[i])]

Finish(kinds) == at' = "ended" /\ Say(kinds \o <<"Disconnected">>) /\ UNCHANGED <<failures, reconnecting>>

(* The end of an attempt: the budget is checked and the wait announced.    *)
RetryOnceMore(kinds) ==
    IF failures > MaxRetries THEN Finish(kinds \o <<"Error">>)
    ELSE /\ failures' = failures + 1
         /\ reconnecting' = TRUE
         /\ at' = "waiting"
         /\ Say(kinds \o <<"Reconnecting">>)
Retry(kinds) ==
    IF failures >= MaxRetries THEN Finish(kinds \o <<"Error">>)
    ELSE /\ failures' = failures + 1
         /\ reconnecting' = TRUE
         /\ at' = "waiting"
         /\ Say(kinds \o <<"Reconnecting">>)

RunUnchanged == UNCHANGED <<queueVars, stop, cancel, workerVars, returned, produced, viewVars>>

(* The stop is seen first wherever the loop waits (every select is biased).*)
CancelledDeaf ==
    /\ \E place \in {"top", "signing", "opening", "waiting"} : Running(place)
    /\ cancel
    /\ Finish(<<>>)
    /\ UNCHANGED opens /\ RunUnchanged
Cancelled ==
    /\ \E place \in {"top", "signing", "opening", "reading", "waiting"} : Running(place)
    /\ cancel
    /\ Finish(<<>>)
    /\ UNCHANGED opens /\ RunUnchanged

Attempt ==
    /\ Running("top") /\ ~cancel
    /\ Say(<<IF reconnecting THEN "Reconnecting" ELSE "Connecting">>)
    /\ at' = "signing"
    /\ UNCHANGED <<failures, reconnecting, opens>> /\ RunUnchanged

Sign(ok) ==
    /\ Running("signing") /\ ~cancel
    /\ IF ok THEN at' = "opening" /\ opens' = opens + 1
                  /\ UNCHANGED <<out, failures, reconnecting>>
       ELSE Finish(<<"final", "Error">>) /\ UNCHANGED opens
    /\ RunUnchanged

Opened ==
    /\ Running("opening") /\ ~cancel
    /\ failures' = 0
    /\ opens' = 0
    /\ at' = "reading"
    /\ Say(<<"Connected">>)
    /\ UNCHANGED reconnecting /\ RunUnchanged

(* Blocked200, EmptyCookies, and the statuses 401 and 403. *)
OpenRefused ==
    /\ Running("opening") /\ ~cancel
    /\ Finish(<<"final", "Error">>)
    /\ UNCHANGED opens /\ RunUnchanged

(* Any other status, a socket error, or the timeout. *)
OpenFailsAlwaysRetryable ==
    /\ Running("opening") /\ ~cancel
    /\ Retry(<<"retryable">>)
    /\ UNCHANGED opens /\ RunUnchanged
OpenFails ==
    /\ Running("opening") /\ ~cancel
    /\ Retry(<<IF failures < MaxRetries THEN "retryable" ELSE "final">>)
    /\ UNCHANGED opens /\ RunUnchanged

(* A message, acknowledged or not; its batch decodes or does not.          *)
Message(acked, decoded) ==
    /\ Running("reading") /\ ~cancel
    /\ produced < MaxNotices
    /\ LET metrics == IF acked THEN <<Note("metric"), Note("metric")>> ELSE <<Note("metric")>>
       IN  IF decoded
           THEN \E c \in BatchCosts :
                    out' = Append(metrics, [kind |-> "batch", cost |-> c, id |-> 0])
           ELSE out' = Append(metrics, Note("decode"))
    /\ UNCHANGED <<runVars, opens>> /\ RunUnchanged

SocketFails ==
    /\ Running("reading") /\ ~cancel
    /\ Retry(<<IF MaxRetries > 0 THEN "retryable" ELSE "final">>)
    /\ UNCHANGED opens /\ RunUnchanged

SocketEnds ==
    /\ Running("reading") /\ ~cancel
    /\ Retry(<<>>)
    /\ UNCHANGED opens /\ RunUnchanged

Backoff ==
    /\ Running("waiting") /\ ~cancel
    /\ produced < MaxNotices
    /\ at' = "top"
    /\ UNCHANGED <<failures, reconnecting, out, opens>> /\ RunUnchanged

--------------------------------------------------------------------------------
(* Proxy::send. Once overloaded, it drops whatever comes.                  *)

(* The thread drops its receiver when it ends, after it has said so. *)
Receiving == worker \in {"recv", "calling", "panicked"}

Fits(n) == Receiving /\ bytes + n.cost <= ByteBudget /\ Len(queue) < Capacity

Enqueue(n) ==
    /\ queue' = Append(queue, [n EXCEPT !.id = produced + 1])
    /\ bytes' = bytes + n.cost
    /\ UNCHANGED <<overloaded, cancel>>

SendNotSticky ==
    /\ out # <<>>
    /\ out' = Tail(out)
    /\ produced' = produced + 1
    /\ IF Fits(Head(out)) THEN Enqueue(Head(out))
       ELSE overloaded' = TRUE /\ cancel' = TRUE /\ UNCHANGED <<queue, bytes>>
    /\ UNCHANGED <<runVars, stop, workerVars, returned, opens, viewVars>>
Send ==
    /\ out # <<>>
    /\ out' = Tail(out)
    /\ produced' = produced + 1
    /\ IF overloaded THEN UNCHANGED <<queueVars, cancel>>
       ELSE IF Fits(Head(out)) THEN Enqueue(Head(out))
       ELSE overloaded' = TRUE /\ cancel' = TRUE /\ UNCHANGED <<queue, bytes>>
    /\ UNCHANGED <<runVars, stop, workerVars, returned, opens, viewVars>>

--------------------------------------------------------------------------------
(* The dispatcher thread *)

(* recv, and the callback starts: the consumer has the notice.             *)
Call ==
    LET n == Head(queue)
    IN  /\ worker = "recv"
        /\ queue # <<>>
        /\ queue' = Tail(queue)
        /\ current' = n
        /\ worker' = "calling"
        /\ delivered' = n.id
        /\ seen' = IF n.kind \in States THEN n.kind ELSE seen
        /\ verdict' = IF n.kind \in States THEN "none"
                      ELSE IF n.kind \in Errors THEN n.kind ELSE verdict
        /\ UNCHANGED <<runVars, out, bytes, overloaded, stop, cancel, returned, produced,
                       opens, told>>

(* The callback returns and gives its bytes back.                          *)
CallReturns ==
    /\ worker = "calling"
    /\ worker' = "recv"
    /\ bytes' = bytes - current.cost
    /\ current' = NoNotice
    /\ UNCHANGED <<runVars, out, queue, overloaded, stop, cancel, returned, produced,
                   opens, viewVars>>

(* Every producer is gone and the queue is drained: an overload is         *)
(* reported, and the thread ends.                                          *)
Drained == worker = "recv" /\ queue = <<>> /\ at = "ended" /\ out = <<>>

WorkerEndsSilently ==
    /\ Drained
    /\ worker' = "finished"
    /\ UNCHANGED <<runVars, out, queueVars, current, stop, cancel, returned, produced,
                   opens, viewVars>>
WorkerEnds ==
    /\ Drained
    /\ worker' = "finished"
    /\ IF overloaded THEN seen' = "Disconnected" /\ verdict' = "none" /\ told' = TRUE
       ELSE UNCHANGED <<seen, verdict, told>>
    /\ UNCHANGED <<runVars, out, queueVars, current, stop, cancel, returned, produced,
                   opens, delivered>>

(* The callback panics, or the one that reports the overload does;         *)
(* catch_unwind ends the thread, which says so and drops its receiver.     *)
CallPanics ==
    /\ worker = "calling" \/ (Drained /\ overloaded)
    /\ worker' = "panicked"
    /\ UNCHANGED <<runVars, out, queueVars, current, stop, cancel, returned, produced,
                   opens, viewVars>>

WorkerGone ==
    /\ worker = "panicked"
    /\ worker' = "gone"
    /\ UNCHANGED <<runVars, out, queueVars, current, stop, cancel, returned, produced,
                   opens, viewVars>>

--------------------------------------------------------------------------------
(* run_buffered *)

(* The caller asks to stop. *)
Stop ==
    /\ ~stop
    /\ stop' = TRUE
    /\ UNCHANGED <<runVars, out, queueVars, cancel, workerVars, returned, produced, opens,
                   viewVars>>

Panicked == worker \in {"panicked", "gone"}

(* The stop, or a dispatcher that died, is passed on to the transport. *)
Forward ==
    /\ stop \/ Panicked
    /\ ~cancel
    /\ cancel' = TRUE
    /\ UNCHANGED <<runVars, out, queueVars, stop, workerVars, returned, produced, opens,
                   viewVars>>

(* The transport has ended and the dispatcher thread is joined. *)
Return ==
    /\ ~returned
    /\ at = "ended" /\ out = <<>>
    /\ worker \in {"finished", "gone"}
    /\ returned' = TRUE
    /\ UNCHANGED <<runVars, out, queueVars, stop, cancel, workerVars, produced, opens,
                   viewVars>>

Transport ==
    \/ Cancelled \/ Attempt \/ (\E ok \in BOOLEAN : Sign(ok))
    \/ Opened \/ OpenRefused \/ OpenFails \/ Backoff

Dispatcher == Call \/ CallReturns \/ WorkerEnds \/ WorkerGone

Next ==
    \/ Transport
    \/ \E acked, decoded \in BOOLEAN : Message(acked, decoded)
    \/ SocketFails \/ SocketEnds
    \/ Send
    \/ Dispatcher \/ CallPanics
    \/ Stop \/ Forward \/ Return

Spec == Init /\ [][Next]_vars

(* Signing, opening and waiting have deadlines, and callbacks return; the  *)
(* open stream may go on for ever.                                         *)
FairSpec ==
    /\ Spec
    /\ WF_vars(Transport) /\ WF_vars(Send) /\ WF_vars(Dispatcher)
    /\ WF_vars(Forward) /\ WF_vars(Return)

--------------------------------------------------------------------------------
(* Properties *)

TypeOK ==
    /\ at \in {"top", "signing", "opening", "reading", "waiting", "ended"}
    /\ failures \in 0 .. MaxRetries /\ reconnecting \in BOOLEAN
    /\ out \in Seq(Notice)
    /\ queue \in Seq(Notice) /\ bytes \in Int /\ overloaded \in BOOLEAN
    /\ stop \in BOOLEAN /\ cancel \in BOOLEAN
    /\ worker \in {"recv", "calling", "panicked", "gone", "finished"} /\ current \in Notice
    /\ returned \in BOOLEAN
    /\ produced \in Nat /\ delivered \in Nat /\ opens \in Nat
    /\ seen \in States \cup {"none"} /\ verdict \in Errors \cup {"none"} /\ told \in BOOLEAN

(* The consumer sees what the transport produced, in order and without a   *)
(* gap; nothing is missing at the end unless the queue was saturated, and  *)
(* then nothing produced after the lost notice slips through.              *)
Prefix ==
    /\ \A i \in DOMAIN queue : queue[i].id = delivered + i
    /\ delivered + Len(queue) <= produced
    /\ ~overloaded => delivered + Len(queue) = produced

(* The reserved bytes are those of the queued notices and of the one whose *)
(* callback runs, and stay within the budget: there are partial sums that  *)
(* grow from the one to the total.                                         *)
Sums(base, notices, total) ==
    \E sum \in [0 .. Len(notices) -> 0 .. ByteBudget] :
       /\ sum[0] = base
       /\ sum[Len(notices)] = total
       /\ \A i, j \in DOMAIN sum : i <= j => sum[i] <= sum[j]
       /\ \A i \in DOMAIN notices : sum[i] = sum[i - 1] + notices[i].cost
InHand == IF current # NoNotice THEN current.cost ELSE 0
BytesReserved == Sums(InHand, queue, bytes)

(* "max_retries excludes the initial connection; a connected socket resets *)
(* the failure budget."                                                    *)
AttemptsBounded == opens <= MaxRetries + 1

(* Neither the attempts nor the reservations drift past their limits,      *)
(* whatever is refused, retried, dropped or panics in between.             *)
Bounded == BytesReserved /\ AttemptsBounded

(* The consumer is told the truth about the end: an error reported as      *)
(* retryable is retried unless the stream is stopped, after a final one,   *)
(* or the Error state, there is only the end, and Disconnected is the last *)
(* thing it hears.                                                         *)
HonestEnding ==
    [][/\ seen' # seen =>
            /\ verdict = "retryable" => seen' \in {"Reconnecting", "Disconnected"}
            /\ verdict = "final" => seen' \in {"Error", "Disconnected"}
            /\ seen = "Error" => seen' = "Disconnected"
       /\ seen = "Disconnected" => delivered' = delivered]_vars

(* "Queue saturation stops the transport and reports Backpressure after    *)
(* draining accepted notices."                                             *)
Backpressure ==
    overloaded ~> at = "ended" /\ (Panicked \/ (told /\ queue = <<>>))

(* A stop ends the stream, and the consumer hears of it: run_buffered      *)
(* returns, and only after a last Disconnected unless a callback panicked. *)
Stops ==
    stop ~> returned /\ (Panicked \/ seen = "Disconnected")

(* A stream that was saturated or stopped comes to the end it promises. *)
Concludes == Backpressure /\ Stops
================================================================================
