----------------------------- MODULE LiveRunProofs -----------------------------
(***************************************************************************)
(* The dispatcher hands the consumer a gapless prefix of what the          *)
(* transport produces, for every capacity, byte budget and retry budget.   *)
(* TypeOK is inductive by itself; Prefix needs TypeOK, and its third part  *)
(* (nothing is missing while the queue is not saturated) is what makes the *)
(* number of a newly queued notice the right one. BoundedInv and TurnsInv  *)
(* carry Bounded and HonestEnding, and EndInv that the end is heard before *)
(* run_buffered returns. ReconnectingStream: StreamInv.                    *)
(***************************************************************************)
EXTENDS LiveRun, ReconnectingStream, SequenceTheorems, TLAPS

(* What Bounded needs: the dispatcher has a notice in its hands exactly    *)
(* while a callback runs, and the attempts since the last open socket are  *)
(* the failures that were counted, or the one being made.                  *)
HandInv == (worker = "recv" => current = NoNotice) /\ (worker = "calling" => current # NoNotice)
AttemptInv ==
    /\ at \in {"top", "signing", "waiting"} => opens <= failures
    /\ at = "opening" => opens <= failures + 1
    /\ at = "reading" => opens = 0
    /\ opens <= MaxRetries + 1
BoundedInv == HandInv /\ BytesReserved /\ AttemptInv

(* Why the ending is honest: an error that is reported is followed by the  *)
(* state that it promises, in what the transport has to say as in the      *)
(* queue and where the one goes on from the other; what it has said        *)
(* altogether promises nothing, unless an overload cut it short; and after *)
(* Disconnected it is silent.                                              *)
Follows(next, kind) ==
    /\ kind = "retryable" => next = "Reconnecting"
    /\ kind = "final" => next = "Error"
    /\ kind = "Error" => next = "Disconnected"
    /\ kind # "Disconnected"
InTurn(notices) == \A i \in DOMAIN notices : i > 1 => Follows(notices[i].kind, notices[i - 1].kind)
Expects(next) ==
    /\ verdict = "retryable" => next = "Reconnecting"
    /\ verdict = "final" => next = "Error"
    /\ seen = "Error" => next = "Disconnected"
    /\ seen # "Disconnected"
Closes(kind) ==
    /\ kind \notin {"retryable", "final", "Error"}
    /\ kind = "Disconnected" => at = "ended"
Whole ==
    /\ out # <<>> =>
         /\ Closes(out[Len(out)].kind)
         /\ IF queue = <<>> THEN Expects(out[1].kind)
            ELSE Follows(out[1].kind, queue[Len(queue)].kind)
    /\ out = <<>> =>
         IF queue = <<>> THEN Closes(seen) /\ verdict = "none"
         ELSE Closes(queue[Len(queue)].kind)
TurnsInv ==
    /\ InTurn(queue) /\ InTurn(out)
    /\ queue # <<>> => Expects(queue[1].kind)
    /\ ~overloaded => Whole
    /\ at = "reading" => failures = 0

(* What NothingLostSilently needs: a call has the connection while it      *)
(* reads, none while it reconnects, and a stream that is idle without one  *)
(* has told why, or had a call dropped.                                    *)
CallInv ==
    /\ attempt \in Nat
    /\ call \in {"idle", "reading", "acking", "waiting", "signing", "handshake", "closed"}
    /\ call \in {"reading", "acking"} => connection
    /\ call \in {"waiting", "signing", "handshake"} => ~connection
    /\ call = "idle" => connection \/ explained \/ cut
StreamInv == CallInv /\ NothingLostSilently

--------------------------------------------------------------------------------
(* The fields of a notice, and a notice with another number. *)
LEMMA NoticeFields ==
    ASSUME NEW n \in Notice
    PROVE  /\ n.cost \in Int /\ n.id \in Nat
           /\ \A i \in Nat : [n EXCEPT !.id = i] \in Notice /\ [n EXCEPT !.id = i].id = i
<1>1. Costs \subseteq Int
  BY RunAssumption DEF Costs
<1> QED
  BY <1>1 DEF Notice

(* What Say hands to the sink is a sequence of notices. *)
LEMMA SayType ==
    ASSUME NEW kinds \in Seq(Kinds), Say(kinds)
    PROVE  out' \in Seq(Notice)
<1>1. \A i \in DOMAIN kinds : Note(kinds[i]) \in Notice
  BY DEF Note, Notice, Costs
<1>2. DOMAIN kinds = 1 .. Len(kinds) /\ Len(kinds) \in Nat
  OBVIOUS
<1> QED
  BY <1>1, <1>2 DEF Say

(* The two ways an attempt ends keep the transport's types. *)
LEMMA FinishType ==
    ASSUME TypeOK, NEW kinds \in Seq(Kinds), Finish(kinds)
    PROVE  at' = "ended" /\ failures' \in 0 .. MaxRetries /\ out' \in Seq(Notice)
<1>1. kinds \o <<"Disconnected">> \in Seq(Kinds)
  BY DEF Kinds, States
<1> QED
  BY <1>1, SayType DEF Finish, TypeOK

LEMMA RetryType ==
    ASSUME TypeOK, NEW kinds \in Seq(Kinds), Retry(kinds)
    PROVE  at' \in {"waiting", "ended"} /\ failures' \in 0 .. MaxRetries
           /\ out' \in Seq(Notice)
<1>1. kinds \o <<"Error">> \in Seq(Kinds) /\ kinds \o <<"Reconnecting">> \in Seq(Kinds)
  BY DEF Kinds, States
<1>2. CASE failures >= MaxRetries
  BY <1>1, <1>2, FinishType DEF Retry
<1>3. CASE ~(failures >= MaxRetries)
  <2>1. failures \in 0 .. MaxRetries /\ MaxRetries \in Nat
    BY RunAssumption DEF TypeOK
  <2>2. failures' = failures + 1 /\ at' = "waiting" /\ Say(kinds \o <<"Reconnecting">>)
    BY <1>3 DEF Retry
  <2>3. out' \in Seq(Notice)
    BY <1>1, <2>2, SayType
  <2>4. failures' \in 0 .. MaxRetries
    BY <1>3, <2>1, <2>2
  <2> QED
    BY <2>2, <2>3, <2>4
<1> QED
  BY <1>2, <1>3

--------------------------------------------------------------------------------
(* Type correctness, in two halves: the Boolean variables and the others. *)

Flags ==
    /\ reconnecting \in BOOLEAN /\ overloaded \in BOOLEAN /\ stop \in BOOLEAN
    /\ cancel \in BOOLEAN /\ returned \in BOOLEAN /\ told \in BOOLEAN

Data ==
    /\ at \in {"top", "signing", "opening", "reading", "waiting", "ended"}
    /\ failures \in 0 .. MaxRetries
    /\ out \in Seq(Notice)
    /\ queue \in Seq(Notice) /\ bytes \in Int
    /\ worker \in {"recv", "calling", "panicked", "gone", "finished"} /\ current \in Notice
    /\ produced \in Nat /\ delivered \in Nat /\ opens \in Nat
    /\ seen \in States \cup {"none"} /\ verdict \in Errors \cup {"none"}

LEMMA TypeHalves == TypeOK <=> Flags /\ Data
BY Zenon DEF TypeOK, Flags, Data

(* The variables only the transport writes. *)
LEMMA TransportData ==
    ASSUME TypeOK, UNCHANGED <<queueVars, workerVars, produced, viewVars>>,
           at' \in {"top", "signing", "opening", "reading", "waiting", "ended"},
           failures' \in 0 .. MaxRetries, out' \in Seq(Notice), opens' \in Nat
    PROVE  Data'
BY DEF TypeOK, Data, queueVars, workerVars, viewVars

LEMMA RunData ==
    ASSUME TypeOK,
           \/ Transport \/ (\E ack, decoded \in BOOLEAN : Message(ack, decoded))
           \/ SocketFails \/ SocketEnds
    PROVE  Data'
<1>1. UNCHANGED <<queueVars, workerVars, produced, viewVars>>
  BY Zenon DEF Transport, Cancelled, Attempt, Sign, Opened, OpenRefused, OpenFails, Backoff,
               Message, SocketFails, SocketEnds, RunUnchanged
<1>2. /\ <<>> \in Seq(Kinds) /\ <<"final", "Error">> \in Seq(Kinds)
      /\ \A k \in Kinds : <<k>> \in Seq(Kinds)
      /\ {"retryable", "final", "Connected", "Connecting", "Reconnecting"} \subseteq Kinds
  BY DEF Kinds, States, Errors
<1>3. opens \in Nat /\ failures \in 0 .. MaxRetries /\ out \in Seq(Notice)
      /\ at \in {"top", "signing", "opening", "reading", "waiting", "ended"}
  BY DEF TypeOK
<1>4. CASE Cancelled
  BY <1>1, <1>2, <1>3, <1>4, FinishType, TransportData DEF Cancelled
<1>5. CASE Attempt
  <2>1. PICK k \in {"Connecting", "Reconnecting"} : Say(<<k>>)
    BY <1>5 DEF Attempt
  <2>2. out' \in Seq(Notice)
    BY <2>1, <1>2, SayType
  <2>3. at' = "signing" /\ failures' = failures /\ opens' = opens
    BY <1>5 DEF Attempt
  <2> QED
    BY <1>1, <1>3, <2>2, <2>3, TransportData
<1>6. ASSUME NEW ok \in BOOLEAN, Sign(ok) PROVE Data'
  <2>1. CASE at' = "opening" /\ opens' = opens + 1 /\ UNCHANGED <<out, failures>>
    BY <1>1, <1>3, <2>1, TransportData
  <2>2. CASE Finish(<<"final", "Error">>) /\ UNCHANGED opens
    BY <1>1, <1>2, <1>3, <2>2, FinishType, TransportData
  <2> QED
    BY <1>6, <2>1, <2>2, Zenon DEF Sign
<1>7. CASE Opened
  <2>1. out' \in Seq(Notice)
    BY <1>2, <1>7, SayType DEF Opened
  <2>2. failures' \in 0 .. MaxRetries /\ opens' \in Nat /\ at' = "reading"
    BY <1>7, RunAssumption DEF Opened
  <2> QED
    BY <1>1, <2>1, <2>2, TransportData
<1>8. CASE OpenRefused
  BY <1>1, <1>2, <1>3, <1>8, FinishType, TransportData DEF OpenRefused
<1>9. CASE OpenFails \/ SocketFails \/ SocketEnds
  <2>1. PICK kinds \in Seq(Kinds) : Retry(kinds)
    BY <1>2, <1>9, Zenon DEF OpenFails, SocketFails, SocketEnds
  <2>2. opens' = opens
    BY <1>9 DEF OpenFails, SocketFails, SocketEnds
  <2> QED
    BY <1>1, <1>3, <2>1, <2>2, RetryType, TransportData
<1>10. CASE Backoff
  BY <1>1, <1>3, <1>10, TransportData DEF Backoff
<1>11. ASSUME NEW ack \in BOOLEAN, NEW decoded \in BOOLEAN, Message(ack, decoded)
       PROVE  Data'
  <2>1. UNCHANGED <<at, failures, opens>>
    BY <1>11 DEF Message, runVars
  <2>2. Note("metric") \in Notice /\ Note("decode") \in Notice
        /\ \A c \in BatchCosts : [kind |-> "batch", cost |-> c, id |-> 0] \in Notice
    BY DEF Note, Notice, Kinds, Costs
  <2>3. PICK ms \in Seq(Notice), n \in Notice : out' = Append(ms, n)
    <3>1. <<Note("metric"), Note("metric")>> \in Seq(Notice) /\ <<Note("metric")>> \in Seq(Notice)
      BY <2>2
    <3> QED
      BY <1>11, <2>2, <3>1, Zenon DEF Message
  <2> QED
    BY <1>1, <1>3, <2>1, <2>3, TransportData
<1> QED
  BY <1>4, <1>5, <1>6, <1>7, <1>8, <1>9, <1>10, <1>11 DEF Transport

(* The other steps. *)
LEMMA QueueData ==
    ASSUME TypeOK, Send \/ Dispatcher \/ CallPanics \/ Stop \/ Forward \/ Return
    PROVE  Data'
<1>1. CASE Send
  <2>1. /\ Head(out) \in Notice /\ out' \in Seq(Notice) /\ produced' \in Nat
        /\ UNCHANGED <<at, failures, worker, current, opens, delivered, seen, verdict>>
    BY <1>1 DEF Send, TypeOK, runVars, workerVars, viewVars
  <2>2. CASE Enqueue(Head(out))
    <3>1. bytes' \in Int
      <4>1. Head(out).cost \in Int
        BY <2>1, NoticeFields
      <4>2. bytes' = bytes + Head(out).cost /\ bytes \in Int
        BY <2>2 DEF Enqueue, TypeOK
      <4> QED
        BY <4>1, <4>2
    <3>2. queue' \in Seq(Notice)
      <4>1. produced + 1 \in Nat
        BY DEF TypeOK
      <4>2. [Head(out) EXCEPT !.id = produced + 1] \in Notice
        BY <2>1, <4>1, NoticeFields
      <4>3. queue' = Append(queue, [Head(out) EXCEPT !.id = produced + 1])
        BY <2>2 DEF Enqueue
      <4>4. queue \in Seq(Notice)
        BY DEF TypeOK
      <4> QED
        BY <4>2, <4>3, <4>4
    <3> QED
      BY <2>1, <3>1, <3>2, Zenon DEF TypeOK, Data
  <2>3. CASE UNCHANGED <<queue, bytes>>
    BY <2>1, <2>3 DEF TypeOK, Data
  <2> QED
    BY <1>1, <2>2, <2>3, Zenon DEF Send, queueVars
<1>2. CASE Call
  <2> DEFINE n == Head(queue)
  <2>1. n \in Notice /\ n.id \in Nat /\ queue' = Tail(queue) /\ queue' \in Seq(Notice)
    <3>1. queue \in Seq(Notice) /\ queue # <<>> /\ queue' = Tail(queue)
      BY <1>2 DEF Call, TypeOK
    <3>2. n \in Notice /\ queue' \in Seq(Notice)
      BY <3>1
    <3> QED
      BY <3>1, <3>2, NoticeFields
  <2>2. current' = n /\ worker' = "calling" /\ delivered' = n.id
        /\ UNCHANGED <<at, failures, out, bytes, produced, opens>>
    BY <1>2 DEF Call, runVars
  <2>3. seen' \in States \cup {"none"}
    BY <1>2, Zenon DEF Call, TypeOK
  <2>4. verdict' \in Errors \cup {"none"}
    BY <1>2, Zenon DEF Call, TypeOK
  <2> QED
    BY <2>1, <2>2, <2>3, <2>4 DEF TypeOK, Data
<1>3. CASE CallReturns
  BY <1>3, RunAssumption DEF CallReturns, TypeOK, Data, runVars, viewVars, NoNotice, Notice, Kinds, Costs
<1>4. CASE CallPanics \/ WorkerGone \/ Stop \/ Forward \/ Return
  BY <1>4 DEF CallPanics, WorkerGone, Stop, Forward, Return, TypeOK, Data, runVars, queueVars, workerVars, viewVars
<1>5. CASE WorkerEnds
  <2>1. worker' = "finished" /\ seen' \in {seen, "Disconnected"} /\ verdict' \in {verdict, "none"}
    BY <1>5, Zenon DEF WorkerEnds
  <2>2. UNCHANGED <<at, failures, out, queue, bytes, current, produced, opens, delivered>>
    BY <1>5 DEF WorkerEnds, runVars, queueVars
  <2> QED
    BY <2>1, <2>2 DEF TypeOK, Data, States
<1> QED
  BY <1>1, <1>2, <1>3, <1>4, <1>5 DEF Dispatcher

LEMMA FlagsStep ==
    ASSUME TypeOK, Next
    PROVE  Flags'
<1>1. reconnecting' \in BOOLEAN
  BY Zenon DEF TypeOK, Next, Transport, Dispatcher, Cancelled, Attempt, Sign, Opened, OpenRefused,
     OpenFails, Backoff, Message, SocketFails, SocketEnds, Retry, Finish, Send, Call,
     CallReturns, CallPanics, WorkerGone, WorkerEnds, Stop, Forward, Return, runVars
<1>2. overloaded' \in BOOLEAN /\ cancel' \in BOOLEAN
  BY Zenon DEF TypeOK, Next, Transport, Dispatcher, Cancelled, Attempt, Sign, Opened, OpenRefused,
     OpenFails, Backoff, Message, SocketFails, SocketEnds, RunUnchanged, Send, Enqueue, Call,
     CallReturns, CallPanics, WorkerGone, WorkerEnds, Stop, Forward, Return, queueVars
<1>3. stop' \in BOOLEAN /\ returned' \in BOOLEAN
  BY Zenon DEF TypeOK, Next, Transport, Dispatcher, Cancelled, Attempt, Sign, Opened, OpenRefused,
     OpenFails, Backoff, Message, SocketFails, SocketEnds, RunUnchanged, Send, Call,
     CallReturns, CallPanics, WorkerGone, WorkerEnds, Stop, Forward, Return
<1>4. told' \in BOOLEAN
  BY Zenon DEF TypeOK, Next, Transport, Dispatcher, Cancelled, Attempt, Sign, Opened, OpenRefused,
     OpenFails, Backoff, Message, SocketFails, SocketEnds, RunUnchanged, Send, Call,
     CallReturns, CallPanics, WorkerGone, WorkerEnds, Stop, Forward, Return, viewVars
<1> QED
  BY <1>1, <1>2, <1>3, <1>4, Zenon DEF Flags

LEMMA TypeInit == Init => TypeOK
<1> SUFFICES ASSUME Init PROVE TypeOK
  OBVIOUS
<1>1. Flags
  BY Zenon DEF Init, Flags
<1>2. Data
  BY RunAssumption DEF Init, Data, NoNotice, Notice, Kinds, Costs
<1> QED
  BY <1>1, <1>2, TypeHalves

LEMMA TypeStep == TypeOK /\ [Next]_vars => TypeOK'
<1> SUFFICES ASSUME TypeOK, [Next]_vars PROVE TypeOK'
  OBVIOUS
<1>1. CASE UNCHANGED vars
  <2>1. Flags'
    BY <1>1, TypeHalves, Zenon DEF Flags, vars, runVars, queueVars, viewVars
  <2>2. Data'
    BY <1>1 DEF TypeOK, Data, vars, runVars, queueVars, workerVars, viewVars
  <2> QED
    BY <2>1, <2>2, Zenon DEF TypeOK, Flags, Data
<1>2. CASE Next
  <2>1. Data'
    BY <1>2, RunData, QueueData, Zenon DEF Next
  <2>2. Flags'
    BY <1>2, FlagsStep
  <2> QED
    BY <2>1, <2>2, Zenon DEF TypeOK, Flags, Data
<1> QED
  BY <1>1, <1>2

(* Every variable of the transport, the queue and the dispatcher keeps its *)
(* type; in particular the failure count never passes max_retries.         *)
THEOREM TypeCorrect == Spec => []TypeOK
BY TypeInit, TypeStep, PTL DEF Spec

--------------------------------------------------------------------------------
(* The consumer sees a gapless prefix *)

LEMMA PrefixStep ==
    ASSUME TypeOK, Prefix, [Next]_vars
    PROVE  Prefix'
<1>1. CASE Send
  <2>1. produced \in Nat /\ delivered \in Nat /\ queue \in Seq(Notice)
        /\ produced' = produced + 1 /\ delivered' = delivered
    BY <1>1 DEF Send, TypeOK, viewVars
  <2>2. CASE ~overloaded /\ Enqueue(Head(out))
    <3>1. delivered + Len(queue) = produced
      BY <2>2 DEF Prefix
    <3>2. PICK n : queue' = Append(queue, n) /\ n.id = produced + 1
      <4>1. Head(out) \in Notice
        BY <1>1 DEF Send, TypeOK
      <4>2. [Head(out) EXCEPT !.id = produced + 1].id = produced + 1
        BY <2>1, <4>1, NoticeFields
      <4>3. queue' = Append(queue, [Head(out) EXCEPT !.id = produced + 1])
        BY <2>2 DEF Enqueue
      <4> QED
        BY <4>2, <4>3
    <3>3. Len(queue') = Len(queue) + 1
          /\ \A i \in DOMAIN queue' : queue'[i] = IF i = Len(queue) + 1 THEN n ELSE queue[i]
      BY <2>1, <3>2
    <3>4. \A i \in DOMAIN queue' : queue'[i].id = delivered' + i
      BY <2>1, <3>1, <3>2, <3>3 DEF Prefix
    <3> QED
      BY <2>1, <3>1, <3>3, <3>4 DEF Prefix
  <2>3. CASE queue' = queue /\ overloaded' = TRUE
    BY <2>1, <2>3 DEF Prefix
  <2>4. CASE overloaded /\ queue' = queue /\ overloaded' = overloaded
    BY <2>1, <2>4 DEF Prefix
  <2> QED
    BY <1>1, <2>2, <2>3, <2>4, Zenon DEF Send, queueVars
<1>2. CASE Call
  <2>1. /\ queue \in Seq(Notice) /\ queue # <<>> /\ queue' = Tail(queue)
        /\ delivered' = Head(queue).id /\ produced' = produced /\ delivered \in Nat
        /\ produced \in Nat
    BY <1>2 DEF Call, TypeOK
  <2>2. delivered' = delivered + 1 /\ Len(queue') = Len(queue) - 1
    <3>1. 1 \in DOMAIN queue /\ Head(queue) = queue[1] /\ Len(queue') = Len(queue) - 1
      BY <2>1
    <3>2. queue[1].id = delivered + 1
      BY <3>1 DEF Prefix
    <3> QED
      BY <2>1, <3>1, <3>2
  <2>3. ASSUME NEW i \in DOMAIN queue' PROVE queue'[i].id = delivered' + i
    <3>1. i \in Nat /\ i + 1 \in DOMAIN queue /\ queue'[i] = queue[i + 1]
      BY <2>1
    <3>2. queue[i + 1].id = delivered + (i + 1)
      BY <3>1 DEF Prefix
    <3>3. delivered' + i = delivered + (i + 1)
      BY <2>1, <2>2, <3>1
    <3> QED
      BY <3>1, <3>2, <3>3
  <2>4. overloaded' = overloaded
    BY <1>2 DEF Call
  <2> QED
    BY <2>1, <2>2, <2>3, <2>4 DEF Prefix
<1>3. CASE UNCHANGED <<queue, delivered, produced, overloaded>>
  BY <1>3, Zenon DEF Prefix
<1>4. Send \/ Call \/ UNCHANGED <<queue, delivered, produced, overloaded>>
  BY Zenon DEF Next, Transport, Dispatcher, Cancelled, Attempt, Sign, Opened, OpenRefused,
     OpenFails, Backoff, Message, SocketFails, SocketEnds, RunUnchanged, CallReturns,
     CallPanics, WorkerGone, WorkerEnds, Stop, Forward, Return, queueVars, viewVars, vars
<1> QED
  BY <1>1, <1>2, <1>3, <1>4

(* The consumer is handed a gapless prefix of what the transport produced, *)
(* and all of it unless the queue was saturated, for every capacity and    *)
(* byte budget.                                                            *)
THEOREM PrefixHolds == Spec => []Prefix
<1>1. Init => Prefix
  BY DEF Init, Prefix
<1>2. TypeOK /\ Prefix /\ [Next]_vars => Prefix'
  BY PrefixStep
<1> QED
  BY <1>1, <1>2, TypeCorrect, PTL DEF Spec

--------------------------------------------------------------------------------
(* The bytes that the proxy reserves, and the attempts that run makes *)

(* A notice in the queue or in the consumer's hands costs a natural. *)
LEMMA NoticeCost == \A n \in Notice : n.cost \in Nat
<1>1. Costs \subseteq Nat
  BY RunAssumption DEF Costs
<1> QED
  BY <1>1 DEF Notice

LEMMA SumAppended ==
    ASSUME NEW base, NEW q \in Seq(Notice), NEW n \in Notice, NEW total,
           Sums(base, q, total), total + n.cost <= ByteBudget
    PROVE  Sums(base, Append(q, n), total + n.cost)
<1>1. PICK N \in Nat : N = Len(q)
  OBVIOUS
<1>2. PICK sum \in [0 .. N -> 0 .. ByteBudget] :
         /\ sum[0] = base /\ sum[N] = total
         /\ \A i, j \in DOMAIN sum : i <= j => sum[i] <= sum[j]
         /\ \A i \in DOMAIN q : sum[i] = sum[i - 1] + q[i].cost
  BY <1>1 DEF Sums
<1> DEFINE r == Append(q, n)
<1>3. /\ Len(r) = N + 1 /\ DOMAIN r = 1 .. N + 1 /\ DOMAIN q = 1 .. N
      /\ \A i \in 1 .. N : r[i] = q[i]
      /\ r[N + 1] = n
  BY <1>1
<1> HIDE DEF r
<1>4. PICK cost \in Nat : cost = n.cost
  BY NoticeCost
<1>5. PICK whole \in 0 .. ByteBudget : whole = total + cost
  <2>1. ByteBudget \in Nat /\ total \in 0 .. ByteBudget
    BY <1>2, RunAssumption
  <2> QED
    BY <1>4, <2>1
<1>6. /\ \A i \in 0 .. N : sum[i] \in 0 .. ByteBudget /\ sum[i] <= total
      /\ ByteBudget \in Nat /\ total \in Nat /\ total <= whole
  <2>1. DOMAIN sum = 0 .. N /\ N \in 0 .. N /\ \A i \in 0 .. N : i <= N
    OBVIOUS
  <2>2. ByteBudget \in Nat /\ total \in Nat
    BY <1>2, <2>1, RunAssumption
  <2>3. ASSUME NEW i \in 0 .. N PROVE sum[i] \in 0 .. ByteBudget /\ sum[i] <= total
    BY <1>2, <2>1
  <2> QED
    BY <1>4, <1>5, <2>2, <2>3
<1> DEFINE longer == [i \in 0 .. N + 1 |-> IF i = N + 1 THEN whole ELSE sum[i]]
<1>7. /\ longer \in [0 .. N + 1 -> 0 .. ByteBudget] /\ DOMAIN longer = 0 .. N + 1
      /\ longer[N + 1] = whole /\ \A i \in 0 .. N : longer[i] = sum[i]
  <2>1. \A i \in 0 .. N + 1 : i # N + 1 => i \in 0 .. N
    OBVIOUS
  <2>2. N + 1 \in 0 .. N + 1 /\ \A i \in 0 .. N : i \in 0 .. N + 1 /\ i # N + 1
    OBVIOUS
  <2> QED
    BY <1>6, <2>1, <2>2
<1> HIDE DEF longer
<1>8. longer[0] = base /\ longer[Len(r)] = total + n.cost
  <2>1. 0 \in 0 .. N
    OBVIOUS
  <2> QED
    BY <1>2, <1>3, <1>4, <1>5, <1>7, <2>1
<1>9. ASSUME NEW i \in DOMAIN r PROVE longer[i] = longer[i - 1] + r[i].cost
  <2>1. i \in 1 .. N + 1 /\ i - 1 \in 0 .. N
    BY <1>3
  <2>2. CASE i = N + 1
    <3>1. i - 1 = N /\ longer[i] = whole /\ r[i] = n
      BY <1>3, <1>7, <2>2
    <3>2. longer[i - 1] = total
      BY <1>2, <1>7, <2>1, <3>1
    <3> QED
      BY <1>4, <1>5, <3>1, <3>2
  <2>3. CASE i # N + 1
    <3>1. i \in 1 .. N /\ i \in 0 .. N
      BY <2>1, <2>3
    <3>2. longer[i] = sum[i] /\ longer[i - 1] = sum[i - 1] /\ r[i] = q[i]
      BY <1>3, <1>7, <2>1, <3>1
    <3>3. sum[i] = sum[i - 1] + q[i].cost
      BY <1>2, <1>3, <3>1
    <3> QED
      BY <3>2, <3>3
  <2> QED
    BY <2>2, <2>3
<1>10. ASSUME NEW i \in DOMAIN longer, NEW j \in DOMAIN longer, i <= j PROVE longer[i] <= longer[j]
  <2>1. i \in 0 .. N + 1 /\ j \in 0 .. N + 1
    BY <1>7
  <2>2. CASE j = N + 1
    <3>1. CASE i = N + 1
      BY <1>5, <1>6, <1>7, <2>2, <3>1
    <3>2. CASE i \in 0 .. N
      BY <1>5, <1>6, <1>7, <2>2, <3>2
    <3> QED
      BY <2>1, <3>1, <3>2
  <2>3. CASE j # N + 1
    <3>1. i \in 0 .. N /\ j \in 0 .. N
      BY <1>10, <2>1, <2>3
    <3>2. sum[i] <= sum[j]
      BY <1>2, <1>10, <3>1
    <3> QED
      BY <1>7, <3>1, <3>2
  <2> QED
    BY <2>2, <2>3
<1>11. Sums(base, r, total + n.cost)
  BY <1>3, <1>7, <1>8, <1>9, <1>10 DEF Sums
<1> QED
  BY <1>11 DEF r

(* The first notice leaves the queue for the hands of the consumer. *)
LEMMA SumTaken ==
    ASSUME NEW q \in Seq(Notice), q # <<>>, NEW total, Sums(0, q, total)
    PROVE  Sums(Head(q).cost, Tail(q), total)
<1>1. PICK sum \in [0 .. Len(q) -> 0 .. ByteBudget] :
         /\ sum[0] = 0 /\ sum[Len(q)] = total
         /\ \A i, j \in DOMAIN sum : i <= j => sum[i] <= sum[j]
         /\ \A i \in DOMAIN q : sum[i] = sum[i - 1] + q[i].cost
  BY DEF Sums
<1> DEFINE r == Tail(q)
           shifted == [i \in 0 .. Len(q) - 1 |-> sum[i + 1]]
<1>2. /\ Len(r) = Len(q) - 1 /\ Len(q) \in Nat \ {0} /\ Head(q) = q[1] /\ q[1] \in Notice
      /\ DOMAIN r = 1 .. Len(q) - 1 /\ DOMAIN q = 1 .. Len(q)
      /\ \A i \in DOMAIN r : r[i] = q[i + 1]
  OBVIOUS
<1> HIDE DEF r
<1>3. shifted \in [0 .. Len(r) -> 0 .. ByteBudget]
  BY <1>2
<1>4. shifted[0] = Head(q).cost
  <2>1. shifted[0] = sum[1] /\ 1 \in DOMAIN q
    BY <1>2
  <2>2. sum[1] = sum[0] + q[1].cost
    BY <1>1, <2>1
  <2> QED
    BY <1>1, <1>2, <2>1, <2>2, NoticeCost
<1>5. shifted[Len(r)] = total
  BY <1>1, <1>2
<1>6. ASSUME NEW i \in DOMAIN r PROVE shifted[i] = shifted[i - 1] + r[i].cost
  <2>1. /\ i + 1 \in DOMAIN q /\ shifted[i] = sum[i + 1] /\ shifted[i - 1] = sum[i]
        /\ r[i] = q[i + 1] /\ (i + 1) - 1 = i
    BY <1>2
  <2> QED
    BY <1>1, <2>1
<1>7. \A i, j \in DOMAIN shifted : i <= j => shifted[i] <= shifted[j]
  BY <1>1, <1>2
<1> HIDE DEF shifted
<1>8. Sums(Head(q).cost, r, total)
  BY <1>3, <1>4, <1>5, <1>6, <1>7 DEF Sums
<1> QED
  BY <1>8 DEF r

(* The consumer gives back what it had in its hands. *)
LEMMA SumGivenBack ==
    ASSUME NEW base \in Nat, NEW q \in Seq(Notice), NEW total, Sums(base, q, total)
    PROVE  Sums(0, q, total - base)
<1>1. PICK sum \in [0 .. Len(q) -> 0 .. ByteBudget] :
         /\ sum[0] = base /\ sum[Len(q)] = total
         /\ \A i, j \in DOMAIN sum : i <= j => sum[i] <= sum[j]
         /\ \A i \in DOMAIN q : sum[i] = sum[i - 1] + q[i].cost
  BY DEF Sums
<1>2. Len(q) \in Nat /\ DOMAIN q = 1 .. Len(q) /\ \A i \in DOMAIN q : q[i].cost \in Nat
  BY NoticeCost
<1> DEFINE rest == [i \in 0 .. Len(q) |-> sum[i] - base]
<1>3. \A i \in 0 .. Len(q) : sum[i] \in base .. ByteBudget /\ rest[i] = sum[i] - base
  BY <1>1, <1>2, RunAssumption
<1>4. rest \in [0 .. Len(q) -> 0 .. ByteBudget]
  BY <1>2, <1>3, RunAssumption
<1>5. ASSUME NEW i \in DOMAIN q PROVE rest[i] = rest[i - 1] + q[i].cost
  <2>1. i \in 0 .. Len(q) /\ i - 1 \in 0 .. Len(q) /\ sum[i] = sum[i - 1] + q[i].cost
    BY <1>1, <1>2
  <2> HIDE DEF rest
  <2> QED
    BY <1>2, <1>3, <2>1
<1>6. \A i, j \in DOMAIN rest : i <= j => rest[i] <= rest[j]
  BY <1>1, <1>2, <1>3
<1>7. rest[0] = 0 /\ rest[Len(q)] = total - base
  BY <1>1, <1>2
<1> HIDE DEF rest
<1> QED
  BY <1>4, <1>5, <1>6, <1>7 DEF Sums

LEMMA AttemptStep ==
    ASSUME TypeOK, AttemptInv, Next
    PROVE  AttemptInv'
<1>1. failures \in 0 .. MaxRetries /\ MaxRetries \in Nat /\ opens \in Nat
  BY RunAssumption DEF TypeOK
<1>2. ASSUME NEW kinds, Finish(kinds), UNCHANGED opens PROVE AttemptInv'
  BY <1>2 DEF Finish, AttemptInv
<1>3. ASSUME NEW kinds, Retry(kinds), at \in {"opening", "reading"}, UNCHANGED opens
      PROVE  AttemptInv'
  BY <1>1, <1>2, <1>3 DEF Retry, AttemptInv
<1>4. CASE Cancelled \/ OpenRefused
  BY <1>2, <1>4 DEF Cancelled, OpenRefused
<1>5. CASE Attempt \/ Backoff
  BY <1>5 DEF Attempt, Backoff, Running, AttemptInv
<1>6. ASSUME NEW ok \in BOOLEAN, Sign(ok) PROVE AttemptInv'
  <2>1. CASE at' = "opening" /\ opens' = opens + 1 /\ UNCHANGED failures
    BY <1>1, <1>6, <2>1 DEF Sign, Running, AttemptInv
  <2> QED
    BY <1>2, <1>6, <2>1 DEF Sign
<1>7. CASE Opened
  BY <1>1, <1>7 DEF Opened, AttemptInv
<1>8. CASE OpenFails \/ SocketFails \/ SocketEnds
  BY <1>3, <1>8 DEF OpenFails, SocketFails, SocketEnds, Running
<1>9. CASE UNCHANGED <<at, failures, opens>>
  BY <1>9 DEF AttemptInv
<1> QED
  BY <1>4, <1>5, <1>6, <1>7, <1>8, <1>9, Zenon
     DEF Next, Transport, Dispatcher, Message, Send, Call, CallReturns, CallPanics, WorkerEnds,
         WorkerGone, Stop, Forward, Return, runVars

LEMMA ReservedStep ==
    ASSUME TypeOK, Prefix, HandInv, BytesReserved, Next
    PROVE  HandInv' /\ BytesReserved'
<1>1. CASE Send
  <2>1. HandInv'
    BY <1>1 DEF Send, workerVars, HandInv
  <2>2. CASE UNCHANGED <<queue, bytes>>
    <3>1. InHand' = InHand /\ queue' = queue /\ bytes' = bytes
      BY <1>1, <2>2 DEF Send, workerVars, InHand
    <3> QED
      BY <2>1, <3>1 DEF BytesReserved, Sums
  <2>3. CASE Fits(Head(out)) /\ Enqueue(Head(out))
    <3>1. Head(out) \in Notice /\ produced + 1 \in Nat
      BY <1>1 DEF Send, TypeOK
    <3>2. PICK n \in Notice : n = [Head(out) EXCEPT !.id = produced + 1] /\ n.cost = Head(out).cost
      BY <3>1, NoticeFields DEF Notice
    <3>3. /\ queue' = Append(queue, n) /\ bytes' = bytes + n.cost
          /\ bytes + n.cost <= ByteBudget
      BY <2>3, <3>2 DEF Fits, Enqueue
    <3>4. Sums(InHand, queue', bytes')
      BY <3>3, SumAppended DEF TypeOK, BytesReserved
    <3>5. InHand' = InHand
      BY <1>1 DEF Send, workerVars, InHand
    <3> QED
      BY <2>1, <3>4, <3>5 DEF BytesReserved, Sums
  <2> QED
    BY <1>1, <2>1, <2>2, <2>3 DEF Send, queueVars
<1>2. CASE Call
  <2>1. /\ queue \in Seq(Notice) /\ queue # <<>> /\ current = NoNotice
        /\ queue' = Tail(queue) /\ bytes' = bytes /\ current' = Head(queue) /\ worker' = "calling"
    BY <1>2 DEF Call, TypeOK, HandInv
  <2>2. Head(queue) # NoNotice
    <3>1. 1 \in DOMAIN queue /\ Head(queue) = queue[1] /\ delivered \in Nat
      BY <2>1 DEF TypeOK
    <3>2. Head(queue).id # 0
      BY <3>1 DEF Prefix
    <3> QED
      BY <3>2 DEF NoNotice
  <2>3. Sums(0, queue, bytes)
    BY <2>1 DEF BytesReserved, InHand
  <2>4. Sums(Head(queue).cost, queue', bytes')
    BY <2>1, <2>3, SumTaken
  <2>5. InHand' = Head(queue).cost
    BY <2>1, <2>2 DEF InHand
  <2> QED
    BY <2>1, <2>2, <2>4, <2>5 DEF BytesReserved, Sums, HandInv
<1>3. CASE CallReturns
  <2>1. InHand = current.cost /\ InHand' = 0 /\ bytes' = bytes - InHand /\ queue' = queue
    BY <1>3 DEF CallReturns, HandInv, InHand
  <2>2. InHand \in Nat
    BY <2>1, NoticeCost DEF TypeOK
  <2>3. Sums(0, queue, bytes - InHand)
    BY <2>2, SumGivenBack DEF TypeOK, BytesReserved
  <2>4. HandInv'
    BY <1>3 DEF CallReturns, HandInv
  <2> QED
    BY <2>1, <2>3, <2>4 DEF BytesReserved, Sums
<1>4. CASE WorkerEnds \/ CallPanics \/ WorkerGone
  BY <1>4 DEF WorkerEnds, CallPanics, WorkerGone, queueVars, HandInv, BytesReserved, Sums, InHand
<1>5. CASE UNCHANGED <<worker, current, queue, bytes>>
  BY <1>5 DEF HandInv, BytesReserved, Sums, InHand
<1>6. \/ Send \/ Call \/ CallReturns \/ WorkerEnds \/ CallPanics \/ WorkerGone
      \/ UNCHANGED <<worker, current, queue, bytes>>
  BY Zenon DEF Next, Transport, Dispatcher, Cancelled, Attempt, Sign, Opened, OpenRefused,
     OpenFails, Backoff, Message, SocketFails, SocketEnds, RunUnchanged, Stop, Forward, Return,
     queueVars, workerVars
<1> QED
  BY <1>1, <1>2, <1>3, <1>4, <1>5, <1>6

(* Neither the reservations of Proxy::send nor the attempts of run drift   *)
(* past their limits, whatever is refused, retried, dropped or panics, for *)
(* every capacity, byte budget and retry budget.                           *)
THEOREM BoundedHolds == Spec => []Bounded
<1>1. Init => BoundedInv
  <2> SUFFICES ASSUME Init PROVE BoundedInv
    OBVIOUS
  <2>1. InHand = 0 /\ queue = <<>> /\ bytes = 0
    BY DEF Init, InHand
  <2>2. PICK sum : sum = [i \in {0} |-> 0]
    OBVIOUS
  <2>3. Len(queue) = 0 /\ 0 .. 0 = {0} /\ DOMAIN queue = {}
    BY <2>1
  <2>4. sum \in [0 .. Len(queue) -> 0 .. ByteBudget]
    BY <2>2, <2>3, RunAssumption
  <2>5. BytesReserved
    BY <2>1, <2>2, <2>3, <2>4 DEF BytesReserved, Sums
  <2> QED
    BY <2>5, RunAssumption DEF Init, BoundedInv, HandInv, AttemptInv
<1>2. TypeOK /\ Prefix /\ BoundedInv /\ [Next]_vars => BoundedInv'
  <2> SUFFICES ASSUME TypeOK, Prefix, BoundedInv, [Next]_vars PROVE BoundedInv'
    OBVIOUS
  <2>1. CASE Next
    BY <2>1, AttemptStep, ReservedStep DEF BoundedInv
  <2>2. CASE UNCHANGED vars
    BY <2>2 DEF vars, runVars, queueVars, workerVars, BoundedInv, HandInv, BytesReserved, Sums,
       InHand, AttemptInv
  <2> QED
    BY <2>1, <2>2
<1>3. BoundedInv => Bounded
  BY DEF BoundedInv, AttemptInv, Bounded, AttemptsBounded
<1> QED
  BY <1>1, <1>2, <1>3, TypeCorrect, PrefixHolds, PTL DEF Spec

--------------------------------------------------------------------------------
(* What the consumer is told of the end *)

(* A talk: what the transport has to say at once, from the end of which it *)
(* goes on at a place of its loop.                                         *)
Turned(kinds) ==
    kinds \in Seq(Kinds) /\ \A i \in DOMAIN kinds : i > 1 => Follows(kinds[i], kinds[i - 1])
Talk(kinds, place) ==
    /\ Turned(kinds) /\ kinds # <<>>
    /\ kinds[Len(kinds)] \notin {"retryable", "final", "Error"}
    /\ kinds[Len(kinds)] = "Disconnected" => place = "ended"

(* A talk goes on with what follows from its last word. *)
LEMMA GoesOn ==
    ASSUME NEW kinds, Turned(kinds), NEW k \in Kinds,
           kinds # <<>> => Follows(k, kinds[Len(kinds)])
    PROVE  /\ Turned(kinds \o <<k>>) /\ kinds \o <<k>> # <<>>
           /\ (kinds \o <<k>>)[Len(kinds \o <<k>>)] = k
<1>1. kinds \in Seq(Kinds) /\ <<k>> \in Seq(Kinds) /\ Len(<<k>>) = 1 /\ <<k>>[1] = k
  BY DEF Turned
<1>2. PICK n \in Nat : n = Len(kinds)
  BY <1>1
<1>3. PICK next : next = kinds \o <<k>>
  OBVIOUS
<1>4. /\ next \in Seq(Kinds) /\ Len(next) = n + 1
      /\ \A i \in 1 .. n + 1 : next[i] = IF i <= n THEN kinds[i] ELSE <<k>>[i - n]
  BY <1>1, <1>2, <1>3, ConcatProperties
<1>5. next[n + 1] = k /\ \A i \in 1 .. n : next[i] = kinds[i]
  BY <1>1, <1>4
<1>6. DOMAIN next = 1 .. n + 1 /\ DOMAIN kinds = 1 .. n
  BY <1>1, <1>2, <1>4
<1>7. ASSUME NEW i \in DOMAIN next, i > 1 PROVE Follows(next[i], next[i - 1])
  <2>1. CASE i = n + 1
    <3>1. n \in 1 .. n /\ kinds # <<>> /\ i - 1 = n
      BY <1>1, <1>2, <1>6, <1>7, <2>1
    <3> QED
      BY <1>2, <1>5, <2>1, <3>1
  <2>2. CASE i # n + 1
    <3>1. i \in 1 .. n /\ i - 1 \in 1 .. n
      BY <1>6, <1>7, <2>2
    <3> QED
      BY <1>5, <1>6, <1>7, <3>1 DEF Turned
  <2> QED
    BY <2>1, <2>2
<1> QED
  BY <1>3, <1>4, <1>5, <1>7 DEF Turned

LEMMA Talks ==
    /\ \A place : \A k \in {"Connecting", "Reconnecting", "Connected"} : Talk(<<k>>, place)
    /\ \A place : Talk(<<"retryable", "Reconnecting">>, place)
    /\ Talk(<<"Disconnected">>, "ended")
    /\ Talk(<<"Error", "Disconnected">>, "ended")
    /\ Talk(<<"final", "Error", "Disconnected">>, "ended")
BY DEF Talk, Turned, Follows, Kinds, States, Errors

(* After a talk everything is in turn again. *)
LEMMA AfterTalk ==
    ASSUME TypeOK, TurnsInv, out = <<>>, at # "ended", UNCHANGED <<queueVars, seen, verdict>>,
           NEW kinds, Talk(kinds, at'), DOMAIN out' = DOMAIN kinds, Len(out') = Len(kinds),
           out' # <<>>, \A i \in DOMAIN kinds : out'[i].kind = kinds[i],
           at' = "reading" => failures' = 0
    PROVE  TurnsInv'
<1>1. /\ Len(kinds) \in DOMAIN kinds /\ 1 \in DOMAIN kinds
      /\ \A i \in DOMAIN kinds : i > 1 => i - 1 \in DOMAIN kinds
  BY DEF Talk, Turned
<1>2. InTurn(out')
  BY <1>1 DEF Talk, Turned, InTurn
<1>3. /\ out'[1].kind = kinds[1] /\ out'[Len(out')].kind = kinds[Len(kinds)]
  BY <1>1
<1>4. UNCHANGED <<queue, overloaded>>
  BY DEF queueVars
<1>5. InTurn(queue') /\ (queue' # <<>> => Expects(queue[1].kind)')
  BY <1>4 DEF TurnsInv, InTurn, Expects
<1>6. ASSUME ~overloaded' PROVE Whole'
  <2>1. Closes(out[Len(out)].kind)'
    BY <1>3 DEF Talk, Closes
  <2>2. ASSUME queue = <<>> PROVE Expects(out[1].kind)'
    BY <1>4, <1>6, <2>2 DEF TurnsInv, Whole, Closes, Expects
  <2>3. ASSUME queue # <<>> PROVE Follows(out'[1].kind, queue[Len(queue)].kind)
    BY <1>4, <1>6, <2>3 DEF TurnsInv, Whole, Closes, Follows
  <2> QED
    BY <1>4, <2>1, <2>2, <2>3 DEF Whole
<1> QED
  BY <1>2, <1>5, <1>6 DEF TurnsInv, InTurn

LEMMA AfterSaying ==
    ASSUME TypeOK, TurnsInv, out = <<>>, at # "ended", UNCHANGED <<queueVars, seen, verdict>>,
           NEW kinds, Talk(kinds, at'), Say(kinds), at' = "reading" => failures' = 0
    PROVE  TurnsInv'
<1>1. DOMAIN out' = DOMAIN kinds /\ \A i \in DOMAIN kinds : out'[i] = Note(kinds[i])
  BY DEF Say
<1>2. \A i \in DOMAIN kinds : out'[i].kind = kinds[i]
  BY <1>1 DEF Note
<1>3. out' \in Seq(Notice)
  BY SayType DEF Talk, Turned
<1>4. Len(out') = Len(kinds) /\ out' # <<>>
  BY <1>1, <1>3 DEF Talk
<1> QED
  BY <1>1, <1>2, <1>4, AfterTalk

(* The ways an attempt ends. *)
LEMMA AfterFinish ==
    ASSUME TypeOK, TurnsInv, out = <<>>, at # "ended", UNCHANGED <<queueVars, seen, verdict>>,
           NEW kinds, Turned(kinds), Finish(kinds),
           kinds # <<>> => Follows("Disconnected", kinds[Len(kinds)])
    PROVE  TurnsInv'
<1>1. at' = "ended" /\ Say(kinds \o <<"Disconnected">>)
  BY DEF Finish
<1>2. Talk(kinds \o <<"Disconnected">>, at')
  BY <1>1, GoesOn DEF Talk, Kinds, States
<1> QED
  BY <1>1, <1>2, AfterSaying

LEMMA AfterRetry ==
    ASSUME TypeOK, TurnsInv, out = <<>>, at # "ended", UNCHANGED <<queueVars, seen, verdict>>,
           NEW kinds, Turned(kinds), Retry(kinds),
           (kinds # <<>> /\ failures >= MaxRetries) => kinds[Len(kinds)] = "final",
           (kinds # <<>> /\ ~(failures >= MaxRetries)) => kinds[Len(kinds)] = "retryable"
    PROVE  TurnsInv'
<1>1. CASE failures >= MaxRetries
  <2>1. Finish(kinds \o <<"Error">>)
    BY <1>1 DEF Retry
  <2>2. kinds # <<>> => Follows("Error", kinds[Len(kinds)])
    BY <1>1 DEF Follows
  <2>3. /\ Turned(kinds \o <<"Error">>)
        /\ (kinds \o <<"Error">>)[Len(kinds \o <<"Error">>)] = "Error"
    BY <2>2, GoesOn DEF Kinds, States
  <2>4. Follows("Disconnected", "Error")
    BY DEF Follows
  <2> QED
    BY <2>1, <2>3, <2>4, AfterFinish
<1>2. CASE ~(failures >= MaxRetries)
  <2>1. at' = "waiting" /\ Say(kinds \o <<"Reconnecting">>)
    BY <1>2 DEF Retry
  <2>2. kinds # <<>> => Follows("Reconnecting", kinds[Len(kinds)])
    BY <1>2 DEF Follows
  <2>3. Talk(kinds \o <<"Reconnecting">>, at')
    BY <2>2, GoesOn DEF Talk, Kinds, States
  <2> QED
    BY <2>1, <2>3, AfterSaying
<1> QED
  BY <1>1, <1>2

(* What is said when an attempt ends, before that state. *)
LEMMA Prefaces ==
    /\ Turned(<<>>)
    /\ \A k \in Kinds : /\ Turned(<<k>>) /\ <<k>> # <<>>
                        /\ <<k>>[Len(<<k>>)] = k
    /\ Turned(<<"final", "Error">>)
    /\ <<"final", "Error">>[Len(<<"final", "Error">>)] = "Error"
BY DEF Turned, Follows, Kinds, States, Errors

(* What a message makes the transport say. *)
LEMMA MessageTurns ==
    ASSUME TypeOK, TurnsInv, NEW ack \in BOOLEAN, NEW decoded \in BOOLEAN,
           Message(ack, decoded), UNCHANGED <<queueVars, seen, verdict>>
    PROVE  TurnsInv'
<1>1. out = <<>> /\ at = "reading" /\ at' = "reading" /\ failures' = failures /\ failures = 0
  BY DEF Message, Running, runVars, TurnsInv
<1>2. /\ Note("metric") \in Notice /\ Note("metric").kind = "metric"
      /\ Note("decode") \in Notice /\ Note("decode").kind = "decode"
      /\ \A c \in BatchCosts : [kind |-> "batch", cost |-> c, id |-> 0] \in Notice
  BY DEF Note, Notice, Costs, Kinds
<1>3. PICK n \in Notice :
        /\ n.kind \in {"batch", "decode"}
        /\ \/ ack /\ out' = Append(<<Note("metric"), Note("metric")>>, n)
           \/ ~ack /\ out' = Append(<<Note("metric")>>, n)
  <2>1. CASE decoded
    <3>1. PICK c \in BatchCosts :
            out' = Append(IF ack THEN <<Note("metric"), Note("metric")>>
                                   ELSE <<Note("metric")>>,
                          [kind |-> "batch", cost |-> c, id |-> 0])
      BY <2>1 DEF Message
    <3> QED
      BY <1>2, <3>1
  <2>2. CASE ~decoded
    <3>1. out' = Append(IF ack THEN <<Note("metric"), Note("metric")>>
                                 ELSE <<Note("metric")>>, Note("decode"))
      BY <2>2 DEF Message
    <3> QED
      BY <1>2, <3>1
  <2> QED
    BY <2>1, <2>2
<1>4. PICK m \in Seq(Notice) :
        /\ out' = Append(m, n) /\ Len(m) \in {1, 2}
        /\ \A i \in 1 .. Len(m) : m[i].kind = "metric"
  <2>1. PICK x \in Notice : x = Note("metric") /\ x.kind = "metric"
    BY <1>2
  <2>2. /\ <<x>> \in Seq(Notice) /\ Len(<<x>>) = 1 /\ <<x>>[1] = x
        /\ <<x, x>> \in Seq(Notice) /\ Len(<<x, x>>) = 2 /\ <<x, x>>[1] = x /\ <<x, x>>[2] = x
    OBVIOUS
  <2>3. out' = Append(<<x, x>>, n) \/ out' = Append(<<x>>, n)
    BY <1>3, <2>1
  <2>4. CASE out' = Append(<<x, x>>, n)
    <3>1. PICK m : m = <<x, x>>
      OBVIOUS
    <3>2. m \in Seq(Notice) /\ Len(m) = 2 /\ \A i \in 1 .. 2 : m[i] = x
      BY <2>2, <3>1
    <3>3. out' = Append(m, n) /\ \A i \in 1 .. Len(m) : m[i].kind = "metric"
      BY <2>1, <2>4, <3>1, <3>2
    <3> QED
      BY <3>2, <3>3
  <2>5. CASE out' = Append(<<x>>, n)
    <3>1. PICK m : m = <<x>>
      OBVIOUS
    <3>2. m \in Seq(Notice) /\ Len(m) = 1 /\ \A i \in 1 .. 1 : m[i] = x
      BY <2>2, <3>1
    <3>3. out' = Append(m, n) /\ \A i \in 1 .. Len(m) : m[i].kind = "metric"
      BY <2>1, <2>5, <3>1, <3>2
    <3> QED
      BY <3>2, <3>3
  <2> QED
    BY <2>3, <2>4, <2>5
<1>5. PICK len \in {1, 2} : len = Len(m)
  BY <1>4
<1>6. /\ out' \in Seq(Notice) /\ out' # <<>> /\ Len(out') = len + 1 /\ out'[len + 1] = n
      /\ \A i \in 1 .. len : out'[i] = m[i]
  BY <1>4, <1>5, AppendProperties
<1>7. PICK kinds : kinds = [i \in 1 .. len + 1 |-> out'[i].kind]
  OBVIOUS
<1>8. kinds \in Seq(Kinds) /\ Len(kinds) = len + 1
  <2>1. \A i \in 1 .. len + 1 : out'[i].kind \in Kinds
    <3>1. \A i \in 1 .. len + 1 : out'[i] \in Notice
      BY <1>5, <1>6, ElementOfSeq
    <3> QED
      BY <3>1 DEF Notice
  <2>2. kinds \in [1 .. len + 1 -> Kinds] /\ len + 1 \in Nat
    BY <1>5, <1>7, <2>1
  <2> QED
    BY <2>2
<1>9. kinds[len + 1] \in {"batch", "decode"} /\ \A i \in 1 .. len : kinds[i] = "metric"
  BY <1>3, <1>4, <1>5, <1>6, <1>7
<1>10. Talk(kinds, at')
  <2>1. ASSUME NEW i \in DOMAIN kinds, i > 1 PROVE Follows(kinds[i], kinds[i - 1])
    <3>1. i - 1 \in 1 .. len
      BY <1>5, <1>8, <2>1
    <3> QED
      BY <1>9, <3>1 DEF Follows
  <2> QED
    BY <1>5, <1>8, <1>9, <2>1 DEF Talk, Turned
<1> QED
  BY <1>1, <1>5, <1>6, <1>7, <1>8, <1>10, AfterTalk

(* The steps of run keep what is said in turn. *)
LEMMA RunTurns ==
    ASSUME TypeOK, TurnsInv,
           \/ Transport \/ SocketFails \/ SocketEnds
           \/ \E ack, decoded \in BOOLEAN : Message(ack, decoded)
    PROVE  TurnsInv'
<1>0. UNCHANGED <<queueVars, seen, verdict>>
  BY Zenon DEF Transport, SocketFails, SocketEnds, Message, Cancelled, Attempt, Sign, Opened,
     OpenRefused, OpenFails, Backoff, RunUnchanged, viewVars
<1>01. /\ Follows("Disconnected", "Error")
       /\ "final" \in Kinds /\ "retryable" \in Kinds
  BY DEF Follows, Kinds, Errors
<1>1. CASE Cancelled
  <2>1. out = <<>> /\ at # "ended" /\ Finish(<<>>)
    BY <1>1 DEF Cancelled, Running
  <2> QED
    BY <1>0, <2>1, Prefaces, AfterFinish
<1>2. CASE Attempt
  <2>1. PICK k \in {"Connecting", "Reconnecting"} : Say(<<k>>)
    BY <1>2 DEF Attempt
  <2>2. out = <<>> /\ at # "ended" /\ at' = "signing"
    BY <1>2 DEF Attempt, Running
  <2>3. Talk(<<k>>, at')
    BY Talks
  <2> QED
    BY <1>0, <2>1, <2>2, <2>3, AfterSaying
<1>3. ASSUME NEW ok \in BOOLEAN, Sign(ok) PROVE TurnsInv'
  <2>1. out = <<>> /\ at = "signing"
    BY <1>3 DEF Sign, Running
  <2>2. CASE at' = "opening" /\ UNCHANGED <<out, failures>>
    BY <1>0, <2>1, <2>2 DEF queueVars, TurnsInv, InTurn, Whole, Closes, Expects
  <2>3. CASE Finish(<<"final", "Error">>)
    BY <1>0, <1>01, <2>1, <2>3, Prefaces, AfterFinish
  <2> QED
    BY <1>3, <2>2, <2>3 DEF Sign
<1>4. CASE Opened
  <2>1. out = <<>> /\ at # "ended" /\ at' = "reading" /\ failures' = 0 /\ Say(<<"Connected">>)
    BY <1>4 DEF Opened, Running
  <2>2. Talk(<<"Connected">>, at')
    BY Talks
  <2> QED
    BY <1>0, <2>1, <2>2, AfterSaying
<1>5. CASE OpenRefused
  <2>1. out = <<>> /\ at # "ended" /\ Finish(<<"final", "Error">>)
    BY <1>5 DEF OpenRefused, Running
  <2> QED
    BY <1>0, <1>01, <2>1, Prefaces, AfterFinish
<1>6. CASE OpenFails
  <2>1. /\ out = <<>> /\ at # "ended"
        /\ Retry(<<IF failures < MaxRetries THEN "retryable" ELSE "final">>)
    BY <1>6 DEF OpenFails, Running
  <2>2. PICK k : k = IF failures < MaxRetries THEN "retryable" ELSE "final"
    OBVIOUS
  <2>3. /\ k \in Kinds /\ (failures >= MaxRetries => k = "final")
        /\ (~(failures >= MaxRetries) => k = "retryable")
    BY <1>01, <2>2, RunAssumption DEF TypeOK
  <2>4. Retry(<<k>>)
    BY <2>1, <2>2
  <2> QED
    BY <1>0, <2>1, <2>3, <2>4, Prefaces, AfterRetry
<1>7. CASE SocketFails
  <2>1. /\ out = <<>> /\ at # "ended" /\ failures = 0
        /\ Retry(<<IF MaxRetries > 0 THEN "retryable" ELSE "final">>)
    BY <1>7 DEF SocketFails, Running, TurnsInv
  <2>2. PICK k : k = IF MaxRetries > 0 THEN "retryable" ELSE "final"
    OBVIOUS
  <2>3. /\ k \in Kinds /\ (failures >= MaxRetries => k = "final")
        /\ (~(failures >= MaxRetries) => k = "retryable")
    BY <1>01, <2>1, <2>2, RunAssumption
  <2>4. Retry(<<k>>)
    BY <2>1, <2>2
  <2> QED
    BY <1>0, <2>1, <2>3, <2>4, Prefaces, AfterRetry
<1>8. CASE SocketEnds
  <2>1. out = <<>> /\ at # "ended" /\ Retry(<<>>)
    BY <1>8 DEF SocketEnds, Running
  <2> QED
    BY <1>0, <2>1, Prefaces, AfterRetry
<1>9. CASE Backoff
  <2>1. /\ out = <<>> /\ out' = <<>> /\ at = "waiting" /\ at' = "top"
        /\ UNCHANGED <<queue, overloaded, seen, verdict>>
    BY <1>0, <1>9 DEF Backoff, Running, queueVars
  <2> QED
    BY <2>1 DEF TurnsInv, InTurn, Whole, Closes, Expects
<1>10. ASSUME NEW ack \in BOOLEAN, NEW decoded \in BOOLEAN, Message(ack, decoded)
       PROVE  TurnsInv'
  BY <1>0, <1>10, MessageTurns
<1> QED
  BY <1>1, <1>2, <1>3, <1>4, <1>5, <1>6, <1>7, <1>8, <1>9, <1>10 DEF Transport

(* The tail of what is in turn is in turn. *)
LEMMA TailInTurn ==
    ASSUME NEW notices \in Seq(Notice), notices # <<>>, InTurn(notices)
    PROVE  /\ Tail(notices) \in Seq(Notice) /\ InTurn(Tail(notices))
           /\ Head(notices) = notices[1] /\ notices[1] \in Notice
           /\ Tail(notices) = <<>> => notices[Len(notices)] = notices[1]
           /\ Tail(notices) # <<>> =>
                /\ Tail(notices)[Len(Tail(notices))] = notices[Len(notices)]
                /\ Follows(Tail(notices)[1].kind, notices[1].kind)
<1>1. PICK rest : rest = Tail(notices)
  OBVIOUS
<1>2. PICK n \in Nat : n = Len(rest)
  BY <1>1
<1>3. /\ rest \in Seq(Notice) /\ Len(notices) = n + 1
      /\ \A i \in 1 .. n : rest[i] = notices[i + 1]
      /\ Head(notices) = notices[1]
  BY <1>1, <1>2, HeadTailProperties
<1>4. DOMAIN rest = 1 .. n /\ DOMAIN notices = 1 .. n + 1
  BY <1>2, <1>3
<1>5. ASSUME NEW i \in DOMAIN rest PROVE Follows(rest[i].kind, notices[i].kind)
  <2>1. i + 1 \in DOMAIN notices /\ i + 1 > 1 /\ (i + 1) - 1 = i /\ rest[i] = notices[i + 1]
    BY <1>3, <1>4
  <2> QED
    BY <2>1 DEF InTurn
<1>6. InTurn(rest)
  <2>1. ASSUME NEW i \in DOMAIN rest, i > 1 PROVE Follows(rest[i].kind, rest[i - 1].kind)
    <3>1. i - 1 \in 1 .. n /\ (i - 1) + 1 = i
      BY <1>4, <2>1
    <3>2. rest[i - 1] = notices[i]
      BY <1>3, <3>1
    <3> QED
      BY <1>5, <3>2
  <2> QED
    BY <2>1 DEF InTurn
<1>7. notices[1] \in Notice
  BY <1>4, ElementOfSeq
<1>8. rest = <<>> => n = 0
  BY <1>2
<1>9. rest # <<>> => n \in 1 .. n /\ 1 \in DOMAIN rest
  BY <1>2, <1>3, <1>4, EmptySeq
<1>10. rest # <<>> => rest[n] = notices[n + 1]
  BY <1>3, <1>9
<1> QED
  <2>1. /\ rest \in Seq(Notice) /\ InTurn(rest)
        /\ rest = <<>> => notices[Len(notices)] = notices[1]
    BY <1>3, <1>6, <1>8
  <2>2. rest # <<>> => /\ rest[Len(rest)] = notices[Len(notices)]
                      /\ Follows(rest[1].kind, notices[1].kind)
    BY <1>2, <1>3, <1>5, <1>9, <1>10
  <2> QED
    BY <1>1, <1>3, <1>7, <2>1, <2>2

(* Proxy::send takes the first thing said, and queues it or is overloaded. *)
LEMMA SendTurns ==
    ASSUME TypeOK, TurnsInv, Send
    PROVE  TurnsInv'
<1>1. /\ out # <<>> /\ out' = Tail(out) /\ out \in Seq(Notice) /\ queue \in Seq(Notice)
      /\ UNCHANGED <<at, failures, seen, verdict>>
  BY DEF Send, TypeOK, runVars, viewVars
<1>2. /\ out' \in Seq(Notice) /\ InTurn(out') /\ Head(out) = out[1] /\ out[1] \in Notice
      /\ out' = <<>> => out[Len(out)] = out[1]
      /\ out' # <<>> => /\ out'[Len(out')] = out[Len(out)]
                       /\ Follows(out'[1].kind, out[1].kind)
  BY <1>1, TailInTurn DEF TurnsInv
<1>3. InTurn(out)'
  BY <1>2 DEF InTurn
<1>4. CASE UNCHANGED queue /\ overloaded'
  BY <1>1, <1>3, <1>4 DEF TurnsInv, InTurn, Expects
<1>5. CASE ~overloaded /\ ~overloaded' /\ Enqueue(Head(out))
  <2>1. PICK n \in Notice : n = [Head(out) EXCEPT !.id = produced + 1] /\ n.kind = out[1].kind
    <3>1. PICK n : n = [out[1] EXCEPT !.id = produced + 1]
      OBVIOUS
    <3>2. produced + 1 \in Nat
      BY DEF TypeOK
    <3>3. n \in Notice
      BY <1>2, <3>1, <3>2, NoticeFields
    <3>4. n.kind = out[1].kind
      BY <1>2, <3>1 DEF Notice
    <3> QED
      BY <1>2, <3>1, <3>3, <3>4
  <2>2. PICK len \in Nat : len = Len(queue)
    BY <1>1
  <2>3. queue' = Append(queue, n)
    BY <1>5, <2>1 DEF Enqueue
  <2>4. /\ queue' \in Seq(Notice) /\ queue' # <<>> /\ Len(queue') = len + 1
        /\ \A i \in 1 .. len : queue'[i] = queue[i]
        /\ queue'[len + 1] = n
    BY <1>1, <2>2, <2>3, AppendProperties
  <2>5. DOMAIN queue = 1 .. len /\ DOMAIN queue' = 1 .. len + 1
    BY <1>1, <2>2, <2>4
  <2>6. queue # <<>> => len \in 1 .. len /\ 1 \in 1 .. len
    BY <1>1, <2>2, EmptySeq
  <2>7. queue # <<>> => Follows(n.kind, queue[len].kind)
    BY <1>1, <1>5, <2>1, <2>2 DEF TurnsInv, Whole
  <2>8. InTurn(queue)'
    <3>1. ASSUME NEW i \in DOMAIN queue', i > 1
          PROVE  Follows(queue'[i].kind, queue'[i - 1].kind)
      <4>1. CASE i = len + 1
        <5>1. i - 1 = len /\ len \in 1 .. len /\ queue # <<>>
          BY <2>2, <2>5, <3>1, <4>1
        <5> QED
          BY <2>4, <2>7, <4>1, <5>1
      <4>2. CASE i # len + 1
        <5>1. i \in 1 .. len /\ i - 1 \in 1 .. len
          BY <2>5, <3>1, <4>2
        <5> QED
          BY <2>4, <2>5, <3>1, <5>1 DEF TurnsInv, InTurn
      <4> QED
        BY <4>1, <4>2
    <3> QED
      BY <3>1 DEF InTurn
  <2>9. Expects(queue[1].kind)'
    <3>1. CASE queue = <<>>
      <4>1. len = 0 /\ queue'[1] = n
        BY <2>2, <2>4, <3>1
      <4>2. Expects(out[1].kind)
        BY <1>1, <1>5, <3>1 DEF TurnsInv, Whole
      <4> QED
        BY <1>1, <2>1, <4>1, <4>2 DEF Expects
    <3>2. CASE queue # <<>>
      <4>1. queue'[1] = queue[1] /\ Expects(queue[1].kind)
        BY <2>4, <2>6, <3>2 DEF TurnsInv
      <4> QED
        BY <1>1, <4>1 DEF Expects
    <3> QED
      BY <3>1, <3>2
  <2>10. queue'[Len(queue')].kind = out[1].kind
    BY <2>1, <2>4
  <2>11. Closes(out[Len(out)].kind)
    BY <1>1, <1>5 DEF TurnsInv, Whole
  <2>12. Whole'
    <3>1. CASE out' = <<>>
      BY <1>1, <1>2, <2>4, <2>10, <2>11, <3>1 DEF Whole, Closes
    <3>2. CASE out' # <<>>
      BY <1>1, <1>2, <2>4, <2>10, <2>11, <3>2 DEF Whole, Closes
    <3> QED
      BY <3>1, <3>2
  <2> QED
    BY <1>1, <1>3, <2>8, <2>9, <2>12 DEF TurnsInv
<1>6. (UNCHANGED queue /\ overloaded') \/ (~overloaded /\ ~overloaded' /\ Enqueue(Head(out)))
  <2>1. CASE overloaded
    BY <2>1 DEF Send, queueVars
  <2>2. CASE ~overloaded /\ Fits(Head(out))
    BY <2>2 DEF Send, Enqueue
  <2>3. CASE ~overloaded /\ ~Fits(Head(out))
    BY <2>3 DEF Send
  <2> QED
    BY <2>1, <2>2, <2>3
<1> QED
  BY <1>4, <1>5, <1>6

(* The consumer hears a notice that was expected, and expects its sequel. *)
LEMMA CallTurns ==
    ASSUME TypeOK, TurnsInv, Call
    PROVE  TurnsInv'
<1>1. /\ queue # <<>> /\ queue' = Tail(queue) /\ queue \in Seq(Notice)
      /\ UNCHANGED <<at, failures, out, overloaded>>
  BY DEF Call, TypeOK, runVars
<1>2. /\ queue' \in Seq(Notice) /\ InTurn(queue') /\ Head(queue) = queue[1]
      /\ queue[1] \in Notice
      /\ queue' = <<>> => queue[Len(queue)] = queue[1]
      /\ queue' # <<>> => /\ queue'[Len(queue')] = queue[Len(queue)]
                         /\ Follows(queue'[1].kind, queue[1].kind)
  BY <1>1, TailInTurn DEF TurnsInv
<1>3. PICK k \in Kinds : k = queue[1].kind
  BY <1>2 DEF Notice
<1>4. /\ seen' = IF k \in States THEN k ELSE seen
      /\ verdict' = IF k \in States THEN "none" ELSE IF k \in Errors THEN k ELSE verdict
  BY <1>2, <1>3 DEF Call
<1>5. Expects(k) /\ seen \in States \cup {"none"} /\ verdict \in Errors \cup {"none"}
  BY <1>1, <1>3 DEF TurnsInv, TypeOK
<1>6. ASSUME NEW next, Follows(next, k)
      PROVE  /\ verdict' = "retryable" => next = "Reconnecting"
             /\ verdict' = "final" => next = "Error"
             /\ seen' = "Error" => next = "Disconnected"
             /\ seen' # "Disconnected"
  BY <1>4, <1>5, <1>6 DEF Follows, Expects, States, Errors, Kinds
<1>7. (queue # <<>> => Expects(queue[1].kind))'
  BY <1>2, <1>3, <1>6 DEF Expects
<1>8. ASSUME ~overloaded PROVE Whole'
  <2>1. CASE queue' # <<>>
    BY <1>1, <1>2, <1>8, <2>1 DEF TurnsInv, Whole, Closes
  <2>2. CASE queue' = <<>> /\ out # <<>>
    <3>1. Follows(out[1].kind, k) /\ Closes(out[Len(out)].kind)
      BY <1>1, <1>2, <1>3, <1>8, <2>2 DEF TurnsInv, Whole
    <3>2. Expects(out[1].kind)'
      BY <1>1, <1>6, <3>1 DEF Expects
    <3> QED
      BY <1>1, <2>2, <3>1, <3>2 DEF Whole, Closes
  <2>3. CASE queue' = <<>> /\ out = <<>>
    <3>1. Closes(k)
      BY <1>1, <1>2, <1>3, <1>8, <2>3 DEF TurnsInv, Whole
    <3>2. verdict' = "none" /\ seen' \notin {"retryable", "final", "Error"}
          /\ (seen' = "Disconnected" => at = "ended")
      BY <1>4, <1>5, <3>1 DEF Closes, Expects, States, Errors, Kinds
    <3> QED
      BY <1>1, <2>3, <3>2 DEF Whole, Closes
  <2> QED
    BY <2>1, <2>2, <2>3
<1>9. InTurn(queue)' /\ InTurn(out)'
  BY <1>1, <1>2 DEF TurnsInv, InTurn
<1> QED
  BY <1>1, <1>7, <1>8, <1>9 DEF TurnsInv

LEMMA TurnsStep ==
    ASSUME TypeOK, TurnsInv, Next
    PROVE  TurnsInv'
<1>1. CASE \/ Transport \/ SocketFails \/ SocketEnds
           \/ \E ack, decoded \in BOOLEAN : Message(ack, decoded)
  BY <1>1, RunTurns
<1>2. CASE Send
  BY <1>2, SendTurns
<1>3. CASE Call
  BY <1>3, CallTurns
<1>4. CASE WorkerEnds
  <2>1. /\ UNCHANGED <<at, failures, out, queue, overloaded>> /\ queue = <<>>
        /\ overloaded \/ UNCHANGED <<seen, verdict>>
    BY <1>4 DEF WorkerEnds, Drained, runVars, queueVars
  <2> QED
    BY <2>1 DEF TurnsInv, InTurn, Whole, Closes, Expects
<1>5. CASE UNCHANGED <<at, failures, out, queue, overloaded, seen, verdict>>
  BY <1>5 DEF TurnsInv, InTurn, Whole, Closes, Expects
<1>6. CASE CallReturns \/ CallPanics \/ WorkerGone \/ Stop \/ Forward \/ Return
  <2>1. UNCHANGED <<at, failures, out, queue, overloaded, seen, verdict>>
    BY <1>6 DEF CallReturns, CallPanics, WorkerGone, Stop, Forward, Return, runVars, queueVars,
       viewVars
  <2> QED
    BY <1>5, <2>1
<1> QED
  BY <1>1, <1>2, <1>3, <1>4, <1>6 DEF Next, Dispatcher

(* What the consumer can be told next, from what it is owed. *)
LEMMA EndingStep ==
    ASSUME TypeOK, TurnsInv, Next
    PROVE  /\ seen' # seen =>
                 /\ verdict = "retryable" => seen' \in {"Reconnecting", "Disconnected"}
                 /\ verdict = "final" => seen' \in {"Error", "Disconnected"}
                 /\ seen = "Error" => seen' = "Disconnected"
           /\ seen = "Disconnected" => delivered' = delivered
<1>1. CASE Call
  <2>1. queue # <<>> /\ Head(queue) = queue[1]
    BY <1>1 DEF Call, TypeOK
  <2>2. Expects(queue[1].kind)
    BY <2>1 DEF TurnsInv
  <2>3. seen' = IF queue[1].kind \in States THEN queue[1].kind ELSE seen
    BY <1>1, <2>1 DEF Call
  <2> QED
    BY <2>2, <2>3 DEF Expects
<1>2. CASE WorkerEnds
  BY <1>2 DEF WorkerEnds
<1>3. CASE UNCHANGED <<seen, delivered>>
  BY <1>3
<1>4. Call \/ WorkerEnds \/ UNCHANGED <<seen, delivered>>
  BY Zenon DEF Next, Transport, Dispatcher, Cancelled, Attempt, Sign, Opened, OpenRefused,
     OpenFails, Backoff, Message, SocketFails, SocketEnds, RunUnchanged, Send, CallReturns,
     CallPanics, WorkerGone, Stop, Forward, Return, viewVars
<1> QED
  BY <1>1, <1>2, <1>3, <1>4

(* run and the dispatcher, for every capacity and every budget: an error   *)
(* reported as retryable is retried unless the stream ends first, a final  *)
(* one and the Error state announce the end, and after Disconnected the    *)
(* consumer hears nothing.                                                 *)
THEOREM HonestEndingHolds == Spec => HonestEnding
<1>1. Init => TurnsInv
  BY DEF Init, TurnsInv, InTurn, Whole, Closes
<1>2. TypeOK /\ TurnsInv /\ [Next]_vars => TurnsInv'
  <2>1. CASE UNCHANGED vars
    BY <2>1 DEF vars, runVars, queueVars, viewVars, TurnsInv, InTurn, Whole, Closes, Expects
  <2> QED
    BY <2>1, TurnsStep
<1>3. TypeOK /\ TurnsInv /\ [Next]_vars =>
        [/\ seen' # seen =>
               /\ verdict = "retryable" => seen' \in {"Reconnecting", "Disconnected"}
               /\ verdict = "final" => seen' \in {"Error", "Disconnected"}
               /\ seen = "Error" => seen' = "Disconnected"
         /\ seen = "Disconnected" => delivered' = delivered]_vars
  BY EndingStep
<1> QED
  BY <1>1, <1>2, <1>3, TypeCorrect, PTL DEF Spec, HonestEnding

--------------------------------------------------------------------------------
(* What Concludes comes to without fairness: an overload has asked the     *)
(* transport to stop, and when run_buffered returns, the consumer has been *)
(* told of the end, unless its callback panicked: it has heard everything  *)
(* that was produced, or of the overload, and Disconnected last.           *)
EndHeard ==
    /\ overloaded => cancel
    /\ returned =>
         /\ at = "ended" /\ out = <<>>
         /\ \/ Panicked
            \/ /\ seen = "Disconnected" /\ queue = <<>>
               /\ IF overloaded THEN told ELSE delivered = produced

(* Why: the last word on its way to the consumer, wherever it is, is       *)
(* Disconnected once the transport has ended, unless it was dropped.       *)
Last(notices) == notices[Len(notices)]
LastWord ==
    IF out # <<>> THEN Last(out).kind ELSE IF queue # <<>> THEN Last(queue).kind ELSE seen
EndOnItsWay == at = "ended" /\ ~overloaded => LastWord = "Disconnected"
EndGiven ==
    worker = "finished" =>
        at = "ended" /\ out = <<>> /\ queue = <<>> /\ seen = "Disconnected" /\ (overloaded => told)
EndInv ==
    /\ EndOnItsWay /\ EndGiven
    /\ overloaded => cancel
    /\ returned => worker \in {"finished", "gone"} /\ at = "ended" /\ out = <<>>

(* The last element, when the first is taken away or one is put behind it. *)
LEMMA LastOfTail ==
    ASSUME NEW notices \in Seq(Notice), notices # <<>>
    PROVE  /\ Head(notices) = notices[1]
           /\ Tail(notices) = <<>> => Last(notices) = notices[1]
           /\ Tail(notices) # <<>> => Last(Tail(notices)) = Last(notices)
<1>1. PICK rest : rest = Tail(notices)
  OBVIOUS
<1>2. PICK n \in Nat : n = Len(rest)
  BY <1>1
<1>3. /\ rest \in Seq(Notice) /\ Len(notices) = n + 1
      /\ \A i \in 1 .. n : rest[i] = notices[i + 1]
      /\ Head(notices) = notices[1]
  BY <1>1, <1>2, HeadTailProperties
<1>4. rest = <<>> => n = 0
  BY <1>2
<1>5. rest # <<>> => n \in 1 .. n
  BY <1>2, <1>3, EmptySeq
<1>6. rest # <<>> => rest[n] = notices[n + 1]
  BY <1>3, <1>5
<1>7. Last(notices) = notices[n + 1] /\ Last(rest) = rest[n]
  BY <1>2, <1>3 DEF Last
<1> QED
  BY <1>1, <1>3, <1>4, <1>6, <1>7

LEMMA LastOfAppend ==
    ASSUME NEW notices \in Seq(Notice), NEW n \in Notice
    PROVE  Append(notices, n) # <<>> /\ Last(Append(notices, n)) = n
BY AppendProperties DEF Last

(* Whatever ends the transport, Disconnected is the last it says.          *)
LEMMA FinishLast ==
    ASSUME NEW kinds \in Seq(Kinds), Finish(kinds)
    PROVE  out' # <<>> /\ out'[Len(out')].kind = "Disconnected"
<1>1. PICK ks : ks = kinds \o <<"Disconnected">>
  OBVIOUS
<1>2. PICK n \in Nat : n = Len(kinds)
  OBVIOUS
<1>3. ks \in Seq(Kinds) /\ Len(ks) = n + 1 /\ ks[n + 1] = "Disconnected"
  <2>1. "Disconnected" \in Kinds
    BY DEF Kinds, States
  <2> QED
    BY <1>1, <1>2, <2>1
<1>4. Say(ks)
  BY <1>1 DEF Finish
<1>5. out' \in Seq(Notice)
  BY <1>3, <1>4, SayType
<1>6. DOMAIN out' = 1 .. n + 1 /\ out'[n + 1] = Note(ks[n + 1])
  BY <1>3, <1>4 DEF Say
<1>7. Len(out') = n + 1
  BY <1>5, <1>6
<1> QED
  BY <1>3, <1>5, <1>6, <1>7 DEF Note

LEMMA EndRun ==
    ASSUME TypeOK, EndInv,
           \/ Transport \/ SocketFails \/ SocketEnds
           \/ \E ack, decoded \in BOOLEAN : Message(ack, decoded)
    PROVE  EndInv'
<1>1. at # "ended" /\ UNCHANGED <<overloaded, cancel, worker, returned>>
  BY DEF Transport, Cancelled, Attempt, Sign, Opened, OpenRefused, OpenFails, Backoff, Message,
     SocketFails, SocketEnds, Running, RunUnchanged, queueVars, workerVars
<1>2. /\ <<>> \in Seq(Kinds) /\ <<"final", "Error">> \in Seq(Kinds)
      /\ \A k \in Kinds : <<k>> \in Seq(Kinds) /\ <<k>> \o <<"Error">> \in Seq(Kinds)
      /\ <<>> \o <<"Error">> \in Seq(Kinds)
      /\ {"retryable", "final"} \subseteq Kinds
  BY DEF Kinds, States, Errors
<1>3. at' # "ended" \/ \E kinds \in Seq(Kinds) : Finish(kinds)
  <2>1. ASSUME NEW kinds, Retry(kinds) PROVE at' # "ended" \/ Finish(kinds \o <<"Error">>)
    BY <2>1 DEF Retry
  <2>2. CASE Cancelled \/ OpenRefused
    BY <1>2, <2>2 DEF Cancelled, OpenRefused
  <2>3. CASE OpenFails
    BY <1>2, <2>1, <2>3, Zenon DEF OpenFails
  <2>4. CASE SocketFails
    BY <1>2, <2>1, <2>4, Zenon DEF SocketFails
  <2>5. CASE SocketEnds
    BY <1>2, <2>1, <2>5, Zenon DEF SocketEnds
  <2>6. ASSUME NEW ok \in BOOLEAN, Sign(ok) PROVE at' # "ended" \/ Finish(<<"final", "Error">>)
    BY <2>6 DEF Sign
  <2>7. CASE \/ Attempt \/ Opened \/ Backoff \/ \E ack, decoded \in BOOLEAN : Message(ack, decoded)
    BY <2>7, <1>1 DEF Attempt, Opened, Backoff, Message, runVars
  <2> QED
    BY <1>2, <2>2, <2>3, <2>4, <2>5, <2>6, <2>7 DEF Transport
<1>4. EndOnItsWay'
  <2>1. at' = "ended" => out' # <<>> /\ Last(out)'.kind = "Disconnected"
    BY <1>3, FinishLast DEF Last
  <2> QED
    BY <2>1 DEF EndOnItsWay, LastWord
<1> QED
  BY <1>1, <1>4 DEF EndInv, EndGiven

LEMMA EndSend ==
    ASSUME TypeOK, EndInv, Send
    PROVE  EndInv'
<1>1. /\ out # <<>> /\ out' = Tail(out) /\ out \in Seq(Notice) /\ queue \in Seq(Notice)
      /\ UNCHANGED <<at, worker, returned, seen>>
  BY DEF Send, TypeOK, runVars, workerVars, viewVars
<1>2. worker # "finished" /\ ~returned
  BY <1>1 DEF EndInv, EndGiven
<1>3. (overloaded => cancel)'
  BY DEF Send, Enqueue, queueVars, EndInv
<1>4. ASSUME at = "ended", ~overloaded' PROVE LastWord' = "Disconnected"
  <2>1. ~overloaded /\ Enqueue(Head(out))
    BY <1>4 DEF Send, queueVars
  <2>2. Last(out).kind = "Disconnected"
    BY <1>1, <1>4, <2>1 DEF EndInv, EndOnItsWay, LastWord
  <2>3. CASE Tail(out) # <<>>
    <3>1. Last(Tail(out)) = Last(out)
      BY <1>1, <2>3, LastOfTail
    <3> QED
      BY <1>1, <2>2, <2>3, <3>1 DEF LastWord, Last
  <2>4. CASE Tail(out) = <<>>
    <3>1. Head(out) = Last(out) /\ Head(out) \in Notice
      BY <1>1, <2>4, LastOfTail
    <3>2. PICK n : n = [Head(out) EXCEPT !.id = produced + 1]
      OBVIOUS
    <3>3. n.kind = "Disconnected" /\ n \in Notice
      <4>1. produced + 1 \in Nat
        BY DEF TypeOK
      <4>2. n \in Notice
        BY <3>1, <3>2, <4>1, NoticeFields
      <4>3. n.kind = Head(out).kind
        BY <3>1, <3>2 DEF Notice
      <4> QED
        BY <2>2, <3>1, <4>2, <4>3
    <3>4. queue' = Append(queue, n)
      BY <2>1, <3>2 DEF Enqueue
    <3>5. queue' # <<>> /\ queue'[Len(queue')] = n
      BY <1>1, <3>3, <3>4, LastOfAppend DEF Last
    <3> QED
      BY <1>1, <2>4, <3>3, <3>5 DEF LastWord, Last
  <2> QED
    BY <2>3, <2>4
<1> QED
  BY <1>1, <1>2, <1>3, <1>4 DEF EndInv, EndGiven, EndOnItsWay

LEMMA EndCall ==
    ASSUME TypeOK, EndInv, Call
    PROVE  EndInv'
<1>1. /\ queue # <<>> /\ queue' = Tail(queue) /\ queue \in Seq(Notice)
      /\ worker = "recv" /\ worker' = "calling"
      /\ seen' = IF Head(queue).kind \in States THEN Head(queue).kind ELSE seen
      /\ UNCHANGED <<at, out, overloaded, cancel, returned>>
  BY DEF Call, TypeOK, runVars
<1>2. ~returned
  BY <1>1 DEF EndInv
<1>3. ASSUME LastWord = "Disconnected" PROVE LastWord' = "Disconnected"
  <2>1. CASE out # <<>>
    BY <1>1, <1>3, <2>1 DEF LastWord, Last
  <2>2. CASE out = <<>> /\ Tail(queue) # <<>>
    <3>1. Last(Tail(queue)) = Last(queue)
      BY <1>1, <2>2, LastOfTail
    <3> QED
      BY <1>1, <1>3, <2>2, <3>1 DEF LastWord, Last
  <2>3. CASE out = <<>> /\ Tail(queue) = <<>>
    <3>1. Last(queue) = Head(queue)
      BY <1>1, <2>3, LastOfTail
    <3>2. Head(queue).kind = "Disconnected"
      BY <1>1, <1>3, <2>3, <3>1 DEF LastWord
    <3> QED
      BY <1>1, <2>3, <3>2 DEF LastWord, States
  <2> QED
    BY <2>1, <2>2, <2>3
<1> QED
  BY <1>1, <1>2, <1>3 DEF EndInv, EndGiven, EndOnItsWay

LEMMA EndNext ==
    ASSUME TypeOK, EndInv, [Next]_vars
    PROVE  EndInv'
<1>1. CASE WorkerEnds
  <2>1. /\ worker' = "finished" /\ UNCHANGED <<at, out, queue, overloaded, cancel, returned>>
        /\ at = "ended" /\ out = <<>> /\ queue = <<>>
        /\ IF overloaded THEN seen' = "Disconnected" /\ told' ELSE seen' = seen
    BY <1>1, Zenon DEF WorkerEnds, Drained, runVars, queueVars
  <2>2. seen' = "Disconnected" /\ (overloaded => told')
    BY <2>1 DEF EndInv, EndOnItsWay, LastWord
  <2> QED
    BY <2>1, <2>2 DEF EndInv, EndOnItsWay, EndGiven, LastWord
<1>2. CASE CallReturns \/ CallPanics \/ WorkerGone
  <2>1. /\ UNCHANGED <<at, out, queue, overloaded, cancel, seen, returned>>
        /\ worker \notin {"finished", "gone"} /\ worker' # "finished"
    BY <1>2 DEF CallReturns, CallPanics, WorkerGone, Drained, runVars, queueVars, viewVars
  <2> QED
    BY <2>1 DEF EndInv, EndOnItsWay, EndGiven, LastWord, Last
<1>3. CASE Stop \/ Forward \/ Return \/ UNCHANGED vars
  <2>1. UNCHANGED <<at, out, queue, overloaded, seen, told, worker>>
    BY <1>3, Zenon DEF Stop, Forward, Return, vars, runVars, queueVars, viewVars, workerVars
  <2>2. cancel => cancel'
    BY <1>3, Zenon DEF Stop, Forward, Return, vars
  <2>3. returned' => returned \/ (worker \in {"finished", "gone"} /\ at = "ended" /\ out = <<>>)
    BY <1>3, Zenon DEF Stop, Forward, Return, vars
  <2> QED
    BY <2>1, <2>2, <2>3 DEF EndInv, EndOnItsWay, EndGiven, LastWord, Last
<1> QED
  BY <1>1, <1>2, <1>3, EndRun, EndSend, EndCall, Zenon DEF Next, Dispatcher

(* run_buffered returns only when the consumer has heard the end: for any  *)
(* capacity and budgets, and however the stop, the overload, the last      *)
(* notices and the dispatcher's thread are interleaved.                    *)
THEOREM EndHeardHolds == Spec => []EndHeard
<1>1. Init => EndInv
  BY DEF Init, EndInv, EndOnItsWay, EndGiven
<1>2. TypeOK /\ EndInv /\ [Next]_vars => EndInv'
  BY EndNext
<1>3. TypeOK /\ Prefix /\ EndInv => EndHeard
  <2> SUFFICES ASSUME TypeOK, Prefix, EndInv, returned, ~Panicked PROVE
           seen = "Disconnected" /\ queue = <<>> /\ IF overloaded THEN told ELSE delivered = produced
    BY DEF EndHeard, EndInv
  <2>1. worker = "finished"
    BY DEF EndInv, Panicked
  <2>2. queue = <<>> /\ seen = "Disconnected" /\ (overloaded => told)
    BY <2>1 DEF EndInv, EndGiven
  <2>3. Len(queue) = 0 /\ delivered \in Nat
    BY <2>2 DEF TypeOK
  <2>4. ~overloaded => delivered = produced
    BY <2>3 DEF Prefix
  <2> QED
    BY <2>2, <2>4
<1> QED
  BY <1>1, <1>2, <1>3, TypeCorrect, PrefixHolds, PTL DEF Spec

--------------------------------------------------------------------------------
(* The reconnecting stream *)

(* reconnect() takes the connection away: it waits, or ends with an error. *)
LEMMA ReconnectKeeps ==
    ASSUME StreamInv, Reconnect, UNCHANGED <<cut, handed, abandoned, acked>>
    PROVE  StreamInv'
<1>1. CallInv'
  BY DEF StreamInv, CallInv, Reconnect, ReturnError, Reply
<1>2. EndIsTold'
  BY DEF StreamInv, NothingLostSilently, EndIsTold, Reconnect, ReturnError, Reply
<1> QED
  BY <1>1, <1>2 DEF StreamInv, NothingLostSilently, AckedIsReturned

LEMMA StreamKeeps ==
    ASSUME StreamInv, StreamNext
    PROVE  StreamInv'
<1> USE DEF StreamInv, CallInv, NothingLostSilently, EndIsTold, AckedIsReturned, batchVars
<1>1. CASE NextMessage
  BY <1>1 DEF NextMessage, Reply
<1>2. CASE Drop
  <2>1. CallInv'
    BY <1>2 DEF Drop
  <2>2. EndIsTold'
    BY <1>2 DEF Drop
  <2>3. AckedIsReturned'
    BY <1>2 DEF Drop
  <2> QED
    BY <2>1, <2>2, <2>3
<1>3. CASE Close
  BY <1>3 DEF Close
<1>4. CASE Lost \/ Malformed
  BY <1>4, ReconnectKeeps DEF Lost, Malformed
<1>5. CASE Plain \/ WantsAck \/ AckSent
  BY <1>5 DEF Plain, WantsAck, AckSent, Reply
<1>6. CASE Wake \/ Signed
  BY <1>6 DEF Wake, Signed
<1>7. ASSUME NEW answer \in {"refused", "signer"}, NotSigned(answer) PROVE StreamInv'
  BY <1>7 DEF NotSigned, ReturnError, Reply
<1>8. CASE SocketOpened
  BY <1>8 DEF SocketOpened
<1>9. CASE NotOpened
  BY <1>9 DEF NotOpened, NextAttempt, ReturnError, Reply
<1> QED
  BY <1>1, <1>2, <1>3, <1>4, <1>5, <1>6, <1>7, <1>8, <1>9 DEF StreamNext

(* reconnect.rs and lib.rs of ttl-live-ws, for every policy: the stream    *)
(* does not answer None before it has told why, unless a call was dropped  *)
(* while it reconnected, and a batch that was acknowledged was handed to   *)
(* the caller or belonged to a call that was dropped.                      *)
THEOREM NothingLostSilentlyHolds == StreamSpec => []NothingLostSilently
<1>1. StreamInit => StreamInv
  BY DEF StreamInit, StreamInv, CallInv, NothingLostSilently, EndIsTold, AckedIsReturned
<1>2. StreamInv /\ [StreamNext]_streamVars => StreamInv'
  <2>1. CASE UNCHANGED streamVars
    BY <2>1 DEF streamVars, batchVars, StreamInv, CallInv, NothingLostSilently, EndIsTold,
       AckedIsReturned
  <2> QED
    BY <2>1, StreamKeeps
<1>3. StreamInv => NothingLostSilently
  BY DEF StreamInv
<1> QED
  BY <1>1, <1>2, <1>3, PTL DEF StreamSpec
================================================================================
