-------------------------- MODULE EventDeliveryProofs --------------------------
(***************************************************************************)
(* The ways of an event to a listener, for every capacity, budget and      *)
(* bound. EventDelivery: the inductive invariant is IInv, each lemma shows *)
(* that one step of the program preserves it; Budget and the refinement of *)
(* EventStream follow it. AndroidHandoff: HandoffInv, of the pump and of   *)
(* who ends the native side. GiftStreaks: StreakInv, whose sums are taken  *)
(* sender by sender.                                                       *)
(***************************************************************************)
EXTENDS EventDelivery, AndroidHandoff, GiftStreaks, FiniteSetTheorems, SequenceTheorems, TLAPS

(* What EventDelivery needs to be inductive: the ring index stays a slot,  *)
(* only a queue that can hold something is ever drained, and every entry   *)
(* belongs to a generation that is not ahead of the owner's and was        *)
(* received after the latest disconnect().                                 *)
Indexing ==
    /\ depth <= Capacity
    /\ head \in Slots
    /\ mode = "sync" => depth = 0
    /\ pc = "drain" \/ timer = "armed" => mode = "queued"

Provenance ==
    /\ cutoff <= received
    /\ rgen <= gen /\ cur.gen <= gen
    /\ depth > 0 => gen > 0
    /\ link # "down" => gen > 0
    /\ pc \in {"receive", "error", "event", "typed"} => gen > 0
    /\ pc \in {"event", "typed"} /\ cur.gen = gen => cur.id > cutoff
    /\ \A s \in Slots :
         /\ ring[s].gen <= gen
         /\ ring[s].gen > 0 => ring[s].id > cutoff

IInv == TypeOK /\ Accounting /\ OneImmediate /\ Indexing /\ Provenance

(* A slot that holds no waiting event is empty: between the head and the   *)
(* depth behind it, which may have gone round the end of the ring.         *)
Tidy ==
    \A s \in Slots : \/ ring[s] = Empty
                     \/ head <= s /\ s < head + depth
                     \/ s + Capacity < head + depth

(* What HandoffContract needs: while the queue takes offers, scheduled     *)
(* says whether a pump is posted or runs; once disconnect() has closed it, *)
(* nothing comes back. The native side is stopped by whoever takes the     *)
(* handle: the job, or the opener that finds the client shut down.         *)
Pumps == posted + (IF main = "idle" THEN 0 ELSE 1)
PumpInv ==
    /\ posted \in Nat /\ Pumps <= 1
    /\ ~stopped => (scheduled <=> Pumps = 1)
    /\ notices # <<>> => Pumps = 1
    /\ disconnect \in {"join", "returned"} => stopped /\ notices = <<>> /\ posted = 0
Joined == native \in {"stopping", "closed"}
ShutdownInv ==
    /\ shut <=> shutdownJob # "none"
    /\ disconnect # "none" => opener = "done" /\ shut
    /\ disconnect = "returned" => shutdownJob = "done"
    /\ opener \in {"connect", "failed", "set", "check", "join", "done"}
    /\ opener \in {"connect", "failed"} => native = "none" /\ ~handle
    /\ opener = "set" => native = "open" /\ ~handle
    /\ opener = "join" => Joined /\ ~handle
    /\ opener \in {"check", "done"} =>
         IF handle THEN native = "open"
         ELSE native = "closed" \/ (native = "stopping" /\ shutdownJob = "joining")
    /\ opener = "done" /\ handle => shutdownJob \in {"none", "launched"}
    /\ shutdownJob = "joining" => opener \in {"check", "done"} /\ ~handle
HandoffInv == PumpInv /\ ShutdownInv

(* The inductive invariant behind EachGiftOnce. *)
Ids == Senders \X Nat
Streaks == [id : Ids, count : Nat, completed : BOOLEAN]
Gifts == [sender : Senders, group : Nat, count : Nat, end : BOOLEAN, streakable : BOOLEAN]

StreakType ==
    /\ group \in [Senders -> Nat] /\ high \in [Senders -> Nat]
    /\ owed \in [Senders -> Nat] /\ counted \in [Senders -> Nat] /\ open \in [Senders -> Nat]
    /\ wire \subseteq Gifts
    /\ streaks \in Seq(Streaks)

(* What may still be repeated of the streak a sender is in: a message that *)
(* did not end it, with a count that was reached.                          *)
WireInv ==
    \A m \in wire :
        /\ m.streakable /\ m.group \in 1 .. group[m.sender]
        /\ m.group = group[m.sender] => ~m.end /\ m.count \in 1 .. high[m.sender]

(* Streaks are numbered from one. *)
GroupsInv == \A s \in Senders : group[s] >= 1

(* Rust: the running count is that of the streak the sender is in. *)
RunningInv ==
    ~late => \A s \in Senders :
        /\ counted[s] = owed[s] + (IF roomOpen THEN 0 ELSE high[s])
        /\ roomOpen => open[s] = high[s]

(* Java: a finished streak is remembered as completed, the one under way   *)
(* with its count, and no later one is known.                              *)
MemoryInv ==
    /\ \A s \in Senders : \A g \in 1 .. group[s] - 1 :
         \E i \in Known(<<s, g>>) : streaks[i].completed
    /\ \A s \in Senders : high[s] > 0 => Known(<<s, group[s]>>) # {}
    /\ \A i \in 1 .. Len(streaks) : streaks[i].id[2] <= group[streaks[i].id[1]]
    /\ \A s \in Senders : \A i \in Known(<<s, group[s]>>) :
         ~streaks[i].completed /\ streaks[i].count = high[s]

(* Finished streaks and what was told of them, one for one. *)
ToldInv ==
    /\ IsFiniteSet(told) /\ IsFiniteSet(finals) /\ FinalOnce
    /\ \A f \in finals \cup told :
         f.id \in Ids /\ f.id[2] < group[f.id[1]]

StreakInv ==
    /\ StreakType /\ GroupsInv /\ WireInv /\ RunningInv
    /\ ~forgot => MemoryInv /\ ToldInv

--------------------------------------------------------------------------------
USE OptionsAssumption

(* The remainder that indexes the ring is a slot of the ring. *)
LEMMA RemainderIsSlot ==
    ASSUME NEW a \in Nat
    PROVE  a % Capacity \in Slots
  BY DEF Slots

(* clear() leaves an empty ring of the right shape. *)
LEMMA NoEntriesType ==
    /\ NoEntries \in [Slots -> Entry]
    /\ \A s \in Slots : NoEntries[s] = Empty
    /\ Empty \in Entry /\ Empty.gen = 0
  BY DEF NoEntries, Empty, Entry

(* The queue starts empty and idle. *)
LEMMA InitIInv == Init => IInv
<1> SUFFICES ASSUME Init PROVE IInv
  OBVIOUS
<1>1. TypeOK
  <2>1. closing \in BOOLEAN
    BY Zenon DEF Init
  <2>2. QED
    BY <2>1, NoEntriesType DEF Init, TypeOK
<1>2. Accounting /\ OneImmediate /\ Indexing
  BY DEF Init, Accounting, InFlight, OneImmediate, Indexing, Slots
<1>3. Provenance
  BY NoEntriesType DEF Init, Provenance
<1>4. QED
  BY <1>1, <1>2, <1>3 DEF IInv

(* The setImmediate callback takes the only immediate with it. *)
LEMMA ImmediateIInv == IInv /\ Immediate => IInv'
  BY DEF Immediate, IInv, TypeOK, Accounting, InFlight, OneImmediate,
     Indexing, Provenance, metricVars, ownerVars

(* Consuming the head moves one event out of the queue: to a listener, or  *)
(* to the discarded ones.                                                  *)
LEMMA DrainStepIInv == IInv /\ DrainStep => IInv'
<1> SUFFICES ASSUME IInv, DrainStep PROVE IInv'
  OBVIOUS
<1>1. mode = "queued" /\ head \in Slots /\ gen > 0
  BY DEF IInv, Indexing, Provenance, DrainStep
<1>2. head' \in Slots
  <2>1. head + 1 \in Nat
    BY DEF IInv, TypeOK
  <2>2. QED
    BY <1>1, <2>1, RemainderIsSlot DEF DrainStep
<1>3. ring[head] \in Entry /\ ring' \in [Slots -> Entry]
  BY <1>1, NoEntriesType DEF DrainStep, IInv, TypeOK
<1>4. TypeOK'
  <2>1. ring[head].id \in Nat /\ ring[head].bytes \in Nat /\ head' \in Nat
    BY <1>2, <1>3 DEF Entry, Slots
  <2>2. Empty \in Entry
    BY NoEntriesType
  <2>3. QED
    BY <1>3, <2>1, <2>2
    DEF DrainStep, Dispatch, Resume, IInv, TypeOK, ownerVars
<1>5. Accounting' /\ OneImmediate' /\ Indexing'
  BY <1>1, <1>2, <1>3 DEF DrainStep, Dispatch, Resume, IInv, TypeOK, Accounting,
     InFlight, OneImmediate, Indexing, ownerVars
<1>6. Provenance'
  <2>1. \A s \in Slots : ring'[s] = Empty \/ ring'[s] = ring[s]
    BY <1>1 DEF DrainStep, IInv, TypeOK
  <2>2. QED
    BY <1>1, <1>3, <2>1, NoEntriesType
    DEF DrainStep, Dispatch, Resume, IInv, TypeOK, Provenance, Entry, ownerVars
<1>7. QED
  BY <1>4, <1>5, <1>6 DEF IInv

(* Leaving the drain loop reschedules what is left. *)
LEMMA DrainEndIInv == IInv /\ DrainEnd => IInv'
  BY DEF DrainEnd, Schedule, IInv, TypeOK, Accounting, InFlight, OneImmediate,
     Indexing, Provenance, metricVars, ownerVars

(* A received message is handed on, queued or refused; each way it is      *)
(* counted once.                                                           *)
LEMMA ReceiveStepIInv ==
    ASSUME NEW b \in Charges, IInv, ReceiveStep(b)
    PROVE  IInv'
<1> DEFINE e == [id |-> received + 1, gen |-> rgen, bytes |-> b]
<1>1. e \in Entry /\ e.gen = gen /\ gen > 0 /\ e.id > cutoff /\ e.id = received + 1
  BY DEF ReceiveStep, IInv, TypeOK, Provenance, Entry
<1>2. /\ pc = "receive" /\ left > 0 /\ ~closing
      /\ received' = received + 1 /\ left' = left - 1 /\ rgen' = rgen /\ mode' = mode
      /\ SubmitNow(e) \/ SubmitQueued(e) \/ SubmitOverflow(e)
  BY DEF ReceiveStep
<1> HIDE DEF e
<1>3. CASE SubmitNow(e)
  BY <1>1, <1>2, <1>3, NoEntriesType
  DEF SubmitNow, Dispatch, Resume, IInv, TypeOK, Accounting, InFlight, OneImmediate,
      Indexing, Provenance, queueVars, ownerVars
<1>4. CASE SubmitQueued(e)
  <2>1. (head + depth) % Capacity \in Slots
    BY <1>4, RemainderIsSlot DEF SubmitQueued, IInv, TypeOK
  <2>2. ring' \in [Slots -> Entry] /\ \A s \in Slots : ring'[s] = e \/ ring'[s] = ring[s]
    BY <1>1, <1>4, <2>1 DEF SubmitQueued, IInv, TypeOK
  <2>3. b \in Nat /\ e.bytes \in Nat
    BY <1>1 DEF Entry
  <2>4. TypeOK'
    BY <1>2, <1>4, <2>2, <2>3 DEF SubmitQueued, Schedule, IInv, TypeOK, ownerVars
  <2>5. Accounting' /\ OneImmediate' /\ Indexing'
    BY <1>2, <1>4 DEF SubmitQueued, Schedule, Fits, IInv, TypeOK, Accounting, InFlight,
       OneImmediate, Indexing, ownerVars
  <2>6. Provenance'
    BY <1>1, <1>2, <1>4, <2>2 DEF SubmitQueued, IInv, TypeOK, Provenance, Entry, ownerVars
  <2>7. QED
    BY <2>4, <2>5, <2>6 DEF IInv
<1>5. CASE SubmitOverflow(e)
  <2>1. TypeOK'
    BY <1>2, <1>5, NoEntriesType
    DEF SubmitOverflow, Clear, InvalidateOwner, IInv, TypeOK, OneImmediate
  <2>2. Accounting' /\ OneImmediate' /\ Indexing'
    BY <1>2, <1>5 DEF SubmitOverflow, Clear, InvalidateOwner, IInv, TypeOK, Accounting,
       InFlight, OneImmediate, Indexing, Slots
  <2>3. Provenance'
    BY <1>2, <1>5, NoEntriesType
    DEF SubmitOverflow, Clear, InvalidateOwner, IInv, TypeOK, Provenance, Entry
  <2>4. QED
    BY <2>1, <2>2, <2>3 DEF IInv
<1>6. QED
  BY <1>2, <1>3, <1>4, <1>5

(* disconnect() empties the queue without losing count of it. *)
LEMMA DisconnectIInv == IInv /\ Disconnect => IInv'
<1> SUFFICES ASSUME IInv, Disconnect PROVE IInv'
  OBVIOUS
<1>1. TypeOK'
  BY NoEntriesType DEF Disconnect, Clear, InvalidateOwner, IInv, TypeOK, OneImmediate, localVars
<1>2. Accounting' /\ OneImmediate' /\ Indexing'
  BY DEF Disconnect, Clear, InvalidateOwner, IInv, TypeOK, Accounting,
     InFlight, OneImmediate, Indexing, Slots, localVars
<1>3. Provenance'
  BY NoEntriesType
  DEF Disconnect, Clear, InvalidateOwner, IInv, TypeOK, Provenance, Entry, localVars
<1>4. QED
  BY <1>1, <1>2, <1>3 DEF IInv

(* Entering and leaving listeners moves the event in flight to dispatched. *)
LEMMA ListenerIInv ==
    IInv /\ (EmitTyped \/ DispatchReturns \/ ErrorReturns \/ ReceiveEnd) => IInv'
  BY NoEntriesType DEF EmitTyped, DispatchReturns, ErrorReturns, ReceiveEnd, Resume, IInv,
     TypeOK, Accounting, InFlight, OneImmediate, Indexing, Provenance, queueVars,
     metricVars, ownerVars

(* The owner's other steps only touch the connection. *)
LEMMA OwnerIInv ==
    ASSUME IInv,
           Connect \/ Opened \/ RemoteClose \/ \E n \in 1 .. MaxBatch : Receive(n)
    PROVE  IInv'
<1>1. CASE Opened \/ RemoteClose
  BY <1>1 DEF Opened, RemoteClose, IInv, TypeOK, Accounting, InFlight,
     OneImmediate, Indexing, Provenance, queueVars, metricVars, localVars
<1>2. CASE Connect
  <2>1. closing' \in BOOLEAN
    BY <1>2, Zenon DEF Connect
  <2>2. cur.gen \in Nat /\ \A s \in Slots : ring[s].gen \in Nat
    BY DEF IInv, TypeOK, Entry
  <2>3. TypeOK' /\ Accounting' /\ OneImmediate' /\ Indexing'
    BY <1>2, <2>1 DEF Connect, IInv, TypeOK, Accounting, InFlight, OneImmediate, Indexing,
       queueVars, metricVars, localVars
  <2>4. Provenance'
    <3>1. /\ cutoff' = cutoff /\ received' = received /\ rgen' = rgen /\ cur' = cur
          /\ ring' = ring /\ pc' = pc /\ depth' = depth /\ gen' = gen + 1
      BY <1>2 DEF Connect, queueVars, metricVars, localVars
    <3>2. gen \in Nat /\ rgen \in Nat
      BY DEF IInv, TypeOK
    <3>3. QED
      BY <2>2, <3>1, <3>2 DEF IInv, Provenance
  <2>5. QED
    BY <2>3, <2>4 DEF IInv
<1>3. CASE \E n \in 1 .. MaxBatch : Receive(n)
  BY <1>3 DEF Receive, IInv, TypeOK, Accounting, InFlight,
     OneImmediate, Indexing, Provenance, queueVars, metricVars, ownerVars
<1>4. QED
  BY <1>1, <1>3, <1>2

(* IInv is inductive. *)
LEMMA NextIInv == IInv /\ [Next]_vars => IInv'
<1> SUFFICES ASSUME IInv, [Next]_vars PROVE IInv'
  OBVIOUS
<1>1. CASE Next
  BY <1>1, ImmediateIInv, DrainStepIInv, DrainEndIInv, ReceiveStepIInv, DisconnectIInv,
     ListenerIInv, OwnerIInv DEF Next, Internal
<1>2. CASE UNCHANGED vars
  BY <1>2 DEF vars, queueVars, metricVars, localVars, ownerVars, IInv, TypeOK, Accounting,
     InFlight, OneImmediate, Indexing, Provenance
<1>3. QED
  BY <1>1, <1>2

(* IInv holds in every behaviour. *)
THEOREM Invariance == Spec => []IInv
  BY InitIInv, NextIInv, PTL DEF Spec

(* Every variable of the delivery keeps its type. *)
THEOREM TypeCorrect == Spec => []TypeOK
<1>1. IInv => TypeOK
  BY DEF IInv
<1>2. QED
  BY <1>1, Invariance, PTL

(* The delivery metrics account for every received event, for every        *)
(* capacity and whatever the listeners do.                                 *)
THEOREM AccountingHolds == Spec => []Accounting
<1>1. IInv => Accounting
  BY DEF IInv
<1>2. QED
  BY <1>1, Invariance, PTL

(* The queue owns at most one immediate and is never stranded without one. *)
THEOREM OneImmediateHolds == Spec => []OneImmediate
<1>1. IInv => OneImmediate
  BY DEF IInv
<1>2. QED
  BY <1>1, Invariance, PTL

(* No listener starts with an event that was received before the latest    *)
(* disconnect().                                                           *)
THEOREM NothingAfterDisconnectHolds == Spec => NothingAfterDisconnect
<1> DEFINE Fresh == pc' # pc /\ pc' \in {"event", "typed"} => cur'.id > cutoff
<1>1. IInv /\ [Next]_vars => [Fresh]_vars
  <2> SUFFICES ASSUME IInv, Next, pc' # pc, pc' \in {"event", "typed"}
               PROVE  cur'.id > cutoff
    OBVIOUS
  <2>1. EmitTyped \/ DrainStep \/ \E b \in Charges : ReceiveStep(b)
    BY DEF Next, Internal, Immediate, DrainEnd, ReceiveEnd, DispatchReturns, ErrorReturns,
       Resume, Receive, Disconnect, Connect, Opened, RemoteClose, localVars
  <2>2. CASE EmitTyped
    BY <2>2 DEF EmitTyped, IInv, Provenance
  <2>3. CASE DrainStep
    BY <2>3 DEF DrainStep, Dispatch, Resume, IInv, Provenance, Indexing
  <2>4. CASE \E b \in Charges : ReceiveStep(b)
    BY <2>4 DEF ReceiveStep, SubmitNow, SubmitQueued, SubmitOverflow, Dispatch, Resume,
       IInv, TypeOK, Provenance
  <2>5. QED
    BY <2>1, <2>2, <2>3, <2>4
<1>2. QED
  BY <1>1, Invariance, PTL DEF Spec, NothingAfterDisconnect

--------------------------------------------------------------------------------
(* The byte charge *)

(* Where an index that has gone once round the ring at most ends up. *)
LEMMA RingIndex ==
    ASSUME NEW a \in Nat, a < 2 * Capacity
    PROVE  a % Capacity = IF a < Capacity THEN a ELSE a - Capacity
<1>1. \A i \in 0 .. Capacity - 1 : i % Capacity = i
  OBVIOUS
<1>2. \A i \in Capacity .. 2 * Capacity - 1 : i % Capacity = i - Capacity
  OBVIOUS
<1>3. QED
  BY <1>1, <1>2

(* One slot gets another entry: the sums behind it follow. *)
LEMMA ChargeMoves ==
    ASSUME NEW r \in [Slots -> Entry], NEW s \in Slots, NEW e \in Entry, NEW total,
           Charged(r, total), total + e.bytes - r[s].bytes <= MaxBytes
    PROVE  Charged([r EXCEPT ![s] = e], total + e.bytes - r[s].bytes)
<1>1. PICK sum \in [0 .. Capacity -> 0 .. MaxBytes] :
         /\ sum[0] = 0 /\ sum[Capacity] = total
         /\ \A i, j \in DOMAIN sum : i <= j => sum[i] <= sum[j]
         /\ \A t \in Slots : sum[t + 1] = sum[t] + r[t].bytes
  BY DEF Charged
<1>2. PICK was \in Nat : was = r[s].bytes
  BY DEF Entry
<1>3. PICK b \in Nat : b = e.bytes
  BY DEF Entry
<1>4. PICK q \in [Slots -> Entry] : q = [r EXCEPT ![s] = e]
  OBVIOUS
<1>5. s \in Nat /\ s < Capacity /\ \A t \in Slots : q[t] = IF t = s THEN e ELSE r[t]
  BY <1>4 DEF Slots
<1> DEFINE moved == [i \in 0 .. Capacity |-> IF i > s THEN sum[i] + b - was ELSE sum[i]]
<1>6. \A i \in 0 .. Capacity : sum[i] \in Nat /\ sum[i] <= total
  <2>1. DOMAIN sum = 0 .. Capacity /\ Capacity \in 0 .. Capacity /\ \A i \in 0 .. Capacity : i <= Capacity
    OBVIOUS
  <2>2. QED
    BY <1>1, <2>1
<1>7. sum[s + 1] = sum[s] + was /\ s + 1 \in 0 .. Capacity /\ s \in 0 .. Capacity
  BY <1>1, <1>2, <1>5
<1>8. \A i \in 0 .. Capacity : i > s => sum[i] >= sum[s] + was
  BY <1>1, <1>5, <1>7
<1>9. total \in Nat
  BY <1>1
<1>10. moved \in [0 .. Capacity -> 0 .. MaxBytes]
  <2> SUFFICES ASSUME NEW i \in 0 .. Capacity
               PROVE  (IF i > s THEN sum[i] + b - was ELSE sum[i]) \in 0 .. MaxBytes
    OBVIOUS
  <2>1. total + b - was <= MaxBytes
    BY <1>2, <1>3
  <2>2. sum[i] \in 0 .. MaxBytes /\ sum[s] \in Nat
    BY <1>6, <1>7
  <2>3. QED
    BY <1>6, <1>8, <1>9, <2>1, <2>2, SMTT(30)
<1>11. moved[0] = 0 /\ moved[Capacity] = total + b - was
  BY <1>1, <1>5
<1>12. ASSUME NEW t \in Slots PROVE moved[t + 1] = moved[t] + q[t].bytes
  <2>1. t \in 0 .. Capacity /\ t + 1 \in 0 .. Capacity /\ sum[t + 1] = sum[t] + r[t].bytes
    BY <1>1 DEF Slots
  <2>2. r[t].bytes \in Nat
    BY DEF Entry
  <2>3. CASE t = s
    <3>1. moved[t + 1] = sum[t + 1] + b - was /\ moved[t] = sum[t] /\ q[t] = e
      BY <1>5, <2>1, <2>3
    <3>2. sum[t] \in Nat /\ sum[t + 1] = sum[t] + was
      BY <1>2, <1>6, <2>1, <2>3
    <3> HIDE DEF moved
    <3>3. QED
      BY <1>3, <3>1, <3>2
  <2>4. CASE t < s
    <3>1. moved[t + 1] = sum[t + 1] /\ moved[t] = sum[t] /\ q[t] = r[t]
      BY <1>5, <2>1, <2>4
    <3>2. QED
      BY <2>1, <3>1
  <2>5. CASE t > s
    <3>1. moved[t + 1] = sum[t + 1] + b - was /\ moved[t] = sum[t] + b - was /\ q[t] = r[t]
      BY <1>5, <2>1, <2>5
    <3>2. QED
      BY <1>6, <2>1, <2>2, <3>1
  <2>6. QED
    BY <1>5, <2>1, <2>3, <2>4, <2>5
<1>13. ASSUME NEW i \in 0 .. Capacity, NEW j \in 0 .. Capacity, i <= j PROVE moved[i] <= moved[j]
  <2>1. sum[i] <= sum[j] /\ (i <= s => sum[i] <= sum[s])
    BY <1>1, <1>7, <1>13
  <2>2. /\ moved[i] = IF i > s THEN sum[i] + b - was ELSE sum[i]
        /\ moved[j] = IF j > s THEN sum[j] + b - was ELSE sum[j]
    OBVIOUS
  <2> HIDE DEF moved
  <2>3. sum[i] \in Nat /\ sum[j] \in Nat /\ sum[s] \in Nat
    BY <1>6, <1>7
  <2>4. CASE j > s
    BY <1>5, <1>8, <1>13, <2>1, <2>2, <2>3, <2>4
  <2>5. CASE ~(j > s)
    BY <1>5, <1>13, <2>1, <2>2, <2>5
  <2>6. QED
    BY <2>4, <2>5
<1> HIDE DEF moved
<1>14. DOMAIN moved = 0 .. Capacity
  BY <1>10
<1>15. Charged(q, total + b - was)
  BY <1>10, <1>11, <1>12, <1>13, <1>14 DEF Charged
<1>16. QED
  BY <1>2, <1>3, <1>4, <1>15

(* An empty ring charges nothing. *)
LEMMA NothingCharged == Charged(NoEntries, 0)
<1> DEFINE zero == [i \in 0 .. Capacity |-> 0]
<1>1. \A s \in Slots : NoEntries[s].bytes = 0 /\ s \in 0 .. Capacity /\ s + 1 \in 0 .. Capacity
  BY DEF NoEntries, Empty, Slots
<1>2. zero \in [0 .. Capacity -> 0 .. MaxBytes] /\ \A i \in 0 .. Capacity : zero[i] = 0
  OBVIOUS
<1> HIDE DEF zero
<1>3. QED
  BY <1>1, <1>2 DEF Charged

(* clear() frees every slot with the charge. *)
LEMMA ClearTidies ==
    ASSUME NEW lost, Clear(lost)
    PROVE  Tidy' /\ Charged(ring, bytes)'
<1>1. ring' = NoEntries /\ bytes' = 0
  BY DEF Clear
<1>2. Tidy'
  BY <1>1, NoEntriesType DEF Tidy
<1>3. Charged(ring, bytes)'
  BY <1>1, NothingCharged DEF Charged
<1>4. QED
  BY <1>2, <1>3

LEMMA ChargeStep ==
    ASSUME IInv, Tidy, Charged(ring, bytes), Next
    PROVE  Tidy' /\ Charged(ring, bytes)'
<1>1. ring \in [Slots -> Entry] /\ head \in Slots /\ depth \in Nat /\ depth <= Capacity
      /\ head \in Nat /\ head < Capacity /\ bytes \in Int
  BY DEF IInv, TypeOK, Indexing, Slots
<1>2. ASSUME NEW b \in Charges, ReceiveStep(b) PROVE Tidy' /\ Charged(ring, bytes)'
  <2> DEFINE e == [id |-> received + 1, gen |-> rgen, bytes |-> b]
  <2>1. e \in Entry /\ e.bytes = b /\ b \in Nat
    BY DEF IInv, TypeOK, Entry
  <2>2. SubmitNow(e) \/ SubmitQueued(e) \/ SubmitOverflow(e)
    BY <1>2 DEF ReceiveStep
  <2> HIDE DEF e
  <2>3. CASE SubmitNow(e)
    BY <2>3 DEF SubmitNow, queueVars, Tidy, Charged
  <2>4. CASE SubmitOverflow(e)
    BY <2>4, ClearTidies DEF SubmitOverflow
  <2>5. CASE SubmitQueued(e)
    <3>1. PICK t : t = (head + depth) % Capacity
      OBVIOUS
    <3>2. /\ depth < Capacity /\ e.bytes <= MaxBytes - bytes /\ ring' = [ring EXCEPT ![t] = e]
          /\ depth' = depth + 1 /\ head' = head /\ bytes' = bytes + e.bytes
      BY <1>1, <2>5, <3>1 DEF SubmitQueued, Fits
    <3>3. t = IF head + depth < Capacity THEN head + depth ELSE head + depth - Capacity
      BY <1>1, <3>1, <3>2, RingIndex
    <3>4. t \in Slots
      BY <1>1, <3>2, <3>3 DEF Slots
    <3>5. ring[t] = Empty
      BY <1>1, <3>2, <3>3, <3>4 DEF Tidy
    <3>6. Tidy'
      <4> SUFFICES ASSUME NEW s \in Slots
                   PROVE  \/ ring'[s] = Empty
                          \/ head' <= s /\ s < head' + depth'
                          \/ s + Capacity < head' + depth'
        BY DEF Tidy
      <4>1. CASE s = t
        BY <1>1, <3>2, <3>3, <4>1
      <4>2. CASE s # t
        <5>1. ring'[s] = ring[s] /\ s \in Nat
          BY <1>1, <3>2, <3>4, <4>2 DEF Slots
        <5>2. QED
          BY <1>1, <3>2, <5>1 DEF Tidy
      <4>3. QED
        BY <4>1, <4>2
    <3>7. Charged(ring', bytes')
      <4>1. bytes + e.bytes - ring[t].bytes <= MaxBytes /\ bytes + e.bytes - ring[t].bytes = bytes'
        BY <1>1, <2>1, <3>2, <3>5 DEF Empty
      <4>2. QED
        BY <1>1, <2>1, <3>2, <3>4, <4>1, ChargeMoves
    <3>8. QED
      BY <3>6, <3>7 DEF Charged
  <2>6. QED
    BY <2>2, <2>3, <2>4, <2>5
<1>3. CASE DrainStep
  <2>1. /\ depth > 0 /\ ring' = [ring EXCEPT ![head] = Empty] /\ head' = (head + 1) % Capacity
        /\ depth' = depth - 1 /\ bytes' = bytes - ring[head].bytes
    BY <1>3 DEF DrainStep
  <2>2. head' = IF head + 1 < Capacity THEN head + 1 ELSE head + 1 - Capacity
    BY <1>1, <2>1, RingIndex
  <2>3. Tidy'
    <3> SUFFICES ASSUME NEW s \in Slots, s # head
                 PROVE  \/ ring'[s] = Empty
                        \/ head' <= s /\ s < head' + depth'
                        \/ s + Capacity < head' + depth'
      BY <1>1, <2>1 DEF Tidy
    <3>1. ring'[s] = ring[s] /\ s \in Nat /\ s < Capacity
      BY <1>1, <2>1 DEF Slots
    <3>2. QED
      BY <1>1, <2>1, <2>2, <3>1 DEF Tidy
  <2>4. Charged(ring', bytes')
    <3>1. PICK was \in Nat : was = ring[head].bytes
      BY <1>1 DEF Entry
    <3>2. Empty \in Entry /\ Empty.bytes = 0
      BY NoEntriesType DEF Empty
    <3>3. bytes <= MaxBytes
      BY DEF Charged
    <3>4. bytes + Empty.bytes - ring[head].bytes <= MaxBytes
          /\ bytes + Empty.bytes - ring[head].bytes = bytes'
      BY <1>1, <2>1, <3>1, <3>2, <3>3
    <3>5. QED
      BY <1>1, <2>1, <3>2, <3>4, ChargeMoves
  <2>5. QED
    BY <2>3, <2>4 DEF Charged
<1>4. CASE Disconnect
  BY <1>4, ClearTidies DEF Disconnect
<1>5. CASE UNCHANGED <<ring, head, depth, bytes>>
  BY <1>5 DEF Tidy, Charged
<1>6. QED
  BY <1>2, <1>3, <1>4, <1>5, Zenon
  DEF Next, Internal, Immediate, DrainEnd, ReceiveEnd, EmitTyped, DispatchReturns, ErrorReturns,
      Receive, Connect, Opened, RemoteClose, queueVars

(* The charge of #bytes is that of the entries the ring still holds, and   *)
(* neither it nor #depth passes its limit: delivery.ts keeps its budget    *)
(* for every capacity, and no sequence of clears and drains leaks charge.  *)
THEOREM BudgetHolds == Spec => []Budget
<1>1. Init => Tidy /\ Charged(ring, bytes)
  BY NothingCharged, NoEntriesType DEF Init, Tidy
<1>2. IInv /\ Tidy /\ Charged(ring, bytes) /\ [Next]_vars => (Tidy /\ Charged(ring, bytes))'
  <2>1. CASE UNCHANGED vars
    BY <2>1 DEF vars, queueVars, Tidy, Charged
  <2>2. QED
    BY <2>1, ChargeStep
<1>3. IInv /\ Charged(ring, bytes) => Budget
  BY DEF IInv, Indexing, Budget
<1>4. QED
  BY <1>1, <1>2, <1>3, Invariance, PTL DEF Spec

--------------------------------------------------------------------------------
(* The ring implements the ordered stream *)

(* The slot of an index, hidden from the arithmetic. *)
Wrap(a) == a % Capacity

LEMMA WrapIs ==
    ASSUME NEW a \in Nat
    PROVE  /\ Wrap(a) \in Slots
           /\ a < 2 * Capacity => Wrap(a) = IF a < Capacity THEN a ELSE a - Capacity
  BY RemainderIsSlot, RingIndex DEF Wrap

(* The waiting events, read off a ring, are a sequence. *)
WaitingIn(r, h, d) == [i \in 1 .. d |-> r[Wrap(h + i - 1)].id]

LEMMA ReadOff ==
    ASSUME NEW r \in [Slots -> Entry], NEW h \in Nat, NEW d \in Nat
    PROVE  /\ WaitingIn(r, h, d) \in Seq(Nat) /\ Len(WaitingIn(r, h, d)) = d
           /\ \A i \in 1 .. d : WaitingIn(r, h, d)[i] = r[Wrap(h + i - 1)].id
<1>1. ASSUME NEW i \in 1 .. d PROVE r[Wrap(h + i - 1)].id \in Nat
  <2>1. h + i - 1 \in Nat
    OBVIOUS
  <2>2. Wrap(h + i - 1) \in Slots
    BY <2>1, WrapIs
  <2>3. QED
    BY <2>2 DEF Entry
<1>2. /\ WaitingIn(r, h, d) \in [1 .. d -> Nat]
      /\ \A i \in 1 .. d : WaitingIn(r, h, d)[i] = r[Wrap(h + i - 1)].id
  BY <1>1 DEF WaitingIn
<1>3. WaitingIn(r, h, d) \in Seq(Nat)
  BY <1>2, SeqDef
<1>4. QED
  BY <1>2, <1>3, LenProperties

LEMMA PendingIs == Pending = WaitingIn(ring, head, depth) /\ Pending' = WaitingIn(ring', head', depth')
  BY Zenon DEF Pending, WaitingIn, Wrap

(* clear() drops what waits. *)
LEMMA ClearAbandons ==
    ASSUME NEW lost, Clear(lost)
    PROVE  Pending' = <<>>
  BY DEF Clear, Pending

(* Taking the head takes the oldest waiting event. *)
LEMMA DrainTakesOldest ==
    ASSUME IInv, DrainStep
    PROVE  Pending # <<>> /\ Head(Pending) = ring[head].id /\ Pending' = Tail(Pending)
<1>1. /\ ring \in [Slots -> Entry] /\ head \in Slots /\ depth \in Nat /\ depth <= Capacity
      /\ head \in Nat /\ head < Capacity
  BY DEF IInv, TypeOK, Indexing, Slots
<1>2. /\ depth > 0 /\ ring' = [ring EXCEPT ![head] = Empty] /\ head' = Wrap(head + 1)
      /\ depth' = depth - 1
  BY DEF DrainStep, Wrap
<1>3. head' = IF head + 1 < Capacity THEN head + 1 ELSE head + 1 - Capacity
  BY <1>1, <1>2, WrapIs
<1>4. /\ Pending \in Seq(Nat) /\ Len(Pending) = depth
      /\ \A i \in 1 .. depth : Pending[i] = ring[Wrap(head + i - 1)].id
  <2> DEFINE w == WaitingIn(ring, head, depth)
  <2>1. /\ w \in Seq(Nat) /\ Len(w) = depth
        /\ \A i \in 1 .. depth : w[i] = ring[Wrap(head + i - 1)].id
    <3>1. ring \in [Slots -> Entry] /\ head \in Nat /\ depth \in Nat
      BY <1>1, Zenon
    <3>2. QED
      BY <3>1, ReadOff, Zenon
  <2>2. Pending = w
    BY PendingIs, Zenon
  <2> HIDE DEF w
  <2>3. QED
    BY <2>1, <2>2, Zenon
<1>5. Pending # <<>>
  BY <1>2, <1>4
<1>6. Head(Pending) = ring[head].id
  <2>1. Head(Pending) = Pending[1] /\ 1 \in 1 .. depth
    BY <1>1, <1>2, <1>4, <1>5
  <2>2. head + 1 - 1 = head /\ Wrap(head) = head
    BY <1>1, WrapIs
  <2>3. QED
    BY <1>4, <2>1, <2>2
<1>7. /\ Tail(Pending) \in Seq(Nat) /\ Len(Tail(Pending)) = depth - 1
      /\ \A i \in 1 .. depth - 1 : Tail(Pending)[i] = Pending[i + 1]
  BY <1>4, <1>5, HeadTailProperties
<1>8. /\ Pending' \in Seq(Nat) /\ Len(Pending') = depth - 1
      /\ \A i \in 1 .. depth - 1 : Pending'[i] = ring'[Wrap(head' + i - 1)].id
  <2>1. ring' \in [Slots -> Entry] /\ head' \in Nat /\ depth' \in Nat
    BY <1>1, <1>2, <1>3, NoEntriesType
  <2> DEFINE w == WaitingIn(ring', head', depth')
  <2>2. /\ w \in Seq(Nat) /\ Len(w) = depth'
        /\ \A i \in 1 .. depth' : w[i] = ring'[Wrap(head' + i - 1)].id
    BY <2>1, ReadOff, Zenon
  <2>3. Pending' = w
    BY PendingIs, Zenon
  <2> HIDE DEF w
  <2>4. QED
    BY <1>2, <2>2, <2>3, Zenon
<1>9. ASSUME NEW i \in 1 .. depth - 1 PROVE Pending'[i] = Pending[i + 1]
  <2>1. i \in Nat /\ i >= 1 /\ i < depth
    BY <1>1
  <2>2. PICK a \in Nat : a = head + i /\ a = head + (i + 1) - 1
    BY <1>1, <2>1
  <2>3. PICK b \in Nat : b = head' + i - 1
    BY <1>1, <1>3, <2>1
  <2>4. PICK t \in Slots : t = Wrap(a)
    BY WrapIs
  <2>5. t = IF a < Capacity THEN a ELSE a - Capacity
    BY <1>1, <2>1, <2>2, <2>4, WrapIs
  <2>6. Wrap(b) = IF b < Capacity THEN b ELSE b - Capacity
    BY <1>1, <1>3, <2>1, <2>3, WrapIs
  <2>7. Wrap(b) = t /\ t # head
    BY <1>1, <1>3, <2>1, <2>2, <2>3, <2>5, <2>6
  <2>8. ring'[t] = ring[t]
    BY <1>1, <1>2, <2>7
  <2>9. Pending[i + 1] = ring[t].id
    <3>1. i + 1 \in 1 .. depth
      BY <1>1, <2>1
    <3>2. Pending[i + 1] = ring[Wrap(head + (i + 1) - 1)].id
      BY <1>4, <3>1
    <3>3. QED
      BY <2>2, <2>4, <3>2, Zenon
  <2>10. Pending'[i] = ring'[t].id
    BY <1>8, <2>3, <2>7
  <2>11. QED
    BY <2>8, <2>9, <2>10
<1>10. Pending' = Tail(Pending)
  <2>1. \A i \in 1 .. Len(Pending') : Pending'[i] = Tail(Pending)[i]
    BY <1>7, <1>8, <1>9
  <2>2. QED
    BY <1>7, <1>8, <2>1, SeqEqual
<1>11. QED
  BY <1>5, <1>6, <1>10

(* A submitted event waits behind all others. *)
LEMMA SubmitAppends ==
    ASSUME IInv, NEW e \in Entry, SubmitQueued(e)
    PROVE  Pending' = Append(Pending, e.id)
<1>1. /\ ring \in [Slots -> Entry] /\ head \in Slots /\ depth \in Nat /\ depth <= Capacity
      /\ head \in Nat /\ head < Capacity
  BY DEF IInv, TypeOK, Indexing, Slots
<1>2. PICK a \in Nat : a = head + depth
  BY <1>1
<1>3. PICK t \in Slots : t = Wrap(a)
  BY WrapIs
<1>4. /\ depth < Capacity /\ ring' = [ring EXCEPT ![t] = e] /\ depth' = depth + 1 /\ head' = head
  BY <1>1, <1>2, <1>3 DEF SubmitQueued, Fits, Wrap
<1>5. t = IF a < Capacity THEN a ELSE a - Capacity
  BY <1>1, <1>2, <1>3, <1>4, WrapIs
<1>6. /\ Pending \in Seq(Nat) /\ Len(Pending) = depth
      /\ \A i \in 1 .. depth : Pending[i] = ring[Wrap(head + i - 1)].id
  <2> DEFINE w == WaitingIn(ring, head, depth)
  <2>1. /\ w \in Seq(Nat) /\ Len(w) = depth
        /\ \A i \in 1 .. depth : w[i] = ring[Wrap(head + i - 1)].id
    <3>1. ring \in [Slots -> Entry] /\ head \in Nat /\ depth \in Nat
      BY <1>1, Zenon
    <3>2. QED
      BY <3>1, ReadOff, ZenonT(30)
  <2>2. Pending = w
    BY PendingIs, Zenon
  <2> HIDE DEF w
  <2>3. QED
    BY <2>1, <2>2, Zenon
<1>7. /\ Pending' \in Seq(Nat) /\ Len(Pending') = depth + 1
      /\ \A i \in 1 .. depth + 1 : Pending'[i] = ring'[Wrap(head + i - 1)].id
  <2>1. ring' \in [Slots -> Entry] /\ depth' \in Nat /\ head' \in Nat
    BY <1>1, <1>4
  <2> DEFINE w == WaitingIn(ring', head', depth')
  <2>2. /\ w \in Seq(Nat) /\ Len(w) = depth'
        /\ \A i \in 1 .. depth' : w[i] = ring'[Wrap(head' + i - 1)].id
    BY <2>1, ReadOff, ZenonT(30)
  <2>3. Pending' = w
    BY PendingIs, Zenon
  <2> HIDE DEF w
  <2>4. QED
    BY <1>4, <2>2, <2>3, Zenon
<1>8. /\ Append(Pending, e.id) \in Seq(Nat) /\ Len(Append(Pending, e.id)) = depth + 1
      /\ \A i \in 1 .. depth : Append(Pending, e.id)[i] = Pending[i]
      /\ Append(Pending, e.id)[depth + 1] = e.id
  <2>1. PICK n \in Nat : n = e.id
    BY DEF Entry
  <2>2. QED
    BY <1>1, <1>6, <2>1, AppendProperties
<1>9. Pending'[depth + 1] = e.id
  <2>1. depth + 1 \in 1 .. depth + 1 /\ head + (depth + 1) - 1 = a
    BY <1>1, <1>2
  <2>2. ring'[t] = e
    BY <1>1, <1>4
  <2>3. QED
    BY <1>3, <1>7, <2>1, <2>2
<1>10. ASSUME NEW i \in 1 .. depth PROVE Pending'[i] = Pending[i]
  <2>1. i \in Nat /\ i >= 1 /\ i <= depth
    BY <1>1
  <2>2. PICK b \in Nat : b = head + i - 1
    BY <1>1, <2>1
  <2>3. PICK u \in Slots : u = Wrap(b)
    BY WrapIs
  <2>4. u = IF b < Capacity THEN b ELSE b - Capacity
    BY <1>1, <2>1, <2>2, <2>3, WrapIs
  <2>5. u # t
    BY <1>1, <1>2, <1>4, <1>5, <2>1, <2>2, <2>4
  <2>6. ring'[u] = ring[u]
    BY <1>1, <1>4, <2>5
  <2>7. Pending'[i] = ring'[u].id
    BY <1>1, <1>7, <2>1, <2>2, <2>3
  <2>8. Pending[i] = ring[u].id
    BY <1>6, <2>2, <2>3
  <2>9. QED
    BY <2>6, <2>7, <2>8
<1>11. \A i \in 1 .. Len(Pending') : Pending'[i] = Append(Pending, e.id)[i]
  <2>1. \A i \in 1 .. Len(Pending') : i \in 1 .. depth \/ i = depth + 1
    BY <1>1, <1>7
  <2>2. QED
    BY <1>8, <1>9, <1>10, <2>1
<1>12. QED
  BY <1>7, <1>8, <1>11, SeqEqual

(* Every step of the delivery is a step of the stream, or changes nothing  *)
(* of it.                                                                  *)
LEMMA StreamStep ==
    ASSUME IInv, [Next]_vars
    PROVE  Stream!Next \/ UNCHANGED Stream!vars
<1>1. ASSUME NEW b \in Charges, ReceiveStep(b) PROVE Stream!Next
  <2> DEFINE e == [id |-> received + 1, gen |-> rgen, bytes |-> b]
  <2>1. e \in Entry /\ e.id = received + 1
    BY DEF IInv, TypeOK, Entry
  <2>2. received' = received + 1 /\ (SubmitNow(e) \/ SubmitQueued(e) \/ SubmitOverflow(e))
    BY <1>1 DEF ReceiveStep
  <2> HIDE DEF e
  <2>3. CASE SubmitNow(e)
    <3>1. Pending = <<>> /\ Pending' = <<>>
      <4>1. depth = 0 /\ depth' = 0
        BY <2>3 DEF SubmitNow, queueVars, IInv, Indexing
      <4>2. QED
        BY <4>1 DEF Pending
    <3>2. last' = last \/ last' = received + 1
      BY <2>1, <2>3 DEF SubmitNow, Dispatch
    <3>3. QED
      BY <2>2, <3>1, <3>2 DEF Stream!Next, Stream!Refuse, Stream!Pass
  <2>4. CASE SubmitQueued(e)
    <3>1. Pending' = Append(Pending, received + 1)
      BY <2>1, <2>4, SubmitAppends
    <3>2. last' = last
      BY <2>4 DEF SubmitQueued
    <3>3. QED
      BY <2>2, <3>1, <3>2 DEF Stream!Next, Stream!Accept
  <2>5. CASE SubmitOverflow(e)
    <3>1. Pending' = <<>> /\ last' = last
      BY <2>5, ClearAbandons DEF SubmitOverflow
    <3>2. QED
      BY <2>2, <3>1 DEF Stream!Next, Stream!Refuse
  <2>6. QED
    BY <2>2, <2>3, <2>4, <2>5
<1>2. CASE DrainStep
  <2>1. Pending # <<>> /\ Head(Pending) = ring[head].id /\ Pending' = Tail(Pending)
    BY <1>2, DrainTakesOldest
  <2>2. received' = received /\ (last' = last \/ last' = ring[head].id)
    BY <1>2 DEF DrainStep, Dispatch
  <2>3. QED
    BY <2>1, <2>2 DEF Stream!Next, Stream!Deliver, Stream!Skip
<1>3. CASE Disconnect
  <2>1. Pending' = <<>> /\ received' = received /\ last' = last
    BY <1>3, ClearAbandons DEF Disconnect
  <2>2. QED
    BY <2>1 DEF Stream!Next, Stream!Abandon
<1>4. CASE UNCHANGED <<ring, head, depth, received, last>>
  BY <1>4 DEF Stream!vars, Pending
<1>5. \/ \E b \in Charges : ReceiveStep(b)
      \/ DrainStep \/ Disconnect \/ UNCHANGED <<ring, head, depth, received, last>>
  BY Zenon DEF Next, Internal, Immediate, DrainEnd, ReceiveEnd, EmitTyped, DispatchReturns,
     ErrorReturns, Receive, Connect, Opened, RemoteClose, queueVars, metricVars, vars
<1>6. QED
  BY <1>1, <1>2, <1>3, <1>4, <1>5

(* The queue of delivery.ts with its two loops in client.ts implements     *)
(* EventStream for every capacity: events reach the listeners in the order *)
(* in which they were received, none twice, and none after it was dropped. *)
THEOREM InOrderHolds == Spec => InOrder
<1>1. Init => Stream!Init
  BY DEF Init, Stream!Init, Pending
<1>2. IInv /\ [Next]_vars => [Stream!Next]_(Stream!vars)
  BY StreamStep
<1>3. QED
  BY <1>1, <1>2, Invariance, PTL DEF Spec, InOrder, Stream!Spec

--------------------------------------------------------------------------------
(* The handoff of the Android client *)

LEMMA PumpStep ==
    ASSUME PumpInv, HandoffNext
    PROVE  PumpInv'
<1> USE DEF PumpInv, Pumps
<1>1. CASE OfferQueued \/ OfferOverflows
  BY <1>1 DEF OfferQueued, OfferOverflows, SchedulePump, clientVars, mainVars
<1>2. CASE DisconnectCalled
  BY <1>2 DEF DisconnectCalled, handoffQueue, mainVars
<1>3. CASE DisconnectCloses
  BY <1>3 DEF DisconnectCloses, CloseQueue, mainVars
<1>4. CASE DisconnectReturns
  BY <1>4 DEF DisconnectReturns, handoffQueue, mainVars
<1>5. CASE PumpStarts
  BY <1>5 DEF PumpStarts
<1>6. CASE PumpTurn
  BY <1>6 DEF PumpTurn
<1>7. CASE ListenerReturns \/ ListenerThrows
  BY <1>7 DEF ListenerReturns, ListenerThrows, handoffQueue
<1>8. CASE FailureCloses
  BY <1>8 DEF FailureCloses, CloseQueue
<1>9. CASE PumpEnds
  <2>1. /\ main = "pump" /\ main' = "idle" /\ UNCHANGED <<notices, stopped, disconnect>>
        /\ posted' = IF notices # <<>> THEN posted + 1 ELSE posted
    BY <1>9 DEF PumpEnds
  <2>2. scheduled' <=> notices # <<>>
    BY <1>9, Zenon DEF PumpEnds
  <2>3. QED
    BY <2>1, <2>2
<1>10. CASE UNCHANGED <<notices, scheduled, stopped, posted, main, disconnect>>
  BY <1>10
<1>11. QED
  BY <1>1, <1>2, <1>3, <1>4, <1>5, <1>6, <1>7, <1>8, <1>9, <1>10, Zenon
  DEF HandoffNext, Opener, Job, Offer, Main, NativeOpens, NativeOpenFails, HandleIsSet, HandleChecked,
      OpenerJoined, JobTakesHandle, JobEnds, NativeCallback, NativeEnds, OfferIgnored,
      OverflowStops, handoffQueue, mainVars

LEMMA ShutdownStep ==
    ASSUME ShutdownInv, HandoffNext
    PROVE  ShutdownInv'
<1> USE DEF ShutdownInv, Joined
<1>1. CASE NativeOpens \/ NativeOpenFails \/ HandleIsSet \/ OpenerJoined
  BY <1>1 DEF NativeOpens, NativeOpenFails, HandleIsSet, OpenerJoined, clientVars
<1>2. CASE HandleChecked
  BY <1>2 DEF HandleChecked
<1>3. CASE JobTakesHandle \/ JobEnds
  BY <1>3 DEF JobTakesHandle, JobEnds
<1>4. CASE DisconnectCalled
  BY <1>4 DEF DisconnectCalled, RequestShutdown
<1>5. CASE DisconnectCloses \/ DisconnectReturns
  BY <1>5 DEF DisconnectCloses, DisconnectReturns, clientVars
<1>6. CASE NativeEnds
  BY <1>6 DEF NativeEnds, clientVars
<1>7. CASE OverflowStops
  BY <1>7 DEF OverflowStops, RequestShutdown
<1>8. CASE ListenerThrows
  BY <1>8 DEF ListenerThrows, RequestShutdown, clientVars
<1>9. CASE UNCHANGED <<clientVars, disconnect, opener, native>>
  BY <1>9 DEF clientVars
<1>10. QED
  BY <1>1, <1>2, <1>3, <1>4, <1>5, <1>6, <1>7, <1>8, <1>9, Zenon
  DEF HandoffNext, Opener, Job, Offer, Main, NativeCallback, OfferIgnored, OfferQueued,
      OfferOverflows, PumpStarts, PumpTurn, ListenerReturns, FailureCloses, PumpEnds, mainVars

(* The pump and the shutdown keep their invariants at every step. *)
LEMMA HandoffInvariance == HandoffSpec => []HandoffInv
<1>1. HandoffInit => HandoffInv
  BY DEF HandoffInit, HandoffInv, PumpInv, Pumps, ShutdownInv
<1>2. HandoffInv /\ [HandoffNext]_handoffVars => HandoffInv'
  <2>1. CASE UNCHANGED handoffVars
    BY <2>1 DEF handoffVars, handoffQueue, clientVars, mainVars, HandoffInv, PumpInv, Pumps,
       ShutdownInv, Joined
  <2>2. QED
    BY <2>1, PumpStep, ShutdownStep DEF HandoffInv
<1>3. QED
  BY <1>1, <1>2, PTL DEF HandoffSpec

(* LiveClient.kt and MainEventHandoff.kt: for every capacity and batch,    *)
(* offers, drains, a listener that throws and close() never leave two      *)
(* pumps behind, nor notices without one; and when disconnect() returns    *)
(* the native side has ended and nothing is left for the main thread.      *)
THEOREM HandoffContractHolds == HandoffSpec => []HandoffContract
<1>1. HandoffInv => HandoffContract
  BY DEF HandoffInv, PumpInv, Pumps, ShutdownInv, HandoffContract, OnePump, DisconnectComplete
<1>2. QED
  BY <1>1, HandoffInvariance, PTL

(* What NativeReleased comes to without fairness: while the native side of *)
(* a client that was shut down has not ended, the opener has not finished  *)
(* or the cleanup job is there to stop and join it. An overflow before the *)
(* opener knew the handle leaves nobody to think the other will do it.     *)
ReleaseUnderWay ==
    shut /\ native # "closed" => opener # "done" \/ shutdownJob \in {"launched", "joining"}

(* The native side of MainActivity is never left without somebody to end   *)
(* it, for every capacity and batch of the handoff.                        *)
THEOREM ReleaseUnderWayHolds == HandoffSpec => []ReleaseUnderWay
<1>1. HandoffInv => ReleaseUnderWay
  BY DEF HandoffInv, ShutdownInv, ReleaseUnderWay
<1>2. QED
  BY <1>1, HandoffInvariance, PTL

--------------------------------------------------------------------------------
(* Gift streaks: each gift is counted once.                                *)

(* What accept() leaves in the tracker's memory for a message it took: the *)
(* streak's entry in place of the old one, or at the end.                  *)
Recorded(m, e) ==
    /\ e \in Streaks /\ e.id = <<m.sender, m.group>> /\ e.completed = m.end
    /\ \A i \in 1 .. Len(streaks') :
         \/ streaks'[i] = e
         \/ i \in 1 .. Len(streaks) /\ streaks'[i] = streaks[i] /\ streaks[i].id # e.id
    /\ \E i \in 1 .. Len(streaks') : streaks'[i] = e
    /\ \A i \in 1 .. Len(streaks) :
         streaks[i].id # e.id => i \in 1 .. Len(streaks') /\ streaks'[i] = streaks[i]

Previous(id) == IF Known(id) = {} THEN 0 ELSE streaks[CHOOSE i \in Known(id) : TRUE].count

Emitted(m, e) ==
    told' = IF m.end THEN told \cup {[id |-> e.id, count |-> e.count, at |-> messages]} ELSE told

(* A streak that was completed, or a gift that cannot streak: nothing.     *)
LEMMA AcceptIgnores ==
    ASSUME NEW m, Accept(m),
           ~m.streakable \/ \E i \in Known(<<m.sender, m.group>>) : streaks[i].completed
    PROVE  UNCHANGED <<streaks, told, forgot>>
BY DEF Accept

(* accept() keeps the type of its memory, and never takes forgot back.     *)
LEMMA AcceptFacts ==
    ASSUME streaks \in Seq(Streaks), NEW m \in Gifts, Accept(m), m.streakable,
           ~ \E i \in Known(<<m.sender, m.group>>) : streaks[i].completed,
           NEW p, p = Previous(<<m.sender, m.group>>)
    PROVE  /\ streaks' \in Seq(Streaks)
           /\ ~forgot' => /\ ~forgot
                          /\ \E e : /\ Recorded(m, e) /\ e.count = Higher(m.count, p)
                                    /\ Emitted(m, e)
<1> DEFINE id == <<m.sender, m.group>>
           e == [id |-> id, count |-> Higher(m.count, p), completed |-> m.end]
           next == IF Known(id) = {} THEN Append(streaks, e)
                   ELSE [i \in 1 .. Len(streaks) |-> IF i \in Known(id) THEN e ELSE streaks[i]]
<1>1. e \in Streaks
  <2>1. p \in Nat
    <3>1. CASE Known(id) = {}
      BY <3>1 DEF Previous
    <3>2. CASE Known(id) # {}
      <4>1. (CHOOSE i \in Known(id) : TRUE) \in Known(id)
        BY <3>2, SMTT(30)
      <4>2. PICK i \in 1 .. Len(streaks) : p = streaks[i].count
        BY <3>2, <4>1 DEF Previous, Known
      <4>3. streaks[i] \in Streaks
        BY <4>2, ElementOfSeq
      <4>4. streaks[i].count \in Nat
        BY <4>3 DEF Streaks
      <4> QED
        BY <4>2, <4>4, Zenon
    <3> QED
      BY <3>1, <3>2
  <2> QED
    BY <2>1 DEF Streaks, Gifts, Ids, Higher
<1>2. (IF Known(id) = {} THEN 0 ELSE streaks[CHOOSE i \in Known(id) : TRUE].count) = p
  BY DEF Previous
<1>3. /\ streaks' = IF Len(next) > StreakMemory THEN Tail(next) ELSE next
      /\ forgot' = (forgot \/ Len(next) > StreakMemory)
      /\ told' = IF m.end THEN told \cup {[id |-> id, count |-> Higher(m.count, p),
                                           at |-> messages]} ELSE told
  <2> HIDE DEF id
  <2>1. ~(~m.streakable \/ \E i \in Known(id) : streaks[i].completed)
    BY DEF id
  <2> QED
    BY <1>2, <2>1 DEF Accept, id
<1>4. next \in Seq(Streaks) /\ next # <<>> /\ Len(next) \in Nat
  <2>1. CASE Known(id) = {}
    <3> HIDE DEF e
    <3>1. next = Append(streaks, e)
      BY <2>1
    <3>2. next \in Seq(Streaks) /\ Len(next) = Len(streaks) + 1
      BY <1>1, <3>1, AppendProperties
    <3> QED
      BY <3>1, <3>2, EmptySeq, LenProperties
  <2>2. CASE Known(id) # {}
    <3> HIDE DEF e
    <3>1. Len(streaks) \in Nat \ {0} /\ \A i \in 1 .. Len(streaks) : streaks[i] \in Streaks
      BY <2>2 DEF Known
    <3>2. next = [i \in 1 .. Len(streaks) |-> IF i \in Known(id) THEN e ELSE streaks[i]]
      BY <2>2
    <3>3. next \in [1 .. Len(streaks) -> Streaks]
      BY <3>1, <3>2, <1>1
    <3> HIDE DEF next
    <3> QED
      BY <3>1, <3>3
  <2> QED
    BY <2>1, <2>2
<1>5. streaks' \in Seq(Streaks)
  <2> HIDE DEF next
  <2> QED
    BY <1>3, <1>4
<1>6. ASSUME ~forgot' PROVE ~forgot /\ streaks' = next
  BY <1>3, <1>6
<1>7. ASSUME ~forgot' PROVE Recorded(m, e)
  <2> HIDE DEF e
  <2>0. e.id = id /\ e.completed = m.end
    BY DEF e
  <2>1. CASE Known(id) = {}
    <3>1. streaks' = Append(streaks, e) /\ Len(streaks) \in Nat
      BY <1>6, <1>7, <2>1
    <3>2. Len(streaks') = Len(streaks) + 1
      BY <3>1, <1>1
    <3>3. streaks'[Len(streaks) + 1] = e
      BY <3>1, <1>1
    <3>4. \A i \in 1 .. Len(streaks) : streaks'[i] = streaks[i] /\ streaks[i].id # id
      <4>1. \A i \in 1 .. Len(streaks) : streaks'[i] = streaks[i]
        BY <3>1, <1>1, AppendProperties
      <4> QED
        BY <2>1, <4>1 DEF Known
    <3> HIDE DEF id
    <3> QED
      BY <1>1, <2>0, <3>1, <3>2, <3>3, <3>4 DEF Recorded, id
  <2>2. CASE Known(id) # {}
    <3>1. streaks' = [i \in 1 .. Len(streaks) |-> IF i \in Known(id) THEN e ELSE streaks[i]]
      BY <1>6, <1>7, <2>2
    <3>2. Len(streaks') = Len(streaks) /\ Len(streaks) \in Nat
      BY <3>1
    <3>3. \A i \in 1 .. Len(streaks) :
             streaks'[i] = IF streaks[i].id = id THEN e ELSE streaks[i]
      BY <3>1 DEF Known
    <3>4. PICK i \in 1 .. Len(streaks) : streaks[i].id = id
      BY <2>2 DEF Known
    <3> HIDE DEF id
    <3> QED
      BY <1>1, <2>0, <3>2, <3>3, <3>4 DEF Recorded, id
  <2> QED
    BY <2>1, <2>2
<1>8. Emitted(m, e) /\ e.count = Higher(m.count, p)
  BY <1>3 DEF Emitted
<1> HIDE DEF e
<1> QED
  BY <1>5, <1>6, <1>7, <1>8

(* Whatever it is given, accept() keeps the type of its memory. *)
LEMMA AcceptType ==
    ASSUME streaks \in Seq(Streaks), NEW m \in Gifts, Accept(m)
    PROVE  streaks' \in Seq(Streaks) /\ (~forgot' => ~forgot)
BY AcceptIgnores, AcceptFacts

(* The streak under way: its entry, if any, has the count reached so far.  *)
LEMMA AcceptCurrent ==
    ASSUME StreakType, MemoryInv, NEW m \in Gifts, Accept(m), m.streakable,
           m.group = group[m.sender], ~forgot'
    PROVE  \E e : /\ Recorded(m, e) /\ Emitted(m, e)
                  /\ e.count = Higher(m.count, high[m.sender])
<1> DEFINE id == <<m.sender, m.group>>
<1>1. m.sender \in Senders /\ id = <<m.sender, group[m.sender]>>
  BY DEF Gifts
<1>2. high[m.sender] \in Nat
  BY <1>1 DEF StreakType
<1>3. \A i \in Known(id) : ~streaks[i].completed /\ streaks[i].count = high[m.sender]
  BY <1>1 DEF MemoryInv
<1>4. high[m.sender] > 0 => Known(id) # {}
  BY <1>1 DEF MemoryInv
<1>5. Previous(id) = high[m.sender]
  <2> HIDE DEF id
  <2>1. CASE Known(id) = {}
    BY <1>2, <1>4, <2>1 DEF Previous
  <2>2. CASE Known(id) # {}
    <3>1. (CHOOSE i \in Known(id) : TRUE) \in Known(id)
      BY <2>2
    <3> QED
      BY <1>3, <2>2, <3>1 DEF Previous
  <2> QED
    BY <2>1, <2>2
<1>6. streaks \in Seq(Streaks)
  BY DEF StreakType
<1>7. ~ \E i \in Known(id) : streaks[i].completed
  BY <1>3
<1> HIDE DEF id
<1> QED
  BY <1>5, <1>6, <1>7, AcceptFacts DEF id

(* A streak that is over is remembered, so its late messages are ignored.  *)
LEMMA AcceptFinished ==
    ASSUME MemoryInv, NEW m \in Gifts, Accept(m), m.group \in 1 .. group[m.sender] - 1
    PROVE  UNCHANGED <<streaks, told, forgot>>
<1>1. \E i \in Known(<<m.sender, m.group>>) : streaks[i].completed
  BY DEF MemoryInv, Gifts
<1> QED
  BY <1>1, AcceptIgnores

(* Known, of a memory that is named. *)
At(q, id) == {i \in 1 .. Len(q) : q[i].id = id}
Remembers(q, gr, hi) ==
    /\ \A s \in Senders : \A g \in 1 .. gr[s] - 1 : \E i \in At(q, <<s, g>>) : q[i].completed
    /\ \A s \in Senders : hi[s] > 0 => At(q, <<s, gr[s]>>) # {}
    /\ \A i \in 1 .. Len(q) : q[i].id[2] <= gr[q[i].id[1]]
    /\ \A s \in Senders : \A i \in At(q, <<s, gr[s]>>) : ~q[i].completed /\ q[i].count = hi[s]

(* MemoryInv, in those words. *)
LEMMA MemoryIs ==
    /\ MemoryInv = Remembers(streaks, group, high)
    /\ MemoryInv' = Remembers(streaks', group', high')
BY DEF MemoryInv, Remembers, Known, At

(* Other streaks are remembered as they were.                              *)
LEMMA RecordedElsewhere ==
    ASSUME NEW m, NEW e, Recorded(m, e), NEW id, id # e.id, streaks \in Seq(Streaks),
           streaks' \in Seq(Streaks)
    PROVE  /\ At(streaks', id) = At(streaks, id)
           /\ \A i \in At(streaks, id) : streaks'[i] = streaks[i]
<1>1. \A i \in At(streaks, id) : i \in 1 .. Len(streaks') /\ streaks'[i] = streaks[i]
  BY DEF At, Recorded
<1>2. \A i \in At(streaks', id) : i \in At(streaks, id)
  BY DEF At, Recorded
<1>3. \A i \in At(streaks, id) : i \in At(streaks', id)
  BY <1>1 DEF At
<1> QED
  BY <1>1, <1>2, <1>3

(* The streak itself is remembered by its new entry alone.                 *)
LEMMA RecordedHere ==
    ASSUME NEW m, NEW e, Recorded(m, e)
    PROVE  /\ At(streaks', e.id) # {}
           /\ \A i \in At(streaks', e.id) : streaks'[i] = e
BY DEF At, Recorded

(* A message of the streak under way that does not end it.                 *)
LEMMA MemoryMore ==
    ASSUME StreakType, MemoryInv, NEW m \in Gifts, NEW e, Recorded(m, e), ~m.end,
           m.group = group[m.sender], UNCHANGED group, streaks' \in Seq(Streaks),
           high' = [high EXCEPT ![m.sender] = e.count]
    PROVE  MemoryInv'
<1>0. Remembers(streaks, group, high)
  BY MemoryIs
<1>1. m.sender \in Senders /\ e.id = <<m.sender, group[m.sender]>> /\ ~e.completed /\ e.id \in Ids
  BY DEF Gifts, Recorded, Streaks
<1>2. group \in [Senders -> Nat] /\ high \in [Senders -> Nat] /\ streaks \in Seq(Streaks)
  BY DEF StreakType
<1>3. ASSUME NEW s \in Senders, NEW g \in 1 .. group'[s] - 1
      PROVE  \E i \in At(streaks', <<s, g>>) : streaks'[i].completed
  <2>1. PICK i \in At(streaks, <<s, g>>) : streaks[i].completed
    BY <1>0, <1>3 DEF Remembers
  <2>2. <<s, g>> # e.id
    BY <1>1, <1>2, <1>3
  <2> QED
    BY <1>2, <2>1, <2>2, RecordedElsewhere
<1>4. ASSUME NEW s \in Senders, high'[s] > 0
      PROVE  At(streaks', <<s, group[s]>>) # {}
  <2>1. CASE s = m.sender
    BY <1>1, <2>1, RecordedHere
  <2>2. CASE s # m.sender
    <3>1. <<s, group[s]>> # e.id /\ high'[s] = high[s]
      BY <1>1, <1>2, <2>2
    <3>2. At(streaks, <<s, group[s]>>) # {}
      BY <1>0, <1>4, <3>1 DEF Remembers
    <3> QED
      <4> DEFINE k == <<s, group[s]>>
      <4>1. k # e.id /\ At(streaks, k) # {}
        BY <3>1, <3>2
      <4> HIDE DEF k
      <4>2. At(streaks', k) # {}
        BY <1>2, <4>1, RecordedElsewhere
      <4> QED
        BY <4>2 DEF k
  <2> QED
    BY <2>1, <2>2
<1>5. ASSUME NEW i \in 1 .. Len(streaks')
      PROVE  streaks'[i].id[2] <= group'[streaks'[i].id[1]]
  <2>1. CASE streaks'[i] = e
    BY <1>1, <1>2, <2>1
  <2>2. CASE i \in 1 .. Len(streaks) /\ streaks'[i] = streaks[i]
    BY <1>0, <2>2 DEF Remembers
  <2> QED
    BY <1>5, <2>1, <2>2 DEF Recorded
<1>6. ASSUME NEW s \in Senders, NEW i \in At(streaks', <<s, group[s]>>)
      PROVE  ~streaks'[i].completed /\ streaks'[i].count = high'[s]
  <2>1. CASE s = m.sender
    <3>1. high'[s] = e.count
      BY <1>2, <2>1
    <3>2. <<s, group[s]>> = e.id
      BY <1>1, <2>1
    <3>3. streaks'[i] = e
      BY <1>6, <3>2, RecordedHere
    <3> QED
      BY <1>1, <3>1, <3>3
  <2>2. CASE s # m.sender
    <3>1. <<s, group[s]>> # e.id /\ high'[s] = high[s]
      BY <1>1, <1>2, <2>2
    <3>2. i \in At(streaks, <<s, group[s]>>) /\ streaks'[i] = streaks[i]
      <4> DEFINE k == <<s, group[s]>>
      <4>1. k # e.id /\ i \in At(streaks', k)
        BY <1>6, <3>1, SMTT(30)
      <4> HIDE DEF k
      <4>2. i \in At(streaks, k) /\ streaks'[i] = streaks[i]
        BY <1>2, <4>1, RecordedElsewhere, SMTT(30)
      <4> QED
        BY <4>2 DEF k
    <3> QED
      BY <1>0, <3>1, <3>2 DEF Remembers
  <2> QED
    BY <2>1, <2>2
<1> QED
  BY <1>3, <1>4, <1>5, <1>6, MemoryIs DEF Remembers

(* The message that ends it: from now on the streak is a completed one.    *)
LEMMA MemoryLast ==
    ASSUME StreakType, MemoryInv, NEW m \in Gifts, NEW e, Recorded(m, e), m.end,
           m.group = group[m.sender], streaks' \in Seq(Streaks),
           group' = [group EXCEPT ![m.sender] = @ + 1],
           high' = [high EXCEPT ![m.sender] = 0]
    PROVE  MemoryInv'
<1>0. Remembers(streaks, group, high)
  BY MemoryIs
<1>1. m.sender \in Senders /\ e.id = <<m.sender, group[m.sender]>> /\ e.completed /\ e.id \in Ids
  BY DEF Gifts, Recorded, Streaks
<1>2. group \in [Senders -> Nat] /\ high \in [Senders -> Nat] /\ streaks \in Seq(Streaks)
  BY DEF StreakType
<1>3. ASSUME NEW s \in Senders, NEW g \in 1 .. group'[s] - 1
      PROVE  \E i \in At(streaks', <<s, g>>) : streaks'[i].completed
  <2>1. CASE <<s, g>> = e.id
    <3>1. PICK i \in At(streaks', e.id) : streaks'[i] = e
      BY RecordedHere
    <3> QED
      BY <1>1, <2>1, <3>1
  <2>2. CASE <<s, g>> # e.id
    <3>1. g \in 1 .. group[s] - 1
      BY <1>1, <1>2, <1>3, <2>2
    <3>2. PICK i \in At(streaks, <<s, g>>) : streaks[i].completed
      BY <1>0, <3>1 DEF Remembers
    <3> QED
      BY <1>2, <2>2, <3>2, RecordedElsewhere
  <2> QED
    BY <2>1, <2>2
<1>4. ASSUME NEW s \in Senders, high'[s] > 0
      PROVE  At(streaks', <<s, group'[s]>>) # {}
  <2>1. s # m.sender /\ high'[s] = high[s] /\ group'[s] = group[s]
    BY <1>1, <1>2, <1>4
  <2>2. <<s, group[s]>> # e.id
    BY <1>1, <2>1
  <2>3. At(streaks, <<s, group[s]>>) # {}
    BY <1>0, <1>4, <2>1 DEF Remembers
  <2> QED
    BY <1>2, <2>1, <2>2, <2>3, RecordedElsewhere
<1>5. ASSUME NEW i \in 1 .. Len(streaks')
      PROVE  streaks'[i].id[2] <= group'[streaks'[i].id[1]]
  <2>1. CASE streaks'[i] = e
    BY <1>1, <1>2, <2>1
  <2>2. CASE i \in 1 .. Len(streaks) /\ streaks'[i] = streaks[i]
    <3>1. streaks[i] \in Streaks
      BY <1>2, <2>2, ElementOfSeq
    <3>2. streaks[i].id[1] \in Senders /\ streaks[i].id[2] \in Nat
      BY <3>1 DEF Streaks, Ids
    <3>3. streaks[i].id[2] <= group[streaks[i].id[1]]
      BY <1>0, <2>2 DEF Remembers
    <3> QED
      BY <1>1, <1>2, <2>2, <3>2, <3>3
  <2> QED
    BY <1>5, <2>1, <2>2 DEF Recorded
<1>6. ASSUME NEW s \in Senders, NEW i \in At(streaks', <<s, group'[s]>>)
      PROVE  ~streaks'[i].completed /\ streaks'[i].count = high'[s]
  <2>0. <<s, group'[s]>> # e.id
    BY <1>1, <1>2
  <2>1. i \in At(streaks, <<s, group'[s]>>) /\ streaks'[i] = streaks[i]
    BY <1>2, <1>6, <2>0, RecordedElsewhere
  <2>2. s # m.sender
    <3> SUFFICES ASSUME s = m.sender PROVE FALSE
      OBVIOUS
    <3>1. group'[s] = group[s] + 1 /\ group[s] \in Nat
      BY <1>1, <1>2
    <3>2. i \in 1 .. Len(streaks) /\ streaks[i].id = <<s, group[s] + 1>>
      BY <2>1, <3>1 DEF At
    <3>3. streaks[i].id[2] <= group[streaks[i].id[1]]
      BY <1>0, <3>2 DEF Remembers
    <3> QED
      BY <3>1, <3>2, <3>3
  <2>3. group'[s] = group[s] /\ high'[s] = high[s]
    BY <1>2, <2>2
  <2> QED
    BY <1>0, <2>1, <2>3 DEF Remembers
<1> QED
  BY <1>3, <1>4, <1>5, <1>6, MemoryIs DEF Remembers

(* What observe() does, of a message that streaks. *)
LEMMA ObserveFacts ==
    ASSUME StreakType, NEW m \in Gifts, Observe(m),
           NEW n, n = AtLeastOne(m.count), NEW running, running = Higher(open[m.sender], n)
    PROVE  /\ open' \in [Senders -> Nat] /\ counted' \in [Senders -> Nat]
           /\ \A s \in Senders \ {m.sender} : open'[s] = open[s] /\ counted'[s] = counted[s]
           /\ m.streakable /\ ~m.end =>
                open'[m.sender] = running /\ counted'[m.sender] = counted[m.sender]
           /\ m.streakable /\ m.end =>
                open'[m.sender] = 0 /\ counted'[m.sender] = counted[m.sender] + running
           /\ ~m.streakable =>
                open'[m.sender] = open[m.sender] /\ counted'[m.sender] = counted[m.sender] + n
<1>1. m.sender \in Senders /\ n \in Nat /\ running \in Nat
  BY DEF StreakType, Gifts, AtLeastOne, Higher
<1>2. open \in [Senders -> Nat] /\ counted \in [Senders -> Nat]
  BY DEF StreakType
<1>3. IF ~m.streakable
      THEN counted' = [counted EXCEPT ![m.sender] = @ + n] /\ UNCHANGED open
      ELSE /\ open' = [open EXCEPT ![m.sender] = IF m.end THEN 0 ELSE running]
           /\ counted' = IF m.end THEN [counted EXCEPT ![m.sender] = @ + running] ELSE counted
  BY DEF Observe
<1>4. CASE ~m.streakable
  BY <1>1, <1>2, <1>3, <1>4
<1>5. CASE m.streakable /\ m.end
  BY <1>1, <1>2, <1>3, <1>5
<1>6. CASE m.streakable /\ ~m.end
  BY <1>1, <1>2, <1>3, <1>6
<1> QED
  BY <1>4, <1>5, <1>6

(* Nothing happens to the memory. *)
LEMMA MemorySame ==
    ASSUME MemoryInv, UNCHANGED <<streaks, group, high>>
    PROVE  MemoryInv'
<1>1. Remembers(streaks', group', high') = Remembers(streaks, group, high)
  OBVIOUS
<1> QED
  BY <1>1, MemoryIs

(* A message that leaves the streaks as they are tells nothing. *)
LEMMA ToldSame ==
    ASSUME ToldInv, UNCHANGED <<told, finals, group>>
    PROVE  ~forgot => ToldInv'
BY DEF ToldInv, FinalOnce

(* One more gift of a streak: the running counts of both trackers follow.  *)
LEMMA SendMoreKeeps ==
    ASSUME StreakInv, NEW s \in Senders, SendMore(s)
    PROVE  StreakInv'
<1>1. PICK c \in high[s] + 1 .. MaxCount :
        /\ Deliver(Message(s, c, FALSE))
        /\ high' = [high EXCEPT ![s] = c]
        /\ wire' = wire \cup {Message(s, c, FALSE)}
        /\ UNCHANGED <<group, owed, finals, late>>
  BY DEF SendMore
<1> DEFINE m == Message(s, c, FALSE)
<1>2. StreakType /\ group \in [Senders -> Nat] /\ high \in [Senders -> Nat]
  BY DEF StreakInv, StreakType
<1>3. c \in Nat /\ c > high[s] /\ c # 0
  BY <1>1, <1>2
<1>4. /\ m \in Gifts /\ m.sender = s /\ m.group = group[s] /\ m.count = c /\ m.end = FALSE
      /\ m.streakable = TRUE
  BY <1>2, <1>3 DEF StreakType, Message, Gifts
<1>5. Observe(m) /\ Accept(m) /\ UNCHANGED roomOpen /\ roomOpen
  BY <1>1 DEF Deliver
<1> HIDE DEF m
<1>6. streaks' \in Seq(Streaks) /\ (~forgot' => ~forgot)
  BY <1>2, <1>4, <1>5, AcceptType DEF StreakType
<1>7. StreakType'
  <2>1. open' \in [Senders -> Nat] /\ counted' \in [Senders -> Nat]
    BY <1>2, <1>4, <1>5, ObserveFacts
  <2>2. high' \in [Senders -> Nat] /\ wire' \subseteq Gifts
    BY <1>1, <1>2, <1>3, <1>4 DEF StreakType, m
  <2> QED
    BY <1>1, <1>2, <1>6, <2>1, <2>2 DEF StreakType
<1>8. WireInv'
  <2> SUFFICES ASSUME NEW w \in wire'
               PROVE  /\ w.streakable /\ w.group \in 1 .. group'[w.sender]
                      /\ w.group = group'[w.sender] => ~w.end /\ w.count \in 1 .. high'[w.sender]
    BY DEF WireInv
  <2>0. group[s] >= 1
    BY DEF StreakInv, GroupsInv
  <2>1. CASE w = m
    BY <1>1, <1>2, <1>3, <1>4, <2>0, <2>1
  <2>2. CASE w \in wire
    <3>1. /\ w.streakable /\ w.group \in 1 .. group[w.sender]
          /\ w.group = group[w.sender] => ~w.end /\ w.count \in 1 .. high[w.sender]
      BY <2>2 DEF StreakInv, WireInv
    <3>2. w.sender \in Senders
      BY <1>2, <2>2 DEF StreakType, Gifts
    <3>3. high'[w.sender] >= high[w.sender] /\ high'[w.sender] \in Nat /\ high[w.sender] \in Nat
      BY <1>1, <1>2, <1>3, <3>2
    <3> QED
      BY <1>1, <3>1, <3>3
  <2> QED
    BY <1>1, <2>1, <2>2 DEF m
<1>9. RunningInv'
  <2> SUFFICES ASSUME ~late, NEW x \in Senders
               PROVE  counted'[x] = owed[x] + 0 /\ open'[x] = high'[x]
    BY <1>1, <1>5 DEF RunningInv
  <2>1. counted[x] = owed[x] + 0 /\ open[x] = high[x]
    BY <1>5 DEF StreakInv, RunningInv
  <2>2. CASE x = s
    BY <1>1, <1>2, <1>3, <1>4, <1>5, <2>1, <2>2, ObserveFacts DEF AtLeastOne, Higher
  <2>3. CASE x # s
    BY <1>1, <1>2, <1>4, <1>5, <2>1, <2>3, ObserveFacts
  <2> QED
    BY <2>2, <2>3
<1>10. ASSUME ~forgot' PROVE MemoryInv' /\ ToldInv'
  <2>1. MemoryInv /\ ToldInv /\ ~forgot
    BY <1>6, <1>10 DEF StreakInv
  <2>2. PICK e : /\ Recorded(m, e) /\ Emitted(m, e)
                 /\ e.count = Higher(m.count, high[m.sender])
    BY <1>2, <1>4, <1>5, <1>10, <2>1, AcceptCurrent
  <2>3. e.count = c /\ told' = told
    BY <1>2, <1>3, <1>4, <2>2 DEF Higher, Emitted
  <2>4. MemoryInv'
    BY <1>1, <1>2, <1>4, <1>6, <2>1, <2>2, <2>3, MemoryMore
  <2> QED
    BY <1>1, <2>1, <2>3, <2>4, ToldSame
<1>11. GroupsInv'
  BY <1>1 DEF StreakInv, GroupsInv
<1> QED
  BY <1>7, <1>8, <1>9, <1>10, <1>11 DEF StreakInv

(* The message that ends a streak: told once, with the count reached.      *)
LEMMA ToldLast ==
    ASSUME StreakType, ToldInv, ~forgot, NEW s \in Senders, NEW n \in Nat, NEW k \in Nat,
           n = k \/ (n = 0 /\ k = 1),
           NEW t, t = [id |-> <<s, group[s]>>, count |-> n, at |-> messages],
           NEW f, f = [id |-> <<s, group[s]>>, count |-> k],
           told' = told \cup {t}, finals' = finals \cup {f},
           group' = [group EXCEPT ![s] = @ + 1]
    PROVE  ToldInv'
<1>1. group \in [Senders -> Nat] /\ <<s, group[s]>> \in Ids
  BY DEF StreakType, Ids
<1>2. IsFiniteSet(told) /\ IsFiniteSet(finals) /\ Cardinality(told) = Cardinality(finals)
  BY DEF ToldInv, FinalOnce
<1>3. \A x \in finals \cup told : x.id \in Ids /\ x.id[2] < group[x.id[1]]
  BY DEF ToldInv
<1>4. t.id = <<s, group[s]>> /\ f.id = <<s, group[s]>> /\ t.count = n /\ f.count = k
  OBVIOUS
<1>5. t \notin told /\ f \notin finals
  BY <1>1, <1>3, <1>4
<1>6. /\ IsFiniteSet(told') /\ Cardinality(told') = Cardinality(told) + 1
      /\ IsFiniteSet(finals') /\ Cardinality(finals') = Cardinality(finals) + 1
  BY <1>2, <1>5, FS_AddElement
<1>7. Cardinality(told') = Cardinality(finals')
  BY <1>2, <1>6
<1>8. ASSUME NEW g \in finals'
      PROVE  \E u \in told' : u.id = g.id /\ (u.count = g.count \/ (u.count = 0 /\ g.count = 1))
  <2>1. CASE g = f
    BY <1>4, <2>1
  <2>2. CASE g \in finals
    BY <2>2 DEF ToldInv, FinalOnce
  <2> QED
    BY <2>1, <2>2
<1>9. ASSUME NEW x \in finals' \cup told'
      PROVE  x.id \in Ids /\ x.id[2] < group'[x.id[1]]
  <2>1. CASE x.id = <<s, group[s]>>
    BY <1>1, <2>1
  <2>2. CASE x \in finals \cup told
    <3>1. x.id \in Ids /\ x.id[2] < group[x.id[1]]
      BY <1>3, <2>2
    <3>2. x.id[1] \in Senders /\ x.id[2] \in Nat
      BY <3>1 DEF Ids
    <3> QED
      BY <1>1, <3>1, <3>2
  <2> QED
    BY <1>4, <1>9, <2>1, <2>2
<1> QED
  BY <1>6, <1>7, <1>8, <1>9 DEF ToldInv, FinalOnce

(* The end of a streak. *)
LEMMA SendLastKeeps ==
    ASSUME StreakInv, NEW s \in Senders, SendLast(s)
    PROVE  StreakInv'
<1>1. PICK c \in 0 .. MaxCount :
        /\ Deliver(Message(s, c, TRUE))
        /\ wire' = wire \cup {Message(s, c, TRUE)}
        /\ group' = [group EXCEPT ![s] = @ + 1]
        /\ high' = [high EXCEPT ![s] = 0]
        /\ owed' = [owed EXCEPT ![s] = @ + Higher(high[s], AtLeastOne(c))]
        /\ finals' = finals \cup {[id |-> <<s, group[s]>>, count |-> Higher(high[s], AtLeastOne(c))]}
        /\ UNCHANGED late
  BY DEF SendLast
<1> DEFINE m == Message(s, c, TRUE)
           total == Higher(high[s], AtLeastOne(c))
<1>2. /\ StreakType /\ group \in [Senders -> Nat] /\ high \in [Senders -> Nat]
      /\ owed \in [Senders -> Nat]
  BY DEF StreakInv, StreakType
<1>3. c \in Nat /\ total \in Nat
  BY <1>1, <1>2 DEF Higher, AtLeastOne
<1>4. /\ m \in Gifts /\ m.sender = s /\ m.group = group[s] /\ m.count = c /\ m.end = TRUE
      /\ m.streakable = TRUE
  BY <1>2, <1>3 DEF StreakType, Message, Gifts
<1>5. Observe(m) /\ Accept(m) /\ UNCHANGED roomOpen /\ roomOpen
  BY <1>1 DEF Deliver
<1> HIDE DEF m, total
<1>6. streaks' \in Seq(Streaks) /\ (~forgot' => ~forgot)
  BY <1>2, <1>4, <1>5, AcceptType DEF StreakType
<1>7. StreakType'
  <2>1. open' \in [Senders -> Nat] /\ counted' \in [Senders -> Nat]
    BY <1>2, <1>4, <1>5, ObserveFacts
  <2>2. group' \in [Senders -> Nat] /\ high' \in [Senders -> Nat]
    BY <1>1, <1>2
  <2>4. wire' \subseteq Gifts
    BY <1>1, <1>2, <1>4 DEF StreakType, m
  <2>3. owed' \in [Senders -> Nat]
    BY <1>1, <1>2, <1>3 DEF total
  <2> QED
    BY <1>6, <2>1, <2>2, <2>3, <2>4 DEF StreakType
<1>8. GroupsInv'
  BY <1>1, <1>2 DEF StreakInv, GroupsInv
<1>9. WireInv'
  <2> SUFFICES ASSUME NEW w \in wire'
               PROVE  /\ w.streakable /\ w.group \in 1 .. group'[w.sender]
                      /\ w.group = group'[w.sender] => ~w.end /\ w.count \in 1 .. high'[w.sender]
    BY DEF WireInv
  <2>0. group[s] >= 1 /\ group'[s] = group[s] + 1
    BY <1>1, <1>2 DEF StreakInv, GroupsInv
  <2>1. CASE w = m
    BY <1>2, <1>4, <2>0, <2>1
  <2>2. CASE w \in wire
    <3>1. /\ w.streakable /\ w.group \in 1 .. group[w.sender]
          /\ w.group = group[w.sender] => ~w.end /\ w.count \in 1 .. high[w.sender]
      BY <2>2 DEF StreakInv, WireInv
    <3>2. w.sender \in Senders
      BY <1>2, <2>2 DEF StreakType, Gifts
    <3>3. CASE w.sender = s
      BY <1>2, <2>0, <3>1, <3>3
    <3>4. CASE w.sender # s
      BY <1>1, <1>2, <3>1, <3>2, <3>4
    <3> QED
      BY <3>3, <3>4
  <2> QED
    BY <1>1, <2>1, <2>2 DEF m
<1>10. RunningInv'
  <2> SUFFICES ASSUME ~late, NEW x \in Senders
               PROVE  counted'[x] = owed'[x] + 0 /\ open'[x] = high'[x]
    BY <1>1, <1>5 DEF RunningInv
  <2>1. counted[x] = owed[x] + 0 /\ open[x] = high[x]
    BY <1>5 DEF StreakInv, RunningInv
  <2>2. CASE x = s
    <3>1. total = Higher(open[m.sender], AtLeastOne(m.count))
      BY <1>4, <2>1, <2>2 DEF total
    <3>2. open'[s] = 0 /\ counted'[s] = counted[s] + total
      BY <1>2, <1>4, <1>5, <3>1, ObserveFacts
    <3>3. owed'[s] = owed[s] + total /\ high'[s] = 0
      BY <1>1, <1>2 DEF total
    <3> QED
      BY <1>2, <1>3, <2>1, <2>2, <3>2, <3>3
  <2>3. CASE x # s
    BY <1>1, <1>2, <1>4, <1>5, <2>1, <2>3, ObserveFacts
  <2> QED
    BY <2>2, <2>3
<1>11. ASSUME ~forgot' PROVE MemoryInv' /\ ToldInv'
  <2>1. MemoryInv /\ ToldInv /\ ~forgot
    BY <1>6, <1>11 DEF StreakInv
  <2>2. PICK e : /\ Recorded(m, e) /\ Emitted(m, e)
                 /\ e.count = Higher(m.count, high[m.sender])
    BY <1>2, <1>4, <1>5, <1>11, <2>1, AcceptCurrent
  <2>3. MemoryInv'
    BY <1>1, <1>2, <1>4, <1>6, <2>1, <2>2, MemoryLast
  <2>4. e.count \in Nat /\ (e.count = total \/ (e.count = 0 /\ total = 1))
    BY <1>2, <1>3, <1>4, <2>2 DEF Higher, AtLeastOne, total
  <2>5. told' = told \cup {[id |-> <<s, group[s]>>, count |-> e.count, at |-> messages]}
    BY <1>4, <2>2 DEF Emitted, Recorded
  <2>6. finals' = finals \cup {[id |-> <<s, group[s]>>, count |-> total]}
    BY <1>1 DEF total
  <2>7. ToldInv'
    BY <1>1, <1>2, <1>3, <2>1, <2>4, <2>5, <2>6, ToldLast
  <2> QED
    BY <2>3, <2>7
<1> QED
  BY <1>7, <1>8, <1>9, <1>10, <1>11 DEF StreakInv

(* A gift that cannot streak is counted at once and touches no streak.     *)
LEMMA SendPlainKeeps ==
    ASSUME StreakInv, NEW s \in Senders, NEW c \in 0 .. 1, SendPlain(s, c)
    PROVE  StreakInv'
<1> DEFINE m == [Message(s, c, FALSE) EXCEPT !.streakable = FALSE]
<1>1. /\ Deliver(m) /\ owed' = [owed EXCEPT ![s] = @ + AtLeastOne(c)]
      /\ UNCHANGED <<group, high, finals, wire, late>>
  BY DEF SendPlain
<1>2. StreakType /\ group \in [Senders -> Nat] /\ owed \in [Senders -> Nat]
  BY DEF StreakInv, StreakType
<1>3. c \in Nat /\ AtLeastOne(c) \in Nat
  BY DEF AtLeastOne
<1>4. m \in Gifts /\ m.sender = s /\ m.count = c /\ m.streakable = FALSE
  BY <1>2, <1>3 DEF Message, Gifts
<1>5. Observe(m) /\ Accept(m) /\ UNCHANGED roomOpen /\ roomOpen
  BY <1>1 DEF Deliver
<1> HIDE DEF m
<1>6. UNCHANGED <<streaks, told, forgot>>
  BY <1>4, <1>5, AcceptIgnores
<1>7. /\ open' \in [Senders -> Nat] /\ counted' \in [Senders -> Nat]
      /\ \A x \in Senders \ {s} : open'[x] = open[x] /\ counted'[x] = counted[x]
      /\ open'[s] = open[s] /\ counted'[s] = counted[s] + AtLeastOne(c)
  BY <1>2, <1>4, <1>5, ObserveFacts
<1>8. StreakType'
  <2>1. owed' \in [Senders -> Nat]
    BY <1>1, <1>2, <1>3
  <2> QED
    BY <1>1, <1>2, <1>6, <1>7, <2>1 DEF StreakType
<1>9. WireInv' /\ GroupsInv'
  BY <1>1 DEF StreakInv, WireInv, GroupsInv
<1>10. RunningInv'
  <2> SUFFICES ASSUME ~late, NEW x \in Senders
               PROVE  counted'[x] = owed'[x] + 0 /\ open'[x] = high[x]
    BY <1>1, <1>5 DEF RunningInv
  <2>1. counted[x] = owed[x] + 0 /\ open[x] = high[x]
    BY <1>5 DEF StreakInv, RunningInv
  <2>2. CASE x = s
    BY <1>1, <1>2, <1>3, <1>7, <2>1, <2>2
  <2>3. CASE x # s
    BY <1>1, <1>2, <1>7, <2>1, <2>3
  <2> QED
    BY <2>2, <2>3
<1>11. ~forgot' => MemoryInv' /\ ToldInv'
  BY <1>1, <1>6, MemorySame, ToldSame DEF StreakInv
<1> QED
  BY <1>8, <1>9, <1>10, <1>11 DEF StreakInv

(* A repeated message: too low a count inside its streak, or late.         *)
LEMMA RepeatKeeps ==
    ASSUME StreakInv, NEW m \in wire, Repeat(m)
    PROVE  StreakInv'
<1>1. /\ Deliver(m) /\ late' = (late \/ m.group < group[m.sender])
      /\ UNCHANGED <<group, high, owed, finals, wire>>
  BY DEF Repeat
<1>2. StreakType /\ group \in [Senders -> Nat] /\ high \in [Senders -> Nat]
  BY DEF StreakInv, StreakType
<1>3. m \in Gifts /\ m.sender \in Senders /\ m.group \in Nat /\ m.count \in Nat
  BY <1>2 DEF StreakType, Gifts
<1>4. /\ m.streakable /\ m.group \in 1 .. group[m.sender]
      /\ m.group = group[m.sender] => ~m.end /\ m.count \in 1 .. high[m.sender]
  BY DEF StreakInv, WireInv
<1>5. Observe(m) /\ Accept(m) /\ UNCHANGED roomOpen /\ roomOpen
  BY <1>1 DEF Deliver
<1>6. streaks' \in Seq(Streaks) /\ (~forgot' => ~forgot)
  BY <1>2, <1>3, <1>5, AcceptType DEF StreakType
<1>7. StreakType'
  <2>1. open' \in [Senders -> Nat] /\ counted' \in [Senders -> Nat]
    BY <1>2, <1>3, <1>5, ObserveFacts
  <2> QED
    BY <1>1, <1>2, <1>6, <2>1 DEF StreakType
<1>8. WireInv' /\ GroupsInv'
  BY <1>1 DEF StreakInv, WireInv, GroupsInv
<1>9. RunningInv'
  <2> SUFFICES ASSUME ~late', NEW x \in Senders
               PROVE  counted'[x] = owed[x] + 0 /\ open'[x] = high[x]
    BY <1>1, <1>5 DEF RunningInv
  <2>0. ~late /\ ~(m.group < group[m.sender])
    BY <1>1
  <2>1. counted[x] = owed[x] + 0 /\ open[x] = high[x]
    BY <1>5, <2>0 DEF StreakInv, RunningInv
  <2>2. CASE x = m.sender
    <3>1. m.group = group[m.sender]
      BY <1>2, <1>3, <1>4, <2>0
    <3>2. ~m.end /\ m.count \in 1 .. high[x]
      BY <1>4, <2>2, <3>1
    <3>3. Higher(open[m.sender], AtLeastOne(m.count)) = high[x]
      BY <1>2, <1>3, <2>1, <2>2, <3>2 DEF Higher, AtLeastOne
    <3>4. open'[m.sender] = high[x] /\ counted'[m.sender] = counted[m.sender]
      BY <1>2, <1>3, <1>4, <1>5, <3>2, <3>3, ObserveFacts
    <3> QED
      BY <2>1, <2>2, <3>4
  <2>3. CASE x # m.sender
    BY <1>2, <1>3, <1>5, <2>1, <2>3, ObserveFacts
  <2> QED
    BY <2>2, <2>3
<1>10. ASSUME ~forgot' PROVE MemoryInv' /\ ToldInv'
  <2>1. MemoryInv /\ ToldInv /\ ~forgot
    BY <1>6, <1>10 DEF StreakInv
  <2>2. CASE m.group = group[m.sender]
    <3>1. PICK e : /\ Recorded(m, e) /\ Emitted(m, e)
                   /\ e.count = Higher(m.count, high[m.sender])
      BY <1>2, <1>3, <1>4, <1>5, <1>10, <2>1, <2>2, AcceptCurrent
    <3>2. ~m.end /\ m.count \in 1 .. high[m.sender]
      BY <1>4, <2>2
    <3>3. e.count = high[m.sender] /\ told' = told
      BY <1>2, <1>3, <3>1, <3>2 DEF Higher, Emitted
    <3>4. high' = [high EXCEPT ![m.sender] = e.count]
      BY <1>1, <1>2, <1>3, <3>3
    <3>5. MemoryInv'
      BY <1>1, <1>2, <1>3, <1>6, <2>1, <2>2, <3>1, <3>2, <3>4, MemoryMore
    <3> QED
      BY <1>1, <2>1, <3>3, <3>5, ToldSame
  <2>3. CASE m.group # group[m.sender]
    <3>1. m.group \in 1 .. group[m.sender] - 1
      BY <1>2, <1>3, <1>4, <2>3
    <3>2. UNCHANGED <<streaks, told, forgot>>
      BY <1>3, <1>5, <2>1, <3>1, AcceptFinished
    <3> QED
      BY <1>1, <2>1, <3>2, MemorySame, ToldSame
  <2> QED
    BY <2>2, <2>3
<1> QED
  BY <1>7, <1>8, <1>9, <1>10 DEF StreakInv

(* The room closes: the streaks under way are handed over as they are.     *)
LEMMA TakeOpenKeeps ==
    ASSUME StreakInv, TakeOpen
    PROVE  StreakInv'
<1>1. /\ roomOpen /\ ~roomOpen'
      /\ open' = [s \in Senders |-> 0]
      /\ counted' = [s \in Senders |-> counted[s] + open[s]]
      /\ UNCHANGED <<group, high, owed, finals, wire, messages, late, streaks, told, forgot>>
  BY DEF TakeOpen
<1>2. StreakType'
  BY <1>1 DEF StreakInv, StreakType
<1>3. WireInv' /\ GroupsInv'
  BY <1>1 DEF StreakInv, WireInv, GroupsInv
<1>4. RunningInv'
  <2> SUFFICES ASSUME ~late, NEW x \in Senders
               PROVE  counted'[x] = owed[x] + high[x]
    BY <1>1 DEF RunningInv
  <2>1. counted[x] = owed[x] + 0 /\ open[x] = high[x]
    BY <1>1 DEF StreakInv, RunningInv
  <2> QED
    BY <1>1, <2>1 DEF StreakInv, StreakType
<1>5. ~forgot' => MemoryInv' /\ ToldInv'
  BY <1>1, MemorySame, ToldSame DEF StreakInv
<1> QED
  BY <1>2, <1>3, <1>4, <1>5 DEF StreakInv

(* The invariant of the two trackers. *)
LEMMA StreakStep ==
    ASSUME StreakInv, [StreakNext]_streakVars
    PROVE  StreakInv'
<1>1. CASE UNCHANGED streakVars
  <2>1. UNCHANGED <<group, high, owed, finals, wire, late, roomOpen, open, counted, streaks,
                    told, forgot>>
    BY <1>1 DEF streakVars
  <2>2. ~forgot' => MemoryInv' /\ ToldInv'
    BY <2>1, MemorySame, ToldSame DEF StreakInv
  <2> QED
    BY <2>1, <2>2 DEF StreakInv, StreakType, WireInv, GroupsInv, RunningInv
<1>2. CASE StreakNext
  BY <1>2, SendMoreKeeps, SendLastKeeps, SendPlainKeeps, RepeatKeeps, TakeOpenKeeps DEF StreakNext
<1> QED
  BY <1>1, <1>2

(* Each gift is counted once, for any number of senders, messages and      *)
(* remembered streaks: what GiftStreaks::observe and take_open() report    *)
(* adds up to what was sent, and GiftStreakTracker.accept emits one final  *)
(* total for each finished streak as long as it has forgotten none.        *)
THEOREM EachGiftOnceHolds == StreakSpec => []EachGiftOnce
<1>1. StreakInit => StreakInv
  <2> SUFFICES ASSUME StreakInit PROVE StreakInv
    OBVIOUS
  <2>1. StreakType /\ GroupsInv /\ WireInv /\ RunningInv
    BY DEF StreakInit, StreakType, GroupsInv, WireInv, RunningInv
  <2>2. MemoryInv
    BY DEF StreakInit, MemoryInv, Known
  <2>3. ToldInv
    BY FS_EmptySet DEF StreakInit, ToldInv, FinalOnce
  <2> QED
    BY <2>1, <2>2, <2>3 DEF StreakInv
<1>2. StreakInv /\ [StreakNext]_streakVars => StreakInv'
  BY StreakStep
<1>3. StreakInv => EachGiftOnce
  BY DEF StreakInv, EachGiftOnce, StreakTotals, FinalOnce, RunningInv, ToldInv
<1> QED
  BY <1>1, <1>2, <1>3, PTL DEF StreakSpec
================================================================================
