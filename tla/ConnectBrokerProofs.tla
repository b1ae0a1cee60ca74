-------------------------- MODULE ConnectBrokerProofs --------------------------
(***************************************************************************)
(* The connect broker, and the Java client that opens what it hands out.   *)
(*                                                                         *)
(* Single flight, for any number of requests, creators and permits: the    *)
(* inductive invariant is FlightInv. Most steps of a request neither start *)
(* nor end outside the part where it holds a flight (LEMMA Outside); the   *)
(* six that do are argued one by one. Woken and SetOnce: a flight is       *)
(* initialized by a request that is there, and once.                       *)
(*                                                                         *)
(* Permits: each is a balance between a counter and the set of requests    *)
(* that hold one (PermitInv), and each step moves one request.             *)
(*                                                                         *)
(* The Java client, for any capacity, retries and faults: ConnectionInv    *)
(* gives Ownership, with it TurnInv gives ToldInTurn, and with both        *)
(* AttendInv holds, the part of Settles that is not about fairness.        *)
(***************************************************************************)
EXTENDS ConnectBroker, JavaClient, FiniteSetTheorems, SequenceTheorems, TLAPS

(* Why flights are single: a request that has not dropped its lease finds  *)
(* its own flight in the map, and only the initializer of a flight is      *)
(* looking up. With the types it needs, it is inductive.                   *)
FlightInv ==
    /\ pc \in [Requests -> Places]
    /\ req \in [Requests -> [creator : Creators, customer : Customers, live : BOOLEAN]]
    /\ flights \in [Creators -> Requests \cup {None}]
    /\ flightOf \in [Requests -> Requests \cup {None}]
    /\ runner \in [Requests -> Requests \cup {None}]
    /\ \A r \in Requests : pc[r] \in Holding <=> flightOf[r] # None
    /\ \A r \in Requests : pc[r] \in Leased => flights[Creator(r)] = flightOf[r]
    /\ \A r \in Requests : pc[r] = "discover" => runner[flightOf[r]] = r

(* Why permits are conserved: only finitely many requests are under way,   *)
(* and only one that asked for a relay is ever on the way to or from one.  *)
(* Requests may be infinite: every permit is counted over the ones under   *)
(* way.                                                                    *)
PermitInv ==
    /\ PermitsConserved
    /\ IsFiniteSet({r \in Requests : pc[r] \notin {"idle", "done"}})
    /\ \A r \in Requests :
         pc[r] \in {"relay", "customer", "dial", "relaying", "unrelay", "unslot"} => req[r].live

(* The Java client. What follows is about a record, so that it can be said *)
(* of the ones inside a critical section too, and about what waits outside *)
(* of the monitor: lookups lk, catalogs ct and the task tm of the timer.   *)

Names == {"connected", "disconnected", "offline", "error", "reconnecting", "event", "overload"}
Tasks == [name : Names, token : Nat, from : Nat]
Sockets == [token : Nat, phase : {"connecting", "open"}, cancelled : BOOLEAN]
Results == {"value", "failed"}
Queues == Seq(Tasks)
SocketSets == SUBSET Sockets
Armings == [Timers -> Nat]
Operations == 0 .. MaxConnects
Marks == SUBSET Nat
Futures == [1 .. MaxConnects -> {"none", "open", "cancelled"} \cup Results]
Completions == SUBSET [future : Operations, result : Results]
Clients ==
    [active : BOOLEAN, closed : BOOLEAN, stopped : BOOLEAN, generation : Nat, retries : Nat,
     connected : BOOLEAN, queue : Queues, socket : Nat, sockets : SocketSets,
     timers : Armings, pending : Operations, future : Futures, completing : Completions,
     stray : Marks, dropped : Marks]

JavaType ==
    /\ setup \in [confirm : BOOLEAN, gifts : BOOLEAN] /\ client \in Clients
    /\ lookups \subseteq Nat /\ catalogs \subseteq Nat /\ reading \subseteq Nat
    /\ timer \in [kind : Timers \cup {"none"}, token : Nat]
    /\ told \in Names \cup {"none"} /\ excused \in BOOLEAN

(* A task was queued in this generation or an earlier one, an event in the *)
(* one it was received in, and none beyond the capacity.                   *)
OwnTasks(c) ==
    /\ \A i \in DOMAIN c.queue :
           /\ c.queue[i].token <= c.generation
           /\ c.queue[i].name = "event" => c.queue[i].from = c.queue[i].token
    /\ Len(c.queue) <= TaskCapacity

(* Nothing is ahead of the generation. *)
Behind(c, lk, ct, tm) ==
    /\ \A t \in lk \cup ct : t <= c.generation
    /\ \A s \in c.sockets : s.token <= c.generation
    /\ c.timers["reconnect"] <= c.generation /\ c.timers["heartbeat"] <= c.generation
    /\ tm.token <= c.generation

(* An attempt is in one place: its retry is armed, the timer has started   *)
(* it, the provider has it, the gift list is fetched for it, or it has its *)
(* socket, and a heartbeat of its own or a deadline only with the socket.  *)
Armed(c) == c.timers["reconnect"] = c.generation
Started(c, tm) == tm.kind = "reconnect" /\ tm.token = c.generation
HasSocket(c) == \E s \in c.sockets : s.token = c.generation
OwnBeat(c) == c.timers["heartbeat"] \notin {NoToken} \cup c.stray
HasTimers(c) == OwnBeat(c) \/ c.timers["deadline"] # NoToken

InOnePlace(c, lk, ct, tm) ==
    c.active /\ ~c.closed =>
        /\ Armed(c) => ~Started(c, tm)
        /\ Armed(c) \/ Started(c, tm) => c.generation \notin lk
        /\ Armed(c) \/ Started(c, tm) \/ c.generation \in lk => c.generation \notin ct
        /\ Armed(c) \/ Started(c, tm) \/ c.generation \in lk \/ c.generation \in ct
               => ~HasSocket(c) /\ ~HasTimers(c)
        /\ \A s1, s2 \in c.sockets :
               s1.token = c.generation /\ s2.token = c.generation => s1 = s2

Holds(c, lk, ct, tm) ==
    /\ OwnedHandles(c) /\ OwnTasks(c) /\ Behind(c, lk, ct, tm) /\ InOnePlace(c, lk, ct, tm)

ConnectionInv == JavaType /\ Holds(client, lookups, catalogs, timer)

(* An attempt that has not opened its socket is not connected, one that is *)
(* not connected has told nobody that it is, and it was told that the      *)
(* connection before it was lost.                                          *)
Tells(c, name, i) ==
    i \in DOMAIN c.queue /\ c.queue[i].name = name /\ c.queue[i].token = c.generation

Attempting(c, lk, ct, tm) ==
    \/ Armed(c) \/ Started(c, tm) \/ c.generation \in lk \/ c.generation \in ct
    \/ \E s \in c.sockets : s.token = c.generation /\ s.phase = "connecting"

Unconnected(c) == c.active /\ ~c.closed /\ ~c.connected

TellsOnce(c) ==
    /\ \A i, j \in DOMAIN c.queue : Tells(c, "connected", i) /\ Tells(c, "connected", j) => i = j
    /\ Unconnected(c) => \A i \in DOMAIN c.queue : ~Tells(c, "connected", i)

TellsLoss(c) ==
    /\ Unconnected(c) => \E i \in DOMAIN c.queue : Tells(c, "disconnected", i)
    /\ \A i \in DOMAIN c.queue :
           Tells(c, "connected", i)
               => \E j \in DOMAIN c.queue : j < i /\ Tells(c, "disconnected", j)

(* rd is what is inside receive(), td and ex what the application was last *)
(* told and whether that may have been cut short.                          *)
Turn(c, lk, ct, tm, rd, td, ex) ==
    /\ c.stopped => ex
    /\ c.connected => c.active
    /\ c.active /\ ~c.closed /\ Attempting(c, lk, ct, tm) => ~c.connected
    /\ \A t \in rd : t <= c.generation /\ (Valid(c, t) => ~Attempting(c, lk, ct, tm))
    /\ TellsOnce(c)
    /\ td = "connected" /\ ~ex => TellsLoss(c)

TurnInv == Turn(client, lookups, catalogs, timer, reading, told, excused)

--------------------------------------------------------------------------------
(* A step of a request that holds no flight before or after it, and        *)
(* touches neither the map nor the cells, keeps FlightInv.                 *)
LEMMA Outside ==
    ASSUME FlightInv, NEW r \in Requests, NEW p \in Places \ Holding,
           pc[r] \notin Holding, Goto(r, p), UNCHANGED <<req, flights, flightOf, runner>>
    PROVE  FlightInv'
BY DEF FlightInv, Goto, Places, Holding, Leased, Creator

(* FlightInv holds initially. *)
LEMMA FlightInit == Init => FlightInv
BY DEF Init, FlightInv, Places, Holding, Leased

(* Taking a lease: the map holds no other flight of the creator, or the    *)
(* flight is shared.                                                       *)
LEMMA TakeLeaseKeeps ==
    ASSUME FlightInv, NEW r \in Requests, TakeLease(r)
    PROVE  FlightInv'
<1> DEFINE k == Creator(r)
           f == IF flights[k] = None THEN r ELSE flights[k]
<1>1. k \in Creators /\ f \in Requests
  BY DEF FlightInv, Creator
<1>2. CASE UNCHANGED <<flights, flightOf>> /\ Goto(r, "end")
  BY <1>2, Outside DEF TakeLease, Holding, Leased, Places
<1>3. CASE /\ flights' = [flights EXCEPT ![k] = f]
           /\ flightOf' = [flightOf EXCEPT ![r] = f]
           /\ Goto(r, "cell")
  <2>1. UNCHANGED <<req, runner>> /\ pc[r] = "lease"
    BY DEF TakeLease
  <2>2. f # None
    BY <1>1, BrokerAssumption
  <2>3. ASSUME NEW s \in Requests, pc'[s] \in Leased
        PROVE  flights'[Creator(s)'] = flightOf'[s]
    <3>1. CASE s = r
      BY <3>1, <2>1, <1>1, <1>3 DEF FlightInv, Creator
    <3>2. CASE s # r
      <4>1. pc[s] \in Leased /\ flightOf'[s] = flightOf[s] /\ flightOf[s] # None
        BY <3>2, <2>3, <1>3 DEF FlightInv, Goto, Leased, Holding
      <4>2. flights[Creator(s)] = flightOf[s]
        BY <4>1 DEF FlightInv
      <4> QED
        BY <4>1, <4>2, <2>1, <1>1, <1>3 DEF FlightInv, Creator
    <3> QED
      BY <3>1, <3>2
  <2>4. \A s \in Requests : pc'[s] \in Holding <=> flightOf'[s] # None
    BY <1>1, <1>3, <2>1, <2>2 DEF FlightInv, Goto, Holding, Leased
  <2>5. \A s \in Requests : pc'[s] = "discover" => runner'[flightOf'[s]] = s
    BY <1>1, <1>3, <2>1 DEF FlightInv, Goto
  <2>6. pc' \in [Requests -> Places]
    BY <1>3 DEF FlightInv, Goto, Places
  <2>7. flights' \in [Creators -> Requests \cup {None}] /\ flightOf' \in [Requests -> Requests \cup {None}]
    BY <1>1, <1>3 DEF FlightInv
  <2> QED
    BY <2>1, <2>3, <2>4, <2>5, <2>6, <2>7 DEF FlightInv
<1> QED
  BY <1>2, <1>3 DEF TakeLease

(* Reading or initializing the cell: an initializer finds no other.        *)
LEMMA CellKeeps ==
    ASSUME FlightInv, NEW r \in Requests, ReadCell(r) \/ InitCell(r)
    PROVE  FlightInv'
<1>1. pc[r] = "cell" /\ flightOf[r] \in Requests /\ UNCHANGED <<req, flights, flightOf>>
  BY DEF ReadCell, InitCell, flightVars, FlightInv, Holding, Leased
<1>2. CASE Goto(r, "unlease") /\ UNCHANGED runner
  BY <1>1, <1>2 DEF FlightInv, Goto, Places, Holding, Leased, Creator
<1>3. CASE /\ Goto(r, "discover")
           /\ runner[flightOf[r]] = None
           /\ runner' = [runner EXCEPT ![flightOf[r]] = r]
  <2>1. \A s \in Requests : pc'[s] = "discover" => runner'[flightOf'[s]] = s
    BY <1>1, <1>3, BrokerAssumption DEF FlightInv, Goto, Holding, Leased
  <2> QED
    BY <1>1, <1>3, <2>1 DEF FlightInv, Goto, Places, Holding, Leased, Creator
<1> QED
  BY <1>2, <1>3 DEF ReadCell, InitCell, flightVars

(* Ending the initialization, with a result or because the client hung up. *)
LEMMA InitEndsKeeps ==
    ASSUME FlightInv, NEW r \in Requests,
           (\E kind \in Found \cup {"failed"} : Discovered(r, kind)) \/ CancelResolve(r)
    PROVE  FlightInv'
<1>1. /\ pc[r] \in {"cell", "discover"} /\ flightOf[r] \in Requests
      /\ UNCHANGED <<req, flights, flightOf>> /\ Goto(r, "unlease")
  BY DEF Discovered, CancelResolve, FlightInv, Holding, Leased
<1>2. /\ runner' \in [Requests -> Requests \cup {None}]
      /\ \A f \in Requests : runner[f] # r => runner'[f] = runner[f]
  <2>1. CASE CancelResolve(r)
    BY <2>1 DEF CancelResolve, FlightInv
  <2>2. CASE \E kind \in Found \cup {"failed"} : Discovered(r, kind)
    BY <2>2, <1>1 DEF Discovered, FlightInv
  <2> QED
    BY <2>1, <2>2
<1>3. \A s \in Requests : pc'[s] = "discover" => runner'[flightOf'[s]] = s
  BY <1>1, <1>2 DEF FlightInv, Goto, Holding, Leased
<1> QED
  BY <1>1, <1>2, <1>3 DEF FlightInv, Goto, Places, Holding, Leased, Creator

(* Dropping a lease: the entry is removed only when no sibling can use it. *)
LEMMA DropLeaseKeeps ==
    ASSUME FlightInv, NEW r \in Requests, DropLease(r) \/ DropArc(r)
    PROVE  FlightInv'
<1>1. CASE DropLease(r)
  <2>1. pc[r] = "unlease" /\ Goto(r, "unlock") /\ UNCHANGED <<req, flightOf, runner>>
    BY <1>1 DEF DropLease
  <2>2. flights' \in [Creators -> Requests \cup {None}]
    BY <1>1 DEF DropLease, FlightInv
  <2>3. ASSUME NEW s \in Requests, pc'[s] \in Leased
        PROVE  flights'[Creator(s)'] = flightOf'[s]
    <3>1. s # r /\ pc[s] \in Leased /\ flights[Creator(s)] = flightOf[s]
      BY <2>1, <2>3 DEF FlightInv, Goto, Leased
    <3>2. Creator(s) \in Creators /\ Creator(r) \in Creators /\ Creator(s)' = Creator(s)
      BY <2>1 DEF FlightInv, Creator
    <3>3. CASE Creator(s) # Creator(r)
      BY <1>1, <2>1, <3>1, <3>2, <3>3 DEF DropLease, FlightInv
    <3>4. CASE Creator(s) = Creator(r)
      <4>1. flightOf[s] = flightOf[r]
        BY <2>1, <3>1, <3>4 DEF FlightInv, Leased
      <4>2. Holders(flightOf[r]) # {r}
        BY <3>1, <4>1 DEF Holders
      <4> QED
        BY <1>1, <2>1, <3>1, <3>2, <4>2 DEF DropLease, FlightInv
    <3> QED
      BY <3>3, <3>4
  <2>4. \A s \in Requests : pc'[s] \in Holding <=> flightOf'[s] # None
    BY <2>1 DEF FlightInv, Goto, Holding, Leased
  <2>5. \A s \in Requests : pc'[s] = "discover" => runner'[flightOf'[s]] = s
    BY <2>1 DEF FlightInv, Goto
  <2>6. pc' \in [Requests -> Places]
    BY <2>1 DEF FlightInv, Goto, Places
  <2> QED
    BY <2>1, <2>2, <2>3, <2>4, <2>5, <2>6 DEF FlightInv
<1>2. CASE DropArc(r)
  <2>1. PICK p \in {"sign", "end"} : Goto(r, p)
    BY <1>2 DEF DropArc, AfterResolve
  <2> QED
    BY <1>2, <2>1 DEF DropArc, FlightInv, Goto, Places, Holding, Leased, Creator
<1> QED
  BY <1>1, <1>2

(* The steps of a request before it takes and after it drops its flight.   *)
LEMMA OtherKeeps ==
    ASSUME FlightInv, NEW r \in Requests,
           \/ Arrive(r) \/ TakeRelaySlot(r) \/ CountCustomer(r) \/ TakeRequestSlot(r)
           \/ CacheGet(r) \/ TakeSigningSlot(r)
           \/ \E outcome \in {"ticket", "refused", "failed"} : Signed(r, outcome)
           \/ \E ok \in BOOLEAN : Dial(r, ok)
           \/ Respond(r) \/ DropCustomer(r) \/ DropRelaySlot(r) \/ RelayEnds(r)
           \/ CancelSign(r) \/ CancelAwait(r)
    PROVE  FlightInv'
<1> DEFINE Idle(p) == pc[r] \notin Holding /\ p \in Places \ Holding /\ Goto(r, p)
<1>1. UNCHANGED <<req, flights, flightOf, runner>>
  BY DEF Arrive, TakeRelaySlot, CountCustomer, TakeRequestSlot, CacheGet, TakeSigningSlot,
         Signed, Dial, Respond, DropCustomer, DropRelaySlot, RelayEnds, CancelSign,
         CancelAwait, flightVars
<1>2. CASE Arrive(r) \/ TakeRelaySlot(r) \/ CountCustomer(r) \/ TakeRequestSlot(r)
  <2>1. \E p : Idle(p)
    BY <1>2 DEF Arrive, TakeRelaySlot, CountCustomer, TakeRequestSlot, AfterHandler,
                Places, Holding, Leased
  <2> QED
    BY <1>1, <2>1, Outside
<1>3. CASE CacheGet(r) \/ TakeSigningSlot(r) \/ CancelSign(r) \/ CancelAwait(r)
  <2>1. \E p : Idle(p)
    BY <1>3 DEF CacheGet, TakeSigningSlot, CancelSign, CancelAwait, AfterResolve,
                Places, Holding, Leased
  <2> QED
    BY <1>1, <2>1, Outside
<1>4. CASE \/ \E outcome \in {"ticket", "refused", "failed"} : Signed(r, outcome)
           \/ \E ok \in BOOLEAN : Dial(r, ok)
  <2>1. \E p : Idle(p)
    BY <1>4 DEF Signed, Dial, AfterHandler, Places, Holding, Leased
  <2> QED
    BY <1>1, <2>1, Outside
<1>5. CASE Respond(r) \/ DropCustomer(r) \/ DropRelaySlot(r) \/ RelayEnds(r)
  <2>1. \E p : Idle(p)
    BY <1>5 DEF Respond, DropCustomer, DropRelaySlot, RelayEnds, AfterHandler,
                Places, Holding, Leased
  <2> QED
    BY <1>1, <2>1, Outside
<1> QED
  BY <1>2, <1>3, <1>4, <1>5

(* Every step keeps FlightInv. *)
LEMMA FlightStep == FlightInv /\ [Next]_vars => FlightInv'
<1> SUFFICES ASSUME FlightInv, [Next]_vars PROVE FlightInv'
  OBVIOUS
<1>1. CASE UNCHANGED vars
  BY <1>1 DEF vars, flightVars, FlightInv, Creator
<1>2. CASE \E k \in Creators : Expire(k)
  BY <1>2 DEF Expire, flightVars, FlightInv, Creator
<1>3. ASSUME NEW r \in Requests,
             \/ Arrive(r) \/ Serve(r) \/ RelayEnds(r)
             \/ CancelResolve(r) \/ CancelSign(r) \/ CancelAwait(r)
      PROVE  FlightInv'
  BY <1>3, TakeLeaseKeeps, CellKeeps, InitEndsKeeps, DropLeaseKeeps, OtherKeeps DEF Serve
<1> QED
  BY <1>1, <1>2, <1>3 DEF Next

(* FlightInv is an invariant of the broker. *)
THEOREM FlightInvariance == Spec => []FlightInv
BY FlightInit, FlightStep, PTL DEF Spec

(* Simultaneous lookups are coalesced: for every set of requests and every *)
(* configuration, a creator is looked up by at most one request at a time, *)
(* although leases are dropped in two steps and clients hang up.           *)
THEOREM SingleFlightHolds == Spec => []SingleFlight
<1>1. FlightInv => SingleFlight
  <2> SUFFICES ASSUME FlightInv, NEW r \in At({"discover"}), NEW s \in At({"discover"}),
                      Creator(r) = Creator(s)
               PROVE  r = s
    BY DEF SingleFlight
  <2>1. flightOf[r] = flightOf[s]
    BY DEF FlightInv, At, Leased
  <2> QED
    BY <2>1 DEF FlightInv, At
<1> QED
  BY <1>1, FlightInvariance, PTL

--------------------------------------------------------------------------------
(* Permits. A step moves one request from a place to another, so that      *)
(* every set that is counted changes by that request at most (LEMMA        *)
(* SetMoves); LEMMA MoveKeeps balances the five counts for any such step,  *)
(* and what is left to say of an action is which permits it takes and      *)
(* gives back.                                                             *)

Handling == {"cache", "lease", "cell", "discover", "unlease", "unlock", "sign", "signing", "dial", "end"}
Unleased == {"idle", "relay", "customer", "unslot", "done"}
RelayPlaces == {"relay", "customer", "dial", "relaying", "unrelay", "unslot"}
Active == {r \in Requests : pc[r] \notin {"idle", "done"}}
Leases == {r \in Requests : req[r].live /\ pc[r] \notin Unleased}
LeasesOf(c) == {r \in Leases : req[r].customer = c}
One(b) == IF b THEN 1 ELSE 0

LEMMA SetMoves ==
    ASSUME NEW A, NEW B, NEW x, IsFiniteSet(A), \A y : y # x => (y \in A <=> y \in B)
    PROVE  /\ IsFiniteSet(B) /\ Cardinality(A) \in Nat /\ Cardinality(B) \in Nat
           /\ Cardinality(B) = Cardinality(A) + One(x \in B) - One(x \in A)
<1>1. CASE x \in B
  <2>1. B = A \cup {x}
    BY <1>1
  <2>2. IsFiniteSet(B) /\ Cardinality(B) = IF x \in A THEN Cardinality(A) ELSE Cardinality(A) + 1
    BY <2>1, FS_AddElement
  <2> QED
    BY <1>1, <2>2, FS_CardinalityType DEF One
<1>2. CASE x \notin B
  <2>1. B = A \ {x}
    BY <1>2
  <2>2. IsFiniteSet(B) /\ Cardinality(B) = IF x \in A THEN Cardinality(A) - 1 ELSE Cardinality(A)
    BY <2>1, FS_RemoveElement
  <2> QED
    BY <1>2, <2>2, FS_CardinalityType DEF One
<1> QED
  BY <1>1, <1>2

LEMMA PlaceCounts ==
    ASSUME PermitInv, NEW r \in Requests, NEW q \in Places, Goto(r, q),
           NEW P, P \cap {"idle", "done"} = {}
    PROVE  /\ IsFiniteSet(At(P)) /\ Cardinality(At(P)) \in Nat /\ Cardinality(At(P)') \in Nat
           /\ Cardinality(At(P)') = Cardinality(At(P)) + One(q \in P) - One(pc[r] \in P)
<1>1. IsFiniteSet(Active) /\ pc \in [Requests -> Places]
  BY DEF PermitInv, PermitsConserved, TypeOK, Active
<1>2. At(P) \in SUBSET Active
  BY DEF At, Active
<1>3. IsFiniteSet(At(P))
  BY <1>1, <1>2, FS_Subset
<1>4. pc' = [pc EXCEPT ![r] = q]
  BY DEF Goto
<1>5. (r \in At(P) <=> pc[r] \in P) /\ (r \in At(P)' <=> q \in P)
  BY <1>1, <1>4 DEF At
<1>6. \A y : y # r => (y \in At(P) <=> y \in At(P)')
  BY <1>1, <1>4 DEF At
<1>7. /\ Cardinality(At(P)) \in Nat /\ Cardinality(At(P)') \in Nat
      /\ Cardinality(At(P)') = Cardinality(At(P)) + One(r \in At(P)') - One(r \in At(P))
  BY <1>3, <1>6, SetMoves
<1> QED
  BY <1>3, <1>5, <1>7 DEF One

LEMMA LeaseCounts ==
    ASSUME PermitInv, NEW r \in Requests, NEW q \in Places, Goto(r, q), req' = req
    PROVE  /\ Cardinality(Leases) \in Nat /\ Cardinality(Leases') \in Nat
           /\ Cardinality(Leases') = Cardinality(Leases) + One(req[r].live /\ q \notin Unleased)
                                                         - One(req[r].live /\ pc[r] \notin Unleased)
           /\ \A c \in Customers :
                /\ Cardinality(LeasesOf(c)) \in Nat /\ Cardinality(LeasesOf(c)') \in Nat
                /\ Cardinality(LeasesOf(c)') = Cardinality(LeasesOf(c))
                      + One(req[r].customer = c /\ req[r].live /\ q \notin Unleased)
                      - One(req[r].customer = c /\ req[r].live /\ pc[r] \notin Unleased)
<1>1. IsFiniteSet(Active) /\ pc \in [Requests -> Places]
  BY DEF PermitInv, PermitsConserved, TypeOK, Active
<1>2. pc' = [pc EXCEPT ![r] = q]
  BY DEF Goto
<1>3. Leases \in SUBSET Active /\ \A c : LeasesOf(c) \in SUBSET Active
  BY DEF Leases, LeasesOf, Active, Unleased
<1>4. IsFiniteSet(Leases) /\ \A c : IsFiniteSet(LeasesOf(c))
  BY <1>1, <1>3, FS_Subset
<1>5. \A y : y # r => (y \in Leases <=> y \in Leases')
  BY <1>1, <1>2 DEF Leases
<1>6. (r \in Leases <=> req[r].live /\ pc[r] \notin Unleased) /\ (r \in Leases' <=> req[r].live /\ q \notin Unleased)
  BY <1>1, <1>2 DEF Leases
<1>7. /\ Cardinality(Leases) \in Nat /\ Cardinality(Leases') \in Nat
      /\ Cardinality(Leases') = Cardinality(Leases) + One(r \in Leases') - One(r \in Leases)
  BY <1>4, <1>5, SetMoves
<1>8. ASSUME NEW c \in Customers
      PROVE  /\ Cardinality(LeasesOf(c)) \in Nat /\ Cardinality(LeasesOf(c)') \in Nat
             /\ Cardinality(LeasesOf(c)') = Cardinality(LeasesOf(c)) + One(r \in LeasesOf(c)') - One(r \in LeasesOf(c))
  <2>1. \A y : y # r => (y \in LeasesOf(c) <=> y \in LeasesOf(c)')
    BY <1>5 DEF LeasesOf
  <2> QED
    BY <1>4, <2>1, SetMoves
<1>9. \A c \in Customers :
        /\ r \in LeasesOf(c) <=> req[r].customer = c /\ req[r].live /\ pc[r] \notin Unleased
        /\ r \in LeasesOf(c)' <=> req[r].customer = c /\ req[r].live /\ q \notin Unleased
  BY <1>6 DEF LeasesOf
<1> QED
  BY <1>6, <1>7, <1>8, <1>9, Zenon DEF One

(* The relay slot is held from the place before the lease to the one after. *)
RelaySlotHeld(r, p) == p \in {"customer", "unslot"} \/ (req[r].live /\ p \notin Unleased)
LeaseHeld(r, p) == req[r].live /\ p \notin Unleased

LEMMA Balance ==
    ASSUME NEW m \in Nat, NEW n \in Nat, NEW k \in Nat, NEW s \in Nat, NEW t, NEW a \in {0, 1}, NEW b \in {0, 1},
           s + n = m, k = n + a - b, t = s - a + b, 0 <= t
    PROVE  t + k = m /\ t \in 0 .. m
OBVIOUS

LEMMA MoveKeeps ==
    ASSUME PermitInv, FlightInv', NEW r \in Requests, NEW q \in Places, Goto(r, q), req' = req,
           res' \in [Requests -> Resolution], cache' \in [Creators -> Resolution],
           cell' \in [Requests -> Resolution],
           q \in RelayPlaces => req[r].live,
           discoverySlots' = discoverySlots - One(q = "discover") + One(pc[r] = "discover"),
           signingSlots' = signingSlots - One(q = "signing") + One(pc[r] = "signing"),
           requestSlots' = requestSlots - One(q \in Handling) + One(pc[r] \in Handling),
           relaySlots' = relaySlots - One(RelaySlotHeld(r, q)) + One(RelaySlotHeld(r, pc[r])),
           customers' \in [Customers -> Int],
           customers'[req[r].customer] =
               customers[req[r].customer] + One(LeaseHeld(r, q)) - One(LeaseHeld(r, pc[r])),
           \A c \in Customers \ {req[r].customer} : customers'[c] = customers[c],
           0 <= discoverySlots', 0 <= signingSlots', 0 <= requestSlots', 0 <= relaySlots',
           customers'[req[r].customer] <= PerCustomer
    PROVE  PermitInv'
<1> DEFINE c0 == req[r].customer
           Waiting == {"customer", "unslot"}
<1>1. /\ pc \in [Requests -> Places] /\ pc' = [pc EXCEPT ![r] = q] /\ pc[r] \in Places
      /\ req \in [Requests -> [creator : Creators, customer : Customers, live : BOOLEAN]]
      /\ c0 \in Customers /\ customers \in [Customers -> 0 .. PerCustomer]
      /\ discoverySlots \in Nat /\ signingSlots \in Nat /\ requestSlots \in Nat /\ relaySlots \in Nat
  BY BrokerAssumption DEF PermitInv, PermitsConserved, TypeOK, Goto
<1>2. {MaxRequests, MaxDiscovery, MaxSigns, MaxRelays, PerCustomer} \subseteq Nat
  BY BrokerAssumption
<1>3. /\ discoverySlots + Cardinality(At({"discover"})) = MaxDiscovery
      /\ signingSlots + Cardinality(At({"signing"})) = MaxSigns
      /\ requestSlots + Cardinality(At(Handling)) = MaxRequests
      /\ \A c \in Customers : customers[c] = Cardinality(LeasesOf(c))
      /\ relaySlots + Cardinality(Leases) + Cardinality(At(Waiting)) = MaxRelays
  BY DEF PermitInv, PermitsConserved, Permits, RelayAccounting, Handling, Leases, LeasesOf, Unleased
<1>4. /\ discoverySlots' + Cardinality(At({"discover"})') = MaxDiscovery
      /\ discoverySlots' \in 0 .. MaxDiscovery
  <2>1. /\ Cardinality(At({"discover"})) \in Nat /\ Cardinality(At({"discover"})') \in Nat
        /\ Cardinality(At({"discover"})') = Cardinality(At({"discover"})) + One(q = "discover") - One(pc[r] = "discover")
    <3>1. {"discover"} \cap {"idle", "done"} = {}
      OBVIOUS
    <3> QED
      BY <3>1, PlaceCounts DEF One
  <2>2. One(q = "discover") \in {0, 1} /\ One(pc[r] = "discover") \in {0, 1} /\ MaxDiscovery \in Nat
    BY <1>2 DEF One
  <2> QED
    BY <1>1, <1>3, <2>1, <2>2, Balance
<1>5. /\ signingSlots' + Cardinality(At({"signing"})') = MaxSigns
      /\ signingSlots' \in 0 .. MaxSigns
  <2>1. /\ Cardinality(At({"signing"})) \in Nat /\ Cardinality(At({"signing"})') \in Nat
        /\ Cardinality(At({"signing"})') = Cardinality(At({"signing"})) + One(q = "signing") - One(pc[r] = "signing")
    <3>1. {"signing"} \cap {"idle", "done"} = {}
      OBVIOUS
    <3> QED
      BY <3>1, PlaceCounts DEF One
  <2>2. One(q = "signing") \in {0, 1} /\ One(pc[r] = "signing") \in {0, 1} /\ MaxSigns \in Nat
    BY <1>2 DEF One
  <2> QED
    BY <1>1, <1>3, <2>1, <2>2, Balance
<1>6. /\ requestSlots' + Cardinality(At(Handling)') = MaxRequests
      /\ requestSlots' \in 0 .. MaxRequests
  <2>1. /\ Cardinality(At(Handling)) \in Nat /\ Cardinality(At(Handling)') \in Nat
        /\ Cardinality(At(Handling)') = Cardinality(At(Handling)) + One(q \in Handling) - One(pc[r] \in Handling)
    <3>1. Handling \cap {"idle", "done"} = {}
      BY DEF Handling
    <3> QED
      BY <3>1, PlaceCounts
  <2>2. One(q \in Handling) \in {0, 1} /\ One(pc[r] \in Handling) \in {0, 1} /\ MaxRequests \in Nat
    BY <1>2 DEF One
  <2>3. /\ requestSlots \in Nat /\ requestSlots + Cardinality(At(Handling)) = MaxRequests /\ 0 <= requestSlots'
        /\ requestSlots' = requestSlots - One(q \in Handling) + One(pc[r] \in Handling)
    BY <1>1, <1>3
  <2> QED
    BY <2>1, <2>2, <2>3, Balance
<1>7. /\ relaySlots' + Cardinality(Leases') + Cardinality(At(Waiting)') = MaxRelays
      /\ relaySlots' \in 0 .. MaxRelays
  <2>1. /\ Cardinality(At(Waiting)) \in Nat /\ Cardinality(At(Waiting)') \in Nat
        /\ Cardinality(At(Waiting)') = Cardinality(At(Waiting)) + One(q \in Waiting) - One(pc[r] \in Waiting)
    <3>1. Waiting \cap {"idle", "done"} = {}
      OBVIOUS
    <3> QED
      BY <3>1, PlaceCounts
  <2>2. /\ Cardinality(Leases) \in Nat /\ Cardinality(Leases') \in Nat
        /\ Cardinality(Leases') = Cardinality(Leases) + One(LeaseHeld(r, q)) - One(LeaseHeld(r, pc[r]))
    BY LeaseCounts DEF LeaseHeld
  <2>3. \A p \in Places : One(RelaySlotHeld(r, p)) = One(p \in Waiting) + One(LeaseHeld(r, p))
    BY DEF One, RelaySlotHeld, LeaseHeld, Unleased
  <2>4. relaySlots' = relaySlots - One(q \in Waiting) - One(LeaseHeld(r, q)) + One(pc[r] \in Waiting) + One(LeaseHeld(r, pc[r]))
    BY <1>1, <2>3 DEF One
  <2>5. /\ One(q \in Waiting) \in {0, 1} /\ One(LeaseHeld(r, q)) \in {0, 1} /\ MaxRelays \in Nat
        /\ One(pc[r] \in Waiting) \in {0, 1} /\ One(LeaseHeld(r, pc[r])) \in {0, 1}
    BY <1>2 DEF One
  <2> HIDE DEF Waiting
  <2> DEFINE a1 == One(q \in Waiting)
             a2 == One(LeaseHeld(r, q))
             b1 == One(pc[r] \in Waiting)
             b2 == One(LeaseHeld(r, pc[r]))
             n1 == Cardinality(Leases)
             n2 == Cardinality(At(Waiting))
             k1 == Cardinality(Leases')
             k2 == Cardinality(At(Waiting)')
  <2>6. /\ a1 \in {0, 1} /\ a2 \in {0, 1} /\ b1 \in {0, 1} /\ b2 \in {0, 1} /\ relaySlots \in Nat /\ MaxRelays \in Nat
        /\ n1 \in Nat /\ n2 \in Nat /\ k1 \in Nat /\ k2 \in Nat /\ 0 <= relaySlots'
        /\ k1 = n1 + a2 - b2 /\ k2 = n2 + a1 - b1 /\ relaySlots + n1 + n2 = MaxRelays
        /\ relaySlots' = relaySlots - a1 - a2 + b1 + b2
    BY <1>1, <1>3, <2>1, <2>2, <2>4, <2>5
  <2> HIDE DEF a1, a2, b1, b2, n1, n2, k1, k2
  <2>7. relaySlots' + k1 + k2 = MaxRelays /\ relaySlots' \in 0 .. MaxRelays
    BY <2>6
  <2> QED
    BY <2>7 DEF k1, k2
<1>8. /\ \A c \in Customers : customers'[c] = Cardinality(LeasesOf(c)')
      /\ customers' \in [Customers -> 0 .. PerCustomer]
  <2>1. \A c \in Customers : customers'[c] = Cardinality(LeasesOf(c)') /\ Cardinality(LeasesOf(c)') \in Nat
    <3> SUFFICES ASSUME NEW c \in Customers
                 PROVE  customers'[c] = Cardinality(LeasesOf(c)') /\ Cardinality(LeasesOf(c)') \in Nat
      OBVIOUS
    <3>1. /\ Cardinality(LeasesOf(c)) \in Nat /\ Cardinality(LeasesOf(c)') \in Nat
          /\ Cardinality(LeasesOf(c)') = Cardinality(LeasesOf(c)) + One(c0 = c /\ LeaseHeld(r, q))
                                                                  - One(c0 = c /\ LeaseHeld(r, pc[r]))
      BY LeaseCounts DEF LeaseHeld
    <3>2. CASE c = c0
      BY <1>1, <1>3, <3>1, <3>2 DEF One
    <3>3. CASE c # c0
      BY <1>1, <1>3, <3>1, <3>3 DEF One
    <3> QED
      BY <3>2, <3>3
  <2>2. \A c \in Customers : customers'[c] <= PerCustomer
    BY <1>1, <1>2
  <2> QED
    BY <1>1, <1>2, <2>1, <2>2
<1>9. TypeOK'
  <2>1. pc' \in [Requests -> Places]
    BY <1>1
  <2> QED
    BY <1>1, <1>4, <1>5, <1>6, <1>7, <1>8, <2>1 DEF TypeOK, FlightInv
<1>10. Permits' /\ RelayAccounting'
  BY <1>4, <1>5, <1>6, <1>7, <1>8 DEF Permits, RelayAccounting, Handling, Leases, LeasesOf, Unleased
<1>11. IsFiniteSet(Active')
  <2>1. IsFiniteSet(Active)
    BY DEF PermitInv, Active
  <2>2. \A y : y # r => (y \in Active <=> y \in Active')
    BY <1>1 DEF Active
  <2> QED
    BY <2>1, <2>2, SetMoves
<1>12. \A s \in Requests : pc'[s] \in RelayPlaces => req'[s].live
  BY <1>1 DEF PermitInv, RelayPlaces
<1> QED
  BY <1>9, <1>10, <1>11, <1>12 DEF PermitInv, PermitsConserved, Active, RelayPlaces

(* A step that leaves relays and their customers alone. *)
LEMMA MoveAside ==
    ASSUME PermitInv, FlightInv', NEW r \in Requests, NEW q \in Places, Goto(r, q), req' = req,
           res' \in [Requests -> Resolution], cache' \in [Creators -> Resolution],
           cell' \in [Requests -> Resolution],
           q \in RelayPlaces => req[r].live,
           discoverySlots' = discoverySlots - One(q = "discover") + One(pc[r] = "discover"),
           signingSlots' = signingSlots - One(q = "signing") + One(pc[r] = "signing"),
           requestSlots' = requestSlots - One(q \in Handling) + One(pc[r] \in Handling),
           UNCHANGED <<relaySlots, customers>>,
           RelaySlotHeld(r, q) <=> RelaySlotHeld(r, pc[r]), LeaseHeld(r, q) <=> LeaseHeld(r, pc[r]),
           0 <= discoverySlots', 0 <= signingSlots', 0 <= requestSlots'
    PROVE  PermitInv'
<1>1. customers \in [Customers -> 0 .. PerCustomer] /\ relaySlots \in 0 .. MaxRelays /\ PerCustomer \in Nat /\ MaxRelays \in Nat
      /\ req[r].customer \in Customers
  BY BrokerAssumption DEF PermitInv, PermitsConserved, TypeOK
<1>2. One(RelaySlotHeld(r, q)) = One(RelaySlotHeld(r, pc[r])) /\ One(RelaySlotHeld(r, q)) \in {0, 1}
  BY DEF One
<1>3. One(LeaseHeld(r, q)) = One(LeaseHeld(r, pc[r])) /\ One(LeaseHeld(r, q)) \in {0, 1}
  BY DEF One
<1>4. relaySlots' = relaySlots - One(RelaySlotHeld(r, q)) + One(RelaySlotHeld(r, pc[r])) /\ 0 <= relaySlots'
  BY <1>1, <1>2
<1>5. /\ customers' \in [Customers -> Int] /\ customers'[req[r].customer] <= PerCustomer
      /\ customers'[req[r].customer] = customers[req[r].customer] + One(LeaseHeld(r, q)) - One(LeaseHeld(r, pc[r]))
      /\ \A c \in Customers \ {req[r].customer} : customers'[c] = customers[c]
  BY <1>1, <1>3
<1> QED
  BY <1>4, <1>5, MoveKeeps

(* A step that takes or gives back no permit at all. *)
LEMMA MoveFree ==
    ASSUME PermitInv, FlightInv', NEW r \in Requests, NEW q \in Places, Goto(r, q), req' = req,
           res' \in [Requests -> Resolution], cache' \in [Creators -> Resolution],
           cell' \in [Requests -> Resolution],
           q \in RelayPlaces => req[r].live,
           UNCHANGED <<limitVars, slotVars>>,
           q \notin {"discover", "signing"}, pc[r] \notin {"discover", "signing"},
           q \in Handling <=> pc[r] \in Handling,
           RelaySlotHeld(r, q) <=> RelaySlotHeld(r, pc[r]), LeaseHeld(r, q) <=> LeaseHeld(r, pc[r])
    PROVE  PermitInv'
<1>1. UNCHANGED <<relaySlots, customers, requestSlots, discoverySlots, signingSlots>>
  BY DEF limitVars, slotVars
<1>2. discoverySlots \in Nat /\ signingSlots \in Nat /\ requestSlots \in Nat
  BY BrokerAssumption DEF PermitInv, PermitsConserved, TypeOK
<1>3. /\ discoverySlots' = discoverySlots - One(q = "discover") + One(pc[r] = "discover") /\ 0 <= discoverySlots'
      /\ signingSlots' = signingSlots - One(q = "signing") + One(pc[r] = "signing") /\ 0 <= signingSlots'
      /\ requestSlots' = requestSlots - One(q \in Handling) + One(pc[r] \in Handling) /\ 0 <= requestSlots'
  BY <1>1, <1>2 DEF One
<1> QED
  BY <1>1, <1>3, MoveAside

(* What the steps leave alone. *)
LEMMA Untouched ==
    ASSUME PermitInv
    PROVE  /\ res \in [Requests -> Resolution] /\ cache \in [Creators -> Resolution]
           /\ cell \in [Requests -> Resolution] /\ pc \in [Requests -> Places]
           /\ req \in [Requests -> [creator : Creators, customer : Customers, live : BOOLEAN]]
           /\ customers \in [Customers -> Nat] /\ \A c \in Customers : customers[c] <= PerCustomer
           /\ PerCustomer \in Nat
           /\ relaySlots \in Nat /\ requestSlots \in Nat /\ discoverySlots \in Nat /\ signingSlots \in Nat
BY BrokerAssumption DEF PermitInv, PermitsConserved, TypeOK

LEMMA OneLess == \A n \in Nat : n # 0 => n - 1 = n - 1 + 0 /\ 0 <= n - 1
OBVIOUS

LEMMA ArriveBalances ==
    ASSUME PermitInv, FlightInv', NEW r \in Requests, Arrive(r) \/ RelayEnds(r) \/ CancelAwait(r)
    PROVE  PermitInv'
<1>1. UNCHANGED <<req, res, limitVars, slotVars, cache, cell>>
  BY DEF Arrive, RelayEnds, CancelAwait, flightVars
<1>2. CASE Arrive(r)
  <2> DEFINE q == IF req[r].live THEN "relay" ELSE "request"
  <2>1. pc[r] = "idle" /\ Goto(r, q)
    BY <1>2 DEF Arrive
  <2>2. /\ q \in Places /\ (q \in RelayPlaces => req[r].live) /\ q \notin {"discover", "signing"}
        /\ (q \in Handling <=> pc[r] \in Handling)
        /\ (RelaySlotHeld(r, q) <=> RelaySlotHeld(r, pc[r])) /\ (LeaseHeld(r, q) <=> LeaseHeld(r, pc[r]))
    BY <2>1 DEF Places, RelayPlaces, Handling, RelaySlotHeld, LeaseHeld, Unleased
  <2> HIDE DEF q
  <2> QED
    BY <1>1, <2>1, <2>2, Untouched, MoveFree
<1>3. CASE RelayEnds(r)
  <2>1. pc[r] = "relaying" /\ Goto(r, "unrelay")
    BY <1>3 DEF RelayEnds
  <2>2. /\ "unrelay" \in Places /\ req[r].live /\ ("unrelay" \in Handling <=> pc[r] \in Handling)
        /\ (RelaySlotHeld(r, "unrelay") <=> RelaySlotHeld(r, pc[r])) /\ (LeaseHeld(r, "unrelay") <=> LeaseHeld(r, pc[r]))
    BY <2>1 DEF PermitInv, Places, Handling, RelaySlotHeld, LeaseHeld, Unleased
  <2> QED
    BY <1>1, <2>1, <2>2, Untouched, MoveFree
<1>4. CASE CancelAwait(r)
  <2>1. pc[r] \in {"cache", "dial"} /\ Goto(r, "end")
    BY <1>4 DEF CancelAwait
  <2>2. /\ "end" \in Places /\ "end" \notin RelayPlaces /\ ("end" \in Handling <=> pc[r] \in Handling)
        /\ (RelaySlotHeld(r, "end") <=> RelaySlotHeld(r, pc[r])) /\ (LeaseHeld(r, "end") <=> LeaseHeld(r, pc[r]))
    BY <2>1 DEF Places, RelayPlaces, Handling, RelaySlotHeld, LeaseHeld, Unleased
  <2> QED
    BY <1>1, <2>1, <2>2, Untouched, MoveFree
<1> QED
  BY <1>2, <1>3, <1>4

(* Relays: a slot, then a lease, and both back in the opposite order. *)
LEMMA RelayBalances ==
    ASSUME PermitInv, FlightInv', NEW r \in Requests,
           TakeRelaySlot(r) \/ CountCustomer(r) \/ DropCustomer(r) \/ DropRelaySlot(r)
    PROVE  PermitInv'
<1> DEFINE c == req[r].customer
<1>1. UNCHANGED <<req, res, requestSlots, discoverySlots, signingSlots, cache, cell>>
  BY DEF TakeRelaySlot, CountCustomer, DropCustomer, DropRelaySlot, flightVars, slotVars
<1>2. /\ c \in Customers /\ pc[r] \in {"relay", "customer", "unrelay", "unslot"} /\ req[r].live
      /\ customers \in [Customers -> Int]
  BY Untouched DEF TakeRelaySlot, CountCustomer, DropCustomer, DropRelaySlot, PermitInv
<1>3. ASSUME NEW q \in {"customer", "request", "unslot", "done"}, Goto(r, q),
             relaySlots' = relaySlots - One(RelaySlotHeld(r, q)) + One(RelaySlotHeld(r, pc[r])),
             customers' \in [Customers -> Int],
             customers'[c] = customers[c] + One(LeaseHeld(r, q)) - One(LeaseHeld(r, pc[r])),
             \A k \in Customers \ {c} : customers'[k] = customers[k],
             0 <= relaySlots', customers'[c] <= PerCustomer
      PROVE  PermitInv'
  <2>1. q \in Places /\ q \notin Handling /\ pc[r] \notin Handling
    BY <1>2 DEF Places, Handling
  <2>2. discoverySlots \in Nat /\ signingSlots \in Nat /\ requestSlots \in Nat
    BY Untouched
  <2>3. /\ discoverySlots' = discoverySlots - One(q = "discover") + One(pc[r] = "discover") /\ 0 <= discoverySlots'
        /\ signingSlots' = signingSlots - One(q = "signing") + One(pc[r] = "signing") /\ 0 <= signingSlots'
        /\ requestSlots' = requestSlots - One(q \in Handling) + One(pc[r] \in Handling) /\ 0 <= requestSlots'
    BY <1>1, <1>2, <2>1, <2>2 DEF One
  <2>4. res' \in [Requests -> Resolution] /\ cache' \in [Creators -> Resolution] /\ cell' \in [Requests -> Resolution]
    BY <1>1, Untouched
  <2> QED
    BY <1>1, <1>2, <1>3, <2>1, <2>3, <2>4, MoveKeeps
<1>4. CASE TakeRelaySlot(r)
  <2>1. CASE Goto(r, "done") /\ relaySlots' = relaySlots
    BY <1>2, <1>3, <1>4, <2>1, Untouched DEF TakeRelaySlot, One, RelaySlotHeld, LeaseHeld, Unleased
  <2>2. CASE Goto(r, "customer") /\ relaySlots' = relaySlots - 1 /\ relaySlots # 0
    <3>0. /\ One(RelaySlotHeld(r, "customer")) = 1 /\ One(RelaySlotHeld(r, pc[r])) = 0
          /\ One(LeaseHeld(r, "customer")) = 0 /\ One(LeaseHeld(r, pc[r])) = 0
      BY <1>4 DEF TakeRelaySlot, One, RelaySlotHeld, LeaseHeld, Unleased
    <3>1. /\ relaySlots' = relaySlots - One(RelaySlotHeld(r, "customer")) + One(RelaySlotHeld(r, pc[r]))
          /\ 0 <= relaySlots' /\ One(LeaseHeld(r, "customer")) = One(LeaseHeld(r, pc[r]))
      BY <2>2, <3>0, Untouched, OneLess
    <3>2. customers' = customers
      BY <1>4 DEF TakeRelaySlot
    <3>3. /\ customers'[c] = customers[c] + One(LeaseHeld(r, "customer")) - One(LeaseHeld(r, pc[r]))
          /\ customers'[c] <= PerCustomer
      BY <1>2, <3>1, <3>2, Untouched DEF One
    <3> QED
      BY <1>2, <1>3, <2>2, <3>1, <3>2, <3>3
  <2> QED
    BY <1>4, <2>1, <2>2 DEF TakeRelaySlot
<1>5. CASE CountCustomer(r)
  <2>1. CASE Goto(r, "done") /\ relaySlots' = relaySlots + 1 /\ customers' = customers
    BY <1>2, <1>3, <1>5, <2>1, Untouched DEF CountCustomer, One, RelaySlotHeld, LeaseHeld, Unleased
  <2>2. CASE /\ Goto(r, "request") /\ relaySlots' = relaySlots /\ ~(customers[c] >= PerCustomer)
             /\ customers' = [customers EXCEPT ![c] = customers[c] + 1]
    BY <1>2, <1>3, <1>5, <2>2, Untouched DEF CountCustomer, One, RelaySlotHeld, LeaseHeld, Unleased
  <2> QED
    BY <1>5, <2>1, <2>2 DEF CountCustomer
<1>6. CASE DropCustomer(r)
  BY <1>2, <1>3, <1>6, Untouched DEF DropCustomer, One, RelaySlotHeld, LeaseHeld, Unleased
<1>7. CASE DropRelaySlot(r)
  BY <1>2, <1>3, <1>7, Untouched DEF DropRelaySlot, One, RelaySlotHeld, LeaseHeld, Unleased
<1> QED
  BY <1>4, <1>5, <1>6, <1>7

(* The request slot is taken on the way in and given back with the answer. *)
LEMMA RequestBalances ==
    ASSUME PermitInv, FlightInv', NEW r \in Requests,
           TakeRequestSlot(r) \/ Respond(r) \/ \E ok \in BOOLEAN : Dial(r, ok)
    PROVE  PermitInv'
<1>1. UNCHANGED <<req, relaySlots, customers, discoverySlots, signingSlots, cache, cell>>
  BY DEF TakeRequestSlot, Respond, Dial, flightVars, slotVars
<1>2. res' \in [Requests -> Resolution] /\ cache' \in [Creators -> Resolution] /\ cell' \in [Requests -> Resolution]
  <2>1. "none" \in Resolution
    BY DEF Resolution, NoResult
  <2> QED
    BY <1>1, <2>1, Untouched DEF TakeRequestSlot, Respond, Dial, NoResult
<1>3. pc[r] \in {"request", "end", "dial"} /\ (pc[r] = "dial" => req[r].live)
  BY DEF TakeRequestSlot, Respond, Dial, PermitInv
<1>4. ASSUME NEW q \in {"cache", "unrelay", "done", "relaying"}, Goto(r, q), q \in {"unrelay", "relaying"} => req[r].live,
             q = "done" => ~req[r].live,
             requestSlots' = requestSlots - One(q \in Handling) + One(pc[r] \in Handling), 0 <= requestSlots'
      PROVE  PermitInv'
  <2>1. q \in Places /\ (q \in RelayPlaces => req[r].live) /\ q # "discover" /\ q # "signing"
    BY <1>4 DEF Places, RelayPlaces
  <2>2. (RelaySlotHeld(r, q) <=> RelaySlotHeld(r, pc[r])) /\ (LeaseHeld(r, q) <=> LeaseHeld(r, pc[r]))
    BY <1>3, <1>4 DEF RelaySlotHeld, LeaseHeld, Unleased
  <2>3. /\ discoverySlots' = discoverySlots - One(q = "discover") + One(pc[r] = "discover") /\ 0 <= discoverySlots'
        /\ signingSlots' = signingSlots - One(q = "signing") + One(pc[r] = "signing") /\ 0 <= signingSlots'
    BY <1>1, <1>3, <2>1, Untouched DEF One
  <2> QED
    BY <1>1, <1>2, <1>4, <2>1, <2>2, <2>3, MoveAside
<1>5. CASE TakeRequestSlot(r)
  BY <1>4, <1>5, Untouched DEF TakeRequestSlot, AfterHandler, One, Handling
<1>6. CASE Respond(r)
  BY <1>4, <1>6, Untouched DEF Respond, AfterHandler, One, Handling
<1>7. CASE \E ok \in BOOLEAN : Dial(r, ok)
  BY <1>3, <1>4, <1>7, Untouched DEF Dial, AfterHandler, One, Handling
<1> QED
  BY <1>5, <1>6, <1>7

(* Inside the handler, and within its request slot. *)
LEMMA HandlerMoves ==
    ASSUME PermitInv, FlightInv', NEW r \in Requests, NEW q \in Handling, Goto(r, q), pc[r] \in Handling,
           req' = req, UNCHANGED limitVars, q = "dial" => req[r].live,
           res' \in [Requests -> Resolution], cache' \in [Creators -> Resolution],
           cell' \in [Requests -> Resolution],
           discoverySlots' = discoverySlots - One(q = "discover") + One(pc[r] = "discover"),
           signingSlots' = signingSlots - One(q = "signing") + One(pc[r] = "signing"),
           0 <= discoverySlots', 0 <= signingSlots'
    PROVE  PermitInv'
<1>1. q \in Places /\ (q \in RelayPlaces => req[r].live)
  BY DEF Places, RelayPlaces, Handling
<1>2. (RelaySlotHeld(r, q) <=> RelaySlotHeld(r, pc[r])) /\ (LeaseHeld(r, q) <=> LeaseHeld(r, pc[r]))
  BY DEF RelaySlotHeld, LeaseHeld, Unleased, Handling
<1>3. UNCHANGED <<relaySlots, customers, requestSlots>>
  BY DEF limitVars
<1>4. requestSlots' = requestSlots - One(q \in Handling) + One(pc[r] \in Handling) /\ 0 <= requestSlots'
  BY <1>3, Untouched DEF One
<1> QED
  BY <1>1, <1>2, <1>3, <1>4, MoveAside

LEMMA SlotBounds ==
    ASSUME PermitInv, UNCHANGED slotVars, NEW p, p \notin {"discover", "signing"}, NEW q, q \notin {"discover", "signing"}
    PROVE  /\ discoverySlots' = discoverySlots - One(q = "discover") + One(p = "discover") /\ 0 <= discoverySlots'
           /\ signingSlots' = signingSlots - One(q = "signing") + One(p = "signing") /\ 0 <= signingSlots'
BY Untouched DEF One, slotVars

LEMMA ResolveBalances ==
    ASSUME PermitInv, FlightInv, FlightInv', NEW r \in Requests,
           CacheGet(r) \/ TakeLease(r) \/ ReadCell(r) \/ DropLease(r) \/ DropArc(r)
    PROVE  PermitInv'
<1>1. UNCHANGED <<req, limitVars, slotVars, cache, cell>>
  BY DEF CacheGet, TakeLease, ReadCell, DropLease, DropArc, flightVars
<1>2. cache' \in [Creators -> Resolution] /\ cell' \in [Requests -> Resolution]
  BY <1>1, Untouched
<1>3. /\ pc[r] \in {"cache", "lease", "cell", "unlease", "unlock"} /\ pc[r] \in Handling
      /\ pc[r] \notin {"discover", "signing"}
  BY DEF CacheGet, TakeLease, ReadCell, DropLease, DropArc, Handling
<1>4. res' \in [Requests -> Resolution]
  <2>1. CASE CacheGet(r)
    <3>1. cache[Creator(r)] \in Resolution
      BY Untouched DEF Creator
    <3> QED
      BY <2>1, <3>1, Untouched DEF CacheGet
  <2>2. CASE ReadCell(r)
    <3>1. flightOf[r] \in Requests
      BY <2>2 DEF ReadCell, FlightInv, Holding, Leased
    <3>2. cell[flightOf[r]] \in Resolution
      BY <3>1, Untouched
    <3> QED
      BY <2>2, <3>2, Untouched DEF ReadCell
  <2>3. CASE TakeLease(r)
    <3>1. "capacity" \in Resolution
      BY DEF Resolution, Failures
    <3> QED
      BY <2>3, <3>1, Untouched DEF TakeLease
  <2>4. CASE DropLease(r) \/ DropArc(r)
    BY <2>4, Untouched DEF DropLease, DropArc
  <2> QED
    BY <2>1, <2>2, <2>3, <2>4
<1>5. PICK q \in {"sign", "end", "lease", "cell", "unlease", "unlock"} : Goto(r, q)
  BY DEF CacheGet, TakeLease, ReadCell, DropLease, DropArc, AfterResolve
<1>6. q \in Handling /\ q # "dial" /\ q \notin {"discover", "signing"}
  BY DEF Handling
<1> QED
  BY <1>1, <1>2, <1>3, <1>4, <1>5, <1>6, SlotBounds, HandlerMoves

LEMMA PutType ==
    ASSUME PermitInv, NEW k \in Creators, NEW v \in Resolution, Put(k, v)
    PROVE  cache' \in [Creators -> Resolution]
<1>1. PICK out : cache' = [cache EXCEPT ![out] = NoResult, ![k] = v]
  BY DEF Put
<1>2. NoResult \in Resolution
  BY DEF Resolution
<1> QED
  BY <1>1, <1>2, Untouched

(* Looking a creator up holds one discovery permit, whether it ends with   *)
(* an answer or because the client hung up.                                *)
LEMMA DiscoveryBalances ==
    ASSUME PermitInv, FlightInv, FlightInv', NEW r \in Requests,
           InitCell(r) \/ CancelResolve(r) \/ \E kind \in Found \cup {"failed"} : Discovered(r, kind)
    PROVE  PermitInv'
<1>1. UNCHANGED <<req, limitVars, signingSlots>> /\ pc[r] \in {"cell", "discover"} /\ pc[r] \in Handling
  BY DEF InitCell, CancelResolve, Discovered, Handling
<1>2. ASSUME NEW q \in {"unlease", "discover"}, Goto(r, q),
             res' \in [Requests -> Resolution], cache' \in [Creators -> Resolution],
             cell' \in [Requests -> Resolution],
             discoverySlots' = discoverySlots - One(q = "discover") + One(pc[r] = "discover"), 0 <= discoverySlots'
      PROVE  PermitInv'
  <2>1. q \in Handling /\ q # "dial"
    BY DEF Handling
  <2>2. signingSlots' = signingSlots - One(q = "signing") + One(pc[r] = "signing") /\ 0 <= signingSlots'
    BY <1>1, Untouched DEF One
  <2> QED
    BY <1>1, <1>2, <2>1, <2>2, HandlerMoves
<1>3. CASE InitCell(r)
  <2> DEFINE v == cache[Creator(r)]
             found == IF v # NoResult THEN v ELSE "capacity"
  <2>1. found \in Resolution
    BY Untouched DEF Creator, Resolution, Failures
  <2>2. pc[r] = "cell" /\ cache' = cache
    BY <1>3 DEF InitCell
  <2>3. \/ /\ cell' = [cell EXCEPT ![flightOf[r]] = found] /\ res' = [res EXCEPT ![r] = found]
           /\ Goto(r, "unlease") /\ discoverySlots' = discoverySlots
        \/ /\ discoverySlots # 0 /\ discoverySlots' = discoverySlots - 1 /\ Goto(r, "discover")
           /\ cell' = cell /\ res' = res
    BY <1>3 DEF InitCell
  <2> HIDE DEF found
  <2>4. res' \in [Requests -> Resolution] /\ cache' \in [Creators -> Resolution] /\ cell' \in [Requests -> Resolution]
    BY <2>1, <2>2, <2>3, Untouched, ZenonT(30)
  <2>5. CASE Goto(r, "unlease") /\ discoverySlots' = discoverySlots
    BY <1>2, <2>2, <2>4, <2>5, Untouched DEF One
  <2>6. CASE discoverySlots # 0 /\ discoverySlots' = discoverySlots - 1 /\ Goto(r, "discover")
    <3>1. discoverySlots' = discoverySlots - One("discover" = "discover") + One(pc[r] = "discover") /\ 0 <= discoverySlots'
      BY <2>2, <2>6, Untouched, OneLess DEF One
    <3> QED
      BY <1>2, <2>4, <2>6, <3>1
  <2> QED
    BY <2>3, <2>5, <2>6
<1>4. CASE CancelResolve(r)
  <2>1. /\ Goto(r, "unlease") /\ cache' = cache /\ cell' = cell /\ res' = [res EXCEPT ![r] = "cancelled"]
        /\ discoverySlots' = IF pc[r] = "discover" THEN discoverySlots + 1 ELSE discoverySlots
    BY <1>4 DEF CancelResolve
  <2>2. "cancelled" \in Resolution
    BY DEF Resolution, Failures
  <2>3. res' \in [Requests -> Resolution] /\ cache' \in [Creators -> Resolution] /\ cell' \in [Requests -> Resolution]
    BY <2>1, <2>2, Untouched
  <2>4. discoverySlots' = discoverySlots - One("unlease" = "discover") + One(pc[r] = "discover") /\ 0 <= discoverySlots'
    BY <2>1, Untouched DEF One
  <2> QED
    BY <1>2, <2>1, <2>3, <2>4
<1>5. CASE \E kind \in Found \cup {"failed"} : Discovered(r, kind)
  <2>1. PICK v \in Found \cup {"failed"} : Discovered(r, v)
    BY <1>5
  <2>2. v \in Resolution /\ Creator(r) \in Creators
    BY Untouched DEF Resolution, Failures, Found, Creator
  <2>3. /\ pc[r] = "discover" /\ Goto(r, "unlease") /\ res' = [res EXCEPT ![r] = v]
        /\ cell' = [cell EXCEPT ![flightOf[r]] = v] /\ discoverySlots' = discoverySlots + 1
        /\ Put(Creator(r), v) \/ cache' = cache
    BY <2>1 DEF Discovered
  <2>4. cache' \in [Creators -> Resolution]
    BY <2>2, <2>3, Untouched, PutType
  <2>5. res' \in [Requests -> Resolution] /\ cell' \in [Requests -> Resolution]
    BY <2>2, <2>3, Untouched
  <2>6. discoverySlots' = discoverySlots - One("unlease" = "discover") + One(pc[r] = "discover") /\ 0 <= discoverySlots'
    BY <2>3, Untouched DEF One
  <2> QED
    BY <1>2, <2>3, <2>4, <2>5, <2>6
<1> QED
  BY <1>3, <1>4, <1>5

LEMMA SigningBalances ==
    ASSUME PermitInv, FlightInv', NEW r \in Requests,
           \/ TakeSigningSlot(r) \/ CancelSign(r)
           \/ \E outcome \in {"ticket", "refused", "failed"} : Signed(r, outcome)
    PROVE  PermitInv'
<1>1. UNCHANGED <<req, res, limitVars, discoverySlots, cell>> /\ pc[r] \in {"sign", "signing"} /\ pc[r] \in Handling
  BY DEF TakeSigningSlot, CancelSign, Signed, flightVars, Handling
<1>2. res' \in [Requests -> Resolution] /\ cell' \in [Requests -> Resolution]
  BY <1>1, Untouched
<1>3. cache' \in [Creators -> Resolution]
  <2>1. NoResult \in Resolution
    BY DEF Resolution
  <2> QED
    BY <2>1, Untouched DEF TakeSigningSlot, CancelSign, Signed
<1>4. ASSUME NEW q \in {"signing", "end", "dial"}, Goto(r, q), q = "dial" => req[r].live,
             signingSlots' = signingSlots - One(q = "signing") + One(pc[r] = "signing"), 0 <= signingSlots'
      PROVE  PermitInv'
  <2>1. q \in Handling
    BY DEF Handling
  <2>2. discoverySlots' = discoverySlots - One(q = "discover") + One(pc[r] = "discover") /\ 0 <= discoverySlots'
    BY <1>1, Untouched DEF One
  <2> QED
    BY <1>1, <1>2, <1>3, <1>4, <2>1, <2>2, HandlerMoves
<1>5. CASE TakeSigningSlot(r)
  <2>1. CASE Goto(r, "end") /\ signingSlots' = signingSlots /\ pc[r] = "sign"
    <3>1. signingSlots' = signingSlots - One("end" = "signing") + One(pc[r] = "signing") /\ 0 <= signingSlots'
      BY <2>1, Untouched DEF One
    <3> QED
      BY <1>4, <2>1, <3>1
  <2>2. CASE Goto(r, "signing") /\ signingSlots' = signingSlots - 1 /\ signingSlots # 0 /\ pc[r] = "sign"
    <3>1. signingSlots' = signingSlots - One("signing" = "signing") + One(pc[r] = "signing") /\ 0 <= signingSlots'
      BY <2>2, Untouched, OneLess DEF One
    <3> QED
      BY <1>4, <2>2, <3>1
  <2> QED
    BY <1>5, <2>1, <2>2 DEF TakeSigningSlot
<1>6. CASE CancelSign(r) \/ \E outcome \in {"ticket", "refused", "failed"} : Signed(r, outcome)
  <2>1. signingSlots' = signingSlots + 1 /\ pc[r] = "signing"
    BY <1>6 DEF CancelSign, Signed
  <2>2. PICK q \in {"end", "dial"} : Goto(r, q) /\ (q = "dial" => req[r].live)
    BY <1>6 DEF CancelSign, Signed
  <2>3. signingSlots' = signingSlots - One(q = "signing") + One(pc[r] = "signing") /\ 0 <= signingSlots'
    BY <2>1, Untouched DEF One
  <2> QED
    BY <1>4, <2>2, <2>3
<1> QED
  BY <1>5, <1>6

LEMMA PermitInit == Init => PermitInv
<1> SUFFICES ASSUME Init PROVE PermitInv
  OBVIOUS
<1>1. \A P : P \cap {"idle", "done"} = {} => At(P) = {}
  BY DEF Init, At
<1>2. Active = {} /\ Leases = {} /\ \A c : LeasesOf(c) = {}
  BY DEF Init, Active, Leases, LeasesOf, Unleased
<1>3. At({"discover"}) = {} /\ At({"signing"}) = {} /\ At(Handling) = {} /\ At({"customer", "unslot"}) = {}
  BY DEF Init, At, Handling
<1>4. TypeOK
  BY BrokerAssumption DEF Init, TypeOK, Places, Resolution, NoResult
<1>5. Permits
  <2>1. /\ Cardinality(At({"discover"})) = 0 /\ Cardinality(At({"signing"})) = 0 /\ Cardinality(At(Handling)) = 0
    BY <1>3, FS_EmptySet
  <2>2. /\ discoverySlots + 0 = MaxDiscovery /\ signingSlots + 0 = MaxSigns /\ requestSlots + 0 = MaxRequests
    BY BrokerAssumption DEF Init
  <2> QED
    BY <2>1, <2>2, Zenon DEF Permits, Handling
<1>6. RelayAccounting
  <2>1. /\ Cardinality(Leases) = 0 /\ Cardinality(At({"customer", "unslot"})) = 0
        /\ \A c \in Customers : Cardinality(LeasesOf(c)) = 0
    BY <1>2, <1>3, FS_EmptySet
  <2>2. relaySlots + 0 + 0 = MaxRelays /\ \A c \in Customers : customers[c] = 0
    BY BrokerAssumption DEF Init
  <2> QED
    BY <2>1, <2>2, Zenon DEF RelayAccounting, Leases, LeasesOf, Unleased
<1>7. IsFiniteSet(Active)
  BY <1>2, FS_EmptySet
<1> QED
  BY <1>4, <1>5, <1>6, <1>7 DEF Init, PermitInv, PermitsConserved, Active

LEMMA PermitStep == PermitInv /\ FlightInv /\ FlightInv' /\ [Next]_vars => PermitInv'
<1> SUFFICES ASSUME PermitInv, FlightInv, FlightInv', [Next]_vars PROVE PermitInv'
  OBVIOUS
<1>1. CASE UNCHANGED vars
  <2>1. UNCHANGED <<pc, req, res, relaySlots, customers, requestSlots, discoverySlots, signingSlots,
                    cache, flights, flightOf, cell, runner>>
    BY <1>1, Zenon DEF vars, limitVars, slotVars, flightVars
  <2>2. TypeOK'
    BY <2>1, Zenon DEF PermitInv, PermitsConserved, TypeOK
  <2> QED
    BY <2>1, <2>2, Zenon DEF PermitInv, PermitsConserved, Permits, RelayAccounting, At
<1>2. CASE \E k \in Creators : Expire(k)
  <2>1. UNCHANGED <<pc, req, res, relaySlots, customers, requestSlots, discoverySlots, signingSlots,
                    flights, flightOf, cell, runner>>
    BY <1>2, Zenon DEF Expire, limitVars, slotVars, flightVars
  <2>2. NoResult \in Resolution
    BY DEF Resolution
  <2>3. cache' \in [Creators -> Resolution]
    BY <1>2, <2>2, Untouched DEF Expire
  <2>4. TypeOK'
    BY <2>1, <2>3, Zenon DEF PermitInv, PermitsConserved, TypeOK
  <2> QED
    BY <2>1, <2>4, Zenon DEF PermitInv, PermitsConserved, Permits, RelayAccounting, At
<1>3. ASSUME NEW r \in Requests,
             \/ Arrive(r) \/ Serve(r) \/ RelayEnds(r)
             \/ CancelResolve(r) \/ CancelSign(r) \/ CancelAwait(r)
      PROVE  PermitInv'
  BY <1>3, ArriveBalances, RelayBalances, RequestBalances, ResolveBalances, DiscoveryBalances,
     SigningBalances DEF Serve
<1> QED
  BY <1>1, <1>2, <1>3 DEF Next

(* For any set of requests, finite or not, and any configuration: every    *)
(* permit is held by a request that uses it and comes back on every way    *)
(* out, and a customer is counted for exactly the relay leases it holds.   *)
THEOREM PermitsConservedHolds == Spec => []PermitsConserved
<1>1. Spec => []PermitInv
  BY PermitInit, PermitStep, FlightInvariance, PTL DEF Spec
<1>2. PermitInv => PermitsConserved
  BY DEF PermitInv
<1> QED
  BY <1>1, <1>2, PTL

--------------------------------------------------------------------------------
(* What Answered comes to without fairness: siblings that wait for a cell  *)
(* wait for a request that is looking up in that flight, never for one     *)
(* that has gone; and nobody looks up for a cell that is already set.      *)
Woken ==
    \A f \in Requests : runner[f] # None =>
        /\ runner[f] \in Requests /\ pc[runner[f]] = "discover" /\ flightOf[runner[f]] = f
        /\ cell[f] = NoResult

(* A result that a flight has got stays: every sibling reads the same one. *)
Settled == \A f \in Requests : cell[f] # NoResult => cell'[f] = cell[f]
SetOnce == [][Settled]_vars

LEMMA WokenAt ==
    ASSUME Woken, NEW f \in Requests, runner[f] # None
    PROVE  /\ runner[f] \in Requests /\ pc[runner[f]] = "discover" /\ flightOf[runner[f]] = f
           /\ cell[f] = NoResult
BY DEF Woken

(* A step of a request that is not looking up and starts no lookup.        *)
LEMMA WokenAlone ==
    ASSUME TypeOK, Woken, NEW r \in Requests, pc[r] # "discover", NEW q, Goto(r, q),
           NEW h, flightOf' = [flightOf EXCEPT ![r] = h],
           UNCHANGED <<cell, runner>>
    PROVE  Woken'
<1>1. ASSUME NEW f \in Requests, runner[f] # None
      PROVE  pc'[runner[f]] = "discover" /\ flightOf'[runner[f]] = f
  <2>1. runner[f] \in Requests /\ pc[runner[f]] = "discover" /\ flightOf[runner[f]] = f
    BY <1>1, WokenAt
  <2>2. runner[f] # r
    BY <2>1
  <2> QED
    BY <2>1, <2>2 DEF TypeOK, Goto
<1> QED
  BY <1>1 DEF Woken

(* Initializing the cell: only a cell that is empty is set, and only when  *)
(* nobody is initializing it.                                              *)
LEMMA WokenCell ==
    ASSUME TypeOK, FlightInv, Woken, NEW r \in Requests, InitCell(r)
    PROVE  Woken' /\ Settled
<1>1. /\ pc[r] = "cell" /\ flightOf[r] \in Requests /\ flightOf' = flightOf
      /\ cell[flightOf[r]] = NoResult /\ runner[flightOf[r]] = None
  BY DEF InitCell, FlightInv, Holding, Leased
<1>2. ASSUME NEW f \in Requests, runner[f] # None, NEW q, Goto(r, q)
      PROVE  /\ f # flightOf[r] /\ runner[f] \in Requests /\ pc'[runner[f]] = "discover"
             /\ flightOf[runner[f]] = f /\ cell[f] = NoResult
  <2>1. /\ runner[f] \in Requests /\ pc[runner[f]] = "discover" /\ flightOf[runner[f]] = f
        /\ cell[f] = NoResult
    BY <1>2, WokenAt
  <2>2. f # flightOf[r] /\ runner[f] # r
    BY <1>1, <1>2, <2>1
  <2> QED
    BY <1>2, <2>1, <2>2 DEF TypeOK, Goto
<1>3. CASE /\ runner' = [runner EXCEPT ![flightOf[r]] = r]
           /\ Goto(r, "discover") /\ cell' = cell
  <2>1. ASSUME NEW f \in Requests, runner'[f] # None
        PROVE  /\ runner'[f] \in Requests /\ pc'[runner'[f]] = "discover"
               /\ flightOf[runner'[f]] = f /\ cell[f] = NoResult
    <3>1. CASE f = flightOf[r]
      <4>1. runner'[f] = r /\ pc'[r] = "discover"
        BY <1>3, <3>1 DEF TypeOK, Goto
      <4> QED
        BY <1>1, <3>1, <4>1
    <3>2. CASE f # flightOf[r]
      <4>1. runner'[f] = runner[f]
        BY <1>3, <3>2 DEF TypeOK
      <4> QED
        BY <1>2, <1>3, <2>1, <4>1
    <3> QED
      BY <3>1, <3>2
  <2> QED
    BY <1>1, <1>3, <2>1 DEF Woken, Settled
<1>4. ASSUME NEW v, cell' = [cell EXCEPT ![flightOf[r]] = v], runner' = runner, Goto(r, "unlease")
      PROVE  Woken' /\ Settled
  <2>1. \A f \in Requests : f # flightOf[r] => cell'[f] = cell[f]
    BY <1>4 DEF TypeOK
  <2>2. ASSUME NEW f \in Requests, runner[f] # None
        PROVE  /\ runner[f] \in Requests /\ pc'[runner[f]] = "discover" /\ flightOf[runner[f]] = f
               /\ cell'[f] = NoResult
    BY <1>2, <1>4, <2>1, <2>2
  <2> QED
    BY <1>1, <1>4, <2>1, <2>2 DEF Woken, Settled
<1> QED
  BY <1>3, <1>4 DEF InitCell

(* Ending the initialization: the runner leaves with its own flight's cell *)
(* set, or, if its client hung up, with the cell as empty as it found it.  *)
LEMMA WokenEnds ==
    ASSUME TypeOK, FlightInv, Woken, NEW r \in Requests,
           (\E kind \in Found \cup {"failed"} : Discovered(r, kind)) \/ CancelResolve(r)
    PROVE  Woken' /\ Settled
<1>1. Goto(r, "unlease") /\ flightOf' = flightOf
  BY DEF Discovered, CancelResolve
<1>2. ASSUME NEW f \in Requests, runner[f] # None, runner[f] # r
      PROVE  /\ runner[f] \in Requests /\ pc'[runner[f]] = "discover" /\ flightOf[runner[f]] = f
             /\ cell[f] = NoResult
  <2>1. /\ runner[f] \in Requests /\ pc[runner[f]] = "discover" /\ flightOf[runner[f]] = f
        /\ cell[f] = NoResult
    BY <1>2, WokenAt
  <2> QED
    BY <1>1, <1>2, <2>1 DEF TypeOK, Goto
<1>3. CASE CancelResolve(r)
  <2>1. cell' = cell /\ \A f \in Requests : runner'[f] # None => runner'[f] = runner[f] /\ runner[f] # r
    BY <1>3 DEF CancelResolve
  <2> QED
    BY <1>1, <1>2, <2>1 DEF Woken, Settled
<1>4. ASSUME NEW v, Discovered(r, v) PROVE Woken' /\ Settled
  <2>1. pc[r] = "discover" /\ flightOf[r] \in Requests /\ runner[flightOf[r]] = r
    BY <1>4 DEF Discovered, FlightInv, Holding, Leased
  <2>2. cell[flightOf[r]] = NoResult
    BY <2>1, WokenAt, BrokerAssumption
  <2>3. /\ runner' = [runner EXCEPT ![flightOf[r]] = None] /\ cell' = [cell EXCEPT ![flightOf[r]] = v]
    BY <1>4 DEF Discovered
  <2>4. \A f \in Requests : f # flightOf[r] => runner'[f] = runner[f] /\ cell'[f] = cell[f]
    BY <2>3 DEF TypeOK
  <2>5. ASSUME NEW f \in Requests, runner'[f] # None
        PROVE  f # flightOf[r] /\ runner[f] # r /\ runner[f] # None
    <3>1. f # flightOf[r]
      BY <2>1, <2>3, <2>5 DEF TypeOK
    <3>2. runner[f] # None
      BY <2>4, <2>5, <3>1
    <3>3. flightOf[runner[f]] = f
      BY <3>2, WokenAt
    <3> QED
      BY <3>1, <3>2, <3>3
  <2>6. Woken'
    BY <1>1, <1>2, <2>4, <2>5 DEF Woken
  <2> QED
    BY <2>2, <2>4, <2>6 DEF Settled
<1> QED
  BY <1>3, <1>4

LEMMA WokenServe ==
    ASSUME TypeOK, FlightInv, Woken, NEW r \in Requests,
           \/ Arrive(r) \/ Serve(r) \/ RelayEnds(r)
           \/ CancelResolve(r) \/ CancelSign(r) \/ CancelAwait(r)
    PROVE  Woken' /\ Settled
<1> DEFINE Alone ==
             /\ pc[r] # "discover" /\ \E q : Goto(r, q)
             /\ \E h : flightOf' = [flightOf EXCEPT ![r] = h]
             /\ UNCHANGED <<cell, runner>>
<1>1. ASSUME Alone PROVE Woken' /\ Settled
  BY <1>1, WokenAlone DEF Settled
<1>2. flightOf' = flightOf => \E h : flightOf' = [flightOf EXCEPT ![r] = h]
  <2>1. flightOf = [flightOf EXCEPT ![r] = flightOf[r]]
    BY DEF TypeOK
  <2> QED
    BY <2>1
<1>3. CASE \/ Arrive(r) \/ TakeRelaySlot(r) \/ CountCustomer(r) \/ TakeRequestSlot(r)
           \/ CacheGet(r) \/ TakeLease(r) \/ ReadCell(r)
  BY <1>1, <1>2, <1>3 DEF Arrive, TakeRelaySlot, CountCustomer, TakeRequestSlot, CacheGet,
     TakeLease, ReadCell, flightVars
<1>4. CASE \/ DropLease(r) \/ DropArc(r) \/ TakeSigningSlot(r) \/ Respond(r) \/ DropCustomer(r)
           \/ DropRelaySlot(r) \/ RelayEnds(r) \/ CancelSign(r) \/ CancelAwait(r)
  BY <1>1, <1>2, <1>4 DEF DropLease, DropArc, TakeSigningSlot, Respond, DropCustomer,
     DropRelaySlot, RelayEnds, CancelSign, CancelAwait, flightVars
<1>5. CASE \/ \E outcome \in {"ticket", "refused", "failed"} : Signed(r, outcome)
           \/ \E ok \in BOOLEAN : Dial(r, ok)
  BY <1>1, <1>2, <1>5 DEF Signed, Dial, flightVars
<1> QED
  BY <1>3, <1>4, <1>5, WokenCell, WokenEnds DEF Serve

LEMMA WokenNext ==
    ASSUME TypeOK, FlightInv, Woken, [Next]_vars
    PROVE  Woken' /\ Settled
<1>1. CASE UNCHANGED vars
  BY <1>1 DEF vars, flightVars, Woken, Settled
<1>2. CASE \E k \in Creators : Expire(k)
  BY <1>2 DEF Expire, flightVars, Woken, Settled
<1> QED
  BY <1>1, <1>2, WokenServe DEF Next

(* No wake-up is lost: whoever initializes a cell is a request under way   *)
(* in that very flight and the cell is still empty; when its client hangs  *)
(* up, the place is free for a sibling in the same step.                   *)
THEOREM WokenHolds == Spec => []Woken
<1>1. Init => Woken
  BY DEF Init, Woken
<1>2. TypeOK /\ FlightInv /\ Woken /\ [Next]_vars => Woken'
  BY WokenNext
<1>3. PermitsConserved => TypeOK
  BY DEF PermitsConserved
<1> QED
  BY <1>1, <1>2, <1>3, FlightInvariance, PermitsConservedHolds, PTL DEF Spec

(* A flight gets one result: a lookup, a full semaphore and a sibling that *)
(* takes over from a cancelled one never replace what others may have read. *)
THEOREM SetOnceHolds == Spec => SetOnce
<1>1. TypeOK /\ FlightInv /\ Woken /\ [Next]_vars => [Settled]_vars
  BY WokenNext
<1>2. PermitsConserved => TypeOK
  BY DEF PermitsConserved
<1> QED
  BY <1>1, <1>2, FlightInvariance, PermitsConservedHolds, WokenHolds, PTL DEF Spec, SetOnce

--------------------------------------------------------------------------------
(* The Java client. Its critical sections are operators from record to     *)
(* record, so the lemmas are about those: what each leaves of a record.    *)

(* What ends a connection: the socket is cancelled, the timers cancelled,  *)
(* and the generation left behind.                                         *)
Tame(c, d) ==
    /\ \A s \in d.sockets :
           \E old \in c.sockets : s.token = old.token /\ (~s.cancelled => s = old)
    /\ \A s \in d.sockets : s.token = c.socket => s.cancelled

Ended(c, d) ==
    /\ d \in Clients
    /\ d.closed = c.closed /\ d.generation > c.generation
    /\ d.timers = [k \in Timers |-> NoToken] /\ d.socket = NoToken
    /\ ~d.connected
    /\ Tame(c, d)

(* The socket of an attempt is cancelled. *)
Cancels(c, d, t) ==
    /\ d = [c EXCEPT !.sockets = d.sockets]
    /\ d.sockets \subseteq Sockets
    /\ \A s \in d.sockets :
           \E old \in c.sockets :
               s.token = old.token /\ s.phase = old.phase /\ (~s.cancelled => s = old)
    /\ \A s \in d.sockets : IF s.token = t THEN s.cancelled ELSE s \in c.sockets

LEMMA CancelSocketFacts ==
    ASSUME NEW c \in Clients, NEW t \in Nat
    PROVE  Cancels(c, CancelSocket(c, t), t)
  <1> DEFINE Cancelled(s) == IF s.token = t THEN [s EXCEPT !.cancelled = TRUE] ELSE s
             d == CancelSocket(c, t)
             S == {Cancelled(s) : s \in c.sockets}
  <1>1. d = [c EXCEPT !.sockets = S]
    BY DEF CancelSocket, Clients
  <1>2. d = [c EXCEPT !.sockets = d.sockets] /\ d.sockets = S
    BY <1>1 DEF Clients
  <1>3. \A s \in c.sockets : s \in Sockets
    BY DEF Clients, SocketSets
  <1>4. \A s \in c.sockets :
           /\ Cancelled(s) \in Sockets
           /\ Cancelled(s).token = s.token /\ Cancelled(s).phase = s.phase
           /\ ~Cancelled(s).cancelled => Cancelled(s) = s
           /\ IF s.token = t THEN Cancelled(s).cancelled ELSE Cancelled(s) = s
    BY <1>3 DEF Sockets
  <1> HIDE DEF Cancelled
  <1> QED
    BY <1>2, <1>4 DEF d, Cancels

(* stopSocket() takes away the socket and the timers, and nothing else.    *)
Stops(c, d) ==
    /\ d = [c EXCEPT !.sockets = d.sockets, !.timers = [k \in Timers |-> NoToken],
                     !.socket = NoToken]
    /\ d.sockets \subseteq Sockets
    /\ Tame(c, d)

LEMMA StopSocketFacts == ASSUME NEW c \in Clients PROVE Stops(c, StopSocket(c))
  <1> DEFINE e == CancelSocket(c, c.socket)
             d == StopSocket(c)
  <1>1. c.socket \in Nat
    BY DEF Clients
  <1>2. Cancels(c, e, c.socket)
    BY <1>1, CancelSocketFacts
  <1>3. d = [e EXCEPT !.timers = [k \in Timers |-> NoToken], !.socket = NoToken]
    BY DEF StopSocket
  <1> HIDE DEF e, d
  <1>4. /\ d = [c EXCEPT !.sockets = e.sockets, !.timers = [k \in Timers |-> NoToken],
                         !.socket = NoToken]
        /\ d.sockets = e.sockets
    BY <1>2, <1>3 DEF Clients, Cancels
  <1>5. Tame(c, d)
    BY <1>2, <1>4 DEF Tame, Cancels
  <1> QED
    BY <1>2, <1>4, <1>5 DEF d, Stops, Cancels

(* What disconnect() and an overflow leave. *)
Abandoned(c, d) ==
    /\ Ended(c, d)
    /\ ~d.active /\ d.queue = <<>> /\ d.stopped = c.stopped

LEMMA AbandonFacts ==
    ASSUME NEW c \in Clients
    PROVE  /\ Abandoned(c, Abandon(c))
           /\ Abandon(c).pending = c.pending /\ Abandon(c).future = c.future
           /\ Abandon(c).completing = c.completing
  <1> DEFINE b == [c EXCEPT !.active = FALSE, !.generation = @ + 1, !.queue = <<>>]
             e == StopSocket(b)
             d == Abandon(c)
  <1>0. <<>> \in Queues
    BY DEF Queues
  <1>a. c.generation + 1 \in Nat
    BY DEF Clients
  <1>1. b \in Clients
    BY <1>0, <1>a DEF Clients
  <1>2. /\ b.sockets = c.sockets /\ b.closed = c.closed /\ b.stopped = c.stopped
        /\ b.socket = c.socket /\ b.generation = c.generation + 1 /\ ~b.active
        /\ b.queue = <<>> /\ b.pending = c.pending /\ b.future = c.future
        /\ b.completing = c.completing /\ c.generation \in Nat
    BY DEF Clients
  <1>3. Stops(b, e)
    BY <1>1, StopSocketFacts
  <1>4. d = [e EXCEPT !.connected = FALSE]
    BY DEF Abandon
  <1> HIDE DEF b, e, d
  <1>5. [k \in Timers |-> NoToken] \in Armings
    BY DEF Armings, NoToken
  <1>6. /\ d.sockets = e.sockets /\ d.closed = b.closed /\ d.stopped = b.stopped
        /\ d.socket = NoToken /\ d.generation = b.generation /\ ~d.active
        /\ d.queue = <<>> /\ d.pending = b.pending /\ d.future = b.future /\ ~d.connected
        /\ d.completing = b.completing /\ d.timers = [k \in Timers |-> NoToken]
    BY <1>1, <1>2, <1>3, <1>4 DEF Clients, Stops
  <1>7. d = [b EXCEPT !.sockets = e.sockets, !.timers = [k \in Timers |-> NoToken],
                      !.socket = NoToken, !.connected = FALSE]
    BY <1>1, <1>3, <1>4 DEF Clients, Stops
  <1>b. e.sockets \in SocketSets /\ NoToken \in Nat
    BY <1>3 DEF SocketSets, Stops, NoToken
  <1>9. d \in Clients
    BY <1>1, <1>b, <1>7, <1>5 DEF Clients
  <1>8. Tame(c, d)
    BY <1>2, <1>3, <1>6 DEF Tame, Stops
  <1> QED
    BY <1>2, <1>6, <1>9, <1>8 DEF Abandoned, Ended, d

LEMMA EndedTwice ==
    ASSUME NEW c, NEW d, NEW e, c \in Clients, Ended(c, d), Ended(d, e)
    PROVE  Ended(c, e)
  <1>1. /\ e \in Clients /\ e.closed = c.closed
        /\ e.timers = [k \in Timers |-> NoToken] /\ e.socket = NoToken /\ ~e.connected
    BY DEF Ended
  <1>2. e.generation > c.generation
    <2>1. c.generation \in Nat /\ d.generation \in Nat /\ e.generation \in Nat
      BY DEF Ended, Clients
    <2> QED
      BY <2>1 DEF Ended
  <1>3. Tame(c, e)
    BY DEF Ended, Tame
  <1> QED
    BY <1>1, <1>2, <1>3 DEF Ended

(* The future's handler abandons what was abandoned before. *)
LEMMA CancelPendingFacts ==
    ASSUME NEW c \in Clients
    PROVE  Abandoned(c, CancelPending(Abandon(c)))
  <1> DEFINE a == Abandon(c)
             b == [a EXCEPT !.future[a.pending] = "cancelled"]
  <1>1. Abandoned(c, a) /\ a \in Clients
    BY AbandonFacts DEF Abandoned, Ended
  <1>2. CancelPending(a) = IF PendingOpen(a) THEN Abandon(b) ELSE a
    BY DEF CancelPending
  <1> HIDE DEF a
  <1>3. b \in Clients
    <2>1. [a.future EXCEPT ![a.pending] = "cancelled"]
              \in Futures
      BY <1>1 DEF Clients, Futures
    <2>2. b = [a EXCEPT !.future = [a.future EXCEPT ![a.pending] = "cancelled"]]
      OBVIOUS
    <2> QED
      BY <1>1, <2>1, <2>2 DEF Clients
  <1>4. /\ b.closed = a.closed /\ b.generation = a.generation /\ b.socket = a.socket
        /\ b.sockets = a.sockets /\ b.stopped = a.stopped
    BY <1>1 DEF Clients
  <1>5. CASE PendingOpen(a)
    <2>1. Abandoned(b, Abandon(b))
      BY <1>3, AbandonFacts
    <2>2. Abandoned(a, Abandon(b))
      BY <2>1, <1>4 DEF Abandoned, Ended, Tame
    <2>3. Ended(c, Abandon(b))
      BY <1>1, <2>2, EndedTwice DEF Abandoned
    <2> QED
      BY <1>1, <1>2, <1>5, <2>2, <2>3 DEF Abandoned, a
  <1>6. CASE ~PendingOpen(a)
    BY <1>1, <1>2, <1>6 DEF a
  <1> QED
    BY <1>5, <1>6

(* emit(): nothing, a task at the end of the queue, or an overflow, which  *)
(* leaves nothing but its own report.                                      *)
NewTask(c, name, from) == [name |-> name, token |-> c.generation, from |-> from]

Overflows(c, d) ==
    /\ Ended(c, d)
    /\ ~c.closed /\ ~c.stopped /\ d.stopped /\ ~d.active
    /\ d.queue = <<NewTask(d, "overload", NoToken)>>

Emits(c, d, name, from) ==
    /\ d \in Clients
    /\ \/ (c.closed \/ c.stopped) /\ d = c
       \/ /\ ~c.closed /\ ~c.stopped /\ Len(c.queue) < TaskCapacity
          /\ d = [c EXCEPT !.queue = Append(c.queue, NewTask(c, name, from))]
       \/ Overflows(c, d)

LEMMA PutTaskFacts ==
    ASSUME NEW c \in Clients, NEW name \in Names, NEW from \in Nat
    PROVE  /\ PutTask(c, name, from)
                  = [c EXCEPT !.queue = Append(c.queue, NewTask(c, name, from))]
           /\ PutTask(c, name, from) \in Clients
  <1> DEFINE q == Append(c.queue, NewTask(c, name, from))
  <1>1. PutTask(c, name, from) = [c EXCEPT !.queue = q]
    BY DEF PutTask, NewTask
  <1>2. q \in Queues
    <2>1. NewTask(c, name, from) \in Tasks /\ c.queue \in Seq(Tasks)
      BY DEF NewTask, Tasks, Clients, Queues
    <2> QED
      BY <2>1, AppendProperties DEF Queues
  <1> HIDE DEF q
  <1>3. [c EXCEPT !.queue = q] \in Clients
    BY <1>2 DEF Clients
  <1> QED
    BY <1>1, <1>3 DEF q

LEMMA OverflowFacts ==
    ASSUME NEW c \in Clients, ~c.closed, ~c.stopped
    PROVE  Overflows(c, Overflow(c))
  <1> DEFINE b == [c EXCEPT !.stopped = TRUE]
             a == CancelPending(Abandon(b))
             d == Overflow(c)
  <1>1. b \in Clients
    BY DEF Clients
  <1>2. /\ b.closed = c.closed /\ b.generation = c.generation /\ b.socket = c.socket
        /\ b.sockets = c.sockets /\ b.stopped
    BY DEF Clients
  <1>3. Abandoned(b, a)
    BY <1>1, CancelPendingFacts
  <1>4. d = PutTask(a, "overload", NoToken)
    BY DEF Overflow
  <1> HIDE DEF a, b, d
  <1>5. a \in Clients
    BY <1>3 DEF Abandoned, Ended
  <1>6. /\ d = [a EXCEPT !.queue = Append(a.queue, NewTask(a, "overload", NoToken))]
        /\ d \in Clients
    BY <1>4, <1>5, PutTaskFacts DEF Names, NoToken
  <1>7. /\ d.closed = a.closed /\ d.generation = a.generation /\ d.socket = a.socket
        /\ d.sockets = a.sockets /\ d.stopped = a.stopped /\ d.timers = a.timers
        /\ d.connected = a.connected /\ d.active = a.active
        /\ d.queue = Append(a.queue, NewTask(a, "overload", NoToken))
    BY <1>5, <1>6 DEF Clients
  <1>8. d.queue = <<NewTask(d, "overload", NoToken)>>
    BY <1>3, <1>7 DEF Abandoned, NewTask
  <1>9. Ended(c, d)
    BY <1>2, <1>3, <1>6, <1>7 DEF Abandoned, Ended, Tame
  <1> QED
    BY <1>2, <1>3, <1>7, <1>8, <1>9 DEF Abandoned, Overflows, d

LEMMA EmitFacts ==
    ASSUME NEW c \in Clients, NEW name \in Names, NEW from \in Nat
    PROVE  Emits(c, EmitFrom(c, name, from), name, from)
  <1>1. CASE c.closed \/ c.stopped
    BY <1>1 DEF EmitFrom, Emits
  <1>2. CASE ~c.closed /\ ~c.stopped /\ Len(c.queue) < TaskCapacity
    BY <1>2, PutTaskFacts DEF EmitFrom, Emits
  <1>3. CASE ~c.closed /\ ~c.stopped /\ ~(Len(c.queue) < TaskCapacity)
    BY <1>3, OverflowFacts DEF EmitFrom, Emits, Overflows, Ended
  <1> QED
    BY <1>1, <1>2, <1>3

(* What ended holds no socket and no timer any more.                       *)
Quiet(c) ==
    /\ \A s \in c.sockets : s.phase = "open" => s.cancelled
    /\ ~OwnBeat(c) /\ c.timers["deadline"] = NoToken

LEMMA EndedIsQuiet ==
    ASSUME NEW c \in Clients, NEW d, OwnedHandles(c), Ended(c, d)
    PROVE  Quiet(d)
  <1>1. ASSUME NEW s \in d.sockets, s.phase = "open", ~s.cancelled
        PROVE  FALSE
    <2>1. s \in c.sockets /\ (s.token = c.socket => s.cancelled)
      BY <1>1 DEF Ended, Tame
    <2> QED
      BY <1>1, <2>1 DEF OwnedHandles
  <1>2. d.timers["heartbeat"] = NoToken /\ d.timers["deadline"] = NoToken
    BY DEF Ended, Timers
  <1> QED
    BY <1>1, <1>2 DEF Quiet, OwnBeat

(* A generation that nothing has a token of yet. *)
Fresh(c, lk, ct, tm) ==
    /\ \A t \in lk \cup ct : t < c.generation
    /\ \A s \in c.sockets : s.token < c.generation
    /\ tm.token < c.generation

Ready(c, lk, ct, tm) == Holds(c, lk, ct, tm) /\ Quiet(c) /\ Fresh(c, lk, ct, tm)

LEMMA ReadyEnded ==
    ASSUME NEW c \in Clients, NEW d, NEW lk \in SUBSET Nat, NEW ct \in SUBSET Nat,
           NEW tm \in [kind : Timers \cup {"none"}, token : Nat],
           Holds(c, lk, ct, tm), Ended(c, d), OwnTasks(d), d.closed => d.queue = <<>>
    PROVE  Ready(d, lk, ct, tm)
  <1>1. /\ c.generation \in Nat /\ d.generation \in Nat /\ d.generation > c.generation
        /\ d.timers["reconnect"] = 0 /\ d.timers["heartbeat"] = 0 /\ tm.token \in Nat
        /\ d \in Clients
    BY DEF Ended, Clients, Timers, NoToken
  <1>2. Quiet(d) /\ OwnedHandles(d)
    <2>1. Quiet(d)
      BY EndedIsQuiet DEF Holds
    <2> QED
      BY <2>1 DEF Quiet, OwnBeat, OwnedHandles
  <1>3. \A s \in d.sockets : s.token < d.generation
    <2>1. ASSUME NEW s \in d.sockets
          PROVE  s.token < d.generation
      <3>1. PICK old \in c.sockets : s.token = old.token
        BY DEF Ended, Tame
      <3>2. old.token \in Nat /\ old.token <= c.generation
        BY DEF Holds, Behind, Clients, SocketSets, Sockets
      <3> QED
        BY <1>1, <3>1, <3>2
    <2> QED
      BY <2>1
  <1>4. \A t \in lk \cup ct : t < d.generation
    <2>1. \A t \in lk \cup ct : t \in Nat /\ t <= c.generation
      BY DEF Holds, Behind
    <2> QED
      BY <1>1, <2>1
  <1>5. tm.token < d.generation
    BY <1>1 DEF Holds, Behind
  <1>6. Behind(d, lk, ct, tm)
    <2>1. \A s \in d.sockets : s.token \in Nat
      BY <1>1 DEF Clients, SocketSets, Sockets
    <2> QED
      BY <1>1, <1>3, <1>4, <1>5, <2>1 DEF Behind
  <1>7. InOnePlace(d, lk, ct, tm)
    BY <1>1, <1>3, <1>4, <1>5 DEF InOnePlace, Armed, Started
  <1>8. Fresh(d, lk, ct, tm)
    BY <1>3, <1>4, <1>5 DEF Fresh
  <1> QED
    BY <1>2, <1>6, <1>7, <1>8 DEF Holds, Ready

(* A record that differs in what the connection does not depend on. *)
SameConnection(c, d) ==
    /\ d.active = c.active /\ d.closed = c.closed /\ d.generation = c.generation
    /\ d.sockets = c.sockets /\ d.timers = c.timers /\ d.socket = c.socket
    /\ d.stray = c.stray

LEMMA HoldsSame ==
    ASSUME NEW c, NEW d, NEW lk, NEW ct, NEW tm,
           Holds(c, lk, ct, tm), SameConnection(c, d), OwnTasks(d), d.closed => d.queue = <<>>
    PROVE  Holds(d, lk, ct, tm)
  <1>1. OwnedHandles(d)
    BY DEF Holds, OwnedHandles, SameConnection, Valid
  <1>2. Behind(d, lk, ct, tm)
    BY DEF Holds, Behind, SameConnection
  <1>3. InOnePlace(d, lk, ct, tm)
    BY DEF Holds, InOnePlace, SameConnection, Armed, Started, HasSocket, HasTimers, OwnBeat
  <1> QED
    BY <1>1, <1>2, <1>3 DEF Holds

LEMMA OwnTasksAppended ==
    ASSUME NEW c \in Clients, NEW name \in Names, NEW from \in Nat,
           name = "event" => from = c.generation, Len(c.queue) < TaskCapacity, OwnTasks(c),
           TaskCapacity \in Nat,
           NEW d, d = [c EXCEPT !.queue = Append(c.queue, NewTask(c, name, from))]
    PROVE  OwnTasks(d)
  <1> DEFINE task == NewTask(c, name, from)
  <1>1. /\ c.queue \in Seq(Tasks) /\ task \in Tasks /\ c.generation \in Nat
        /\ task.token = c.generation /\ task.name = name /\ task.from = from
    BY DEF Clients, Queues, NewTask, Tasks
  <1>2. d.queue = Append(c.queue, task) /\ d.generation = c.generation
    BY DEF Clients
  <1> HIDE DEF task
  <1>3. /\ Len(d.queue) = Len(c.queue) + 1 /\ Len(c.queue) \in Nat
        /\ DOMAIN d.queue = 1 .. Len(c.queue) + 1 /\ DOMAIN c.queue = 1 .. Len(c.queue)
        /\ \A i \in 1 .. Len(c.queue) : d.queue[i] = c.queue[i]
        /\ d.queue[Len(c.queue) + 1] = task
    BY <1>1, <1>2, AppendProperties, LenProperties
  <1>4. Len(d.queue) <= TaskCapacity
    BY <1>3
  <1>5. ASSUME NEW i \in DOMAIN d.queue
        PROVE  /\ d.queue[i].token <= d.generation
               /\ d.queue[i].name = "event" => d.queue[i].from = d.queue[i].token
    <2>1. CASE i \in DOMAIN c.queue
      BY <1>2, <1>3, <2>1 DEF OwnTasks
    <2>2. CASE i = Len(c.queue) + 1
      BY <1>1, <1>2, <1>3, <2>2
    <2> QED
      BY <1>3, <1>5, <2>1, <2>2
  <1> QED
    BY <1>4, <1>5 DEF OwnTasks

Timings == [kind : Timers \cup {"none"}, token : Nat]

LEMMA OverflowOwnsTasks ==
    ASSUME NEW c, NEW d, Overflows(c, d), TaskCapacity \in Nat \ {0}
    PROVE  OwnTasks(d)
  <1> DEFINE task == NewTask(d, "overload", NoToken)
  <1>1. d.queue = <<task>> /\ d.generation \in Nat
    BY DEF Overflows, Ended, Clients
  <1>2. task.name = "overload" /\ task.token = d.generation
    BY DEF NewTask
  <1> HIDE DEF task
  <1>3. Len(d.queue) = 1 /\ DOMAIN d.queue = {1} /\ d.queue[1] = task
    BY <1>1
  <1> QED
    BY <1>1, <1>2, <1>3 DEF OwnTasks

(* Whatever emit() does, the record it leaves is as sound as before.       *)
LEMMA HoldsEmits ==
    ASSUME NEW c \in Clients, NEW name \in Names, NEW from \in Nat,
           NEW lk \in SUBSET Nat, NEW ct \in SUBSET Nat, NEW tm \in Timings,
           TaskCapacity \in Nat \ {0},
           Holds(c, lk, ct, tm), name = "event" => from = c.generation,
           NEW d, Emits(c, d, name, from)
    PROVE  /\ Holds(d, lk, ct, tm)
           /\ Quiet(c) => Quiet(d)
           /\ Fresh(c, lk, ct, tm) => Fresh(d, lk, ct, tm)
  <1>2. d \in Clients
    BY DEF Emits
  <1>3. CASE d = c
    BY <1>2, <1>3
  <1>4. CASE /\ ~c.closed /\ ~c.stopped /\ Len(c.queue) < TaskCapacity
             /\ d = [c EXCEPT !.queue = Append(c.queue, NewTask(c, name, from))]
    <2>1. OwnTasks(d)
      BY <1>4, OwnTasksAppended DEF Holds
    <2>2. SameConnection(c, d)
      BY <1>4 DEF SameConnection, Clients
    <2>3. Holds(d, lk, ct, tm)
      BY <1>4, <2>1, <2>2, HoldsSame DEF SameConnection
    <2> QED
      BY <2>2, <2>3 DEF Quiet, OwnBeat, Fresh, SameConnection
  <1>5. CASE Overflows(c, d)
    <2>1. OwnTasks(d)
      BY <1>5, OverflowOwnsTasks
    <2>2. Ready(d, lk, ct, tm)
      BY <1>5, <2>1, ReadyEnded DEF Overflows, Ended, Timings
    <2> QED
      BY <2>2 DEF Ready
  <1> QED
    BY <1>3, <1>4, <1>5 DEF Emits

LEMMA HoldsEmit ==
    ASSUME NEW c \in Clients, NEW name \in Names,
           NEW lk \in SUBSET Nat, NEW ct \in SUBSET Nat, NEW tm \in Timings,
           TaskCapacity \in Nat \ {0}, Holds(c, lk, ct, tm)
    PROVE  LET d == Emit(c, name)
           IN  /\ d \in Clients
               /\ Holds(d, lk, ct, tm)
               /\ Ready(c, lk, ct, tm) => Ready(d, lk, ct, tm)
  <1> DEFINE d == Emit(c, name)
  <1>1. c.generation \in Nat
    BY DEF Clients
  <1>2. Emits(c, d, name, c.generation) /\ d \in Clients
    BY <1>1, EmitFacts DEF Emit, Emits
  <1>3. /\ Holds(d, lk, ct, tm)
        /\ Quiet(c) => Quiet(d)
        /\ Fresh(c, lk, ct, tm) => Fresh(d, lk, ct, tm)
    BY <1>1, <1>2, HoldsEmits
  <1> QED
    BY <1>2, <1>3 DEF Ready

(* The emits of a batch, received in the connection that is still there.   *)
EventsOf(c, n) == [i \in 1 .. n |-> NewTask(c, "event", c.generation)]

LEMMA BatchFacts ==
    ASSUME NEW c \in Clients, NEW n \in Nat, TaskCapacity \in Nat \ {0}
    PROVE  LET d == EmitBatch(c, n, c.generation)
           IN  /\ d \in Clients
               /\ \/ (c.closed \/ c.stopped) /\ d = c
                  \/ /\ ~c.closed /\ ~c.stopped /\ Len(c.queue) + n <= TaskCapacity
                     /\ d = [c EXCEPT !.queue = c.queue \o EventsOf(c, n)]
                     /\ EventsOf(c, n) \in Seq(Tasks)
                  \/ Overflows(c, d)
  <1> DEFINE d == EmitBatch(c, n, c.generation)
  <1>1. CASE c.closed \/ c.stopped
    BY <1>1 DEF EmitBatch
  <1>2. CASE ~c.closed /\ ~c.stopped /\ Len(c.queue) + n > TaskCapacity
    BY <1>2, OverflowFacts DEF EmitBatch, Overflows, Ended
  <1>3. CASE ~c.closed /\ ~c.stopped /\ ~(Len(c.queue) + n > TaskCapacity)
    <2>1. NewTask(c, "event", c.generation) \in Tasks
      BY DEF NewTask, Tasks, Names, Clients
    <2>2. EventsOf(c, n) \in Seq(Tasks)
      BY <2>1 DEF EventsOf
    <2>3. c.queue \in Seq(Tasks) /\ Len(c.queue) \in Nat
      BY DEF Clients, Queues
    <2>4. c.queue \o EventsOf(c, n) \in Queues
      BY <2>2, <2>3, ConcatProperties DEF Queues
    <2>5. d = [c EXCEPT !.queue = c.queue \o EventsOf(c, n)]
      BY <1>3 DEF EmitBatch, EventsOf, NewTask
    <2>6. [c EXCEPT !.queue = c.queue \o EventsOf(c, n)] \in Clients
      BY <2>4 DEF Clients
    <2>7. Len(c.queue) + n <= TaskCapacity
      BY <1>3, <2>3
    <2> QED
      BY <1>3, <2>2, <2>5, <2>6, <2>7
  <1> QED
    BY <1>1, <1>2, <1>3

LEMMA HoldsBatch ==
    ASSUME NEW c \in Clients, NEW n \in Nat,
           NEW lk \in SUBSET Nat, NEW ct \in SUBSET Nat, NEW tm \in Timings,
           TaskCapacity \in Nat \ {0}, Holds(c, lk, ct, tm)
    PROVE  LET d == EmitBatch(c, n, c.generation)
           IN  d \in Clients /\ Holds(d, lk, ct, tm)
  <1> DEFINE d == EmitBatch(c, n, c.generation)
             added == EventsOf(c, n)
  <1>1. d \in Clients
    BY BatchFacts
  <1>2. \/ (c.closed \/ c.stopped) /\ d = c
        \/ /\ ~c.closed /\ ~c.stopped /\ Len(c.queue) + n <= TaskCapacity
           /\ d = [c EXCEPT !.queue = c.queue \o added]
           /\ added \in Seq(Tasks)
        \/ Overflows(c, d)
    BY BatchFacts
  <1>3. /\ Len(added) = n
        /\ \A i \in 1 .. n : added[i].token = c.generation /\ added[i].from = c.generation
    BY DEF EventsOf, NewTask
  <1> HIDE DEF d, added
  <1>4. ASSUME d = c
        PROVE  Holds(d, lk, ct, tm)
    BY <1>4
  <1>5. ASSUME ~c.closed, ~c.stopped, Len(c.queue) + n <= TaskCapacity,
               d = [c EXCEPT !.queue = c.queue \o added],
               added \in Seq(Tasks)
        PROVE  Holds(d, lk, ct, tm)
    <2>1. SameConnection(c, d) /\ d.queue = c.queue \o added
      BY <1>5 DEF SameConnection, Clients
    <2>2. c.queue \in Seq(Tasks) /\ Len(c.queue) \in Nat /\ DOMAIN c.queue = 1 .. Len(c.queue)
          /\ c.generation \in Nat
      BY DEF Clients, Queues
    <2>3. /\ Len(d.queue) = Len(c.queue) + n /\ DOMAIN d.queue = 1 .. Len(c.queue) + n
          /\ \A i \in 1 .. Len(c.queue) : d.queue[i] = c.queue[i]
          /\ \A i \in Len(c.queue) + 1 .. Len(c.queue) + n :
                 d.queue[i] = added[i - Len(c.queue)]
      <3>1. /\ c.queue \o added \in Seq(Tasks)
            /\ Len(c.queue \o added) = Len(c.queue) + n
            /\ \A i \in 1 .. Len(c.queue) + n :
                   (c.queue \o added)[i] = IF i <= Len(c.queue) THEN c.queue[i]
                                           ELSE added[i - Len(c.queue)]
        <4>1. /\ c.queue \o added \in Seq(Tasks)
              /\ Len(c.queue \o added) = Len(c.queue) + Len(added)
              /\ \A i \in 1 .. Len(c.queue) + Len(added) :
                     (c.queue \o added)[i] = IF i <= Len(c.queue) THEN c.queue[i]
                                             ELSE added[i - Len(c.queue)]
          BY <1>5, <2>2, ConcatProperties, Zenon
        <4>2. Len(added) = n
          BY <1>3
        <4> QED
          BY <4>1, <4>2, Zenon
      <3>2. PICK q : q = c.queue \o added
        OBVIOUS
      <3>3. DOMAIN q = 1 .. Len(c.queue) + n
        BY <3>1, <3>2, LenProperties
      <3>4. PICK m \in Nat : m = Len(c.queue)
        BY <2>2
      <3> QED
        BY <2>1, <3>1, <3>2, <3>3, <3>4
    <2>4. ASSUME NEW i \in DOMAIN d.queue
          PROVE  /\ d.queue[i].token <= d.generation
                 /\ d.queue[i].name = "event" => d.queue[i].from = d.queue[i].token
      <3>1. CASE i \in DOMAIN c.queue
        BY <2>1, <2>2, <2>3, <3>1 DEF Holds, OwnTasks, SameConnection
      <3>2. CASE i \in Len(c.queue) + 1 .. Len(c.queue) + n
        <4>1. i - Len(c.queue) \in 1 .. n
          <5>1. \A m \in Nat : \A j \in m + 1 .. m + n : j - m \in 1 .. n
            OBVIOUS
          <5> QED
            BY <2>2, <3>2, <5>1
        <4>2. d.queue[i].token = c.generation /\ d.queue[i].from = c.generation
          BY <1>3, <2>3, <3>2, <4>1
        <4> QED
          BY <2>1, <2>2, <4>2 DEF SameConnection
      <3> QED
        BY <2>2, <2>3, <2>4, <3>1, <3>2
    <2>5. OwnTasks(d)
      BY <1>5, <2>3, <2>4 DEF OwnTasks
    <2> QED
      BY <1>5, <2>1, <2>5, HoldsSame DEF SameConnection
  <1>6. ASSUME Overflows(c, d)
        PROVE  Holds(d, lk, ct, tm)
    <2>1. OwnTasks(d)
      BY <1>6, OverflowOwnsTasks
    <2> QED
      BY <1>6, <2>1, ReadyEnded DEF Overflows, Ended, Timings, Ready
  <1>7. Holds(d, lk, ct, tm)
    BY <1>2, <1>4, <1>5, <1>6
  <1> QED
    BY <1>1, <1>7 DEF d

(* fail(), as far as the report: a generation that nothing belongs to yet. *)
Lost(c) == [StopSocket([c EXCEPT !.generation = @ + 1]) EXCEPT !.connected = FALSE]

LEMMA LostFacts ==
    ASSUME NEW c \in Clients
    PROVE  /\ Ended(c, Lost(c))
           /\ Lost(c).generation = c.generation + 1
           /\ Lost(c).queue = c.queue /\ Lost(c).stopped = c.stopped
           /\ Lost(c).active = c.active /\ Lost(c).pending = c.pending
           /\ Lost(c).future = c.future /\ Lost(c).completing = c.completing
  <1> DEFINE b == [c EXCEPT !.generation = @ + 1]
             e == StopSocket(b)
             d == Lost(c)
  <1>1. c.generation \in Nat /\ c.generation + 1 \in Nat
    BY DEF Clients
  <1>2. b \in Clients
    BY <1>1 DEF Clients
  <1>3. /\ b.sockets = c.sockets /\ b.closed = c.closed /\ b.stopped = c.stopped
        /\ b.socket = c.socket /\ b.generation = c.generation + 1 /\ b.active = c.active
        /\ b.queue = c.queue /\ b.pending = c.pending /\ b.future = c.future
        /\ b.completing = c.completing
    BY DEF Clients
  <1>4. Stops(b, e)
    BY <1>2, StopSocketFacts
  <1>5. d = [e EXCEPT !.connected = FALSE]
    BY DEF Lost
  <1> HIDE DEF b, e, d
  <1>6. [k \in Timers |-> NoToken] \in Armings /\ NoToken \in Nat /\ e.sockets \in SocketSets
    BY <1>4 DEF Armings, NoToken, SocketSets, Stops
  <1>7. d = [b EXCEPT !.sockets = e.sockets, !.timers = [k \in Timers |-> NoToken],
                      !.socket = NoToken, !.connected = FALSE]
    BY <1>2, <1>4, <1>5 DEF Clients, Stops
  <1>8. d \in Clients
    BY <1>2, <1>6, <1>7 DEF Clients
  <1>9. /\ d.sockets = e.sockets /\ d.closed = b.closed /\ d.stopped = b.stopped
        /\ d.socket = NoToken /\ d.generation = b.generation /\ d.active = b.active
        /\ d.queue = b.queue /\ ~d.connected /\ d.pending = b.pending
        /\ d.future = b.future /\ d.completing = b.completing
        /\ d.timers = [k \in Timers |-> NoToken]
    BY <1>2, <1>7 DEF Clients
  <1>10. Tame(c, d)
    BY <1>3, <1>4, <1>9 DEF Tame, Stops
  <1> QED
    BY <1>1, <1>3, <1>8, <1>9, <1>10 DEF Ended, d

LEMMA HoldsTell ==
    ASSUME NEW c \in Clients,
           NEW lk \in SUBSET Nat, NEW ct \in SUBSET Nat, NEW tm \in Timings,
           TaskCapacity \in Nat \ {0}, Holds(c, lk, ct, tm)
    PROVE  Tell(c) \in Clients /\ Ready(Tell(c), lk, ct, tm)
  <1>1. /\ Ended(c, Lost(c)) /\ Lost(c) \in Clients
        /\ Lost(c).generation = c.generation + 1 /\ Lost(c).queue = c.queue
    BY LostFacts DEF Ended
  <1>2. OwnTasks(Lost(c))
    <2>1. c.generation \in Nat /\ c.queue \in Seq(Tasks)
      BY DEF Clients, Queues
    <2>2. \A i \in DOMAIN c.queue : c.queue[i].token \in Nat
      <3>1. \A i \in DOMAIN c.queue : c.queue[i] \in Tasks
        BY <2>1, ElementOfSeq, LenProperties
      <3> QED
        BY <3>1 DEF Tasks
    <2> QED
      BY <1>1, <2>1, <2>2 DEF Holds, OwnTasks
  <1>3. Lost(c).closed => Lost(c).queue = <<>>
    BY <1>1 DEF Ended, Holds, OwnedHandles
  <1>4. Ready(Lost(c), lk, ct, tm)
    BY <1>1, <1>2, <1>3, ReadyEnded DEF Timings
  <1>5. /\ Emit(Lost(c), "error") \in Clients
        /\ Ready(Emit(Lost(c), "error"), lk, ct, tm)
    BY <1>1, <1>4, HoldsEmit DEF Ready, Names
  <1>6. /\ Emit(Emit(Lost(c), "error"), "disconnected") \in Clients
        /\ Ready(Emit(Emit(Lost(c), "error"), "disconnected"), lk, ct, tm)
    BY <1>5, HoldsEmit DEF Ready, Names
  <1> QED
    BY <1>6 DEF Tell, Lost

(* What complete() adds concerns the pool only.                            *)
LEMMA CompleteFacts ==
    ASSUME NEW c \in Clients, NEW r \in Results
    PROVE  LET d == Complete(c, r)
           IN  /\ d \in Clients /\ SameConnection(c, d)
               /\ d.queue = c.queue /\ d.stopped = c.stopped /\ d.connected = c.connected
  <1> DEFINE done == c.completing \cup {[future |-> c.pending, result |-> r]}
             d == [c EXCEPT !.completing = done]
  <1>1. done \in Completions
    BY DEF Clients, Completions
  <1> HIDE DEF done
  <1>2. d \in Clients
    BY <1>1 DEF Clients
  <1>3. /\ SameConnection(c, d)
        /\ d.queue = c.queue /\ d.stopped = c.stopped /\ d.connected = c.connected
    BY DEF Clients, SameConnection
  <1> QED
    BY <1>2, <1>3 DEF Complete, done

(* A connection that is given up with nothing of its own left.             *)
LEMMA HoldsRest ==
    ASSUME NEW c, NEW d, NEW lk, NEW ct, NEW tm,
           Holds(c, lk, ct, tm), Quiet(c), ~d.active, d.closed = c.closed,
           d.generation = c.generation, d.sockets = c.sockets, d.timers = c.timers,
           d.queue = c.queue, d.stray = c.stray
    PROVE  Holds(d, lk, ct, tm)
  <1>1. OwnedHandles(d)
    BY DEF Holds, Quiet, OwnBeat, OwnedHandles
  <1>2. OwnTasks(d) /\ Behind(d, lk, ct, tm)
    BY DEF Holds, OwnTasks, Behind
  <1>3. InOnePlace(d, lk, ct, tm)
    BY DEF InOnePlace
  <1> QED
    BY <1>1, <1>2, <1>3 DEF Holds

LEMMA GiveUpFacts ==
    ASSUME NEW c \in Clients
    PROVE  LET d == GiveUp(c)
           IN  /\ d \in Clients /\ ~d.active /\ d.closed = c.closed
               /\ d.generation = c.generation /\ d.sockets = c.sockets /\ d.timers = c.timers
               /\ d.queue = c.queue /\ d.stopped = c.stopped /\ d.connected = c.connected
               /\ d.stray = c.stray
  <1> DEFINE b == IF PendingOpen(c) THEN Complete(c, "failed") ELSE c
             d == [b EXCEPT !.active = FALSE]
  <1>1. /\ b \in Clients /\ SameConnection(c, b)
        /\ b.queue = c.queue /\ b.stopped = c.stopped /\ b.connected = c.connected
    <2>1. CASE PendingOpen(c)
      BY <2>1, CompleteFacts DEF Results
    <2>2. CASE ~PendingOpen(c)
      BY <2>2 DEF SameConnection
    <2> QED
      BY <2>1, <2>2
  <1> HIDE DEF b
  <1>2. d \in Clients
    BY <1>1 DEF Clients
  <1>3. /\ ~d.active /\ d.closed = c.closed
        /\ d.generation = c.generation /\ d.sockets = c.sockets /\ d.timers = c.timers
        /\ d.queue = c.queue /\ d.stopped = c.stopped /\ d.connected = c.connected
        /\ d.stray = c.stray
    BY <1>1 DEF Clients, SameConnection
  <1> QED
    BY <1>2, <1>3 DEF GiveUp, b

(* The next attempt is armed in the generation the failure started, or, if *)
(* its report overflowed, in one that is over.                             *)
Retried(c) == [c EXCEPT !.retries = @ + 1]

LEMMA RetryFacts ==
    ASSUME NEW c \in Clients
    PROVE  LET e == Emit(Retried(c), "reconnecting")
           IN  /\ Retried(c) \in Clients /\ SameConnection(c, Retried(c))
               /\ Retried(c).queue = c.queue /\ Retried(c).stopped = c.stopped
               /\ Retried(c).connected = c.connected
               /\ e \in Clients /\ Emits(Retried(c), e, "reconnecting", c.generation)
               /\ Retry(c) = [e EXCEPT !.timers = [e.timers EXCEPT !["reconnect"] = c.generation]]
               /\ Retry(c) \in Clients
  <1> DEFINE b == Retried(c)
             e == Emit(b, "reconnecting")
  <1>1. c.retries + 1 \in Nat /\ c.generation \in Nat
    BY DEF Clients
  <1>2. b \in Clients
    BY <1>1 DEF Clients, Retried
  <1>3. /\ SameConnection(c, b)
        /\ b.queue = c.queue /\ b.stopped = c.stopped /\ b.connected = c.connected
    BY DEF SameConnection, Clients, Retried
  <1>4. b.generation = c.generation
    BY <1>3 DEF SameConnection
  <1> HIDE DEF b
  <1>5. Emits(b, e, "reconnecting", c.generation) /\ e \in Clients
    BY <1>1, <1>2, <1>4, EmitFacts DEF Emit, Names, Emits
  <1>6. Retry(c) = [e EXCEPT !.timers["reconnect"] = c.generation]
    BY DEF Retry, Retried, b
  <1> HIDE DEF e
  <1>7. Retry(c) = [e EXCEPT !.timers = [e.timers EXCEPT !["reconnect"] = c.generation]]
    BY <1>6
  <1>8. [e.timers EXCEPT !["reconnect"] = c.generation] \in Armings
    BY <1>1, <1>5 DEF Clients, Armings
  <1>9. Retry(c) \in Clients
    BY <1>5, <1>7, <1>8 DEF Clients
  <1> QED
    BY <1>2, <1>3, <1>5, <1>7, <1>9 DEF b, e

LEMMA HoldsRetry ==
    ASSUME NEW c \in Clients,
           NEW lk \in SUBSET Nat, NEW ct \in SUBSET Nat, NEW tm \in Timings,
           TaskCapacity \in Nat \ {0}, Ready(c, lk, ct, tm)
    PROVE  Holds(Retry(c), lk, ct, tm)
  <1> DEFINE b == Retried(c)
             e == Emit(b, "reconnecting")
             d == Retry(c)
  <1>1. /\ b \in Clients /\ SameConnection(c, b) /\ b.queue = c.queue
        /\ e \in Clients /\ Emits(b, e, "reconnecting", c.generation)
        /\ d = [e EXCEPT !.timers = [e.timers EXCEPT !["reconnect"] = c.generation]]
        /\ d \in Clients
    BY RetryFacts
  <1> HIDE DEF b, e, d
  <1>2. Ready(b, lk, ct, tm)
    <2>1. OwnTasks(b) /\ (b.closed => b.queue = <<>>)
      BY <1>1 DEF Ready, Holds, OwnTasks, OwnedHandles, SameConnection
    <2>2. Holds(b, lk, ct, tm)
      BY <1>1, <2>1, HoldsSame DEF Ready
    <2> QED
      BY <1>1, <2>2 DEF Ready, Quiet, OwnBeat, Fresh, SameConnection
  <1>3. c.generation \in Nat
    BY DEF Clients
  <1>4. Ready(e, lk, ct, tm)
    BY <1>1, <1>2, <1>3, HoldsEmits DEF Ready, Names
  <1>5. /\ d.active = e.active /\ d.closed = e.closed /\ d.generation = e.generation
        /\ d.sockets = e.sockets /\ d.queue = e.queue /\ d.socket = e.socket
        /\ d.timers["heartbeat"] = e.timers["heartbeat"] /\ d.stray = e.stray
        /\ d.timers["deadline"] = e.timers["deadline"]
        /\ d.timers["reconnect"] = c.generation
    BY <1>1 DEF Clients, Armings, Timers
  <1>6. c.generation <= e.generation
    <2>1. e.generation \in Nat /\ b.generation = c.generation
      BY <1>1 DEF Clients, SameConnection
    <2>2. e.generation = b.generation \/ e.generation > b.generation
      BY <1>1 DEF Emits, Overflows, Ended, Clients
    <2> QED
      BY <1>3, <2>1, <2>2
  <1>7. OwnedHandles(d)
    BY <1>4, <1>5 DEF Ready, Quiet, OwnBeat, Holds, OwnedHandles
  <1>8. OwnTasks(d)
    BY <1>4, <1>5 DEF Ready, Holds, OwnTasks
  <1>9. Behind(d, lk, ct, tm)
    BY <1>4, <1>5, <1>6 DEF Ready, Holds, Behind
  <1>10. e.generation \in Nat
    BY <1>1 DEF Clients
  <1>11. InOnePlace(d, lk, ct, tm)
    <2>1. \A t \in lk \cup ct : t # d.generation
      BY <1>4, <1>5, <1>10 DEF Ready, Fresh
    <2>2. \A s \in d.sockets : s.token # d.generation
      BY <1>4, <1>5, <1>10 DEF Ready, Fresh
    <2>3. tm.token # d.generation
      BY <1>4, <1>5, <1>10 DEF Ready, Fresh
    <2>4. ~HasTimers(d)
      BY <1>4, <1>5 DEF Ready, Quiet, OwnBeat, HasTimers
    <2> QED
      BY <2>1, <2>2, <2>3, <2>4 DEF InOnePlace, HasSocket, Started
  <1>12. Holds(d, lk, ct, tm)
    BY <1>7, <1>8, <1>9, <1>11 DEF Holds
  <1> QED
    BY <1>12 DEF d

(* fail(), whoever calls it, and with whichever token. *)
LEMMA HoldsFail ==
    ASSUME NEW c \in Clients, NEW t, NEW retryable,
           NEW lk \in SUBSET Nat, NEW ct \in SUBSET Nat, NEW tm \in Timings,
           TaskCapacity \in Nat \ {0}, Holds(c, lk, ct, tm)
    PROVE  LET d == Fail(c, t, retryable)
           IN  d \in Clients /\ Holds(d, lk, ct, tm)
  <1> DEFINE e == Tell(c)
  <1>1. e \in Clients /\ Ready(e, lk, ct, tm)
    BY HoldsTell
  <1>2. \/ Fail(c, t, retryable) = c
        \/ Fail(c, t, retryable) = GiveUp(e)
        \/ Fail(c, t, retryable) = Retry(e)
    BY DEF Fail
  <1> HIDE DEF e
  <1>3. GiveUp(e) \in Clients /\ Holds(GiveUp(e), lk, ct, tm)
    BY <1>1, GiveUpFacts, HoldsRest DEF Ready
  <1>4. Retry(e) \in Clients /\ Holds(Retry(e), lk, ct, tm)
    BY <1>1, RetryFacts, HoldsRetry
  <1> QED
    BY <1>2, <1>3, <1>4

(* disconnect(), and what cancels a future. *)
LEMMA HoldsDisconnect ==
    ASSUME NEW c \in Clients,
           NEW lk \in SUBSET Nat, NEW ct \in SUBSET Nat, NEW tm \in Timings,
           TaskCapacity \in Nat \ {0}, Holds(c, lk, ct, tm)
    PROVE  LET d == Disconnect(c)
           IN  /\ d \in Clients /\ Holds(d, lk, ct, tm)
               /\ ~c.closed => Quiet(d) /\ d.closed = c.closed /\ ~d.active
  <1> DEFINE e == CancelPending(Abandon(c))
             d == Disconnect(c)
             f == Emit(e, "disconnected")
  <1>1. Abandoned(c, e) /\ e \in Clients
    BY CancelPendingFacts DEF Abandoned, Ended
  <1>2. (d = c /\ c.closed) \/ (~c.closed /\ (d = e \/ d = f))
    <2>1. c.closed \in BOOLEAN /\ c.active \in BOOLEAN
      BY DEF Clients
    <2>2. d = IF c.closed THEN c ELSE IF c.active THEN f ELSE e
      BY DEF Disconnect
    <2> HIDE DEF d, e, f
    <2> QED
      BY <2>1, <2>2
  <1> HIDE DEF e, d
  <1>3. OwnTasks(e)
    BY <1>1 DEF Abandoned, OwnTasks
  <1>4. Ready(e, lk, ct, tm)
    BY <1>1, <1>3, ReadyEnded DEF Abandoned, Timings
  <1>5. f \in Clients /\ Ready(f, lk, ct, tm)
    BY <1>1, <1>4, HoldsEmit DEF Ready, Names
  <1>6. f.closed = e.closed /\ ~f.active
    <2>1. Emits(e, f, "disconnected", e.generation)
      BY <1>1, EmitFacts DEF Emit, Names, Clients
    <2> QED
      BY <1>1, <2>1 DEF Emits, Overflows, Ended, Abandoned, Clients
  <1>7. e.closed = c.closed /\ ~e.active
    BY <1>1 DEF Abandoned, Ended
  <1> HIDE DEF f
  <1>8. d \in Clients /\ Holds(d, lk, ct, tm)
    BY <1>1, <1>2, <1>4, <1>5 DEF Ready
  <1>9. ~c.closed => Quiet(d) /\ d.closed = c.closed /\ ~d.active
    BY <1>2, <1>4, <1>5, <1>6, <1>7 DEF Ready
  <1> QED
    BY <1>8, <1>9 DEF d

(* What waits outside of the monitor may be done with. *)
NoTask == [kind |-> "none", token |-> 0]

LEMMA HoldsLess ==
    ASSUME NEW c \in Clients, NEW lk, NEW ct, NEW tm, NEW lk2, NEW ct2, NEW tm2,
           Holds(c, lk, ct, tm), lk2 \subseteq lk, ct2 \subseteq ct,
           tm2 = tm \/ tm2 = NoTask
    PROVE  Holds(c, lk2, ct2, tm2)
  <1>1. Behind(c, lk2, ct2, tm2)
    <2>1. c.generation \in Nat
      BY DEF Clients
    <2> QED
      BY <2>1 DEF Holds, Behind, NoTask
  <1>2. Started(c, tm2) => Started(c, tm)
    BY DEF Started, NoTask
  <1>3. InOnePlace(c, lk2, ct2, tm2)
    BY <1>2 DEF Holds, InOnePlace
  <1> QED
    BY <1>1, <1>3 DEF Holds

(* An attempt that has no socket yet holds nothing. *)
LEMMA AttemptIsQuiet ==
    ASSUME NEW c \in Clients, NEW lk, NEW ct, NEW tm, Holds(c, lk, ct, tm),
           ~(c.active /\ ~c.closed) \/ (~HasSocket(c) /\ ~HasTimers(c))
    PROVE  Quiet(c)
  <1>1. CASE ~(c.active /\ ~c.closed)
    <2>1. \A t : ~Valid(c, t)
      BY <1>1 DEF Valid
    <2>2. c.sockets \subseteq Sockets
      BY DEF Clients, SocketSets
    <2> QED
      BY <2>1, <2>2 DEF Holds, OwnedHandles, Quiet, OwnBeat
  <1>2. CASE ~HasSocket(c) /\ ~HasTimers(c)
    <2>1. ~OwnBeat(c) /\ c.timers["deadline"] = NoToken
      BY <1>2 DEF HasTimers
    <2>2. \A s \in c.sockets : s.phase = "open" => s.cancelled
      BY <1>2 DEF Holds, OwnedHandles, HasSocket, Valid
    <2> QED
      BY <2>1, <2>2 DEF Quiet
  <1> QED
    BY <1>1, <1>2

(* open(): the attempt leaves the place it was in for its socket. *)
LEMMA HoldsOpen ==
    ASSUME NEW c \in Clients, NEW t \in Nat,
           NEW lk \in SUBSET Nat, NEW ct \in SUBSET Nat, NEW tm \in Timings,
           Holds(c, lk, ct, tm), Quiet(c), t <= c.generation,
           c.active /\ ~c.closed =>
               /\ t = c.generation
               /\ ~Armed(c) /\ ~Started(c, tm) /\ t \notin lk /\ t \notin ct /\ ~HasSocket(c)
    PROVE  Open(c, t) \in Clients /\ Holds(Open(c, t), lk, ct, tm)
  <1> DEFINE new == [token |-> t, phase |-> "connecting", cancelled |-> FALSE]
             S == c.sockets \cup {new}
             d == [c EXCEPT !.socket = t, !.sockets = S]
  <1>1. new \in Sockets /\ new.phase = "connecting" /\ new.token = t
    BY DEF Sockets
  <1> HIDE DEF new
  <1>2. S \in SocketSets
    BY <1>1 DEF Clients, SocketSets
  <1>3. S = c.sockets \cup {new}
    OBVIOUS
  <1> HIDE DEF S
  <1>4. d \in Clients
    BY <1>2 DEF Clients
  <1>5. /\ d.sockets = S /\ d.active = c.active /\ d.closed = c.closed /\ d.queue = c.queue
        /\ d.timers = c.timers /\ d.generation = c.generation /\ d.stray = c.stray
    BY DEF Clients
  <1>6. Open(c, t) = d
    BY DEF Open, S, new
  <1> HIDE DEF d
  <1>7. OwnedHandles(d)
    BY <1>1, <1>3, <1>5 DEF Holds, Quiet, OwnBeat, OwnedHandles
  <1>8. OwnTasks(d) /\ Behind(d, lk, ct, tm)
    BY <1>1, <1>3, <1>5 DEF Holds, OwnTasks, Behind
  <1>9. InOnePlace(d, lk, ct, tm)
    BY <1>1, <1>3, <1>5 DEF InOnePlace, Armed, Started, HasSocket
  <1> QED
    BY <1>4, <1>6, <1>7, <1>8, <1>9 DEF Holds

(* onOpen(): a socket of the connection that is there, opened. *)
LEMMA MoveFacts ==
    ASSUME NEW c \in Clients, NEW s \in c.sockets
    PROVE  LET d == Move(c, s, "open")
           IN  /\ d = [c EXCEPT !.sockets = d.sockets] /\ d \in Clients
               /\ d.sockets = (c.sockets \ {s}) \cup {[s EXCEPT !.phase = "open"]}
               /\ [s EXCEPT !.phase = "open"].token = s.token
               /\ [s EXCEPT !.phase = "open"].phase = "open"
               /\ [s EXCEPT !.phase = "open"].cancelled = s.cancelled
  <1> DEFINE new == [s EXCEPT !.phase = "open"]
             S == (c.sockets \ {s}) \cup {new}
             d == Move(c, s, "open")
  <1>1. s \in Sockets
    BY DEF Clients, SocketSets
  <1>2. new \in Sockets /\ new.token = s.token /\ new.phase = "open"
        /\ new.cancelled = s.cancelled
    BY <1>1 DEF Sockets
  <1> HIDE DEF new
  <1>3. S \in SocketSets
    BY <1>2 DEF Clients, SocketSets
  <1>4. d = [c EXCEPT !.sockets = S]
    BY DEF Move, new
  <1> HIDE DEF S, d
  <1>5. d \in Clients /\ d.sockets = S /\ d = [c EXCEPT !.sockets = d.sockets]
    BY <1>3, <1>4 DEF Clients
  <1> QED
    BY <1>2, <1>5 DEF d, S, new

(* What startHeartbeat() leaves: the new heartbeat, or the one that ran.   *)
Beating(c, d, t) ==
    \/ d.timers["heartbeat"] = t
    \/ c.timers["heartbeat"] # NoToken /\ d.timers["heartbeat"] = c.timers["heartbeat"]

(* The socket that is open is the connection's own: what onOpen() makes of *)
(* the record, with a heartbeat and perhaps a deadline.                    *)
LEMMA HoldsOpened ==
    ASSUME NEW c \in Clients, NEW s \in c.sockets, NEW d,
           NEW lk, NEW ct, NEW tm, Holds(c, lk, ct, tm), Valid(c, s.token),
           d.active = c.active, d.closed = c.closed, d.generation = c.generation,
           d.queue = c.queue, d.socket = s.token,
           d.sockets = Move(c, s, "open").sockets,
           d.timers["reconnect"] = c.timers["reconnect"], d.stray = c.stray,
           Beating(c, d, s.token), d.timers["deadline"] \in {c.timers["deadline"], s.token}
    PROVE  Holds(d, lk, ct, tm)
  <1> DEFINE new == [s EXCEPT !.phase = "open"]
  <1>1. /\ d.sockets = (c.sockets \ {s}) \cup {new}
        /\ new.token = s.token /\ s.token = c.generation
    BY MoveFacts DEF Valid
  <1> HIDE DEF new
  <1>2. OwnedHandles(d)
    <2>1. \A x \in d.sockets : x.phase = "open" /\ ~x.cancelled => x.token = c.generation
      BY <1>1 DEF Holds, OwnedHandles, Valid
    <2>2. Valid(d, c.generation) /\ d.socket = c.generation
      BY <1>1 DEF Valid
    <2>3. d.timers["heartbeat"] \in {c.generation} \cup d.stray
      BY <1>1 DEF Holds, OwnedHandles, Valid, Beating
    <2>4. d.timers["deadline"] # NoToken => d.timers["deadline"] = c.generation
      BY <1>1 DEF Holds, OwnedHandles, Valid
    <2>5. ~d.closed
      BY DEF Valid
    <2> QED
      BY <2>1, <2>2, <2>3, <2>4, <2>5 DEF OwnedHandles
  <1>3. OwnTasks(d)
    BY DEF Holds, OwnTasks
  <1>4. Behind(d, lk, ct, tm)
    <2>1. d.timers["heartbeat"] <= d.generation
      <3>1. c.generation \in Nat
        BY DEF Clients
      <3> QED
        BY <1>1, <3>1 DEF Holds, Behind, Beating
    <2> QED
      BY <1>1, <2>1 DEF Holds, Behind
  <1>5. InOnePlace(d, lk, ct, tm)
    <2>1. c.active /\ ~c.closed /\ HasSocket(c)
      BY <1>1 DEF Valid, HasSocket
    <2>2. /\ ~Armed(c) /\ ~Started(c, tm) /\ c.generation \notin lk /\ c.generation \notin ct
          /\ \A s1, s2 \in c.sockets :
                 s1.token = c.generation /\ s2.token = c.generation => s1 = s2
      BY <2>1 DEF Holds, InOnePlace
    <2>3. ~Armed(d) /\ ~Started(d, tm)
      BY <2>2 DEF Armed, Started
    <2>4. \A s1, s2 \in d.sockets :
             s1.token = d.generation /\ s2.token = d.generation => s1 = s2
      BY <1>1, <2>2
    <2> QED
      BY <2>2, <2>3, <2>4 DEF InOnePlace
  <1> QED
    BY <1>2, <1>3, <1>4, <1>5 DEF Holds

(* A socket that opens too late is cancelled. *)
LEMMA HoldsLateOpen ==
    ASSUME NEW c \in Clients, NEW s \in c.sockets,
           NEW lk, NEW ct, NEW tm, Holds(c, lk, ct, tm), ~Valid(c, s.token)
    PROVE  LET d == CancelSocket(Move(c, s, "open"), s.token)
           IN  d \in Clients /\ Holds(d, lk, ct, tm)
  <1> DEFINE b == Move(c, s, "open")
             new == [s EXCEPT !.phase = "open"]
             d == CancelSocket(b, s.token)
  <1>1. /\ b = [c EXCEPT !.sockets = b.sockets] /\ b \in Clients
        /\ b.sockets = (c.sockets \ {s}) \cup {new}
        /\ new.token = s.token
    BY MoveFacts
  <1>2. s.token \in Nat
    BY DEF Clients, SocketSets, Sockets
  <1>3. Cancels(b, d, s.token)
    BY <1>1, <1>2, CancelSocketFacts
  <1> HIDE DEF b, new, d
  <1>4. d.sockets \in SocketSets
    BY <1>3 DEF Cancels, SocketSets
  <1>5. /\ d \in Clients
        /\ d.active = c.active /\ d.closed = c.closed /\ d.generation = c.generation
        /\ d.queue = c.queue /\ d.socket = c.socket /\ d.timers = c.timers
        /\ d.stray = c.stray
    <2>1. d = [b EXCEPT !.sockets = d.sockets]
      BY <1>3 DEF Cancels
    <2>2. d \in Clients
      BY <1>1, <1>4, <2>1 DEF Clients
    <2> QED
      BY <1>1, <2>1, <2>2 DEF Clients
  <1>6. \A x \in d.sockets :
           (x.token = s.token /\ x.cancelled) \/ (x.token # s.token /\ x \in c.sockets)
    <2>1. ASSUME NEW x \in d.sockets, x.token # s.token
          PROVE  x \in c.sockets
      <3>1. x \in b.sockets
        BY <1>3, <2>1 DEF Cancels
      <3> QED
        BY <1>1, <2>1, <3>1
    <2>2. \A x \in d.sockets : x.token = s.token => x.cancelled
      BY <1>3 DEF Cancels
    <2> QED
      BY <2>1, <2>2
  <1>7. OwnedHandles(d)
    <2>1. \A x \in d.sockets : x.phase = "open" /\ ~x.cancelled => x \in c.sockets
      BY <1>6
    <2> QED
      BY <1>5, <2>1 DEF Holds, OwnedHandles, Valid
  <1>8. OwnTasks(d)
    BY <1>5 DEF Holds, OwnTasks
  <1>9. Behind(d, lk, ct, tm)
    BY <1>5, <1>6 DEF Holds, Behind
  <1>10. InOnePlace(d, lk, ct, tm)
    <2>1. SUFFICES ASSUME c.active, ~c.closed PROVE InOnePlace(d, lk, ct, tm)
      BY <1>5 DEF InOnePlace
    <2>2. s.token # c.generation
      BY <2>1 DEF Valid
    <2>3. \A x \in d.sockets : x.token = c.generation => x \in c.sockets
      BY <1>6, <2>2
    <2> QED
      BY <1>5, <2>1, <2>3 DEF Holds, InOnePlace, Armed, Started, HasSocket, HasTimers, OwnBeat
  <1> QED
    BY <1>5, <1>7, <1>8, <1>9, <1>10 DEF Holds, d, b

(* The records on the way through onOpen().                                *)
Prepared(m, t, same) == StartHeartbeat([m EXCEPT !.socket = t], t, same)
Waits(m, t, same) == [Prepared(m, t, same) EXCEPT !.timers["deadline"] = t, !.connected = FALSE]
Joins(m, t, same) == [Prepared(m, t, same) EXCEPT !.connected = TRUE, !.retries = 0]

(* startHeartbeat() changes nothing but the heartbeat. *)
LEMMA StartHeartbeatFacts ==
    ASSUME NEW c \in Clients, NEW t \in Nat, NEW same \in BOOLEAN
    PROVE  \E hb \in Armings :
              /\ StartHeartbeat(c, t, same) = [c EXCEPT !.timers = hb]
              /\ hb["reconnect"] = c.timers["reconnect"] /\ hb["deadline"] = c.timers["deadline"]
              /\ \/ hb["heartbeat"] = t
                 \/ c.timers["heartbeat"] # NoToken /\ hb["heartbeat"] = c.timers["heartbeat"]
  <1>1. CASE same /\ c.timers["heartbeat"] # NoToken
    <2>1. StartHeartbeat(c, t, same) = [c EXCEPT !.timers = c.timers]
      BY <1>1 DEF StartHeartbeat, Clients
    <2>2. c.timers \in Armings
      BY DEF Clients
    <2> QED
      BY <1>1, <2>1, <2>2
  <1>2. CASE ~(same /\ c.timers["heartbeat"] # NoToken)
    <2> DEFINE hb == [c.timers EXCEPT !["heartbeat"] = t]
    <2>1. /\ hb \in Armings /\ hb["heartbeat"] = t
          /\ hb["reconnect"] = c.timers["reconnect"] /\ hb["deadline"] = c.timers["deadline"]
      BY DEF Clients, Armings, Timers
    <2>2. StartHeartbeat(c, t, same) = [c EXCEPT !.timers = hb]
      BY <1>2 DEF StartHeartbeat, Clients
    <2> QED
      BY <2>1, <2>2
  <1> QED
    BY <1>1, <1>2

Opens(m, d, t) ==
    /\ d \in Clients
    /\ d.active = m.active /\ d.closed = m.closed /\ d.generation = m.generation
    /\ d.queue = m.queue /\ d.socket = t /\ d.sockets = m.sockets /\ d.stopped = m.stopped
    /\ d.stray = m.stray /\ d.dropped = m.dropped
    /\ d.timers["reconnect"] = m.timers["reconnect"]
    /\ Beating(m, d, t) /\ d.timers["deadline"] \in {m.timers["deadline"], t}

LEMMA EnteredFacts ==
    ASSUME NEW m \in Clients, NEW t \in Nat, NEW same \in BOOLEAN
    PROVE  /\ Opens(m, Waits(m, t, same), t) /\ ~Waits(m, t, same).connected
           /\ Opens(m, Joins(m, t, same), t) /\ Joins(m, t, same).connected
  <1> DEFINE b == [m EXCEPT !.socket = t]
             d == Prepared(m, t, same)
             waits == Waits(m, t, same)
             joins == Joins(m, t, same)
  <1>1. b \in Clients /\ b.timers = m.timers
    BY DEF Clients
  <1> HIDE DEF b
  <1>2. PICK hb \in Armings :
              /\ d = [b EXCEPT !.timers = hb]
              /\ hb["reconnect"] = m.timers["reconnect"] /\ hb["deadline"] = m.timers["deadline"]
              /\ \/ hb["heartbeat"] = t
                 \/ m.timers["heartbeat"] # NoToken /\ hb["heartbeat"] = m.timers["heartbeat"]
    <2>1. d = StartHeartbeat(b, t, same)
      BY DEF Prepared, b
    <2> HIDE DEF d
    <2> QED
      BY <1>1, <2>1, StartHeartbeatFacts
  <1> DEFINE dl == [hb EXCEPT !["deadline"] = t]
  <1>3. /\ dl \in Armings /\ dl["reconnect"] = hb["reconnect"]
        /\ dl["heartbeat"] = hb["heartbeat"] /\ dl["deadline"] = t
    BY DEF Armings, Timers
  <1> HIDE DEF d
  <1>4. d = [m EXCEPT !.socket = t, !.timers = hb]
    BY <1>2 DEF Clients, b
  <1>5. d \in Clients /\ d.timers = hb
    BY <1>2, <1>4 DEF Clients
  <1>6. waits = [d EXCEPT !.timers = dl, !.connected = FALSE]
    BY <1>5 DEF Clients, Waits, d
  <1>7. joins = [m EXCEPT !.socket = t, !.timers = hb, !.connected = TRUE, !.retries = 0]
    BY <1>4 DEF Clients, Joins, d
  <1>8. waits = [m EXCEPT !.socket = t, !.timers = dl, !.connected = FALSE]
    BY <1>4, <1>6 DEF Clients
  <1> HIDE DEF waits, joins, dl
  <1>9. waits \in Clients /\ joins \in Clients
    BY <1>2, <1>3, <1>7, <1>8 DEF Clients
  <1>10. /\ waits.active = m.active /\ waits.closed = m.closed
         /\ waits.generation = m.generation /\ waits.queue = m.queue
         /\ waits.socket = t /\ waits.sockets = m.sockets /\ waits.stopped = m.stopped
         /\ waits.stray = m.stray /\ waits.dropped = m.dropped
         /\ ~waits.connected /\ waits.timers = dl
    BY <1>8 DEF Clients
  <1>11. /\ joins.active = m.active /\ joins.closed = m.closed
         /\ joins.generation = m.generation /\ joins.queue = m.queue
         /\ joins.socket = t /\ joins.sockets = m.sockets /\ joins.stopped = m.stopped
         /\ joins.stray = m.stray /\ joins.dropped = m.dropped
         /\ joins.connected /\ joins.timers = hb
    BY <1>7 DEF Clients
  <1>12. Opens(m, waits, t)
    BY <1>2, <1>3, <1>9, <1>10 DEF Opens, Beating
  <1>13. Opens(m, joins, t)
    BY <1>2, <1>9, <1>11 DEF Opens, Beating
  <1> QED
    BY <1>10, <1>11, <1>12, <1>13 DEF waits, joins

LEMMA HoldsEntered ==
    ASSUME NEW c \in Clients, NEW s \in c.sockets, NEW same \in BOOLEAN,
           NEW lk \in SUBSET Nat, NEW ct \in SUBSET Nat, NEW tm \in Timings,
           TaskCapacity \in Nat \ {0}, Holds(c, lk, ct, tm), Valid(c, s.token)
    PROVE  LET d == Entered(Move(c, s, "open"), s.token, same)
           IN  d \in Clients /\ Holds(d, lk, ct, tm)
  <1> DEFINE m == Move(c, s, "open")
             t == s.token
             waits == Waits(m, t, same)
             joins == Joins(m, t, same)
  <1>1. /\ m \in Clients /\ m = [c EXCEPT !.sockets = m.sockets]
    BY MoveFacts
  <1>2. /\ m.active = c.active /\ m.closed = c.closed /\ m.generation = c.generation
        /\ m.queue = c.queue /\ m.timers = c.timers /\ m.stray = c.stray
    BY <1>1 DEF Clients
  <1>3. t \in Nat
    BY DEF Clients, SocketSets, Sockets
  <1>4. m.sockets = Move(c, s, "open").sockets
    OBVIOUS
  <1> HIDE DEF m, t
  <1>5. Opens(m, waits, t) /\ Opens(m, joins, t)
    BY <1>1, <1>3, EnteredFacts
  <1>6. /\ setup.confirm => Entered(m, t, same) = waits
        /\ ~setup.confirm => Entered(m, t, same) = Emit(Complete(joins, "value"), "connected")
    BY DEF Entered, Waits, Joins, Prepared
  <1> HIDE DEF waits, joins
  <1>7. Holds(waits, lk, ct, tm) /\ Holds(joins, lk, ct, tm)
    BY <1>2, <1>4, <1>5, HoldsOpened DEF t, Opens, Beating
  <1>8. /\ Complete(joins, "value") \in Clients
        /\ Holds(Complete(joins, "value"), lk, ct, tm)
    <2>1. /\ Complete(joins, "value") \in Clients
          /\ SameConnection(joins, Complete(joins, "value"))
          /\ Complete(joins, "value").queue = joins.queue
      BY <1>5, CompleteFacts DEF Results, Opens
    <2>2. /\ OwnTasks(Complete(joins, "value"))
          /\ Complete(joins, "value").closed => Complete(joins, "value").queue = <<>>
      BY <1>7, <2>1 DEF SameConnection, Holds, OwnTasks, OwnedHandles
    <2> QED
      BY <1>7, <2>1, <2>2, HoldsSame
  <1>9. /\ Emit(Complete(joins, "value"), "connected") \in Clients
        /\ Holds(Emit(Complete(joins, "value"), "connected"), lk, ct, tm)
    BY <1>8, HoldsEmit DEF Names
  <1> QED
    BY <1>5, <1>6, <1>7, <1>9 DEF m, t, Opens

(* The first batch, when the room has to confirm the entry.                *)
Joined(c) == [c EXCEPT !.timers["deadline"] = NoToken, !.retries = 0, !.connected = TRUE]

LEMMA JoinedFacts ==
    ASSUME NEW c \in Clients
    PROVE  /\ Joined(c) \in Clients
           /\ Joined(c).active = c.active /\ Joined(c).closed = c.closed
           /\ Joined(c).generation = c.generation /\ Joined(c).queue = c.queue
           /\ Joined(c).socket = c.socket /\ Joined(c).sockets = c.sockets
           /\ Joined(c).timers["reconnect"] = c.timers["reconnect"]
           /\ Joined(c).timers["heartbeat"] = c.timers["heartbeat"]
           /\ Joined(c).timers["deadline"] = NoToken
           /\ Joined(c).connected /\ Joined(c).stopped = c.stopped
           /\ Joined(c).stray = c.stray /\ Joined(c).dropped = c.dropped
  <1> DEFINE dl == [c.timers EXCEPT !["deadline"] = NoToken]
             d == Joined(c)
  <1>1. /\ dl \in Armings /\ dl["reconnect"] = c.timers["reconnect"]
        /\ dl["heartbeat"] = c.timers["heartbeat"] /\ dl["deadline"] = NoToken
    BY DEF Clients, Armings, Timers, NoToken
  <1>2. d = [c EXCEPT !.timers = dl, !.retries = 0, !.connected = TRUE]
    BY DEF Clients, Joined
  <1> HIDE DEF d, dl
  <1>3. d \in Clients
    BY <1>1, <1>2 DEF Clients
  <1>4. /\ d.active = c.active /\ d.closed = c.closed
        /\ d.generation = c.generation /\ d.queue = c.queue
        /\ d.socket = c.socket /\ d.sockets = c.sockets
        /\ d.timers = dl /\ d.connected /\ d.stopped = c.stopped
        /\ d.stray = c.stray /\ d.dropped = c.dropped
    BY <1>2 DEF Clients
  <1> QED
    BY <1>1, <1>3, <1>4 DEF d

(* The connection is as before, or telling of it has overflowed.           *)
Confirms(c, d) ==
    \/ /\ d.active = c.active /\ d.closed = c.closed /\ d.generation = c.generation
       /\ d.timers["reconnect"] = c.timers["reconnect"] /\ d.stopped = c.stopped
    \/ /\ ~c.stopped /\ d.stopped /\ ~d.active /\ d.timers["heartbeat"] = NoToken
       /\ d.generation > c.generation

LEMMA HoldsConfirmed ==
    ASSUME NEW c \in Clients,
           NEW lk \in SUBSET Nat, NEW ct \in SUBSET Nat, NEW tm \in Timings,
           TaskCapacity \in Nat \ {0}, Holds(c, lk, ct, tm)
    PROVE  LET d == Confirmed(c)
           IN  d \in Clients /\ Holds(d, lk, ct, tm) /\ Confirms(c, d)
  <1> DEFINE j == Joined(c)
             b == Complete(j, "value")
             d == Emit(b, "connected")
  <1>1. Confirmed(c) = IF setup.confirm /\ ~c.connected THEN d ELSE c
    BY DEF Confirmed, Joined
  <1>2. /\ j \in Clients
        /\ j.active = c.active /\ j.closed = c.closed
        /\ j.generation = c.generation /\ j.queue = c.queue
        /\ j.socket = c.socket /\ j.sockets = c.sockets
        /\ j.timers["reconnect"] = c.timers["reconnect"]
        /\ j.timers["heartbeat"] = c.timers["heartbeat"]
        /\ j.timers["deadline"] = NoToken
        /\ j.stray = c.stray /\ j.stopped = c.stopped
    BY JoinedFacts
  <1> HIDE DEF j
  <1>3. Holds(j, lk, ct, tm)
    <2>1. OwnedHandles(j)
      BY <1>2 DEF Holds, OwnedHandles, Valid
    <2>2. OwnTasks(j) /\ Behind(j, lk, ct, tm)
      BY <1>2 DEF Holds, OwnTasks, Behind
    <2>3. InOnePlace(j, lk, ct, tm)
      BY <1>2 DEF Holds, InOnePlace, Armed, Started, HasSocket, HasTimers, OwnBeat
    <2> QED
      BY <2>1, <2>2, <2>3 DEF Holds
  <1>4. /\ b \in Clients /\ SameConnection(j, b) /\ b.queue = j.queue
        /\ b.stopped = j.stopped
    BY <1>2, CompleteFacts DEF Results
  <1> HIDE DEF b
  <1>5. Holds(b, lk, ct, tm)
    <2>1. OwnTasks(b) /\ (b.closed => b.queue = <<>>)
      BY <1>3, <1>4 DEF SameConnection, Holds, OwnTasks, OwnedHandles
    <2> QED
      BY <1>3, <1>4, <2>1, HoldsSame
  <1>6. d \in Clients /\ Holds(d, lk, ct, tm)
    BY <1>4, <1>5, HoldsEmit DEF Names
  <1>7. Confirms(b, d)
    <2>1. b.generation \in Nat
      BY <1>4 DEF Clients
    <2>2. Emits(b, d, "connected", b.generation)
      BY <1>4, <2>1, EmitFacts DEF Emit, Names
    <2>3. ASSUME Overflows(b, d) PROVE Confirms(b, d)
      BY <2>3 DEF Overflows, Ended, Confirms, Timers
    <2> QED
      BY <1>4, <2>2, <2>3 DEF Emits, Clients, Confirms
  <1>8. Confirms(c, d)
    BY <1>2, <1>4, <1>7 DEF SameConnection, Confirms
  <1>9. Confirms(c, c)
    BY DEF Confirms
  <1> HIDE DEF d
  <1> QED
    BY <1>1, <1>6, <1>8, <1>9

(* Nothing of the connection is before its socket any more.                *)
PastPlaces(c, lk, ct, tm) ==
    ~Armed(c) /\ ~Started(c, tm) /\ c.generation \notin lk /\ c.generation \notin ct

(* A heartbeat is armed in the connection that asks for it. *)
LEMMA HoldsOwnBeat ==
    ASSUME NEW c \in Clients, NEW t \in Nat, NEW same \in BOOLEAN, NEW lk, NEW ct, NEW tm,
           Holds(c, lk, ct, tm), Valid(c, t), PastPlaces(c, lk, ct, tm)
    PROVE  LET d == StartHeartbeat(c, t, same)
           IN  /\ d \in Clients /\ Holds(d, lk, ct, tm)
               /\ d.generation = c.generation /\ d.stopped = c.stopped
  <1> DEFINE d == StartHeartbeat(c, t, same)
  <1>1. PICK hb \in Armings :
              /\ d = [c EXCEPT !.timers = hb]
              /\ hb["reconnect"] = c.timers["reconnect"] /\ hb["deadline"] = c.timers["deadline"]
              /\ hb["heartbeat"] = t \/ hb["heartbeat"] = c.timers["heartbeat"]
    BY StartHeartbeatFacts
  <1> HIDE DEF d
  <1>2. /\ d \in Clients /\ d.timers = hb /\ d.active = c.active /\ d.closed = c.closed
        /\ d.generation = c.generation /\ d.queue = c.queue /\ d.sockets = c.sockets
        /\ d.socket = c.socket /\ d.stray = c.stray /\ d.stopped = c.stopped
    BY <1>1 DEF Clients
  <1>3. OwnedHandles(d)
    BY <1>1, <1>2 DEF Holds, OwnedHandles, Valid
  <1>4. OwnTasks(d) /\ Behind(d, lk, ct, tm)
    <2>1. d.timers["heartbeat"] <= d.generation
      <3>1. c.generation \in Nat /\ t = c.generation
        BY DEF Clients, Valid
      <3> QED
        BY <1>1, <1>2, <3>1 DEF Holds, Behind
    <2> QED
      BY <1>1, <1>2, <2>1 DEF Holds, OwnTasks, Behind
  <1>5. InOnePlace(d, lk, ct, tm)
    BY <1>1, <1>2 DEF Holds, InOnePlace, PastPlaces, Armed, Started
  <1> QED
    BY <1>2, <1>3, <1>4, <1>5 DEF Holds, d

(* A heartbeat is armed by a connection that has just been stopped. *)
LEMMA HoldsStray ==
    ASSUME NEW c \in Clients, NEW t \in Nat, NEW same \in BOOLEAN, NEW lk, NEW ct, NEW tm,
           Holds(c, lk, ct, tm), ~c.active, c.timers["heartbeat"] = NoToken, t <= c.generation
    PROVE  LET d == [StartHeartbeat(c, t, same) EXCEPT !.stray = {t}]
           IN  d \in Clients /\ Holds(d, lk, ct, tm) /\ d.stopped = c.stopped
  <1> DEFINE b == StartHeartbeat(c, t, same)
             d == [b EXCEPT !.stray = {t}]
  <1>1. PICK hb \in Armings :
              /\ b = [c EXCEPT !.timers = hb] /\ hb["heartbeat"] = t
              /\ hb["reconnect"] = c.timers["reconnect"] /\ hb["deadline"] = c.timers["deadline"]
    BY StartHeartbeatFacts
  <1> HIDE DEF b
  <1>2. {t} \in Marks
    BY DEF Marks
  <1>3. d = [c EXCEPT !.timers = hb, !.stray = {t}]
    BY <1>1 DEF Clients
  <1> HIDE DEF d
  <1>4. /\ d \in Clients /\ d.timers = hb /\ d.active = c.active /\ d.closed = c.closed
        /\ d.generation = c.generation /\ d.queue = c.queue /\ d.sockets = c.sockets
        /\ d.stray = {t} /\ d.stopped = c.stopped
    BY <1>2, <1>3 DEF Clients
  <1>5. OwnedHandles(d)
    <2>1. \A x : ~Valid(c, x) /\ ~Valid(d, x)
      BY <1>4 DEF Valid
    <2> QED
      BY <1>1, <1>4, <2>1 DEF Holds, OwnedHandles
  <1>6. OwnTasks(d) /\ Behind(d, lk, ct, tm)
    BY <1>1, <1>4 DEF Holds, OwnTasks, Behind
  <1>7. InOnePlace(d, lk, ct, tm)
    BY <1>4 DEF InOnePlace
  <1> QED
    BY <1>4, <1>5, <1>6, <1>7 DEF Holds, d, b

(* The heartbeat a batch asks for, in either case. *)
LEMMA HoldsBeaten ==
    ASSUME client \in Clients, NEW t \in Nat, NEW beat \in Beats, Valid(client, t), NEW b,
           NEW lk \in SUBSET Nat, NEW ct \in SUBSET Nat, NEW tm \in Timings,
           b \in Clients, Holds(b, lk, ct, tm), Confirms(client, b),
           PastPlaces(client, lk, ct, tm)
    PROVE  LET d == Beaten(b, t, beat)
           IN  d \in Clients /\ Holds(d, lk, ct, tm) /\ (d.generation = t \/ d.stopped)
  <1>1. b.generation = t \/ b.stopped
    BY DEF Confirms, Valid
  <1>2. CASE beat = "none"
    BY <1>1, <1>2 DEF Beaten
  <1>3. CASE beat # "none" /\ Overflowed(b)
    <2>1. ~b.active /\ b.timers["heartbeat"] = NoToken /\ b.stopped /\ b.generation > t
      BY <1>3 DEF Confirms, Overflowed, Valid
    <2>4. t <= b.generation
      BY <2>1 DEF Clients
    <2>2. PICK same \in BOOLEAN : same = (beat = "same")
      OBVIOUS
    <2>3. Beaten(b, t, beat) = [StartHeartbeat(b, t, same) EXCEPT !.stray = {t}]
      BY <1>3, <2>2 DEF Beaten
    <2> QED
      BY <2>1, <2>3, <2>4, HoldsStray
  <1>4. CASE beat # "none" /\ ~Overflowed(b)
    <2>1. Valid(b, t) /\ PastPlaces(b, lk, ct, tm) /\ b.generation = t
      BY <1>4 DEF Confirms, Overflowed, Valid, PastPlaces, Armed, Started
    <2>2. PICK same \in BOOLEAN : same = (beat = "same")
      OBVIOUS
    <2>3. Beaten(b, t, beat) = StartHeartbeat(b, t, same)
      BY <1>4, <2>2 DEF Beaten
    <2> QED
      BY <2>1, <2>3, HoldsOwnBeat
  <1> QED
    BY <1>2, <1>3, <1>4

(* receive() after its second check. *)
LEMMA HoldsApplied ==
    ASSUME client \in Clients, NEW n \in Nat, NEW t \in Nat, NEW beat \in Beats, Valid(client, t),
           NEW lk \in SUBSET Nat, NEW ct \in SUBSET Nat, NEW tm \in Timings,
           TaskCapacity \in Nat \ {0}, Holds(client, lk, ct, tm), PastPlaces(client, lk, ct, tm)
    PROVE  LET d == EmitBatch(Beaten(Confirmed(client), t, beat), n, t)
           IN  d \in Clients /\ Holds(d, lk, ct, tm)
  <1> DEFINE a == Confirmed(client)
             b == Beaten(a, t, beat)
  <1>1. a \in Clients /\ Holds(a, lk, ct, tm) /\ Confirms(client, a)
    BY HoldsConfirmed
  <1> HIDE DEF a
  <1>2. b \in Clients /\ Holds(b, lk, ct, tm) /\ (b.generation = t \/ b.stopped)
    BY <1>1, HoldsBeaten
  <1> HIDE DEF b
  <1>3. CASE b.generation = t
    BY <1>2, <1>3, HoldsBatch DEF b, a
  <1>4. CASE b.stopped
    BY <1>2, <1>4 DEF EmitBatch, b, a
  <1> QED
    BY <1>2, <1>3, <1>4

(* A callback leaves the queue. *)
Taken(c) == [c EXCEPT !.queue = Tail(@)]

LEMMA TakenFacts ==
    ASSUME NEW c \in Clients, c.queue # <<>>
    PROVE  /\ Taken(c) \in Clients /\ SameConnection(c, Taken(c))
           /\ Taken(c).queue \in Seq(Tasks)
           /\ Taken(c).stopped = c.stopped /\ Taken(c).connected = c.connected
           /\ Len(c.queue) \in Nat \ {0} /\ c.queue \in Seq(Tasks)
           /\ Len(Taken(c).queue) = Len(c.queue) - 1
           /\ DOMAIN c.queue = 1 .. Len(c.queue)
           /\ DOMAIN Taken(c).queue = 1 .. Len(c.queue) - 1
           /\ \A i \in 1 .. Len(c.queue) - 1 : Taken(c).queue[i] = c.queue[i + 1]
           /\ Head(c.queue) = c.queue[1]
  <1> DEFINE q == Tail(c.queue)
             d == Taken(c)
  <1>1. c.queue \in Seq(Tasks)
    BY DEF Clients, Queues
  <1>2. /\ q \in Seq(Tasks) /\ Len(q) = Len(c.queue) - 1
        /\ \A i \in 1 .. Len(q) : q[i] = c.queue[i + 1]
        /\ Head(c.queue) = c.queue[1]
    BY <1>1, HeadTailProperties
  <1>3. Len(c.queue) \in Nat \ {0} /\ DOMAIN c.queue = 1 .. Len(c.queue)
    BY <1>1, EmptySeq, LenProperties
  <1>4. DOMAIN q = 1 .. Len(q)
    BY <1>2, LenProperties
  <1>5. d = [c EXCEPT !.queue = q]
    BY DEF Taken
  <1> HIDE DEF q, d
  <1>6. d \in Clients
    BY <1>2, <1>5 DEF Clients, Queues
  <1>7. SameConnection(c, d) /\ d.stopped = c.stopped /\ d.connected = c.connected /\ d.queue = q
    BY <1>5 DEF SameConnection, Clients
  <1> QED
    BY <1>1, <1>2, <1>3, <1>4, <1>6, <1>7 DEF d

LEMMA HoldsTaken ==
    ASSUME NEW c \in Clients, c.queue # <<>>,
           NEW lk, NEW ct, NEW tm, Holds(c, lk, ct, tm), TaskCapacity \in Nat
    PROVE  Holds(Taken(c), lk, ct, tm)
  <1> DEFINE d == Taken(c)
             m == Len(c.queue)
  <1>1. /\ SameConnection(c, d) /\ m \in Nat \ {0}
        /\ Len(d.queue) = m - 1 /\ DOMAIN c.queue = 1 .. m /\ DOMAIN d.queue = 1 .. m - 1
        /\ \A i \in 1 .. m - 1 : d.queue[i] = c.queue[i + 1]
    BY TakenFacts
  <1>2. ~c.closed
    BY DEF Holds, OwnedHandles
  <1>3. /\ m <= TaskCapacity
        /\ \A i \in DOMAIN c.queue :
               /\ c.queue[i].token <= c.generation
               /\ c.queue[i].name = "event" => c.queue[i].from = c.queue[i].token
    BY DEF Holds, OwnTasks
  <1> HIDE DEF d, m
  <1>4. ASSUME NEW i \in DOMAIN d.queue
        PROVE  /\ d.queue[i].token <= d.generation
               /\ d.queue[i].name = "event" => d.queue[i].from = d.queue[i].token
    <2>1. i \in 1 .. m - 1 /\ i + 1 \in 1 .. m
      BY <1>1
    <2>2. d.queue[i] = c.queue[i + 1] /\ i + 1 \in DOMAIN c.queue
      BY <1>1, <2>1
    <2> QED
      BY <1>1, <1>3, <2>2 DEF SameConnection
  <1>5. Len(d.queue) <= TaskCapacity
    BY <1>1, <1>3
  <1>6. OwnTasks(d)
    BY <1>4, <1>5 DEF OwnTasks
  <1>7. ~d.closed
    BY <1>1, <1>2 DEF SameConnection
  <1> QED
    BY <1>1, <1>6, <1>7, HoldsSame DEF d

(* The actions. *)
Sound == client \in Clients /\ Holds(client, lookups, catalogs, timer)

LEMMA Given ==
    ASSUME ConnectionInv
    PROVE  /\ client \in Clients /\ Holds(client, lookups, catalogs, timer)
           /\ lookups \in SUBSET Nat /\ catalogs \in SUBSET Nat /\ timer \in Timings
           /\ TaskCapacity \in Nat \ {0} /\ client.generation \in Nat
           /\ setup.confirm \in BOOLEAN /\ setup.gifts \in BOOLEAN
           /\ \A t \in reading : t \in Nat
BY JavaAssumption DEF ConnectionInv, JavaType, Clients, Timings

LEMMA CancelFutureSound ==
    ASSUME ConnectionInv, NEW f \in 1 .. MaxConnects, CancelFuture(f)
    PROVE  Sound'
  <1> DEFINE g == [client.future EXCEPT ![f] = "cancelled"]
  <1>1. g \in Futures
    BY Given DEF Clients, Futures
  <1>2. client' = [client EXCEPT !.future = g] /\ UNCHANGED <<lookups, catalogs, timer>>
    BY DEF CancelFuture
  <1> HIDE DEF g
  <1>3. client' \in Clients
    BY <1>1, <1>2, Given DEF Clients
  <1>4. SameConnection(client, client') /\ client'.queue = client.queue
    BY <1>2, Given DEF Clients, SameConnection
  <1>5. OwnTasks(client') /\ (client'.closed => client'.queue = <<>>)
    BY <1>4, Given DEF Holds, OwnTasks, OwnedHandles, SameConnection
  <1>6. Holds(client', lookups, catalogs, timer)
    BY <1>4, <1>5, Given, HoldsSame
  <1> QED
    BY <1>2, <1>3, <1>6 DEF Sound

LEMMA CompletionSound ==
    ASSUME ConnectionInv, NEW r \in client.completing, Completion(r)
    PROVE  Sound'
  <1> DEFINE g == [client.future EXCEPT ![r.future] = IF @ = "open" THEN r.result ELSE @]
             left == client.completing \ {r}
  <1>1. g \in Futures /\ left \in Completions
    <2>1. r.result \in Results /\ client.future \in Futures
      BY Given DEF Clients, Completions
    <2>2. left \in Completions
      BY Given DEF Clients, Completions
    <2>3. g \in Futures
      BY <2>1 DEF Futures
    <2> QED
      BY <2>2, <2>3
  <1>2. client' = [client EXCEPT !.completing = left, !.future = g]
        /\ UNCHANGED <<lookups, catalogs, timer>>
    BY Given DEF Completion, threadVars, Clients
  <1> HIDE DEF g, left
  <1>3. client' \in Clients
    BY <1>1, <1>2, Given DEF Clients
  <1>4. SameConnection(client, client') /\ client'.queue = client.queue
    BY <1>2, Given DEF Clients, SameConnection
  <1>5. OwnTasks(client') /\ (client'.closed => client'.queue = <<>>)
    BY <1>4, Given DEF Holds, OwnTasks, OwnedHandles, SameConnection
  <1>6. Holds(client', lookups, catalogs, timer)
    BY <1>4, <1>5, Given, HoldsSame
  <1> QED
    BY <1>2, <1>3, <1>6 DEF Sound

LEMMA DisconnectCallSound ==
    ASSUME ConnectionInv, DisconnectCall
    PROVE  Sound'
BY Given, HoldsDisconnect DEF DisconnectCall, LeaveCall, threadVars, Sound

LEMMA CancelHandlerSound ==
    ASSUME ConnectionInv, NEW f \in cancelling, CancelHandler(f)
    PROVE  Sound'
  <1>1. /\ client' = client \/ client' = Disconnect(client)
        /\ UNCHANGED <<lookups, catalogs, timer>>
    BY DEF CancelHandler, LeaveCall
  <1> QED
    BY <1>1, Given, HoldsDisconnect DEF Sound

LEMMA CloseCallSound ==
    ASSUME ConnectionInv, CloseCall
    PROVE  Sound'
  <1> DEFINE d == Disconnect(client)
             e == [d EXCEPT !.closed = TRUE, !.queue = <<>>]
  <1>1. client' = e /\ ~client.closed /\ UNCHANGED <<lookups, catalogs, timer>>
    BY DEF CloseCall, LeaveCall, threadVars
  <1>2. d \in Clients /\ Holds(d, lookups, catalogs, timer) /\ Quiet(d) /\ ~d.active
    BY <1>1, Given, HoldsDisconnect
  <1> HIDE DEF d
  <1>3. <<>> \in Queues
    BY DEF Queues
  <1>4. e \in Clients
    BY <1>2, <1>3 DEF Clients
  <1>5. /\ e.sockets = d.sockets /\ e.timers = d.timers /\ e.generation = d.generation
        /\ ~e.active /\ e.queue = <<>> /\ e.closed /\ e.stray = d.stray
    BY <1>2 DEF Clients
  <1> HIDE DEF e
  <1>6. OwnedHandles(e)
    BY <1>2, <1>5 DEF Quiet, OwnBeat, OwnedHandles
  <1>7. OwnTasks(e)
    BY <1>5, Given DEF OwnTasks
  <1>8. Behind(e, lookups, catalogs, timer) /\ InOnePlace(e, lookups, catalogs, timer)
    BY <1>2, <1>5 DEF Holds, Behind, InOnePlace
  <1> QED
    BY <1>1, <1>4, <1>6, <1>7, <1>8 DEF Holds, Sound

(* connect(): a new generation for a client that holds nothing. *)
Begun(c) ==
    [c EXCEPT !.stopped = FALSE, !.active = TRUE, !.retries = 0, !.generation = @ + 1,
              !.pending = c.pending + 1, !.future[c.pending + 1] = "open"]

LEMMA BegunFacts ==
    ASSUME NEW c \in Clients, c.pending < MaxConnects, MaxConnects \in Nat,
           ~c.active, NEW lk \in SUBSET Nat, NEW ct \in SUBSET Nat, NEW tm \in Timings,
           Holds(c, lk, ct, tm)
    PROVE  /\ Begun(c) \in Clients /\ Begun(c).generation = c.generation + 1
           /\ Begun(c).closed = c.closed /\ Begun(c).queue = c.queue
           /\ Begun(c).timers = c.timers /\ Begun(c).sockets = c.sockets
           /\ Begun(c).connected = c.connected /\ ~Begun(c).stopped
           /\ Ready(Begun(c), lk, ct, tm)
           /\ ~Armed(Begun(c))
  <1> DEFINE d == Begun(c)
             p == c.pending + 1
             g == [c.future EXCEPT ![p] = "open"]
  <1>1. c.generation \in Nat /\ c.generation + 1 \in Nat /\ p \in Operations /\ p \in 1 .. MaxConnects
    BY DEF Clients, Operations
  <1>2. g \in Futures
    BY <1>1 DEF Clients, Futures
  <1>3. d = [c EXCEPT !.stopped = FALSE, !.active = TRUE, !.retries = 0,
                      !.generation = c.generation + 1, !.pending = p, !.future = g]
    BY DEF Begun, Clients
  <1> HIDE DEF d, p, g
  <1>4. d \in Clients
    BY <1>1, <1>2, <1>3 DEF Clients
  <1>5. /\ d.closed = c.closed /\ d.queue = c.queue /\ d.timers = c.timers
        /\ d.sockets = c.sockets /\ d.connected = c.connected
        /\ ~d.stopped /\ d.active /\ d.generation = c.generation + 1 /\ d.stray = c.stray
    BY <1>3 DEF Clients
  <1>6. Quiet(c)
    BY AttemptIsQuiet
  <1>7. OwnedHandles(d) /\ Quiet(d)
    BY <1>5, <1>6 DEF Holds, Quiet, OwnBeat, OwnedHandles
  <1>8. OwnTasks(d)
    <2>1. \A i \in DOMAIN c.queue : c.queue[i].token \in Nat
      <3>1. c.queue \in Seq(Tasks)
        BY DEF Clients, Queues
      <3>2. \A i \in DOMAIN c.queue : c.queue[i] \in Tasks
        BY <3>1, ElementOfSeq, LenProperties
      <3> QED
        BY <3>2 DEF Tasks
    <2> QED
      BY <1>1, <1>5, <2>1 DEF Holds, OwnTasks
  <1>9. /\ \A t \in lk \cup ct : t \in Nat /\ t <= c.generation
        /\ \A s \in c.sockets : s.token \in Nat /\ s.token <= c.generation
        /\ c.timers["reconnect"] \in Nat /\ c.timers["reconnect"] <= c.generation
        /\ c.timers["heartbeat"] \in Nat /\ c.timers["heartbeat"] <= c.generation
        /\ tm.token \in Nat /\ tm.token <= c.generation
    BY DEF Holds, Behind, Clients, SocketSets, Sockets, Armings, Timers, Timings
  <1>10. Fresh(d, lk, ct, tm) /\ Behind(d, lk, ct, tm) /\ ~Armed(d)
    <2>1. Fresh(d, lk, ct, tm)
      BY <1>1, <1>5, <1>9 DEF Fresh
    <2>2. /\ \A t \in lk \cup ct : t <= d.generation
          /\ d.timers["reconnect"] <= d.generation /\ d.timers["heartbeat"] <= d.generation
          /\ tm.token <= d.generation
      BY <1>1, <1>5, <1>9
    <2>3. \A s \in d.sockets : s.token <= d.generation
      BY <1>1, <1>5, <1>9
    <2>4. ~Armed(d)
      BY <1>1, <1>5, <1>9 DEF Armed
    <2> QED
      BY <2>1, <2>2, <2>3, <2>4 DEF Behind
  <1>11. InOnePlace(d, lk, ct, tm)
    <2>1. \A t \in lk \cup ct : t # d.generation
      BY <1>1, <1>5, <1>9
    <2>2. tm.token # d.generation
      BY <1>1, <1>5, <1>9
    <2>3. \A s \in d.sockets : s.token # d.generation
      BY <1>1, <1>5, <1>9
    <2> QED
      BY <1>10, <2>1, <2>2, <2>3 DEF InOnePlace, Started
  <1> QED
    BY <1>4, <1>5, <1>7, <1>8, <1>10, <1>11 DEF Ready, Holds, d

LEMMA ConnectSound ==
    ASSUME ConnectionInv, Connect
    PROVE  Sound'
  <1> DEFINE c == Begun(client)
  <1>1. /\ ~client.closed /\ ~client.active /\ client.pending < MaxConnects
        /\ \/ client' = c /\ lookups' = lookups \cup {c.generation}
           \/ /\ UNCHANGED lookups
              /\ \E retryable \in BOOLEAN : client' = Fail(c, c.generation, retryable)
        /\ UNCHANGED <<catalogs, timer>>
    BY DEF Connect, Begun, LeaveCall
  <1>2. /\ c \in Clients /\ c.generation = client.generation + 1
        /\ Ready(c, lookups, catalogs, timer) /\ ~Armed(c)
    BY <1>1, Given, BegunFacts, JavaAssumption
  <1> HIDE DEF c
  <1>3. CASE client' = c /\ lookups' = lookups \cup {c.generation}
    <2> DEFINE lk == lookups \cup {c.generation}
    <2>1. c.generation \in Nat
      BY <1>2 DEF Clients
    <2>2. ~HasTimers(c) /\ ~HasSocket(c) /\ ~Started(c, timer) /\ c.generation \notin catalogs
      BY <1>2, <2>1 DEF Ready, Quiet, Fresh, HasTimers, HasSocket, Started
    <2>3. InOnePlace(c, lk, catalogs, timer)
      BY <1>2, <2>2 DEF Ready, Holds, InOnePlace
    <2>4. Behind(c, lk, catalogs, timer)
      BY <1>2, <2>1 DEF Ready, Holds, Behind
    <2>5. Holds(c, lk, catalogs, timer)
      BY <1>2, <2>3, <2>4 DEF Ready, Holds
    <2> QED
      BY <1>1, <1>2, <1>3, <2>5 DEF Sound
  <1>4. CASE UNCHANGED lookups /\ \E retryable \in BOOLEAN : client' = Fail(c, c.generation, retryable)
    <2>1. \A retryable \in BOOLEAN :
             /\ Fail(c, c.generation, retryable) \in Clients
             /\ Holds(Fail(c, c.generation, retryable), lookups, catalogs, timer)
      BY <1>2, Given, HoldsFail DEF Ready
    <2> QED
      BY <1>1, <1>4, <2>1 DEF Sound
  <1> QED
    BY <1>1, <1>3, <1>4

(* A failure of the attempt or the connection t, reported by what is over  *)
(* with it.                                                                *)
LEMMA FailSound ==
    ASSUME ConnectionInv, NEW t, NEW retryable, client' = Fail(client, t, retryable),
           lookups' \subseteq lookups, catalogs' \subseteq catalogs,
           timer' = timer \/ timer' = NoTask
    PROVE  Sound'
  <1>1. client' \in Clients /\ Holds(client', lookups, catalogs, timer)
    BY Given, HoldsFail
  <1>2. Holds(client', lookups', catalogs', timer')
    BY <1>1, HoldsLess
  <1> QED
    BY <1>1, <1>2 DEF Sound

LEMMA AcquisitionFailsSound ==
    ASSUME ConnectionInv, NEW t \in lookups, AcquisitionFails(t)
    PROVE  Sound'
  <1>1. PICK retryable \in BOOLEAN : client' = Fail(client, t, retryable)
    BY DEF AcquisitionFails, Leave
  <1>2. lookups' = lookups \ {t} /\ UNCHANGED <<catalogs, timer>>
    BY DEF AcquisitionFails
  <1> QED
    BY <1>1, <1>2, FailSound

LEMMA OpenThrowsSound ==
    ASSUME ConnectionInv, NEW t, OpenThrows(t)
    PROVE  Sound'
  <1>1. /\ client' = Fail(client, t, TRUE) /\ UNCHANGED timer
        /\ lookups' \subseteq lookups /\ catalogs' \subseteq catalogs
    BY DEF OpenThrows, Leave
  <1> QED
    BY <1>1, FailSound

(* The attempt is dropped: nothing of it is left but the record.           *)
LEMMA CatalogThrowsSound ==
    ASSUME ConnectionInv, NEW t \in lookups, CatalogThrows(t)
    PROVE  Sound'
  <1> DEFINE d == [client EXCEPT !.dropped = {t}]
             lk == lookups \ {t}
  <1>1. client' = d /\ lookups' = lk /\ catalogs' = catalogs /\ timer' = timer
    BY DEF CatalogThrows, Leave
  <1>2. lk \in SUBSET Nat /\ lk \subseteq lookups /\ {t} \in Marks
    BY Given DEF Marks
  <1>3. Holds(client, lk, catalogs, timer)
    BY <1>2, Given, HoldsLess
  <1>4. d \in Clients /\ SameConnection(client, d) /\ d.queue = client.queue
    BY <1>2, Given DEF Clients, SameConnection
  <1> HIDE DEF d, lk
  <1>5. OwnTasks(d) /\ (d.closed => d.queue = <<>>)
    BY <1>3, <1>4 DEF SameConnection, Holds, OwnTasks, OwnedHandles
  <1>6. Holds(d, lk, catalogs, timer)
    BY <1>3, <1>4, <1>5, HoldsSame
  <1> QED
    BY <1>1, <1>4, <1>6 DEF Sound

LEMMA AckFailsSound ==
    ASSUME ConnectionInv, NEW t \in reading, AckFails(t)
    PROVE  Sound'
  <1>1. /\ client' = Fail(client, t, TRUE) /\ UNCHANGED <<lookups, catalogs, timer>>
    BY DEF AckFails, Leave
  <1> QED
    BY <1>1, FailSound

LEMMA HeartbeatRunsSound ==
    ASSUME ConnectionInv, HeartbeatRuns
    PROVE  Sound'
  <1>1. /\ client' = Fail(client, timer.token, TRUE) /\ timer' = NoTask
        /\ UNCHANGED <<lookups, catalogs>>
    BY DEF HeartbeatRuns, Leave, TimerEnds, NoTask
  <1> QED
    BY <1>1, FailSound

LEMMA DeadlineRunsSound ==
    ASSUME ConnectionInv, DeadlineRuns
    PROVE  Sound'
  <1>1. /\ client' = client \/ client' = Fail(client, timer.token, TRUE)
        /\ timer' = NoTask /\ UNCHANGED <<lookups, catalogs>>
    BY DEF DeadlineRuns, Leave, TimerEnds, NoTask
  <1>2. CASE client' = client
    BY <1>1, <1>2, Given, HoldsLess DEF Sound
  <1> QED
    BY <1>1, <1>2, FailSound

(* The answer of the provider. *)
LEMMA AttemptAlone ==
    ASSUME ConnectionInv, NEW t, Valid(client, t), t \in lookups \cup catalogs
    PROVE  /\ t = client.generation /\ client.active /\ ~client.closed
           /\ ~Armed(client) /\ ~Started(client, timer)
           /\ t \in lookups => t \notin catalogs
           /\ ~HasSocket(client) /\ Quiet(client)
  <1>1. t = client.generation /\ client.active /\ ~client.closed
    BY DEF Valid
  <1>2. /\ ~Armed(client) /\ ~Started(client, timer)
        /\ t \in lookups => t \notin catalogs
        /\ ~HasSocket(client) /\ ~HasTimers(client)
    BY <1>1, Given DEF Holds, InOnePlace
  <1> QED
    BY <1>1, <1>2, Given, AttemptIsQuiet

(* The room is offline: the attempt ends without a socket. *)
Offline(c) == Complete([c EXCEPT !.active = FALSE, !.connected = FALSE], "value")

LEMMA OfflineFacts ==
    ASSUME NEW c \in Clients
    PROVE  LET d == Offline(c)
           IN  /\ d \in Clients /\ ~d.active /\ ~d.connected /\ d.closed = c.closed
               /\ d.generation = c.generation /\ d.sockets = c.sockets /\ d.timers = c.timers
               /\ d.queue = c.queue /\ d.stopped = c.stopped /\ d.stray = c.stray
  <1> DEFINE b == [c EXCEPT !.active = FALSE, !.connected = FALSE]
             d == Complete(b, "value")
  <1>1. b \in Clients
    BY DEF Clients
  <1>2. /\ ~b.active /\ ~b.connected /\ b.closed = c.closed
        /\ b.generation = c.generation /\ b.sockets = c.sockets /\ b.timers = c.timers
        /\ b.queue = c.queue /\ b.stopped = c.stopped /\ b.stray = c.stray
    BY DEF Clients
  <1> HIDE DEF b
  <1>3. /\ d \in Clients /\ SameConnection(b, d)
        /\ d.queue = b.queue /\ d.stopped = b.stopped /\ d.connected = b.connected
    BY <1>1, CompleteFacts DEF Results
  <1> HIDE DEF d
  <1> QED
    BY <1>2, <1>3 DEF SameConnection, Offline, b, d

LEMMA AcquiredSound ==
    ASSUME ConnectionInv, NEW t \in lookups, NEW live \in BOOLEAN, Acquired(t, live)
    PROVE  Sound'
  <1> DEFINE lk == lookups \ {t}
  <1>1. /\ lookups' = lk /\ timer' = timer
        /\ \/ ~Valid(client, t) /\ client' = client /\ catalogs' = catalogs
           \/ /\ Valid(client, t) /\ client' = Emit(Offline(client), "offline")
              /\ catalogs' = catalogs
           \/ Valid(client, t) /\ client' = client /\ catalogs' = catalogs \cup {t}
           \/ Valid(client, t) /\ client' = Open(client, t) /\ catalogs' = catalogs
    BY DEF Acquired, Leave, Offline
  <1>2. lk \in SUBSET Nat /\ t \in Nat /\ t \notin lk /\ lk \subseteq lookups
    BY Given
  <1>3. Holds(client, lk, catalogs, timer)
    BY <1>2, Given, HoldsLess
  <1> HIDE DEF lk
  <1>4. CASE client' = client /\ catalogs' = catalogs
    BY <1>1, <1>3, <1>4, Given DEF Sound
  <1>5. CASE /\ Valid(client, t) /\ client' = Emit(Offline(client), "offline")
             /\ catalogs' = catalogs
    <2> DEFINE d == Offline(client)
    <2>1. /\ d \in Clients /\ ~d.active /\ ~d.connected /\ d.closed = client.closed
          /\ d.generation = client.generation /\ d.sockets = client.sockets
          /\ d.timers = client.timers /\ d.queue = client.queue /\ d.stray = client.stray
      BY Given, OfflineFacts
    <2> HIDE DEF d
    <2>2. Quiet(client)
      BY <1>5, AttemptAlone
    <2>3. Holds(d, lk, catalogs, timer)
      BY <1>3, <2>1, <2>2, HoldsRest
    <2>4. Emit(d, "offline") \in Clients /\ Holds(Emit(d, "offline"), lk, catalogs, timer)
      BY <1>2, <2>1, <2>3, Given, HoldsEmit DEF Names
    <2> QED
      BY <1>1, <1>5, <2>4 DEF Sound, d
  <1>6. CASE Valid(client, t) /\ client' = client /\ catalogs' = catalogs \cup {t}
    <2> DEFINE ct == catalogs \cup {t}
    <2>1. /\ t = client.generation /\ ~Armed(client) /\ ~Started(client, timer)
          /\ ~HasSocket(client) /\ client.active /\ ~client.closed
      BY <1>6, AttemptAlone
    <2>2. ~HasTimers(client)
      BY <2>1, Given DEF Holds, InOnePlace
    <2>3. InOnePlace(client, lk, ct, timer)
      BY <1>2, <2>1, <2>2 DEF InOnePlace, HasSocket
    <2>4. Behind(client, lk, ct, timer)
      BY <1>3, <2>1, Given DEF Holds, Behind
    <2>5. Holds(client, lk, ct, timer)
      BY <1>3, <2>3, <2>4 DEF Holds
    <2> QED
      BY <1>1, <1>6, <2>5, Given DEF Sound
  <1>7. CASE Valid(client, t) /\ client' = Open(client, t) /\ catalogs' = catalogs
    <2>1. /\ t = client.generation /\ ~Armed(client) /\ ~Started(client, timer)
          /\ t \notin catalogs /\ ~HasSocket(client) /\ Quiet(client)
      BY <1>7, AttemptAlone
    <2>2. t <= client.generation
      BY <1>2, <2>1
    <2>3. Open(client, t) \in Clients /\ Holds(Open(client, t), lk, catalogs, timer)
      BY <1>2, <1>3, <2>1, <2>2, Given, HoldsOpen
    <2> QED
      BY <1>1, <1>7, <2>3 DEF Sound
  <1> QED
    BY <1>1, <1>4, <1>5, <1>6, <1>7

LEMMA CatalogLoadedSound ==
    ASSUME ConnectionInv, NEW t \in catalogs, CatalogLoaded(t)
    PROVE  Sound'
  <1> DEFINE ct == catalogs \ {t}
  <1>1. /\ catalogs' = ct /\ UNCHANGED <<lookups, timer>>
        /\ \/ ~Valid(client, t) /\ client' = client
           \/ Valid(client, t) /\ client' = Open(client, t)
    BY DEF CatalogLoaded, Leave
  <1>2. ct \in SUBSET Nat /\ t \in Nat /\ t \notin ct /\ ct \subseteq catalogs
    BY Given
  <1>3. Holds(client, lookups, ct, timer)
    BY <1>2, Given, HoldsLess
  <1> HIDE DEF ct
  <1>4. CASE client' = client
    BY <1>1, <1>3, <1>4, Given DEF Sound
  <1>5. CASE Valid(client, t) /\ client' = Open(client, t)
    <2>1. /\ t = client.generation /\ ~Armed(client) /\ ~Started(client, timer)
          /\ t \notin lookups /\ ~HasSocket(client) /\ Quiet(client)
      BY <1>5, AttemptAlone
    <2>2. t <= client.generation
      BY <1>2, <2>1
    <2>3. Open(client, t) \in Clients /\ Holds(Open(client, t), lookups, ct, timer)
      BY <1>2, <1>3, <2>1, <2>2, Given, HoldsOpen
    <2> QED
      BY <1>1, <1>5, <2>3 DEF Sound
  <1> QED
    BY <1>1, <1>4, <1>5

(* The socket is opened although the report that the list is missing may   *)
(* have ended the connection: it is then one more socket to cancel.        *)
LEMMA CatalogFailsSound ==
    ASSUME ConnectionInv, NEW t \in catalogs, CatalogFails(t)
    PROVE  Sound'
  <1> DEFINE ct == catalogs \ {t}
             e == Emit(client, "error")
  <1>1. /\ catalogs' = ct /\ UNCHANGED <<lookups, timer>>
        /\ \/ ~Valid(client, t) /\ client' = client
           \/ Valid(client, t) /\ client' = Open(e, t)
    BY DEF CatalogFails, Leave
  <1>2. ct \in SUBSET Nat /\ t \in Nat /\ t \notin ct /\ ct \subseteq catalogs
    BY Given
  <1>3. Holds(client, lookups, ct, timer)
    BY <1>2, Given, HoldsLess
  <1> HIDE DEF ct
  <1>4. CASE client' = client
    BY <1>1, <1>3, <1>4, Given DEF Sound
  <1>5. CASE Valid(client, t) /\ client' = Open(e, t)
    <2>1. /\ t = client.generation /\ ~Armed(client) /\ ~Started(client, timer)
          /\ t \notin lookups /\ ~HasSocket(client) /\ Quiet(client)
      BY <1>5, AttemptAlone
    <2>2. Emits(client, e, "error", client.generation) /\ e \in Clients
      BY Given, EmitFacts DEF Emit, Names, Emits
    <2>3. Holds(e, lookups, ct, timer) /\ Quiet(e)
      BY <1>2, <1>3, <2>1, <2>2, Given, HoldsEmits DEF Names
    <2>4. t <= e.generation
      BY <1>2, <2>1, <2>2, Given DEF Emits, Overflows, Ended, Clients
    <2>5. e.active =>
             /\ e.generation = client.generation /\ e.timers = client.timers
             /\ e.sockets = client.sockets
      BY <2>2, Given DEF Emits, Overflows, Clients
    <2>6. e.active /\ ~e.closed =>
             /\ t = e.generation
             /\ ~Armed(e) /\ ~Started(e, timer) /\ t \notin lookups /\ t \notin ct
             /\ ~HasSocket(e)
      BY <1>2, <2>1, <2>5 DEF Armed, Started, HasSocket
    <2> HIDE DEF e
    <2>7. Open(e, t) \in Clients /\ Holds(Open(e, t), lookups, ct, timer)
      BY <1>2, <2>2, <2>3, <2>4, <2>6, Given, HoldsOpen
    <2> QED
      BY <1>1, <1>5, <2>7 DEF Sound
  <1> QED
    BY <1>1, <1>4, <1>5

LEMMA OnOpenSound ==
    ASSUME ConnectionInv, NEW s \in client.sockets, NEW same \in BOOLEAN, OnOpen(s, same)
    PROVE  Sound'
  <1> DEFINE c == Move(client, s, "open")
  <1>1. c \in Clients /\ c = [client EXCEPT !.sockets = c.sockets]
    BY Given, MoveFacts
  <1>2. Valid(c, s.token) <=> Valid(client, s.token)
    <2>1. /\ c.closed = client.closed /\ c.active = client.active
          /\ c.generation = client.generation
      BY <1>1, Given DEF Clients
    <2> QED
      BY <2>1 DEF Valid
  <1>3. /\ client' = IF Valid(c, s.token) THEN Entered(c, s.token, same)
                     ELSE CancelSocket(c, s.token)
        /\ UNCHANGED <<lookups, catalogs, timer>>
    BY DEF OnOpen, Leave, threadVars
  <1> HIDE DEF c
  <1>4. CASE Valid(client, s.token)
    <2>1. client' = Entered(c, s.token, same)
      BY <1>2, <1>3, <1>4
    <2>2. /\ Entered(c, s.token, same) \in Clients
          /\ Holds(Entered(c, s.token, same), lookups, catalogs, timer)
      BY <1>4, Given, HoldsEntered DEF c
    <2> QED
      BY <1>3, <2>1, <2>2 DEF Sound
  <1>5. CASE ~Valid(client, s.token)
    <2>1. client' = CancelSocket(c, s.token)
      BY <1>2, <1>3, <1>5
    <2>2. /\ CancelSocket(c, s.token) \in Clients
          /\ Holds(CancelSocket(c, s.token), lookups, catalogs, timer)
      BY <1>5, Given, HoldsLateOpen DEF c
    <2> QED
      BY <1>3, <2>1, <2>2 DEF Sound
  <1> QED
    BY <1>4, <1>5

(* What is armed makes no difference to fail(), which stops it. *)
LEMMA FailForgetsTimers ==
    ASSUME NEW c \in Clients, NEW hb \in Armings, NEW t, Valid(c, t)
    PROVE  Fail(c, t, TRUE) = Fail([c EXCEPT !.timers = hb], t, TRUE)
  <1> DEFINE e == [c EXCEPT !.timers = hb]
             b == [c EXCEPT !.generation = @ + 1]
             x == [e EXCEPT !.generation = @ + 1]
  <1>1. Valid(e, t)
    BY DEF Valid, Clients
  <1>2. StopSocket(b) = StopSocket(x)
    <2>1. /\ StopSocket(b) =
                [[b EXCEPT !.sockets = CancelSocket(b, b.socket).sockets]
                    EXCEPT !.timers = [k \in Timers |-> NoToken], !.socket = NoToken]
          /\ StopSocket(x) =
                [[x EXCEPT !.sockets = CancelSocket(x, x.socket).sockets]
                    EXCEPT !.timers = [k \in Timers |-> NoToken], !.socket = NoToken]
      BY DEF StopSocket, CancelSocket, Clients
    <2>2. CancelSocket(b, b.socket).sockets = CancelSocket(x, x.socket).sockets
      BY DEF CancelSocket, Clients
    <2> DEFINE S == CancelSocket(b, b.socket).sockets
               none == [k \in Timers |-> NoToken]
               rest == [c EXCEPT !.generation = @ + 1, !.sockets = S, !.timers = none,
                                 !.socket = NoToken]
    <2> HIDE DEF S, none
    <2>3. /\ StopSocket(b) = [[b EXCEPT !.sockets = S] EXCEPT !.timers = none, !.socket = NoToken]
          /\ StopSocket(x) = [[x EXCEPT !.sockets = S] EXCEPT !.timers = none, !.socket = NoToken]
      BY <2>1, <2>2 DEF S, none
    <2>4. StopSocket(b) = rest
      BY <2>3 DEF Clients
    <2>5. StopSocket(x) = rest
      BY <2>3 DEF Clients
    <2> QED
      BY <2>4, <2>5
  <1>3. Tell(c) = Tell(e)
    BY <1>2 DEF Tell
  <1> QED
    BY <1>1, <1>3 DEF Fail

LEMMA OnOpenFailsSound ==
    ASSUME ConnectionInv, NEW s \in client.sockets, OnOpenFails(s)
    PROVE  Sound'
  <1> DEFINE m == Move(client, s, "open")
             d == [m EXCEPT !.socket = s.token]
  <1>1. m \in Clients /\ m = [client EXCEPT !.sockets = m.sockets]
        /\ m.sockets = Move(client, s, "open").sockets
    BY Given, MoveFacts
  <1>2. /\ client' = Fail(d, s.token, TRUE) /\ Valid(client, s.token)
        /\ UNCHANGED <<lookups, catalogs, timer>>
    BY DEF OnOpenFails, Leave, threadVars
  <1>3. s.token \in Nat
    BY Given DEF Clients, SocketSets, Sockets
  <1> HIDE DEF m
  <1>4. d \in Clients
    BY <1>1, <1>3 DEF Clients
  <1>5. /\ d.active = client.active /\ d.closed = client.closed
        /\ d.generation = client.generation /\ d.queue = client.queue
        /\ d.socket = s.token /\ d.sockets = m.sockets /\ d.timers = client.timers
        /\ d.stray = client.stray
    BY <1>1, Given DEF Clients
  <1> HIDE DEF d
  <1>6. PICK e : /\ e \in Clients /\ Holds(e, lookups, catalogs, timer)
                 /\ Fail(d, s.token, TRUE) = Fail(e, s.token, TRUE)
    <2> DEFINE hb == [d.timers EXCEPT !["heartbeat"] = s.token]
               e == [d EXCEPT !.timers = hb]
    <2>1. /\ hb \in Armings /\ hb["heartbeat"] = s.token
          /\ hb["reconnect"] = client.timers["reconnect"]
          /\ hb["deadline"] = client.timers["deadline"]
      BY <1>3, <1>4, <1>5 DEF Clients, Armings, Timers
    <2> HIDE DEF hb
    <2>2. /\ e \in Clients /\ e.timers = hb
          /\ e.active = d.active /\ e.closed = d.closed /\ e.generation = d.generation
          /\ e.queue = d.queue /\ e.socket = d.socket /\ e.sockets = d.sockets
          /\ e.stray = d.stray
      BY <1>4, <2>1 DEF Clients
    <2>3. Fail(d, s.token, TRUE) = Fail(e, s.token, TRUE)
      <3>1. Valid(d, s.token)
        BY <1>2, <1>5 DEF Valid
      <3> QED
        BY <1>4, <2>1, <3>1, FailForgetsTimers
    <2> HIDE DEF e
    <2>4. Holds(e, lookups, catalogs, timer)
      BY <1>1, <1>2, <1>5, <2>1, <2>2, Given, HoldsOpened DEF Beating
    <2> QED
      BY <2>2, <2>3, <2>4
  <1>7. /\ Fail(d, s.token, TRUE) \in Clients
        /\ Holds(Fail(d, s.token, TRUE), lookups, catalogs, timer)
    BY <1>6, Given, HoldsFail
  <1> QED
    BY <1>2, <1>7 DEF Sound

LEMMA OnEndSound ==
    ASSUME ConnectionInv, NEW s \in client.sockets, OnEnd(s)
    PROVE  Sound'
  <1> DEFINE S == client.sockets \ {s}
             d == [client EXCEPT !.sockets = S]
  <1>1. /\ client' = Fail(d, s.token, TRUE) /\ UNCHANGED <<lookups, catalogs, timer>>
    <2>1. d = [client EXCEPT !.sockets = @ \ {s}]
      BY Given DEF Clients
    <2> QED
      BY <2>1 DEF OnEnd, Leave, threadVars
  <1>2. S \in SocketSets /\ S \subseteq client.sockets
    BY Given DEF Clients, SocketSets
  <1> HIDE DEF S
  <1>3. d \in Clients
    BY <1>2, Given DEF Clients
  <1>4. /\ d.active = client.active /\ d.closed = client.closed
        /\ d.generation = client.generation /\ d.queue = client.queue
        /\ d.socket = client.socket /\ d.sockets = S /\ d.timers = client.timers
        /\ d.stray = client.stray
    BY Given DEF Clients
  <1> HIDE DEF d
  <1>5. OwnedHandles(d)
    BY <1>2, <1>4, Given DEF Holds, OwnedHandles, Valid
  <1>6. OwnTasks(d) /\ Behind(d, lookups, catalogs, timer)
    BY <1>2, <1>4, Given DEF Holds, OwnTasks, Behind
  <1>7. InOnePlace(d, lookups, catalogs, timer)
    BY <1>2, <1>4, Given DEF Holds, InOnePlace, Armed, Started, HasSocket, HasTimers, OwnBeat
  <1>8. Holds(d, lookups, catalogs, timer)
    BY <1>5, <1>6, <1>7 DEF Holds
  <1>9. /\ Fail(d, s.token, TRUE) \in Clients
        /\ Holds(Fail(d, s.token, TRUE), lookups, catalogs, timer)
    BY <1>3, <1>8, Given, HoldsFail
  <1> QED
    BY <1>1, <1>9 DEF Sound

LEMMA ReceiveMalformedSound ==
    ASSUME ConnectionInv, NEW t \in reading, ReceiveMalformed(t)
    PROVE  Sound'
  <1> DEFINE d == EmitFrom(client, "error", t)
  <1>1. client' = d /\ UNCHANGED <<lookups, catalogs, timer>>
    BY DEF ReceiveMalformed, Leave
  <1>2. Emits(client, d, "error", t) /\ d \in Clients
    BY Given, EmitFacts DEF Names, Emits
  <1>3. Holds(d, lookups, catalogs, timer)
    BY <1>2, Given, HoldsEmits DEF Names
  <1> QED
    BY <1>1, <1>2, <1>3 DEF Sound

LEMMA ApplySound ==
    ASSUME ConnectionInv, TurnInv, NEW t \in reading, NEW n \in 0 .. MaxBatch, NEW beat \in Beats,
           Apply(t, n, beat)
    PROVE  Sound'
  <1> DEFINE d == EmitBatch(Beaten(Confirmed(client), t, beat), n, t)
  <1>1. /\ \/ Valid(client, t) /\ client' = d
           \/ client' = client
        /\ UNCHANGED <<lookups, catalogs, timer>>
    BY DEF Apply, Leave
  <1>2. n \in Nat /\ t \in Nat
    BY Given, JavaAssumption
  <1>3. CASE Valid(client, t) /\ client' = d
    <2>1. PastPlaces(client, lookups, catalogs, timer)
      BY <1>3 DEF TurnInv, Turn, Attempting, PastPlaces
    <2>2. d \in Clients /\ Holds(d, lookups, catalogs, timer)
      BY <1>2, <1>3, <2>1, Given, HoldsApplied
    <2> QED
      BY <1>1, <1>3, <2>2 DEF Sound
  <1> QED
    BY <1>1, <1>3, Given DEF Sound

LEMMA TimerStartsSound ==
    ASSUME ConnectionInv, NEW k \in Timers, TimerStarts(k)
    PROVE  Sound'
  <1>1. /\ timer' = [kind |-> k, token |-> client.timers[k]]
        /\ UNCHANGED <<lookups, catalogs>>
    BY DEF TimerStarts
  <1>2. CASE k = "heartbeat"
    <2>1. client' = client /\ timer'.kind = "heartbeat" /\ timer'.token = client.timers["heartbeat"]
          /\ client.timers["heartbeat"] # NoToken
      BY <1>1, <1>2 DEF TimerStarts
    <2>2. timer'.token <= client.generation
      BY <2>1, Given DEF Holds, Behind
    <2>3. ~Started(client, timer')
      BY <2>1 DEF Started
    <2>4. Holds(client, lookups, catalogs, timer')
      BY <2>2, <2>3, Given DEF Holds, Behind, InOnePlace
    <2> QED
      BY <1>1, <2>1, <2>4, Given DEF Sound
  <1>3. CASE k # "heartbeat"
    <2> DEFINE a == [client.timers EXCEPT ![k] = NoToken]
               d == [client EXCEPT !.timers = a]
    <2>1. client' = d /\ client.timers[k] # NoToken
      BY <1>3, Given DEF TimerStarts, Clients
    <2>2. /\ a \in Armings /\ a["heartbeat"] = client.timers["heartbeat"]
          /\ a["deadline"] \in {client.timers["deadline"], NoToken}
          /\ a["reconnect"] = IF k = "reconnect" THEN NoToken ELSE client.timers["reconnect"]
      BY <1>3, Given DEF Clients, Armings, Timers, NoToken
    <2>3. timer'.kind = k /\ timer'.token = client.timers[k]
      BY <1>1
    <2>4. \A x \in Timers : client.timers[x] \in Nat
      BY Given DEF Clients, Armings
    <2> HIDE DEF a
    <2>5. d \in Clients
      BY <2>2, Given DEF Clients
    <2>6. /\ d.active = client.active /\ d.closed = client.closed
          /\ d.generation = client.generation /\ d.queue = client.queue
          /\ d.socket = client.socket /\ d.sockets = client.sockets /\ d.timers = a
          /\ d.stray = client.stray
      BY Given DEF Clients
    <2> HIDE DEF d
    <2>7. OwnedHandles(d) /\ OwnTasks(d)
      BY <2>2, <2>6, Given DEF Holds, OwnedHandles, OwnTasks, Valid
    <2>8. timer'.token <= client.generation
      <3>1. CASE k = "reconnect"
        BY <2>3, <3>1, Given DEF Holds, Behind
      <3>2. CASE k = "deadline"
        BY <2>1, <2>3, <3>2, Given DEF Holds, OwnedHandles, Valid
      <3> QED
        BY <1>3, <3>1, <3>2 DEF Timers
    <2>9. Behind(d, lookups, catalogs, timer')
      BY <2>2, <2>6, <2>8, Given DEF Holds, Behind, NoToken
    <2>10. InOnePlace(d, lookups, catalogs, timer')
      <3>1. SUFFICES ASSUME client.active, ~client.closed
                     PROVE  InOnePlace(d, lookups, catalogs, timer')
        BY <2>6 DEF InOnePlace
      <3>2. CASE k = "reconnect"
        <4>1. Started(d, timer') => Armed(client)
          BY <2>3, <2>6, <3>2 DEF Started, Armed
        <4>2. Armed(d) => ~Started(d, timer')
          BY <2>1, <2>2, <2>3, <2>4, <2>6, <3>2 DEF Started, Armed, NoToken
        <4>3. Armed(d) => ~HasSocket(client) /\ ~HasTimers(client) /\ client.generation \notin lookups
                           /\ client.generation \notin catalogs
          <5>1. Armed(d) => client.generation = 0
            BY <2>2, <2>6, <3>2 DEF Armed, NoToken
          <5>2. client.generation # 0
            BY <2>1, <2>4, <3>2, Given DEF Holds, Behind, NoToken, Timers
          <5> QED
            BY <5>1, <5>2
        <4>4. HasTimers(d) => HasTimers(client)
          BY <2>2, <2>6 DEF HasTimers, OwnBeat
        <4> QED
          BY <2>6, <3>1, <4>1, <4>2, <4>3, <4>4, Given DEF Holds, InOnePlace, HasSocket
      <3>3. CASE k # "reconnect"
        <4>1. ~Started(d, timer')
          BY <2>3, <3>3 DEF Started
        <4>2. Armed(d) <=> Armed(client)
          BY <2>2, <2>6, <3>3 DEF Armed
        <4>3. HasTimers(d) => HasTimers(client)
          BY <2>2, <2>6 DEF HasTimers, OwnBeat
        <4> QED
          BY <2>6, <3>1, <4>1, <4>2, <4>3, Given DEF Holds, InOnePlace, HasSocket
      <3> QED
        BY <3>2, <3>3
    <2> QED
      BY <1>1, <2>1, <2>5, <2>7, <2>9, <2>10 DEF Holds, Sound
  <1> QED
    BY <1>2, <1>3

(* The next attempt begins: the timer's task hands it to the provider.     *)
LEMMA ReconnectRunsSound ==
    ASSUME ConnectionInv, ReconnectRuns
    PROVE  Sound'
  <1> DEFINE t == timer.token
  <1>1. /\ timer' = NoTask /\ UNCHANGED catalogs /\ timer.kind = "reconnect"
        /\ \/ Valid(client, t) /\ client' = client /\ lookups' = lookups \cup {t}
           \/ \E retryable \in BOOLEAN : client' = Fail(client, t, retryable) /\ UNCHANGED lookups
           \/ client' = client /\ UNCHANGED lookups
    BY DEF ReconnectRuns, Request, Leave, TimerEnds, NoTask
  <1>2. CASE Valid(client, t) /\ client' = client /\ lookups' = lookups \cup {t}
    <2> DEFINE lk == lookups \cup {t}
    <2>1. /\ client.active /\ ~client.closed /\ t = client.generation /\ Started(client, timer)
      BY <1>1, <1>2 DEF Valid, Started
    <2>2. /\ ~Armed(client) /\ t \notin lookups /\ t \notin catalogs
          /\ ~HasSocket(client) /\ ~HasTimers(client)
          /\ \A s1, s2 \in client.sockets :
                 s1.token = client.generation /\ s2.token = client.generation => s1 = s2
      BY <2>1, Given DEF Holds, InOnePlace
    <2>3. ~Started(client, NoTask)
      BY DEF Started, NoTask
    <2>4. InOnePlace(client, lk, catalogs, NoTask)
      BY <2>1, <2>2, <2>3 DEF InOnePlace
    <2>5. Behind(client, lk, catalogs, NoTask)
      BY <2>1, Given DEF Holds, Behind, NoTask
    <2>6. Holds(client, lk, catalogs, NoTask)
      BY <2>4, <2>5, Given DEF Holds
    <2> QED
      BY <1>1, <1>2, <2>6, Given DEF Sound
  <1>3. CASE \E retryable \in BOOLEAN : client' = Fail(client, t, retryable) /\ UNCHANGED lookups
    <2>1. PICK retryable \in BOOLEAN : client' = Fail(client, t, retryable) /\ UNCHANGED lookups
      BY <1>3
    <2> QED
      BY <1>1, <2>1, FailSound
  <1>4. CASE client' = client /\ UNCHANGED lookups
    BY <1>1, <1>4, Given, HoldsLess DEF Sound
  <1> QED
    BY <1>1, <1>2, <1>3, <1>4

LEMMA TakeTaskSound ==
    ASSUME ConnectionInv, TakeTask
    PROVE  Sound'
  <1> DEFINE c == Taken(client)
  <1>1. /\ client.queue # <<>> /\ (client' = c \/ client' = Emit(c, "error"))
        /\ UNCHANGED <<lookups, catalogs, timer>>
    BY DEF TakeTask, Taken, threadVars
  <1>2. c \in Clients /\ Holds(c, lookups, catalogs, timer)
    BY <1>1, Given, TakenFacts, HoldsTaken
  <1> HIDE DEF c
  <1>3. Emit(c, "error") \in Clients /\ Holds(Emit(c, "error"), lookups, catalogs, timer)
    BY <1>2, Given, HoldsEmit DEF Names
  <1> QED
    BY <1>1, <1>2, <1>3 DEF Sound

LEMMA ReceiveStartsSound ==
    ASSUME ConnectionInv, NEW s \in client.sockets, ReceiveStarts(s)
    PROVE  Sound'
BY Given DEF ReceiveStarts, Sound

LEMMA ConnectionStep == ASSUME ConnectionInv, TurnInv, JavaNext PROVE Sound'
  <1>1. CASE Application
    BY <1>1, ConnectSound, DisconnectCallSound, CloseCallSound, CancelFutureSound
       DEF Application
  <1>2. CASE Pool
    BY <1>2, CancelHandlerSound, CompletionSound DEF Pool
  <1>3. CASE Answers
    BY <1>3, AcquisitionFailsSound, CatalogThrowsSound, AcquiredSound, CatalogLoadedSound,
       CatalogFailsSound, OpenThrowsSound DEF Answers
  <1>4. CASE Handshake
    BY <1>4, OnOpenSound, OnOpenFailsSound DEF Handshake
  <1>5. CASE Frames
    BY <1>5, ReceiveMalformedSound, AckFailsSound, ApplySound DEF Frames
  <1>6. CASE \E s \in client.sockets : OnEnd(s) \/ ReceiveStarts(s)
    BY <1>6, OnEndSound, ReceiveStartsSound
  <1>7. CASE TimerThread
    BY <1>7, TimerStartsSound, HeartbeatRunsSound, DeadlineRunsSound, ReconnectRunsSound
       DEF TimerThread
  <1>8. CASE TakeTask
    BY <1>8, TakeTaskSound
  <1> QED
    BY <1>1, <1>2, <1>3, <1>4, <1>5, <1>6, <1>7, <1>8 DEF JavaNext, Network

(* What is outside of the record keeps its type. *)
HistoryTyped == setup' = setup /\ told' \in Names \cup {"none"} /\ excused' \in BOOLEAN

LEMMA LeaveTyped ==
    ASSUME ConnectionInv, NEW d, Leave(d)
    PROVE  HistoryTyped
  <1>1. told \in Names \cup {"none"}
    BY DEF ConnectionInv, JavaType
  <1>2. excused' \in BOOLEAN
    BY Zenon DEF Leave
  <1> QED
    BY <1>1, <1>2 DEF Leave, HistoryTyped

LEMMA LeaveCallTyped ==
    ASSUME ConnectionInv, NEW d, NEW o, LeaveCall(d, o)
    PROVE  HistoryTyped
BY DEF ConnectionInv, JavaType, LeaveCall, HistoryTyped

TokensTyped ==
    /\ lookups' \subseteq Nat /\ catalogs' \subseteq Nat /\ reading' \subseteq Nat
    /\ timer' \in Timings

LEMMA TokensKept ==
    ASSUME ConnectionInv,
           lookups' \subseteq lookups, catalogs' \subseteq catalogs, reading' \subseteq reading,
           timer' = timer \/ timer' = NoTask
    PROVE  TokensTyped
  <1>1. NoTask \in Timings
    BY DEF NoTask, Timings
  <1> QED
    BY <1>1, Given DEF TokensTyped

LEMMA TokensStep == ASSUME ConnectionInv, JavaNext PROVE HistoryTyped /\ TokensTyped
  <1>1. /\ \A s \in client.sockets : s.token \in Nat
        /\ \A k \in Timers : client.timers[k] \in Nat
        /\ client.generation + 1 \in Nat
    BY Given DEF Clients, SocketSets, Sockets, Armings
  <1>2. CASE Application
    <2>1. CASE Connect
      <3> DEFINE c == Begun(client)
      <3>1. c.generation = client.generation + 1
        BY <2>1, Given, BegunFacts, JavaAssumption DEF Connect
      <3>2. /\ lookups' \subseteq lookups \cup {c.generation}
            /\ UNCHANGED <<catalogs, timer, reading>>
        BY <2>1 DEF Connect, Begun
      <3>3. \E d, o : LeaveCall(d, o)
        BY <2>1 DEF Connect
      <3> HIDE DEF c
      <3>4. TokensTyped
        BY <1>1, <3>1, <3>2, Given DEF TokensTyped
      <3> QED
        BY <3>3, <3>4, LeaveCallTyped
    <2>2. CASE DisconnectCall \/ CloseCall
      <3>1. \E d, o : LeaveCall(d, o)
        BY <2>2 DEF DisconnectCall, CloseCall
      <3>2. UNCHANGED threadVars
        BY <2>2 DEF DisconnectCall, CloseCall
      <3> QED
        BY <3>1, <3>2, LeaveCallTyped, TokensKept DEF threadVars
    <2>3. ASSUME NEW f \in 1 .. MaxConnects, CancelFuture(f)
          PROVE  HistoryTyped /\ TokensTyped
      <3>1. HistoryTyped
        BY <2>3 DEF CancelFuture, historyVars, HistoryTyped, ConnectionInv, JavaType
      <3> QED
        BY <2>3, <3>1, TokensKept DEF CancelFuture
    <2> QED
      BY <1>2, <2>1, <2>2, <2>3 DEF Application
  <1>3. CASE Pool
    <2>1. ASSUME NEW f \in cancelling, CancelHandler(f)
          PROVE  HistoryTyped /\ TokensTyped
      BY <2>1, LeaveCallTyped, TokensKept DEF CancelHandler
    <2>2. ASSUME NEW r \in client.completing, Completion(r)
          PROVE  HistoryTyped /\ TokensTyped
      <3>1. HistoryTyped
        BY <2>2 DEF Completion, historyVars, HistoryTyped, ConnectionInv, JavaType
      <3> QED
        BY <2>2, <3>1, TokensKept DEF Completion, threadVars
    <2> QED
      BY <1>3, <2>1, <2>2 DEF Pool
  <1>4. CASE Answers
    <2>1. \E d : Leave(d)
      BY <1>4 DEF Answers, AcquisitionFails, CatalogThrows, Acquired, CatalogLoaded,
                  CatalogFails, OpenThrows
    <2>2. /\ lookups' \subseteq lookups /\ reading' = reading /\ timer' = timer
          /\ catalogs' \subseteq catalogs \cup lookups
      BY <1>4 DEF Answers, AcquisitionFails, CatalogThrows, Acquired, CatalogLoaded,
                  CatalogFails, OpenThrows
    <2>3. TokensTyped
      BY <2>2, Given DEF TokensTyped, ConnectionInv, JavaType
    <2> QED
      BY <2>1, <2>3, LeaveTyped
  <1>5. CASE Handshake
    <2>1. \E d : Leave(d)
      BY <1>5 DEF Handshake, OnOpen, OnOpenFails
    <2>2. UNCHANGED threadVars
      BY <1>5 DEF Handshake, OnOpen, OnOpenFails
    <2> QED
      BY <2>1, <2>2, LeaveTyped, TokensKept DEF threadVars
  <1>6. CASE Frames
    <2>1. \E d : Leave(d)
      BY <1>6 DEF Frames, ReceiveMalformed, AckFails, Apply
    <2>2. reading' \subseteq reading /\ UNCHANGED <<lookups, catalogs, timer>>
      BY <1>6 DEF Frames, ReceiveMalformed, AckFails, Apply
    <2> QED
      BY <2>1, <2>2, LeaveTyped, TokensKept
  <1>7. ASSUME NEW s \in client.sockets, OnEnd(s)
        PROVE  HistoryTyped /\ TokensTyped
    BY <1>7, LeaveTyped, TokensKept DEF OnEnd, threadVars
  <1>8. ASSUME NEW s \in client.sockets, ReceiveStarts(s)
        PROVE  HistoryTyped /\ TokensTyped
    <2>1. HistoryTyped
      BY <1>8 DEF ReceiveStarts, historyVars, HistoryTyped, ConnectionInv, JavaType
    <2>2. TokensTyped
      BY <1>1, <1>8, Given DEF ReceiveStarts, TokensTyped
    <2> QED
      BY <2>1, <2>2
  <1>9. ASSUME NEW k \in Timers, TimerStarts(k)
        PROVE  HistoryTyped /\ TokensTyped
    <2>1. HistoryTyped
      BY <1>9 DEF TimerStarts, historyVars, HistoryTyped, ConnectionInv, JavaType
    <2>2. timer' \in Timings
      BY <1>1, <1>9 DEF TimerStarts, Timings
    <2>3. UNCHANGED <<lookups, catalogs, reading>>
      BY <1>9 DEF TimerStarts
    <2> QED
      BY <2>1, <2>2, <2>3, Given DEF TokensTyped
  <1>10. CASE HeartbeatRuns \/ DeadlineRuns
    <2>1. \E d : Leave(d)
      BY <1>10 DEF HeartbeatRuns, DeadlineRuns
    <2>2. UNCHANGED <<lookups, catalogs, reading>> /\ timer' = NoTask
      BY <1>10 DEF HeartbeatRuns, DeadlineRuns, TimerEnds, NoTask
    <2> QED
      BY <2>1, <2>2, LeaveTyped, TokensKept
  <1>11. CASE ReconnectRuns
    <2>1. \E d : Leave(d)
      BY <1>11 DEF ReconnectRuns, Request
    <2>2. /\ lookups' \subseteq lookups \cup {timer.token}
          /\ UNCHANGED <<catalogs, reading>> /\ timer' = NoTask
      BY <1>11 DEF ReconnectRuns, Request, TimerEnds, NoTask
    <2>3. timer.token \in Nat /\ NoTask \in Timings
      BY Given DEF Timings, NoTask
    <2>4. TokensTyped
      BY <2>2, <2>3, Given DEF TokensTyped
    <2> QED
      BY <2>1, <2>4, LeaveTyped
  <1>12. CASE TakeTask
    <2>1. setup' = setup /\ UNCHANGED threadVars
      BY <1>12 DEF TakeTask
    <2>2. told' \in {told, "connected", "disconnected"} /\ excused' \in {excused, FALSE}
      BY <1>12 DEF TakeTask
    <2>3. HistoryTyped
      BY <2>1, <2>2 DEF HistoryTyped, ConnectionInv, JavaType, Names
    <2> QED
      BY <2>1, <2>3, TokensKept DEF threadVars
  <1> QED
    BY <1>2, <1>3, <1>4, <1>5, <1>6, <1>7, <1>8, <1>9, <1>10, <1>11, <1>12
       DEF JavaNext, Network, TimerThread

--------------------------------------------------------------------------------
(* The application is told connected and disconnected in turn. TurnInv     *)
(* looks at a record through a few fields only: lemmas first about what    *)
(* those may become.                                                       *)

NoTells(c) == \A i \in DOMAIN c.queue : ~Tells(c, "connected", i)
HasLoss(c) == \E i \in DOMAIN c.queue : Tells(c, "disconnected", i)

(* A record that tells nobody that it is connected. *)
Mute(c) == ~c.connected /\ NoTells(c)

(* What is inside receive() belongs to an earlier or to this connection.   *)
Reads(c, lk, ct, tm, rd) ==
    \A t \in rd : t <= c.generation /\ (Valid(c, t) => ~Attempting(c, lk, ct, tm))

LEMMA TurnMute ==
    ASSUME NEW d, NEW lk, NEW ct, NEW tm, NEW rd, NEW td, NEW ex,
           Mute(d), d.stopped => ex, ex \/ HasLoss(d) \/ ~d.active, Reads(d, lk, ct, tm, rd)
    PROVE  Turn(d, lk, ct, tm, rd, td, ex)
<1>1. TellsOnce(d)
  BY DEF Mute, NoTells, TellsOnce
<1>2. td = "connected" /\ ~ex => TellsLoss(d)
  BY DEF Mute, NoTells, HasLoss, TellsLoss, Unconnected
<1> QED
  BY <1>1, <1>2 DEF Turn, Mute, Reads

(* Nothing that TurnInv looks at changes, and no attempt begins. *)
SameTold(c, d) ==
    /\ d.active = c.active /\ d.closed = c.closed /\ d.generation = c.generation
    /\ d.connected = c.connected /\ d.stopped = c.stopped /\ d.queue = c.queue

Calm(c, lk, ct, tm, rd, ex, d, lk2, ct2, tm2, rd2, ex2) ==
    /\ SameTold(c, d) /\ rd2 \subseteq rd /\ (ex => ex2)
    /\ (c.active /\ ~c.closed /\ Attempting(d, lk2, ct2, tm2)) => Attempting(c, lk, ct, tm)

LEMMA TurnSame ==
    ASSUME NEW c, NEW d, NEW lk, NEW ct, NEW tm, NEW rd, NEW td, NEW ex,
           NEW lk2, NEW ct2, NEW tm2, NEW rd2, NEW ex2,
           Turn(c, lk, ct, tm, rd, td, ex),
           Calm(c, lk, ct, tm, rd, ex, d, lk2, ct2, tm2, rd2, ex2)
    PROVE  Turn(d, lk2, ct2, tm2, rd2, td, ex2)
<1>0. /\ SameTold(c, d) /\ rd2 \subseteq rd /\ (ex => ex2)
      /\ (c.active /\ ~c.closed /\ Attempting(d, lk2, ct2, tm2)) => Attempting(c, lk, ct, tm)
  BY DEF Calm
<1>1. \A name, i : Tells(d, name, i) = Tells(c, name, i)
  BY <1>0 DEF Tells, SameTold
<1>2. TellsOnce(c) => TellsOnce(d)
  BY <1>0, <1>1 DEF TellsOnce, Unconnected, SameTold
<1>3. TellsLoss(c) => TellsLoss(d)
  BY <1>0, <1>1 DEF TellsLoss, Unconnected, SameTold
<1>4. /\ d.stopped => ex2
      /\ d.connected => d.active
      /\ d.active /\ ~d.closed /\ Attempting(d, lk2, ct2, tm2) => ~d.connected
  BY <1>0 DEF Turn, SameTold
<1>5. \A t \in rd2 : t <= d.generation /\ (Valid(d, t) => ~Attempting(d, lk2, ct2, tm2))
  BY <1>0 DEF Turn, SameTold, Valid
<1> QED
  BY <1>0, <1>2, <1>3, <1>4, <1>5 DEF Turn

(* A heartbeat is nothing that was told. *)
OnlyBeats(c, d) ==
    /\ d \in Clients /\ SameTold(c, d) /\ d.sockets = c.sockets /\ d.retries = c.retries
    /\ d.timers["reconnect"] = c.timers["reconnect"] /\ d.timers["deadline"] = c.timers["deadline"]
    /\ d.pending = c.pending /\ d.future = c.future /\ d.completing = c.completing
    /\ d.dropped = c.dropped

LEMMA BeatenFacts ==
    ASSUME NEW c \in Clients, NEW t \in Nat, NEW beat \in Beats
    PROVE  OnlyBeats(c, Beaten(c, t, beat))
<1> DEFINE d == Beaten(c, t, beat)
<1>1. PICK same \in BOOLEAN : same = (beat = "same")
  OBVIOUS
<1>2. PICK hb \in Armings :
            /\ StartHeartbeat(c, t, same) = [c EXCEPT !.timers = hb]
            /\ hb["reconnect"] = c.timers["reconnect"] /\ hb["deadline"] = c.timers["deadline"]
  BY StartHeartbeatFacts
<1>3. c \in Clients /\ {t} \in Marks
  BY DEF Marks
<1>4. CASE beat = "none"
  BY <1>4 DEF Beaten, OnlyBeats, SameTold
<1>5. CASE beat # "none" /\ Overflowed(c)
  <2>1. d = [[c EXCEPT !.timers = hb] EXCEPT !.stray = {t}]
    BY <1>1, <1>2, <1>5 DEF Beaten
  <2>2. d = [c EXCEPT !.timers = hb, !.stray = {t}]
    BY <2>1 DEF Clients
  <2> HIDE DEF d
  <2> QED
    BY <1>2, <1>3, <2>2 DEF Clients, OnlyBeats, SameTold, d
<1>6. CASE beat # "none" /\ ~Overflowed(c)
  <2>1. d = [c EXCEPT !.timers = hb]
    BY <1>1, <1>2, <1>6 DEF Beaten
  <2> HIDE DEF d
  <2> QED
    BY <1>2, <2>1 DEF Clients, OnlyBeats, SameTold, d
<1> QED
  BY <1>4, <1>5, <1>6

(* Only tasks that tell of no connection are added. *)
Grows(c, d) ==
    /\ d.active = c.active /\ d.closed = c.closed /\ d.generation = c.generation
    /\ d.connected = c.connected /\ d.stopped = c.stopped
    /\ d.sockets = c.sockets /\ d.timers = c.timers
    /\ DOMAIN c.queue \subseteq DOMAIN d.queue
    /\ \A i \in DOMAIN c.queue : d.queue[i] = c.queue[i]
    /\ \A i \in DOMAIN d.queue \ DOMAIN c.queue : d.queue[i].name # "connected"

Growing(c, lk, ct, tm, rd, td, ex, d, ex2) ==
    Turn(c, lk, ct, tm, rd, td, ex) /\ Grows(c, d) /\ (ex => ex2)

LEMMA TurnGrows ==
    ASSUME NEW c, NEW d, NEW lk, NEW ct, NEW tm, NEW rd, NEW td, NEW ex, NEW ex2,
           Growing(c, lk, ct, tm, rd, td, ex, d, ex2)
    PROVE  Turn(d, lk, ct, tm, rd, td, ex2)
<1>0. Turn(c, lk, ct, tm, rd, td, ex) /\ Grows(c, d) /\ (ex => ex2)
  BY DEF Growing
<1>1. /\ \A i : Tells(d, "connected", i) = Tells(c, "connected", i)
      /\ \A name, i : Tells(c, name, i) => Tells(d, name, i)
  BY <1>0 DEF Tells, Grows
<1>2. TellsOnce(c) => TellsOnce(d)
  BY <1>0, <1>1 DEF TellsOnce, Unconnected, Grows, Tells
<1>3. TellsLoss(c) => TellsLoss(d)
  BY <1>0, <1>1 DEF TellsLoss, Unconnected, Grows, Tells
<1>4. Attempting(d, lk, ct, tm) = Attempting(c, lk, ct, tm)
  BY <1>0 DEF Attempting, Grows, Armed, Started
<1>5. /\ d.stopped => ex2
      /\ d.connected => d.active
      /\ d.active /\ ~d.closed /\ Attempting(d, lk, ct, tm) => ~d.connected
  BY <1>0, <1>4 DEF Turn, Grows
<1>6. \A t \in rd : t <= d.generation /\ (Valid(d, t) => ~Attempting(d, lk, ct, tm))
  BY <1>0, <1>4 DEF Turn, Grows, Valid
<1> QED
  BY <1>0, <1>2, <1>3, <1>5, <1>6 DEF Turn

(* What emit() appends. *)
Appended(c, d, name) ==
    /\ SameConnection(c, d) /\ d.connected = c.connected /\ d.stopped = c.stopped
    /\ Len(c.queue) \in Nat
    /\ DOMAIN c.queue = 1 .. Len(c.queue) /\ DOMAIN d.queue = 1 .. Len(c.queue) + 1
    /\ \A i \in DOMAIN c.queue : d.queue[i] = c.queue[i]
    /\ d.queue[Len(c.queue) + 1].name = name
    /\ d.queue[Len(c.queue) + 1].token = c.generation

LEMMA Appends ==
    ASSUME NEW c \in Clients, NEW name \in Names, NEW from \in Nat,
           NEW d, d = [c EXCEPT !.queue = Append(c.queue, NewTask(c, name, from))]
    PROVE  Appended(c, d, name)
<1> DEFINE task == NewTask(c, name, from)
<1>1. /\ c.queue \in Seq(Tasks) /\ task \in Tasks
      /\ task.token = c.generation /\ task.name = name
  BY DEF Clients, Queues, NewTask, Tasks
<1>2. /\ d.queue = Append(c.queue, task) /\ SameConnection(c, d)
      /\ d.connected = c.connected /\ d.stopped = c.stopped
  BY DEF Clients, SameConnection
<1> HIDE DEF task
<1>3. /\ Len(d.queue) = Len(c.queue) + 1 /\ Len(c.queue) \in Nat
      /\ DOMAIN d.queue = 1 .. Len(c.queue) + 1 /\ DOMAIN c.queue = 1 .. Len(c.queue)
      /\ \A i \in 1 .. Len(c.queue) : d.queue[i] = c.queue[i]
      /\ d.queue[Len(c.queue) + 1] = task
  BY <1>1, <1>2, AppendProperties, LenProperties
<1> QED
  BY <1>1, <1>2, <1>3 DEF Appended

LEMMA AppendGrows ==
    ASSUME NEW c \in Clients, NEW name \in Names \ {"connected"}, NEW from \in Nat,
           NEW d, d = [c EXCEPT !.queue = Append(c.queue, NewTask(c, name, from))]
    PROVE  Grows(c, d) /\ (name = "disconnected" => HasLoss(d))
<1>1. Appended(c, d, name)
  BY Appends
<1>2. Grows(c, d)
  BY <1>1 DEF Appended, Grows, SameConnection
<1>3. name = "disconnected" => HasLoss(d)
  BY <1>1 DEF Appended, HasLoss, Tells, SameConnection
<1> QED
  BY <1>2, <1>3

(* Delivery that overflowed tells nothing more. *)
LEMMA OverflowMute ==
    ASSUME NEW c, NEW d, Overflows(c, d)
    PROVE  Mute(d) /\ d.stopped /\ ~d.active /\ d.generation > c.generation
<1>1. d.queue = <<NewTask(d, "overload", NoToken)>>
  BY DEF Overflows
<1>2. NewTask(d, "overload", NoToken).name = "overload"
  BY DEF NewTask
<1>3. NoTells(d)
  BY <1>1, <1>2 DEF NoTells, Tells
<1> QED
  BY <1>3 DEF Overflows, Ended, Mute

LEMMA TurnOverflow ==
    ASSUME NEW c \in Clients, NEW d, NEW lk, NEW ct, NEW tm, NEW rd \in SUBSET Nat, NEW td,
           \A t \in rd : t <= c.generation, Overflows(c, d)
    PROVE  Turn(d, lk, ct, tm, rd, td, TRUE)
<1>1. Mute(d) /\ ~d.active /\ d.generation > c.generation
  BY OverflowMute
<1>2. c.generation \in Nat /\ d.generation \in Nat
  BY DEF Overflows, Ended, Clients
<1>3. Reads(d, lk, ct, tm, rd)
  BY <1>1, <1>2 DEF Reads, Valid
<1> QED
  BY <1>1, <1>3, TurnMute

(* emit(), of anything but connected. *)
LEMMA TurnEmits ==
    ASSUME NEW c \in Clients, NEW d, NEW lk, NEW ct, NEW tm, NEW rd \in SUBSET Nat, NEW td,
           NEW ex, NEW ex2, NEW name \in Names \ {"connected"}, NEW from \in Nat,
           Turn(c, lk, ct, tm, rd, td, ex), Emits(c, d, name, from),
           ex2 = (ex \/ (d.stopped /\ ~c.stopped))
    PROVE  Turn(d, lk, ct, tm, rd, td, ex2)
<1>1. CASE d = c
  <2>1. SameTold(c, d)
    BY <1>1 DEF SameTold
  <2>2. Attempting(d, lk, ct, tm) => Attempting(c, lk, ct, tm)
    BY <1>1
  <2>3. Calm(c, lk, ct, tm, rd, ex, d, lk, ct, tm, rd, ex2)
    BY <2>1, <2>2 DEF Calm
  <2> QED
    BY <2>3, TurnSame
<1>2. CASE d = [c EXCEPT !.queue = Append(c.queue, NewTask(c, name, from))]
  <2>1. Grows(c, d)
    BY <1>2, AppendGrows
  <2>2. Growing(c, lk, ct, tm, rd, td, ex, d, ex2)
    BY <2>1 DEF Growing
  <2> QED
    BY <2>2, TurnGrows
<1>3. CASE Overflows(c, d)
  <2>1. \A t \in rd : t <= c.generation
    BY DEF Turn
  <2>2. ex2 = TRUE
    BY <1>3 DEF Overflows
  <2> QED
    BY <1>3, <2>1, <2>2, TurnOverflow
<1> QED
  BY <1>1, <1>2, <1>3 DEF Emits

(* A record that tells of no connection goes on so while it emits. *)
LEMMA MuteEmits ==
    ASSUME NEW c \in Clients, NEW d, NEW name \in Names \ {"connected"}, NEW from \in Nat,
           Mute(c), Emits(c, d, name, from)
    PROVE  /\ d \in Clients /\ Mute(d) /\ d.generation >= c.generation
           /\ c.stopped => d.stopped
           /\ HasLoss(c) => HasLoss(d) \/ d.stopped
           /\ ~c.closed /\ name = "disconnected" => HasLoss(d) \/ d.stopped
           /\ ~c.active => ~d.active
<1>0. c.generation \in Nat /\ d \in Clients
  BY DEF Emits, Clients
<1>1. CASE (c.closed \/ c.stopped) /\ d = c
  BY <1>0, <1>1
<1>2. CASE ~c.stopped /\ d = [c EXCEPT !.queue = Append(c.queue, NewTask(c, name, from))]
  <2>1. Grows(c, d) /\ (name = "disconnected" => HasLoss(d))
    BY <1>2, AppendGrows
  <2>2. Mute(d)
    BY <2>1 DEF Mute, NoTells, Grows, Tells
  <2>3. HasLoss(c) => HasLoss(d)
    BY <2>1 DEF HasLoss, Grows, Tells
  <2> QED
    BY <1>0, <1>2, <2>1, <2>2, <2>3 DEF Grows
<1>3. CASE Overflows(c, d)
  <2>1. Mute(d) /\ d.stopped /\ ~d.active /\ d.generation > c.generation /\ d.generation \in Nat
    BY <1>0, <1>3, OverflowMute DEF Clients
  <2> QED
    BY <1>0, <2>1
<1> QED
  BY <1>1, <1>2, <1>3 DEF Emits

LEMMA MuteEmit ==
    ASSUME NEW c \in Clients, NEW name \in Names \ {"connected"}, Mute(c)
    PROVE  /\ Emit(c, name) \in Clients /\ Mute(Emit(c, name))
           /\ Emit(c, name).generation >= c.generation
           /\ c.stopped => Emit(c, name).stopped
           /\ HasLoss(c) => HasLoss(Emit(c, name)) \/ Emit(c, name).stopped
           /\ ~c.closed /\ name = "disconnected"
                  => HasLoss(Emit(c, name)) \/ Emit(c, name).stopped
           /\ ~c.active => ~Emit(c, name).active
<1>1. c.generation \in Nat /\ name \in Names
  BY DEF Clients
<1>2. Emits(c, Emit(c, name), name, c.generation)
  BY <1>1, EmitFacts DEF Emit
<1> QED
  BY <1>1, <1>2, MuteEmits

(* Nothing that waits was queued in a generation that only begins. *)
LEMMA NewGenerationMute ==
    ASSUME NEW c \in Clients, OwnTasks(c), NEW d, d.queue = c.queue,
           d.generation = c.generation + 1
    PROVE  NoTells(d)
<1>1. c.generation \in Nat /\ c.queue \in Seq(Tasks)
  BY DEF Clients, Queues
<1>2. \A i \in DOMAIN c.queue : c.queue[i].token \in Nat
  <2>1. \A i \in DOMAIN c.queue : c.queue[i] \in Tasks
    BY <1>1, ElementOfSeq, LenProperties
  <2> QED
    BY <2>1 DEF Tasks
<1>3. \A i \in DOMAIN c.queue : c.queue[i].token # c.generation + 1
  BY <1>1, <1>2 DEF OwnTasks
<1> QED
  BY <1>3 DEF NoTells, Tells

(* After fail() of the connection that is in use, the loss waits to be     *)
(* told, unless delivery overflowed.                                       *)
Fallen(c, d) ==
    /\ d \in Clients /\ Mute(d) /\ d.generation > c.generation
    /\ c.stopped => d.stopped
    /\ HasLoss(d) \/ d.stopped

LEMMA MuteTell ==
    ASSUME NEW c \in Clients, OwnTasks(c), ~c.closed
    PROVE  Fallen(c, Tell(c))
<1> DEFINE a == Lost(c)
           b == Emit(a, "error")
           d == Emit(b, "disconnected")
<1>1. /\ a \in Clients /\ a.generation = c.generation + 1 /\ a.queue = c.queue
      /\ a.stopped = c.stopped /\ ~a.connected /\ a.closed = c.closed
  BY LostFacts DEF Ended
<1>2. Mute(a)
  BY <1>1, NewGenerationMute DEF Mute
<1>3. c.generation \in Nat /\ d = Tell(c)
  BY DEF Clients, Tell, Lost
<1>4. b.closed = a.closed
  <2>1. Emits(a, b, "error", a.generation)
    BY <1>1, EmitFacts DEF Emit, Names, Clients
  <2> HIDE DEF a, b
  <2> QED
    BY <1>1, <2>1 DEF Emits, Overflows, Ended, Clients
<1> HIDE DEF a
<1>5. /\ b \in Clients /\ Mute(b) /\ b.generation >= a.generation
      /\ a.stopped => b.stopped
  BY <1>1, <1>2, MuteEmit DEF Names
<1> HIDE DEF b
<1>6. /\ d \in Clients /\ Mute(d) /\ d.generation >= b.generation
      /\ b.stopped => d.stopped
      /\ HasLoss(d) \/ d.stopped
  BY <1>1, <1>4, <1>5, MuteEmit DEF Names
<1> HIDE DEF d
<1>7. d.generation > c.generation
  <2>1. d.generation \in Nat /\ b.generation \in Nat
    BY <1>5, <1>6 DEF Clients
  <2> QED
    BY <1>1, <1>3, <1>5, <1>6, <2>1
<1> QED
  BY <1>1, <1>3, <1>5, <1>6, <1>7 DEF Fallen

LEMMA MuteFail ==
    ASSUME NEW c \in Clients, NEW t, NEW retryable, Valid(c, t), OwnTasks(c)
    PROVE  Fallen(c, Fail(c, t, retryable))
<1> DEFINE e == Tell(c)
           f == Emit(Retried(e), "reconnecting")
<1>1. Fallen(c, e) /\ e \in Clients
  BY MuteTell DEF Valid, Fallen
<1>2. Fail(c, t, retryable) = GiveUp(e) \/ Fail(c, t, retryable) = Retry(e)
  BY DEF Fail
<1> HIDE DEF e
<1>3. ASSUME NEW d, d \in Clients, d.queue = e.queue, d.generation = e.generation,
             d.stopped = e.stopped, d.connected = e.connected
      PROVE  Fallen(c, d)
  <2>1. \A name, i : Tells(d, name, i) = Tells(e, name, i)
    BY <1>3 DEF Tells
  <2>2. Mute(e) => Mute(d)
    BY <1>3, <2>1 DEF Mute, NoTells
  <2>3. HasLoss(e) => HasLoss(d)
    BY <1>3, <2>1 DEF HasLoss
  <2> QED
    BY <1>1, <1>3, <2>2, <2>3 DEF Fallen
<1>4. Fallen(c, GiveUp(e))
  BY <1>1, <1>3, GiveUpFacts
<1>5. Fallen(c, Retry(e))
  <2>1. /\ Retried(e) \in Clients /\ SameConnection(e, Retried(e))
        /\ Retried(e).queue = e.queue /\ Retried(e).stopped = e.stopped
        /\ Retried(e).connected = e.connected
        /\ f \in Clients /\ Emits(Retried(e), f, "reconnecting", e.generation)
        /\ Retry(e) = [f EXCEPT !.timers = [f.timers EXCEPT !["reconnect"] = e.generation]]
        /\ Retry(e) \in Clients
    BY <1>1, RetryFacts
  <2>2. Fallen(c, Retried(e))
    BY <1>3, <2>1 DEF SameConnection
  <2> DEFINE r == Retried(e)
             d == Retry(e)
  <2>3. e.generation \in Nat /\ c.generation \in Nat /\ r.generation \in Nat
    BY <1>1, <2>1 DEF Clients
  <2> HIDE DEF r, d, f
  <2>4. /\ Mute(f) /\ f.generation >= r.generation
        /\ r.stopped => f.stopped
        /\ HasLoss(r) => HasLoss(f) \/ f.stopped
    BY <2>1, <2>2, <2>3, MuteEmits DEF r, Names, Fallen
  <2>5. d.queue = f.queue /\ d.generation = f.generation /\ d.stopped = f.stopped
        /\ d.connected = f.connected /\ f.generation \in Nat
    BY <2>1 DEF d, Clients
  <2>6. \A name, i : Tells(d, name, i) = Tells(f, name, i)
    BY <2>5 DEF Tells
  <2>7. Mute(d) /\ (HasLoss(f) => HasLoss(d))
    BY <2>4, <2>5, <2>6 DEF Mute, NoTells, HasLoss
  <2>8. d.generation > c.generation
    BY <2>2, <2>3, <2>4, <2>5 DEF Fallen, r
  <2> QED
    BY <2>1, <2>2, <2>4, <2>5, <2>7, <2>8 DEF Fallen, r, d
<1> QED
  BY <1>2, <1>4, <1>5

(* fail() in a step of the client. *)
LEMMA TurnFallen ==
    ASSUME NEW c \in Clients, NEW d, NEW lk, NEW ct, NEW tm, NEW rd \in SUBSET Nat, NEW td,
           NEW ex, Fallen(c, d), \A t \in rd : t <= c.generation, d.stopped => ex
    PROVE  Turn(d, lk, ct, tm, rd, td, ex)
<1>1. c.generation \in Nat /\ d.generation \in Nat /\ d.generation > c.generation
  BY DEF Fallen, Clients
<1>2. Reads(d, lk, ct, tm, rd)
  BY <1>1 DEF Reads, Valid
<1> QED
  BY <1>2, TurnMute DEF Fallen

Failing(c, t, retryable, lk, ct, tm, rd, ex, d, lk2, ct2, tm2, rd2, ex2) ==
    /\ d = Fail(c, t, retryable) /\ rd2 \subseteq rd
    /\ ex2 = (ex \/ (d.stopped /\ ~c.stopped))
    /\ (c.active /\ ~c.closed /\ Attempting(c, lk2, ct2, tm2)) => Attempting(c, lk, ct, tm)

LEMMA TurnFail ==
    ASSUME NEW c \in Clients, NEW t, NEW retryable, NEW lk, NEW ct, NEW tm,
           NEW rd \in SUBSET Nat, NEW td, NEW ex, NEW lk2, NEW ct2, NEW tm2,
           NEW rd2, NEW d, NEW ex2, OwnTasks(c), Turn(c, lk, ct, tm, rd, td, ex),
           Failing(c, t, retryable, lk, ct, tm, rd, ex, d, lk2, ct2, tm2, rd2, ex2)
    PROVE  Turn(d, lk2, ct2, tm2, rd2, td, ex2)
<1>0. /\ d = Fail(c, t, retryable) /\ rd2 \subseteq rd
      /\ ex2 = (ex \/ (d.stopped /\ ~c.stopped))
      /\ (c.active /\ ~c.closed /\ Attempting(c, lk2, ct2, tm2)) => Attempting(c, lk, ct, tm)
  BY DEF Failing
<1>1. CASE Valid(c, t)
  <2>1. Fallen(c, d)
    BY <1>0, <1>1, MuteFail
  <2>2. d.stopped => ex2
    BY <1>0 DEF Turn
  <2>3. \A x \in rd2 : x <= c.generation
    BY <1>0 DEF Turn
  <2>4. rd2 \in SUBSET Nat
    BY <1>0
  <2> QED
    BY <2>1, <2>2, <2>3, <2>4, TurnFallen
<1>2. CASE ~Valid(c, t)
  <2>1. d = c
    BY <1>0, <1>2 DEF Fail
  <2>2. SameTold(c, d)
    BY <2>1 DEF SameTold
  <2>3. (c.active /\ ~c.closed /\ Attempting(d, lk2, ct2, tm2)) => Attempting(c, lk, ct, tm)
    BY <1>0, <2>1
  <2>4. Calm(c, lk, ct, tm, rd, ex, d, lk2, ct2, tm2, rd2, ex2)
    BY <1>0, <2>2, <2>3 DEF Calm
  <2> QED
    BY <2>4, TurnSame
<1> QED
  BY <1>1, <1>2

(* disconnect() leaves nothing behind that could tell of a connection. *)
LEMMA MuteDisconnect ==
    ASSUME NEW c \in Clients, ~c.closed
    PROVE  /\ Disconnect(c) \in Clients /\ Mute(Disconnect(c))
           /\ Disconnect(c).generation > c.generation
<1> DEFINE e == CancelPending(Abandon(c))
           f == Emit(e, "disconnected")
<1>1. Abandoned(c, e) /\ e \in Clients /\ e.generation > c.generation
  BY CancelPendingFacts DEF Abandoned, Ended
<1>2. Disconnect(c) = e \/ Disconnect(c) = f
  BY DEF Disconnect
<1> HIDE DEF e
<1>3. Mute(e)
  BY <1>1 DEF Abandoned, Ended, Mute, NoTells
<1>4. f \in Clients /\ Mute(f) /\ f.generation >= e.generation
  BY <1>1, <1>3, MuteEmit DEF Names
<1> HIDE DEF f
<1>5. c.generation \in Nat /\ e.generation \in Nat /\ f.generation \in Nat
  BY <1>1, <1>4 DEF Clients
<1>6. f.generation > c.generation
  BY <1>1, <1>4, <1>5
<1> QED
  BY <1>1, <1>2, <1>3, <1>4, <1>6

(* A mute record of a later generation, once the application has acted.    *)
LEMMA TurnActed ==
    ASSUME NEW c \in Clients, NEW d, NEW lk, NEW ct, NEW tm, NEW rd \in SUBSET Nat, NEW td,
           d.generation \in Nat, d.generation > c.generation, Mute(d),
           \A t \in rd : t <= c.generation
    PROVE  Turn(d, lk, ct, tm, rd, td, TRUE)
<1>1. c.generation \in Nat
  BY DEF Clients
<1>2. Reads(d, lk, ct, tm, rd)
  BY <1>1 DEF Reads, Valid
<1> QED
  BY <1>2, TurnMute

(* The connection is up, and the application is going to be told so, for   *)
(* the first time in this generation and after the loss of the last.       *)
Raises(c, b) ==
    /\ b \in Clients /\ b.active = c.active /\ b.closed = c.closed
    /\ b.generation = c.generation /\ b.queue = c.queue /\ b.stopped = c.stopped
    /\ b.connected

LEMMA TurnJoins ==
    ASSUME NEW c \in Clients, NEW b, NEW d, NEW from \in Nat, NEW lk, NEW ct, NEW tm,
           NEW rd \in SUBSET Nat, NEW td, NEW ex, NEW rd2 \in SUBSET rd, NEW ex2,
           Turn(c, lk, ct, tm, rd, td, ex), Unconnected(c), Raises(c, b),
           ~Attempting(b, lk, ct, tm), Emits(b, d, "connected", from),
           ex2 = (ex \/ (d.stopped /\ ~c.stopped))
    PROVE  Turn(d, lk, ct, tm, rd2, td, ex2)
<1>0. /\ c.active /\ ~c.closed /\ NoTells(c) /\ (c.stopped => ex)
      /\ (td = "connected" /\ ~ex => HasLoss(c))
      /\ \A t \in rd : t <= c.generation
  BY DEF Turn, TellsOnce, TellsLoss, Unconnected, NoTells, HasLoss
<1>1. /\ b \in Clients /\ b.active /\ ~b.closed /\ b.generation = c.generation
      /\ b.queue = c.queue /\ b.stopped = c.stopped /\ b.connected
  BY <1>0 DEF Raises
<1>2. NoTells(b) /\ (HasLoss(c) => HasLoss(b))
  BY <1>0, <1>1 DEF NoTells, HasLoss, Tells
<1>3. CASE (b.closed \/ b.stopped) /\ d = b
  <2>1. TellsOnce(b)
    BY <1>1, <1>2 DEF TellsOnce, NoTells, Unconnected
  <2>2. ex2 = TRUE
    BY <1>0, <1>1, <1>3 DEF Turn
  <2> QED
    BY <1>0, <1>1, <1>3, <2>1, <2>2 DEF Turn, Valid
<1>4. CASE d = [b EXCEPT !.queue = Append(b.queue, NewTask(b, "connected", from))]
  <2>1. Appended(b, d, "connected")
    BY <1>1, <1>4, Appends DEF Names
  <2>2. /\ d.active /\ ~d.closed /\ d.generation = c.generation /\ d.connected
        /\ d.stopped = c.stopped /\ d.sockets = b.sockets /\ d.timers = b.timers
    BY <1>1, <2>1 DEF Appended, SameConnection
  <2>3. ~Attempting(d, lk, ct, tm)
    BY <1>1, <2>2 DEF Attempting, Armed, Started
  <2>4. \A i \in DOMAIN d.queue : Tells(d, "connected", i) => i = Len(b.queue) + 1
    BY <1>1, <1>2, <2>1, <2>2 DEF Appended, NoTells, Tells
  <2>5. TellsOnce(d)
    BY <2>2, <2>4 DEF TellsOnce, Unconnected
  <2>6. ASSUME td = "connected", ~ex
        PROVE  TellsLoss(d)
    <3>1. PICK j \in DOMAIN b.queue : Tells(b, "disconnected", j)
      BY <1>0, <1>2, <2>6 DEF HasLoss
    <3>2. j \in DOMAIN d.queue /\ Tells(d, "disconnected", j) /\ j < Len(b.queue) + 1
      BY <1>1, <2>1, <2>2, <3>1 DEF Appended, Tells
    <3>3. \A i \in DOMAIN d.queue :
             Tells(d, "connected", i)
                 => \E k \in DOMAIN d.queue : k < i /\ Tells(d, "disconnected", k)
      BY <2>4, <3>2
    <3> QED
      BY <2>2, <3>3 DEF TellsLoss, Unconnected
  <2>7. \A t \in rd2 : t <= d.generation
    BY <1>0, <2>2
  <2> QED
    BY <1>0, <2>2, <2>3, <2>5, <2>6, <2>7 DEF Turn
<1>5. CASE Overflows(b, d)
  <2>1. ex2 = TRUE
    BY <1>1, <1>5 DEF Overflows
  <2>2. \A t \in rd2 : t <= b.generation
    BY <1>0, <1>1
  <2>3. rd2 \in SUBSET Nat
    OBVIOUS
  <2> QED
    BY <1>1, <1>5, <2>1, <2>2, <2>3, TurnOverflow
<1> QED
  BY <1>3, <1>4, <1>5 DEF Emits

(* The messages of a batch. *)
LEMMA TurnBatch ==
    ASSUME NEW c \in Clients, NEW n \in Nat, NEW lk, NEW ct, NEW tm, NEW rd \in SUBSET Nat,
           NEW td, NEW ex, NEW d, d = EmitBatch(c, n, c.generation),
           NEW ex2, ex2 = (ex \/ (d.stopped /\ ~c.stopped)),
           TaskCapacity \in Nat \ {0}, Turn(c, lk, ct, tm, rd, td, ex)
    PROVE  Turn(d, lk, ct, tm, rd, td, ex2)
<1> DEFINE added == EventsOf(c, n)
<1>1. \/ d = c
      \/ d = [c EXCEPT !.queue = c.queue \o added] /\ added \in Seq(Tasks)
      \/ Overflows(c, d)
  BY BatchFacts
<1>2. Len(added) = n /\ \A i \in 1 .. n : added[i].name = "event"
  BY DEF EventsOf, NewTask
<1> HIDE DEF added
<1>3. ASSUME d = c
      PROVE  Turn(d, lk, ct, tm, rd, td, ex2)
  <2>1. Calm(c, lk, ct, tm, rd, ex, d, lk, ct, tm, rd, ex2)
    BY <1>3 DEF Calm, SameTold
  <2> QED
    BY <2>1, TurnSame
<1>4. ASSUME d = [c EXCEPT !.queue = c.queue \o added], added \in Seq(Tasks)
      PROVE  Turn(d, lk, ct, tm, rd, td, ex2)
  <2>1. /\ c.queue \in Seq(Tasks) /\ Len(c.queue) \in Nat /\ DOMAIN c.queue = 1 .. Len(c.queue)
        /\ SameConnection(c, d) /\ d.connected = c.connected /\ d.stopped = c.stopped
        /\ d.queue = c.queue \o added
    BY <1>4 DEF Clients, Queues, SameConnection
  <2>2. PICK q : q = c.queue \o added
    OBVIOUS
  <2>3. /\ q \in Seq(Tasks) /\ Len(q) = Len(c.queue) + Len(added)
        /\ \A i \in 1 .. Len(c.queue) + Len(added) :
               q[i] = IF i <= Len(c.queue) THEN c.queue[i] ELSE added[i - Len(c.queue)]
    <3>1. /\ c.queue \o added \in Seq(Tasks)
          /\ Len(c.queue \o added) = Len(c.queue) + Len(added)
          /\ \A i \in 1 .. Len(c.queue) + Len(added) :
                 (c.queue \o added)[i] = IF i <= Len(c.queue) THEN c.queue[i]
                                         ELSE added[i - Len(c.queue)]
      <4>1. c.queue \in Seq(Tasks) /\ added \in Seq(Tasks)
        BY <1>4, <2>1
      <4> QED
        BY <4>1, ConcatProperties, Zenon
    <3> QED
      BY <2>2, <3>1, Zenon
  <2>4. PICK m \in Nat : m = Len(c.queue)
    BY <2>1
  <2>5. DOMAIN q = 1 .. m + n
    BY <1>2, <2>3, <2>4, LenProperties
  <2>6. \A i \in 1 .. m : q[i] = c.queue[i]
    <3>1. \A i \in 1 .. m : i \in 1 .. m + n /\ i <= m
      OBVIOUS
    <3> QED
      BY <1>2, <2>3, <2>4, <3>1
  <2>7. \A i \in m + 1 .. m + n : q[i].name = "event"
    <3>1. \A j \in m + 1 .. m + n : j - m \in 1 .. n /\ ~(j <= m) /\ j \in 1 .. m + n
      OBVIOUS
    <3> QED
      BY <1>2, <2>3, <2>4, <3>1, SMTT(30)
  <2>8. Grows(c, d)
    <3>1. d.queue = q /\ DOMAIN c.queue = 1 .. m
      BY <2>1, <2>2, <2>4
    <3>2. DOMAIN c.queue \subseteq DOMAIN d.queue
      BY <2>5, <3>1
    <3>3. \A i \in DOMAIN d.queue \ DOMAIN c.queue : d.queue[i].name # "connected"
      BY <2>5, <2>7, <3>1
    <3>4. \A i \in DOMAIN c.queue : d.queue[i] = c.queue[i]
      BY <2>6, <3>1
    <3> QED
      BY <2>1, <3>2, <3>3, <3>4 DEF Grows, SameConnection
  <2>9. ex => ex2
    OBVIOUS
  <2>10. Growing(c, lk, ct, tm, rd, td, ex, d, ex2)
    BY <2>8, <2>9 DEF Growing
  <2> QED
    BY <2>10, TurnGrows
<1>5. ASSUME Overflows(c, d)
      PROVE  Turn(d, lk, ct, tm, rd, td, ex2)
  <2>1. \A t \in rd : t <= c.generation
    BY DEF Turn
  <2>2. ex2 = TRUE
    BY <1>5 DEF Overflows
  <2> QED
    BY <1>5, <2>1, <2>2, TurnOverflow
<1> QED
  BY <1>1, <1>3, <1>4, <1>5

(* The actions: what they do to what was told. *)
LEMMA Told ==
    ASSUME ConnectionInv, TurnInv
    PROVE  /\ client \in Clients /\ OwnTasks(client) /\ reading \in SUBSET Nat
           /\ client.generation \in Nat
           /\ Turn(client, lookups, catalogs, timer, reading, told, excused)
           /\ \A t \in reading : t <= client.generation
           /\ excused \in BOOLEAN
BY Given DEF ConnectionInv, JavaType, TurnInv, Turn, Holds

(* A step that leaves what TurnInv looks at as it is. *)
LEMMA QuietStep ==
    ASSUME ConnectionInv, TurnInv,
           Calm(client, lookups, catalogs, timer, reading, excused,
                client', lookups', catalogs', timer', reading', excused'),
           told' = told
    PROVE  TurnInv'
<1>1. Turn(client', lookups', catalogs', timer', reading', told, excused')
  BY Told, TurnSame
<1> QED
  BY <1>1 DEF TurnInv

LEMMA LeaveFacts ==
    ASSUME NEW d, Leave(d)
    PROVE  /\ client' = d /\ told' = told
           /\ excused' = (excused \/ (d.stopped /\ ~client.stopped))
           /\ excused => excused'
<1>1. client' = d /\ told' = told /\ excused' = (excused \/ (d.stopped /\ ~client.stopped))
  BY DEF Leave, Overflowed
<1>2. ASSUME excused PROVE excused'
  BY <1>1, <1>2, Zenon
<1> QED
  BY <1>1, <1>2

(* A failure, reported by what is over with it. *)
LEMMA FailTurn ==
    ASSUME ConnectionInv, TurnInv, NEW t, NEW retryable, Leave(Fail(client, t, retryable)),
           reading' \subseteq reading,
           client.active /\ ~client.closed /\ Attempting(client, lookups', catalogs', timer')
               => Attempting(client, lookups, catalogs, timer)
    PROVE  TurnInv'
<1>1. /\ client' = Fail(client, t, retryable) /\ told' = told
      /\ excused' = (excused \/ (client'.stopped /\ ~client.stopped))
  BY LeaveFacts
<1>2. Failing(client, t, retryable, lookups, catalogs, timer, reading, excused,
              client', lookups', catalogs', timer', reading', excused')
  BY <1>1 DEF Failing
<1>3. Turn(client', lookups', catalogs', timer', reading', told, excused')
  BY <1>2, Told, TurnFail
<1> QED
  BY <1>1, <1>3 DEF TurnInv

(* Attempts that are over. *)
LEMMA LessAttempting ==
    ASSUME NEW c, NEW lk, NEW ct, NEW tm, NEW lk2 \in SUBSET lk, NEW ct2 \in SUBSET ct, NEW tm2,
           tm2 = tm \/ tm2 = NoTask, Attempting(c, lk2, ct2, tm2)
    PROVE  Attempting(c, lk, ct, tm)
BY DEF Attempting, Started, NoTask

LEMMA FailuresTurn ==
    ASSUME ConnectionInv, TurnInv,
           \/ \E t \in lookups : AcquisitionFails(t)
           \/ \E t \in lookups \cup catalogs : OpenThrows(t)
           \/ \E t \in reading : AckFails(t)
           \/ HeartbeatRuns
    PROVE  TurnInv'
<1>1. CASE \E t \in lookups : AcquisitionFails(t)
  <2>1. PICK t \in lookups : AcquisitionFails(t)
    BY <1>1
  <2>2. PICK retryable \in BOOLEAN : Leave(Fail(client, t, retryable))
    BY <2>1 DEF AcquisitionFails
  <2>3. lookups' \in SUBSET lookups /\ UNCHANGED <<catalogs, timer, reading>>
    BY <2>1 DEF AcquisitionFails
  <2>4. Attempting(client, lookups', catalogs', timer') => Attempting(client, lookups, catalogs, timer)
    BY <2>3, LessAttempting
  <2> QED
    BY <2>2, <2>3, <2>4, FailTurn
<1>2. CASE \E t \in lookups \cup catalogs : OpenThrows(t)
  <2>1. PICK t \in lookups \cup catalogs : OpenThrows(t)
    BY <1>2
  <2>2. Leave(Fail(client, t, TRUE)) /\ UNCHANGED <<timer, reading>>
    BY <2>1 DEF OpenThrows
  <2>3. lookups' \in SUBSET lookups /\ catalogs' \in SUBSET catalogs
    BY <2>1 DEF OpenThrows
  <2>4. Attempting(client, lookups', catalogs', timer') => Attempting(client, lookups, catalogs, timer)
    BY <2>2, <2>3, LessAttempting
  <2> QED
    BY <2>2, <2>4, FailTurn
<1>3. CASE \E t \in reading : AckFails(t)
  <2>1. PICK t \in reading : AckFails(t)
    BY <1>3
  <2>2. /\ Leave(Fail(client, t, TRUE)) /\ UNCHANGED <<lookups, catalogs, timer>>
        /\ reading' \subseteq reading
    BY <2>1 DEF AckFails
  <2> QED
    BY <2>2, FailTurn
<1>4. CASE HeartbeatRuns
  <2>1. /\ Leave(Fail(client, timer.token, TRUE)) /\ timer' = NoTask
        /\ UNCHANGED <<lookups, catalogs, reading>>
    BY <1>4 DEF HeartbeatRuns, TimerEnds, NoTask
  <2>2. Attempting(client, lookups', catalogs', timer') => Attempting(client, lookups, catalogs, timer)
    BY <2>1, LessAttempting
  <2> QED
    BY <2>1, <2>2, FailTurn
<1> QED
  BY <1>1, <1>2, <1>3, <1>4

(* The attempt that is dropped tells nothing. *)
LEMMA CatalogThrowsTurn ==
    ASSUME ConnectionInv, TurnInv, NEW t \in lookups, CatalogThrows(t)
    PROVE  TurnInv'
<1> DEFINE d == [client EXCEPT !.dropped = {t}]
<1>1. /\ Leave(d) /\ lookups' \in SUBSET lookups /\ UNCHANGED <<catalogs, timer, reading>>
  BY DEF CatalogThrows
<1>2. client' = d /\ told' = told /\ (excused => excused')
  BY <1>1, LeaveFacts
<1>3. SameTold(client, d) /\ d.timers = client.timers /\ d.sockets = client.sockets
  BY Given DEF Clients, SameTold
<1> HIDE DEF d
<1>4. Attempting(d, lookups', catalogs', timer') => Attempting(client, lookups, catalogs, timer)
  BY <1>1, <1>3 DEF Attempting, Armed, Started, SameTold
<1>5. Calm(client, lookups, catalogs, timer, reading, excused,
           client', lookups', catalogs', timer', reading', excused')
  BY <1>1, <1>2, <1>3, <1>4 DEF Calm
<1> QED
  BY <1>2, <1>5, QuietStep

LEMMA DeadlineTurn ==
    ASSUME ConnectionInv, TurnInv, DeadlineRuns
    PROVE  TurnInv'
<1>1. /\ timer' = NoTask /\ UNCHANGED <<lookups, catalogs, reading>>
      /\ Leave(client) \/ Leave(Fail(client, timer.token, TRUE))
  BY DEF DeadlineRuns, TimerEnds, NoTask
<1>2. Attempting(client, lookups', catalogs', timer') => Attempting(client, lookups, catalogs, timer)
  BY <1>1, LessAttempting
<1>3. CASE Leave(client)
  <2>1. /\ client' = client /\ told' = told /\ (excused => excused')
    BY <1>3, LeaveFacts
  <2>2. Calm(client, lookups, catalogs, timer, reading, excused,
             client', lookups', catalogs', timer', reading', excused')
    BY <1>1, <1>2, <2>1 DEF Calm, SameTold
  <2> QED
    BY <2>1, <2>2, QuietStep
<1>4. CASE Leave(Fail(client, timer.token, TRUE))
  BY <1>1, <1>2, <1>4, FailTurn
<1> QED
  BY <1>1, <1>3, <1>4

LEMMA ReconnectTurn ==
    ASSUME ConnectionInv, TurnInv, ReconnectRuns
    PROVE  TurnInv'
<1> DEFINE t == timer.token
<1>1. /\ timer' = NoTask /\ UNCHANGED <<catalogs, reading>> /\ timer.kind = "reconnect"
      /\ \/ Valid(client, t) /\ Leave(client) /\ lookups' = lookups \cup {t}
         \/ \E retryable \in BOOLEAN : Leave(Fail(client, t, retryable)) /\ UNCHANGED lookups
         \/ Leave(client) /\ UNCHANGED lookups
  BY DEF ReconnectRuns, Request, TimerEnds, NoTask
<1>2. UNCHANGED lookups =>
         (Attempting(client, lookups', catalogs', timer') => Attempting(client, lookups, catalogs, timer))
  BY <1>1, LessAttempting
<1>3. CASE Valid(client, t) /\ Leave(client) /\ lookups' = lookups \cup {t}
  <2>1. /\ client' = client /\ told' = told /\ (excused => excused')
    BY <1>3, LeaveFacts
  <2>2. Attempting(client, lookups, catalogs, timer)
    BY <1>1, <1>3 DEF Valid, Attempting, Started
  <2>3. Calm(client, lookups, catalogs, timer, reading, excused,
             client', lookups', catalogs', timer', reading', excused')
    BY <1>1, <2>1, <2>2 DEF Calm, SameTold
  <2> QED
    BY <2>1, <2>3, QuietStep
<1>4. CASE \E retryable \in BOOLEAN : Leave(Fail(client, t, retryable)) /\ UNCHANGED lookups
  <2>1. PICK retryable \in BOOLEAN : Leave(Fail(client, t, retryable)) /\ UNCHANGED lookups
    BY <1>4
  <2> QED
    BY <1>1, <1>2, <2>1, FailTurn
<1>5. CASE Leave(client) /\ UNCHANGED lookups
  <2>1. /\ client' = client /\ told' = told /\ (excused => excused')
    BY <1>5, LeaveFacts
  <2>2. Calm(client, lookups, catalogs, timer, reading, excused,
             client', lookups', catalogs', timer', reading', excused')
    BY <1>1, <1>2, <1>5, <2>1 DEF Calm, SameTold
  <2> QED
    BY <2>1, <2>2, QuietStep
<1> QED
  BY <1>1, <1>3, <1>4, <1>5

(* What the application did excuses a callback that is then missing. *)
LEMMA ActedTurn ==
    ASSUME ConnectionInv, TurnInv, client'.generation \in Nat,
           client'.generation > client.generation, Mute(client'),
           excused' = TRUE, told' = told, reading' = reading
    PROVE  TurnInv'
<1>1. Turn(client', lookups', catalogs', timer', reading, told, TRUE)
  BY Told, TurnActed
<1> QED
  BY <1>1 DEF TurnInv

LEMMA ConnectTurn ==
    ASSUME ConnectionInv, TurnInv, Connect
    PROVE  TurnInv'
<1> DEFINE c == Begun(client)
<1>1. /\ ~client.closed /\ ~client.active /\ client.pending < MaxConnects
      /\ \/ client' = c
         \/ \E retryable \in BOOLEAN : client' = Fail(c, c.generation, retryable)
      /\ excused' = TRUE /\ told' = told /\ reading' = reading
  BY DEF Connect, Begun, LeaveCall
<1>2. /\ c \in Clients /\ c.generation = client.generation + 1
      /\ Ready(c, lookups, catalogs, timer) /\ c.queue = client.queue
      /\ c.connected = client.connected /\ c.closed = client.closed
  BY <1>1, Given, BegunFacts, JavaAssumption
<1>3. c.active
  BY Given DEF Begun, Clients
<1> HIDE DEF c
<1>4. Mute(c)
  <2>1. ~client.connected
    BY <1>1, Told DEF Turn
  <2> QED
    BY <1>2, <2>1, Told, NewGenerationMute DEF Mute
<1>5. CASE client' = c
  BY <1>1, <1>2, <1>4, <1>5, Told, ActedTurn
<1>6. CASE \E retryable \in BOOLEAN : client' = Fail(c, c.generation, retryable)
  <2>1. Valid(c, c.generation) /\ OwnTasks(c)
    BY <1>1, <1>2, <1>3 DEF Valid, Ready, Holds
  <2>2. Fallen(c, client')
    BY <1>2, <1>6, <2>1, MuteFail
  <2>3. /\ Mute(client') /\ client'.generation \in Nat /\ c.generation \in Nat
        /\ client'.generation > c.generation
    BY <1>2, <2>2 DEF Fallen, Clients
  <2>4. client'.generation > client.generation
    BY <1>2, <2>3, Told
  <2> QED
    BY <1>1, <2>3, <2>4, ActedTurn
<1> QED
  BY <1>1, <1>5, <1>6

LEMMA DisconnectTurn ==
    ASSUME ConnectionInv, TurnInv, excused' = TRUE, told' = told,
           client' = client \/ client' = Disconnect(client),
           UNCHANGED <<lookups, catalogs, timer, reading>>
    PROVE  TurnInv'
<1>1. CASE client' = client
  <2>1. Calm(client, lookups, catalogs, timer, reading, excused,
             client', lookups', catalogs', timer', reading', excused')
    BY <1>1 DEF Calm, SameTold
  <2> QED
    BY <2>1, QuietStep
<1>2. CASE client.closed /\ client' = Disconnect(client)
  <2>1. client' = client
    BY <1>2 DEF Disconnect
  <2> QED
    BY <1>1, <2>1
<1>3. CASE ~client.closed /\ client' = Disconnect(client)
  <2>1. client' \in Clients /\ Mute(client') /\ client'.generation > client.generation
    BY <1>3, Told, MuteDisconnect
  <2>2. client'.generation \in Nat
    BY <2>1 DEF Clients
  <2> QED
    BY <2>1, <2>2, ActedTurn
<1> QED
  BY <1>1, <1>2, <1>3

LEMMA CloseTurn ==
    ASSUME ConnectionInv, TurnInv, CloseCall
    PROVE  TurnInv'
<1> DEFINE d == Disconnect(client)
<1>1. /\ ~client.closed /\ client' = [d EXCEPT !.closed = TRUE, !.queue = <<>>]
      /\ excused' = TRUE /\ told' = told /\ reading' = reading
  BY DEF CloseCall, LeaveCall, threadVars
<1>2. d \in Clients /\ Mute(d) /\ d.generation > client.generation
  BY <1>1, Told, MuteDisconnect
<1> HIDE DEF d
<1>3. /\ client'.queue = <<>> /\ client'.generation = d.generation
      /\ client'.connected = d.connected /\ d.generation \in Nat
  BY <1>1, <1>2 DEF Clients
<1>4. Mute(client')
  BY <1>2, <1>3 DEF Mute, NoTells
<1> QED
  BY <1>1, <1>2, <1>3, <1>4, ActedTurn

LEMMA CompletionTurn ==
    ASSUME ConnectionInv, TurnInv, NEW r \in client.completing, Completion(r)
    PROVE  TurnInv'
<1> DEFINE g == [client.future EXCEPT ![r.future] = IF @ = "open" THEN r.result ELSE @]
           left == client.completing \ {r}
<1>1. client' = [client EXCEPT !.completing = left, !.future = g]
      /\ UNCHANGED <<lookups, catalogs, timer, reading, told, excused>>
  BY Given DEF Completion, threadVars, historyVars, Clients
<1> HIDE DEF g, left
<1>2. SameTold(client, client') /\ SameConnection(client, client')
  BY <1>1, Told DEF Clients, SameTold, SameConnection
<1>3. Attempting(client', lookups, catalogs, timer) => Attempting(client, lookups, catalogs, timer)
  BY <1>2 DEF Attempting, Armed, Started, SameConnection
<1>4. Calm(client, lookups, catalogs, timer, reading, excused,
           client', lookups', catalogs', timer', reading', excused')
  BY <1>1, <1>2, <1>3 DEF Calm
<1> QED
  BY <1>1, <1>4, QuietStep

LEMMA CallsTurn ==
    ASSUME ConnectionInv, TurnInv,
           \/ DisconnectCall
           \/ \E f \in 1 .. MaxConnects : CancelFuture(f)
           \/ \E f \in cancelling : CancelHandler(f)
           \/ \E r \in client.completing : Completion(r)
    PROVE  TurnInv'
<1>1. CASE DisconnectCall \/ \E f \in cancelling : CancelHandler(f)
  <2>1. /\ excused' = TRUE /\ told' = told
        /\ client' = client \/ client' = Disconnect(client)
        /\ UNCHANGED <<lookups, catalogs, timer, reading>>
    BY <1>1 DEF DisconnectCall, CancelHandler, LeaveCall, threadVars
  <2> QED
    BY <2>1, DisconnectTurn
<1>2. CASE \E f \in 1 .. MaxConnects : CancelFuture(f)
  <2>1. PICK f \in 1 .. MaxConnects : CancelFuture(f)
    BY <1>2
  <2> DEFINE g == [client.future EXCEPT ![f] = "cancelled"]
  <2>2. /\ client' = [client EXCEPT !.future = g]
        /\ UNCHANGED <<lookups, catalogs, timer, reading, told, excused>>
    BY <2>1 DEF CancelFuture, historyVars
  <2> HIDE DEF g
  <2>3. SameTold(client, client') /\ SameConnection(client, client')
    BY <2>2, Told DEF Clients, SameTold, SameConnection
  <2>4. Attempting(client', lookups, catalogs, timer) => Attempting(client, lookups, catalogs, timer)
    BY <2>3 DEF Attempting, Armed, Started, SameConnection
  <2>5. Calm(client, lookups, catalogs, timer, reading, excused,
             client', lookups', catalogs', timer', reading', excused')
    BY <2>2, <2>3, <2>4 DEF Calm
  <2> QED
    BY <2>2, <2>5, QuietStep
<1>3. CASE \E r \in client.completing : Completion(r)
  BY <1>3, CompletionTurn
<1> QED
  BY <1>1, <1>2, <1>3

(* An attempt that has not come to its socket is not connected, and has    *)
(* told nobody that it is.                                                 *)
LEMMA AttemptingMute ==
    ASSUME ConnectionInv, TurnInv, client.active, ~client.closed,
           Attempting(client, lookups, catalogs, timer)
    PROVE  Unconnected(client) /\ Mute(client)
BY Told DEF Turn, TellsOnce, Unconnected, Mute, NoTells

(* open() adds a socket to an attempt that was under way. *)
LEMMA OpenSame ==
    ASSUME NEW c \in Clients, NEW t
    PROVE  SameTold(c, Open(c, t))
<1> DEFINE S == c.sockets \cup {[token |-> t, phase |-> "connecting", cancelled |-> FALSE]}
<1>1. Open(c, t) = [c EXCEPT !.socket = t, !.sockets = S]
  BY DEF Open
<1> HIDE DEF S
<1> QED
  BY <1>1 DEF SameTold, Clients

LEMMA AcquiredTurn ==
    ASSUME ConnectionInv, TurnInv, NEW t \in lookups, NEW live \in BOOLEAN, Acquired(t, live)
    PROVE  TurnInv'
<1>1. /\ lookups' = lookups \ {t} /\ timer' = timer /\ reading' = reading
      /\ \/ Leave(client) /\ catalogs' = catalogs
         \/ /\ Valid(client, t) /\ Leave(Emit(Offline(client), "offline"))
            /\ catalogs' = catalogs
         \/ Valid(client, t) /\ Leave(client) /\ catalogs' = catalogs \cup {t}
         \/ Valid(client, t) /\ Leave(Open(client, t)) /\ catalogs' = catalogs
  BY DEF Acquired, Offline
<1>2. Valid(client, t) =>
         /\ Attempting(client, lookups, catalogs, timer) /\ client.active /\ ~client.closed
  BY DEF Valid, Attempting
<1>3. CASE Leave(client) /\ catalogs' = catalogs
  <2>1. client' = client /\ told' = told /\ (excused => excused')
    BY <1>3, LeaveFacts
  <2>2. Attempting(client, lookups', catalogs', timer') => Attempting(client, lookups, catalogs, timer)
    BY <1>1, <1>3, LessAttempting
  <2>3. Calm(client, lookups, catalogs, timer, reading, excused,
             client', lookups', catalogs', timer', reading', excused')
    BY <1>1, <2>1, <2>2 DEF Calm, SameTold
  <2> QED
    BY <2>1, <2>3, QuietStep
<1>4. CASE /\ Valid(client, t) /\ Leave(Emit(Offline(client), "offline"))
           /\ catalogs' = catalogs
  <2> DEFINE c == Offline(client)
             d == Emit(c, "offline")
  <2>1. /\ c \in Clients /\ ~c.active /\ ~c.connected
        /\ c.generation = client.generation /\ c.queue = client.queue
        /\ c.stopped = client.stopped
    BY Told, OfflineFacts
  <2> HIDE DEF c
  <2>2. Mute(c)
    <3>1. NoTells(client)
      BY <1>2, <1>4, AttemptingMute DEF Mute
    <3> QED
      BY <2>1, <3>1 DEF Mute, NoTells, Tells
  <2>3. d \in Clients /\ Mute(d) /\ d.generation >= c.generation /\ ~d.active
    BY <2>1, <2>2, MuteEmit DEF Names
  <2>4. /\ client' = d /\ told' = told
        /\ excused' = (excused \/ (d.stopped /\ ~client.stopped))
    BY <1>4, LeaveFacts DEF c
  <2> HIDE DEF d
  <2>5. d.stopped => excused'
    BY <2>4, Told DEF Turn
  <2>6. Reads(d, lookups', catalogs', timer', reading)
    <3>1. d.generation \in Nat
      BY <2>3 DEF Clients
    <3>2. \A x \in reading : x <= d.generation
      BY <2>1, <2>3, <3>1, Told
    <3> QED
      BY <2>3, <3>2 DEF Reads, Valid
  <2>7. Turn(d, lookups', catalogs', timer', reading, told, excused')
    BY <2>3, <2>5, <2>6, TurnMute
  <2> QED
    BY <1>1, <2>4, <2>7 DEF TurnInv
<1>5. CASE Valid(client, t) /\ Leave(client) /\ catalogs' = catalogs \cup {t}
  <2>1. client' = client /\ told' = told /\ (excused => excused')
    BY <1>5, LeaveFacts
  <2>2. Calm(client, lookups, catalogs, timer, reading, excused,
             client', lookups', catalogs', timer', reading', excused')
    BY <1>1, <1>2, <1>5, <2>1 DEF Calm, SameTold
  <2> QED
    BY <2>1, <2>2, QuietStep
<1>6. CASE Valid(client, t) /\ Leave(Open(client, t)) /\ catalogs' = catalogs
  <2>1. client' = Open(client, t) /\ told' = told /\ (excused => excused')
    BY <1>6, LeaveFacts
  <2>2. SameTold(client, client')
    BY <2>1, Told, OpenSame
  <2>3. Calm(client, lookups, catalogs, timer, reading, excused,
             client', lookups', catalogs', timer', reading', excused')
    BY <1>1, <1>2, <1>6, <2>1, <2>2 DEF Calm
  <2> QED
    BY <2>1, <2>3, QuietStep
<1> QED
  BY <1>1, <1>3, <1>4, <1>5, <1>6

LEMMA CatalogLoadedTurn ==
    ASSUME ConnectionInv, TurnInv, NEW t \in catalogs, CatalogLoaded(t)
    PROVE  TurnInv'
<1>1. /\ catalogs' = catalogs \ {t} /\ UNCHANGED <<lookups, timer, reading>>
      /\ \/ Leave(client)
         \/ Valid(client, t) /\ Leave(Open(client, t))
  BY DEF CatalogLoaded
<1>3. CASE Leave(client)
  <2>1. client' = client /\ told' = told /\ (excused => excused')
    BY <1>3, LeaveFacts
  <2>2. Attempting(client, lookups', catalogs', timer') => Attempting(client, lookups, catalogs, timer)
    BY <1>1, LessAttempting
  <2>3. Calm(client, lookups, catalogs, timer, reading, excused,
             client', lookups', catalogs', timer', reading', excused')
    BY <1>1, <2>1, <2>2 DEF Calm, SameTold
  <2> QED
    BY <2>1, <2>3, QuietStep
<1>4. CASE Valid(client, t) /\ Leave(Open(client, t))
  <2>1. client' = Open(client, t) /\ told' = told /\ (excused => excused')
    BY <1>4, LeaveFacts
  <2>2. SameTold(client, client') /\ Attempting(client, lookups, catalogs, timer)
    BY <1>4, <2>1, Told, OpenSame DEF Valid, Attempting
  <2>3. Calm(client, lookups, catalogs, timer, reading, excused,
             client', lookups', catalogs', timer', reading', excused')
    BY <1>1, <2>1, <2>2 DEF Calm
  <2> QED
    BY <2>1, <2>3, QuietStep
<1> QED
  BY <1>1, <1>3, <1>4

LEMMA CatalogFailsTurn ==
    ASSUME ConnectionInv, TurnInv, NEW t \in catalogs, CatalogFails(t)
    PROVE  TurnInv'
<1> DEFINE e == Emit(client, "error")
<1>1. /\ catalogs' = catalogs \ {t} /\ UNCHANGED <<lookups, timer, reading>>
      /\ \/ Leave(client)
         \/ Valid(client, t) /\ Leave(Open(e, t))
  BY DEF CatalogFails
<1>2. CASE Leave(client)
  <2>1. client' = client /\ told' = told /\ (excused => excused')
    BY <1>2, LeaveFacts
  <2>2. Attempting(client, lookups', catalogs', timer') => Attempting(client, lookups, catalogs, timer)
    BY <1>1, LessAttempting
  <2>3. Calm(client, lookups, catalogs, timer, reading, excused,
             client', lookups', catalogs', timer', reading', excused')
    BY <1>1, <2>1, <2>2 DEF Calm, SameTold
  <2> QED
    BY <2>1, <2>3, QuietStep
<1>3. CASE Valid(client, t) /\ Leave(Open(e, t))
  <2>1. Emits(client, e, "error", client.generation) /\ e \in Clients
    BY Told, EmitFacts DEF Emit, Names, Emits
  <2>2. e.active => Attempting(e, lookups, catalogs, timer)
    <3>1. e.active => e.generation = client.generation
      BY <2>1, Told DEF Emits, Overflows, Clients
    <3> QED
      BY <1>3, <3>1 DEF Valid, Attempting
  <2> HIDE DEF e
  <2>3. SameTold(e, Open(e, t))
    BY <2>1, OpenSame
  <2>4. /\ client' = Open(e, t) /\ told' = told
        /\ excused' = (excused \/ (client'.stopped /\ ~client.stopped))
    BY <1>3, LeaveFacts
  <2>5. excused' = (excused \/ (e.stopped /\ ~client.stopped))
    BY <2>3, <2>4 DEF SameTold
  <2>6. Turn(e, lookups, catalogs, timer, reading, told, excused')
    BY <2>1, <2>5, Told, TurnEmits DEF Names
  <2>7. Calm(e, lookups, catalogs, timer, reading, excused',
             client', lookups', catalogs', timer', reading', excused')
    BY <1>1, <2>2, <2>3, <2>4 DEF Calm
  <2>8. Turn(client', lookups', catalogs', timer', reading', told, excused')
    BY <2>6, <2>7, TurnSame
  <2> QED
    BY <2>4, <2>8 DEF TurnInv
<1> QED
  BY <1>1, <1>2, <1>3

(* onOpen(): the attempt ends with the socket it was for. *)
LEMMA MovedAttempt ==
    ASSUME ConnectionInv, NEW s \in client.sockets, Valid(client, s.token), NEW d,
           d.generation = client.generation,
           d.sockets = Move(client, s, "open").sockets,
           d.timers["reconnect"] = client.timers["reconnect"]
    PROVE  ~Attempting(d, lookups, catalogs, timer)
<1> DEFINE new == [s EXCEPT !.phase = "open"]
<1>1. /\ d.sockets = (client.sockets \ {s}) \cup {new}
      /\ new.token = s.token /\ new.phase = "open" /\ s.token = client.generation
  BY Given, MoveFacts DEF Valid
<1> HIDE DEF new
<1>2. client.active /\ ~client.closed /\ HasSocket(client)
  BY <1>1 DEF Valid, HasSocket
<1>3. /\ ~Armed(client) /\ ~Started(client, timer)
      /\ client.generation \notin lookups /\ client.generation \notin catalogs
      /\ \A s1, s2 \in client.sockets :
             s1.token = client.generation /\ s2.token = client.generation => s1 = s2
  BY <1>2, Given DEF Holds, InOnePlace
<1>4. ~Armed(d) /\ ~Started(d, timer)
  BY <1>3 DEF Armed, Started
<1>5. \A x \in d.sockets : x.token = d.generation => x.phase # "connecting"
  BY <1>1, <1>3
<1> QED
  BY <1>3, <1>4, <1>5 DEF Attempting

LEMMA OnOpenTurn ==
    ASSUME ConnectionInv, TurnInv, NEW s \in client.sockets, NEW same \in BOOLEAN,
           OnOpen(s, same)
    PROVE  TurnInv'
<1> DEFINE m == Move(client, s, "open")
           t == s.token
<1>1. m \in Clients /\ m = [client EXCEPT !.sockets = m.sockets]
      /\ m.sockets = Move(client, s, "open").sockets
  BY Given, MoveFacts
<1>2. SameTold(client, m) /\ m.timers = client.timers /\ t \in Nat
  BY <1>1, Given DEF Clients, SameTold, SocketSets, Sockets
<1>3. Valid(m, t) <=> Valid(client, t)
  BY <1>2 DEF Valid, SameTold
<1>4. /\ s.phase = "connecting"
      /\ Leave(IF Valid(m, t) THEN Entered(m, t, same) ELSE CancelSocket(m, t))
      /\ UNCHANGED <<lookups, catalogs, timer, reading>>
  BY DEF OnOpen, threadVars
<1>5. CASE ~Valid(client, t)
  <2> DEFINE d == CancelSocket(m, t)
             new == [s EXCEPT !.phase = "open"]
  <2>1. client' = d /\ told' = told /\ (excused => excused')
    BY <1>3, <1>4, <1>5, LeaveFacts
  <2>2. Cancels(m, d, t)
    BY <1>1, <1>2, CancelSocketFacts
  <2>3. m.sockets = (client.sockets \ {s}) \cup {new} /\ new.token = t
    BY <1>1, Given, MoveFacts
  <2> HIDE DEF m, d, new, t
  <2>4. SameTold(client, d) /\ d.timers = client.timers
    <3>1. d = [m EXCEPT !.sockets = d.sockets]
      BY <2>2 DEF Cancels
    <3> QED
      BY <1>1, <1>2, <3>1 DEF Clients, SameTold
  <2>5. \A x \in d.sockets : x.token # t => x \in client.sockets
    <3>1. \A x \in d.sockets : x.token # t => x \in m.sockets
      BY <2>2 DEF Cancels
    <3> QED
      BY <2>3, <3>1
  <2>6. ASSUME client.active, ~client.closed, Attempting(d, lookups, catalogs, timer)
        PROVE  Attempting(client, lookups, catalogs, timer)
    <3>1. t # client.generation
      BY <1>5, <2>6 DEF Valid
    <3> QED
      BY <2>4, <2>5, <2>6, <3>1 DEF Attempting, Armed, Started, SameTold
  <2>7. Calm(client, lookups, catalogs, timer, reading, excused,
             client', lookups', catalogs', timer', reading', excused')
    BY <1>4, <2>1, <2>4, <2>6 DEF Calm
  <2> QED
    BY <2>1, <2>7, QuietStep
<1>6. ASSUME Valid(client, t)
      PROVE  /\ Unconnected(client) /\ Leave(Entered(m, t, same))
             /\ Attempting(client, lookups, catalogs, timer)
  <2>1. client.active /\ ~client.closed /\ Attempting(client, lookups, catalogs, timer)
    BY <1>4, <1>6 DEF Valid, Attempting
  <2> QED
    BY <1>3, <1>4, <1>6, <2>1, AttemptingMute
<1>7. CASE Valid(client, t) /\ setup.confirm
  <2> DEFINE d == Waits(m, t, same)
  <2>1. Entered(m, t, same) = d
    BY <1>7 DEF Entered, Waits, Prepared
  <2>2. Opens(m, d, t) /\ ~d.connected
    BY <1>1, <1>2, EnteredFacts
  <2> HIDE DEF m, d, t
  <2>3. client' = d /\ told' = told /\ (excused => excused')
    BY <1>6, <1>7, <2>1, LeaveFacts
  <2>4. d.connected = client.connected
    <3>1. d.connected = FALSE /\ client.connected = FALSE
      BY <1>6, <1>7, <2>2, Told DEF Unconnected, Opens, Clients
    <3> QED
      BY <3>1
  <2>5. SameTold(client, d)
    BY <1>2, <2>2, <2>4 DEF SameTold, Opens
  <2>6. Calm(client, lookups, catalogs, timer, reading, excused,
             client', lookups', catalogs', timer', reading', excused')
    BY <1>4, <1>6, <1>7, <2>3, <2>5 DEF Calm
  <2> QED
    BY <2>3, <2>6, QuietStep
<1>8. CASE Valid(client, t) /\ ~setup.confirm
  <2> DEFINE j == Joins(m, t, same)
             b == Complete(j, "value")
             d == Emit(b, "connected")
  <2>1. Entered(m, t, same) = d
    BY <1>8 DEF Entered, Joins, Prepared
  <2>2. Opens(m, j, t) /\ j.connected
    BY <1>1, <1>2, EnteredFacts
  <2>3. client' = d /\ told' = told /\ excused' = (excused \/ (d.stopped /\ ~client.stopped))
    BY <1>6, <1>8, <2>1, LeaveFacts
  <2> HIDE DEF j
  <2>4. /\ b \in Clients /\ SameConnection(j, b) /\ b.queue = j.queue
        /\ b.stopped = j.stopped /\ b.connected = j.connected
    BY <2>2, CompleteFacts DEF Results, Opens
  <2> HIDE DEF b
  <2>5. Raises(client, b)
    BY <1>2, <2>2, <2>4 DEF Raises, Opens, SameConnection, SameTold
  <2>6. b.generation \in Nat
    BY <2>4 DEF Clients
  <2>7. Emits(b, d, "connected", b.generation)
    BY <2>4, <2>6, EmitFacts DEF Emit, Names
  <2>8. /\ b.generation = client.generation /\ b.sockets = m.sockets
        /\ b.timers["reconnect"] = client.timers["reconnect"]
    BY <1>2, <2>2, <2>4 DEF Opens, SameConnection, SameTold
  <2> HIDE DEF d
  <2>9. ~Attempting(b, lookups, catalogs, timer)
    BY <1>8, <2>8, MovedAttempt DEF m, t
  <2>10. Turn(d, lookups, catalogs, timer, reading, told, excused')
    BY <1>6, <1>8, <2>3, <2>5, <2>6, <2>7, <2>9, Told, TurnJoins
  <2> QED
    BY <1>4, <2>3, <2>10 DEF TurnInv
<1> QED
  BY <1>5, <1>7, <1>8

LEMMA OnOpenFailsTurn ==
    ASSUME ConnectionInv, TurnInv, NEW s \in client.sockets, OnOpenFails(s)
    PROVE  TurnInv'
<1> DEFINE m == Move(client, s, "open")
           c == [m EXCEPT !.socket = s.token]
           d == Fail(c, s.token, TRUE)
<1>1. m \in Clients /\ m = [client EXCEPT !.sockets = m.sockets]
  BY Given, MoveFacts
<1>2. /\ Leave(d) /\ Valid(client, s.token)
      /\ UNCHANGED <<lookups, catalogs, timer, reading>>
  BY DEF OnOpenFails, threadVars
<1>3. s.token \in Nat
  BY Given DEF Clients, SocketSets, Sockets
<1> HIDE DEF m
<1>4. c \in Clients
  BY <1>1, <1>3 DEF Clients
<1>5. SameTold(client, c)
  BY <1>1, Given DEF Clients, SameTold
<1> HIDE DEF c
<1>6. Valid(c, s.token) /\ OwnTasks(c)
  BY <1>2, <1>5, Told DEF Valid, OwnTasks, SameTold
<1>7. Fallen(c, d)
  BY <1>4, <1>6, MuteFail
<1> HIDE DEF d
<1>8. /\ client' = d /\ told' = told /\ excused' = (excused \/ (d.stopped /\ ~client.stopped))
  BY <1>2, LeaveFacts
<1>9. d.stopped => excused'
  BY <1>8, Told DEF Turn
<1>10. \A t \in reading : t <= c.generation
  BY <1>5, Told DEF SameTold
<1>11. Turn(d, lookups', catalogs', timer', reading, told, excused')
  BY <1>4, <1>7, <1>9, <1>10, Told, TurnFallen
<1> QED
  BY <1>2, <1>8, <1>11 DEF TurnInv

LEMMA OnEndTurn ==
    ASSUME ConnectionInv, TurnInv, NEW s \in client.sockets, OnEnd(s)
    PROVE  TurnInv'
<1> DEFINE S == client.sockets \ {s}
           c == [client EXCEPT !.sockets = S]
           d == Fail(c, s.token, TRUE)
<1>1. Leave(d) /\ UNCHANGED <<lookups, catalogs, timer, reading>>
  <2>1. c = [client EXCEPT !.sockets = @ \ {s}]
    BY Given DEF Clients
  <2> QED
    BY <2>1 DEF OnEnd, threadVars
<1>2. S \in SocketSets /\ S \subseteq client.sockets
  BY Given DEF Clients, SocketSets
<1> HIDE DEF S
<1>3. c \in Clients
  BY <1>2, Given DEF Clients
<1>4. SameTold(client, c) /\ c.sockets = S /\ c.timers = client.timers
  BY Given DEF Clients, SameTold
<1> HIDE DEF c
<1>5. Attempting(c, lookups, catalogs, timer) => Attempting(client, lookups, catalogs, timer)
  BY <1>2, <1>4 DEF Attempting, Armed, Started, SameTold
<1>6. Calm(client, lookups, catalogs, timer, reading, excused,
           c, lookups, catalogs, timer, reading, excused)
  BY <1>4, <1>5 DEF Calm
<1>7. Turn(c, lookups, catalogs, timer, reading, told, excused)
  BY <1>6, Told, TurnSame
<1>8. OwnTasks(c)
  BY <1>4, Told DEF OwnTasks, SameTold
<1>9. client' = d /\ told' = told /\ excused' = (excused \/ (d.stopped /\ ~c.stopped))
  <2>1. client' = d /\ told' = told /\ excused' = (excused \/ (d.stopped /\ ~client.stopped))
    BY <1>1, LeaveFacts
  <2> QED
    BY <1>4, <2>1 DEF SameTold
<1>10. Failing(c, s.token, TRUE, lookups, catalogs, timer, reading, excused,
               d, lookups, catalogs, timer, reading, excused')
  BY <1>9 DEF Failing
<1> HIDE DEF d
<1>11. Turn(d, lookups, catalogs, timer, reading, told, excused')
  BY <1>3, <1>7, <1>8, <1>10, Told, TurnFail
<1> QED
  BY <1>1, <1>9, <1>11 DEF TurnInv

(* receive() of a socket that is open: its attempt is over. *)
LEMMA ReceiveStartsTurn ==
    ASSUME ConnectionInv, TurnInv, NEW s \in client.sockets, ReceiveStarts(s)
    PROVE  TurnInv'
<1>1. /\ s.phase = "open" /\ s.token = client.generation /\ client.active /\ ~client.closed
      /\ reading' = reading \cup {s.token}
      /\ UNCHANGED <<client, lookups, catalogs, timer, told, excused>>
  BY DEF ReceiveStarts, Valid, historyVars
<1>2. HasSocket(client)
  BY <1>1 DEF HasSocket
<1>3. /\ ~Armed(client) /\ ~Started(client, timer)
      /\ client.generation \notin lookups /\ client.generation \notin catalogs
      /\ \A s1, s2 \in client.sockets :
             s1.token = client.generation /\ s2.token = client.generation => s1 = s2
  BY <1>1, <1>2, Given DEF Holds, InOnePlace
<1>4. ~Attempting(client, lookups, catalogs, timer)
  BY <1>1, <1>3 DEF Attempting
<1>5. \A t \in reading' : /\ t <= client.generation
                          /\ Valid(client, t) => ~Attempting(client, lookups, catalogs, timer)
  BY <1>1, <1>4, Told
<1>6. Turn(client, lookups, catalogs, timer, reading', told, excused)
  BY <1>5, Told DEF Turn
<1> QED
  BY <1>1, <1>6 DEF TurnInv

LEMMA ReceiveMalformedTurn ==
    ASSUME ConnectionInv, TurnInv, NEW t \in reading, ReceiveMalformed(t)
    PROVE  TurnInv'
<1> DEFINE d == EmitFrom(client, "error", t)
<1>1. Leave(d) /\ reading' \subseteq reading /\ UNCHANGED <<lookups, catalogs, timer>>
  BY DEF ReceiveMalformed
<1>2. Emits(client, d, "error", t) /\ t \in Nat
  BY Told, EmitFacts DEF Names
<1> HIDE DEF d
<1>3. client' = d /\ told' = told /\ excused' = (excused \/ (d.stopped /\ ~client.stopped))
  BY <1>1, LeaveFacts
<1>4. Turn(d, lookups, catalogs, timer, reading, told, excused')
  BY <1>2, <1>3, Told, TurnEmits DEF Names
<1>5. Calm(d, lookups, catalogs, timer, reading, excused',
           d, lookups, catalogs, timer, reading', excused')
  BY <1>1 DEF Calm, SameTold
<1>6. Turn(d, lookups, catalogs, timer, reading', told, excused')
  BY <1>4, <1>5, TurnSame
<1> QED
  BY <1>1, <1>3, <1>6 DEF TurnInv

(* The first batch after a room entry that has to be confirmed. *)
LEMMA ConfirmedTurn ==
    ASSUME ConnectionInv, TurnInv, NEW t \in reading, Valid(client, t), NEW b,
           b = Confirmed(client), NEW ex2, ex2 = (excused \/ (b.stopped /\ ~client.stopped))
    PROVE  Turn(b, lookups, catalogs, timer, reading, told, ex2)
<1>1. CASE ~(setup.confirm /\ ~client.connected)
  <2>1. b = client
    BY <1>1 DEF Confirmed
  <2>2. ex2 = excused
    BY <2>1, Told
  <2> QED
    BY <2>1, <2>2, Told
<1>2. CASE setup.confirm /\ ~client.connected
  <2> DEFINE j == Joined(client)
             u == Complete(j, "value")
  <2>1. b = Emit(u, "connected")
    BY <1>2 DEF Confirmed, Joined
  <2>2. /\ j \in Clients
        /\ j.active = client.active /\ j.closed = client.closed
        /\ j.generation = client.generation /\ j.queue = client.queue
        /\ j.sockets = client.sockets /\ j.timers["reconnect"] = client.timers["reconnect"]
        /\ j.connected /\ j.stopped = client.stopped
    BY Told, JoinedFacts
  <2> HIDE DEF j
  <2>3. /\ u \in Clients /\ SameConnection(j, u) /\ u.queue = j.queue
        /\ u.stopped = j.stopped /\ u.connected = j.connected
    BY <2>2, CompleteFacts DEF Results
  <2> HIDE DEF u
  <2>4. Raises(client, u)
    BY <2>2, <2>3 DEF Raises, SameConnection
  <2>5. u.generation \in Nat
    BY <2>3 DEF Clients
  <2>6. Emits(u, b, "connected", u.generation)
    BY <2>1, <2>3, <2>5, EmitFacts DEF Emit, Names
  <2>7. ~Attempting(client, lookups, catalogs, timer)
    BY Told DEF Turn
  <2>8. ~Attempting(u, lookups, catalogs, timer)
    BY <2>2, <2>3, <2>7 DEF Attempting, Armed, Started, SameConnection
  <2>9. Unconnected(client)
    BY <1>2 DEF Unconnected, Valid
  <2> QED
    BY <2>4, <2>5, <2>6, <2>8, <2>9, Told, TurnJoins
<1> QED
  BY <1>1, <1>2

(* Nothing restarts a delivery that overflowed but connect(). *)
LEMMA ConfirmedStopped ==
    ASSUME NEW c \in Clients, c.stopped
    PROVE  Confirmed(c).stopped
<1> DEFINE j == Joined(c)
           u == Complete(j, "value")
<1>1. Confirmed(c) = c \/ Confirmed(c) = Emit(u, "connected")
  BY DEF Confirmed, Joined
<1>2. j \in Clients /\ j.stopped
  BY JoinedFacts
<1> HIDE DEF j
<1>3. u.stopped
  BY <1>2, CompleteFacts DEF Results
<1> HIDE DEF u
<1>4. Emit(u, "connected") = u
  BY <1>3 DEF Emit, EmitFrom
<1> QED
  BY <1>1, <1>3, <1>4

(* The heartbeat that the batch asks for, after the confirmation. *)
LEMMA BeatenTurn ==
    ASSUME ConnectionInv, TurnInv, NEW t \in reading, NEW beat \in Beats, Valid(client, t), NEW b,
           b = Beaten(Confirmed(client), t, beat),
           NEW ex2, ex2 = (excused \/ (b.stopped /\ ~client.stopped))
    PROVE  /\ b \in Clients /\ (b.generation = client.generation \/ b.stopped)
           /\ client.stopped => b.stopped
           /\ Turn(b, lookups, catalogs, timer, reading, told, ex2)
<1> DEFINE a == Confirmed(client)
<1>1. a \in Clients /\ Confirms(client, a)
  BY Given, HoldsConfirmed
<1>2. OnlyBeats(a, b)
  BY <1>1, Given, BeatenFacts
<1>3. b.stopped = a.stopped
  BY <1>2 DEF OnlyBeats, SameTold
<1>4. Turn(a, lookups, catalogs, timer, reading, told, ex2)
  BY <1>3, ConfirmedTurn
<1>5. client.stopped => a.stopped
  BY Given, ConfirmedStopped
<1> HIDE DEF a
<1>6. Attempting(b, lookups, catalogs, timer) => Attempting(a, lookups, catalogs, timer)
  BY <1>2 DEF OnlyBeats, SameTold, Attempting, Armed, Started
<1>7. Calm(a, lookups, catalogs, timer, reading, ex2, b, lookups, catalogs, timer, reading, ex2)
  BY <1>2, <1>6 DEF Calm, OnlyBeats
<1>8. Turn(b, lookups, catalogs, timer, reading, told, ex2)
  BY <1>4, <1>7, TurnSame
<1>9. b \in Clients /\ (b.generation = client.generation \/ b.stopped)
  BY <1>1, <1>2 DEF Confirms, OnlyBeats, SameTold
<1> QED
  BY <1>3, <1>5, <1>8, <1>9

LEMMA ApplyTurn ==
    ASSUME ConnectionInv, TurnInv, NEW t \in reading, NEW n \in 0 .. MaxBatch, NEW beat \in Beats,
           Apply(t, n, beat)
    PROVE  TurnInv'
<1>1. /\ Leave(IF Valid(client, t) THEN EmitBatch(Beaten(Confirmed(client), t, beat), n, t)
               ELSE client)
      /\ reading' \subseteq reading /\ UNCHANGED <<lookups, catalogs, timer>>
  BY DEF Apply
<1>2. CASE ~Valid(client, t)
  <2>1. client' = client /\ told' = told /\ (excused => excused')
    BY <1>1, <1>2, LeaveFacts
  <2>2. Calm(client, lookups, catalogs, timer, reading, excused,
             client', lookups', catalogs', timer', reading', excused')
    BY <1>1, <2>1 DEF Calm, SameTold
  <2> QED
    BY <2>1, <2>2, QuietStep
<1>3. CASE Valid(client, t)
  <2> DEFINE b == Beaten(Confirmed(client), t, beat)
             d == EmitBatch(b, n, t)
             ex == excused \/ (b.stopped /\ ~client.stopped)
  <2>1. /\ b \in Clients /\ (b.generation = client.generation \/ b.stopped)
        /\ client.stopped => b.stopped
        /\ Turn(b, lookups, catalogs, timer, reading, told, ex)
    BY <1>3, BeatenTurn
  <2>2. n \in Nat /\ client.generation = t
    BY <1>3, JavaAssumption DEF Valid
  <2>3. client' = d /\ told' = told /\ excused' = (excused \/ (d.stopped /\ ~client.stopped))
    BY <1>1, <1>3, LeaveFacts
  <2> HIDE DEF b
  <2>5. b.stopped => d = b
    BY DEF EmitBatch
  <2>6. excused' = (ex \/ (d.stopped /\ ~b.stopped))
    <3>1. CASE b.stopped
      BY <2>3, <2>5, <3>1
    <3>2. CASE ~b.stopped
      BY <2>1, <2>3, <3>2
    <3> QED
      BY <3>1, <3>2
  <2> HIDE DEF ex
  <2>7. Turn(d, lookups, catalogs, timer, reading, told, excused')
    <3>1. CASE b.stopped
      <4>1. d = b /\ excused' = ex
        <5>1. d = b
          BY <2>5, <3>1
        <5>2. excused' = (ex \/ FALSE)
          BY <2>6, <3>1
        <5>3. ex \in BOOLEAN
          BY DEF ex
        <5> QED
          BY <5>1, <5>2, <5>3
      <4> QED
        BY <2>1, <4>1
    <3>2. CASE ~b.stopped
      <4>1. b.generation = t
        BY <2>1, <2>2, <3>2
      <4>2. TaskCapacity \in Nat \ {0}
        BY JavaAssumption
      <4>3. d = EmitBatch(b, n, b.generation)
        BY <4>1
      <4> HIDE DEF d
      <4> QED
        BY <2>1, <2>2, <2>6, <4>2, <4>3, Told, TurnBatch
    <3> QED
      BY <3>1, <3>2
  <2>8. Calm(d, lookups, catalogs, timer, reading, excused',
             d, lookups, catalogs, timer, reading', excused')
    BY <1>1 DEF Calm, SameTold
  <2> HIDE DEF d
  <2>9. Turn(d, lookups, catalogs, timer, reading', told, excused')
    BY <2>7, <2>8, TurnSame
  <2> QED
    BY <1>1, <2>3, <2>9 DEF TurnInv
<1> QED
  BY <1>2, <1>3

LEMMA TimerStartsTurn ==
    ASSUME ConnectionInv, TurnInv, NEW k \in Timers, TimerStarts(k)
    PROVE  TurnInv'
<1>1. /\ timer' = [kind |-> k, token |-> client.timers[k]]
      /\ client.timers[k] # NoToken
      /\ UNCHANGED <<lookups, catalogs, reading, told, excused>>
  BY DEF TimerStarts, historyVars
<1>2. timer'.kind = k /\ timer'.token = client.timers[k]
  BY <1>1
<1>3. CASE k = "heartbeat"
  <2>1. client' = client
    BY <1>3 DEF TimerStarts
  <2>2. ~Started(client, timer')
    BY <1>2, <1>3 DEF Started
  <2>3. Calm(client, lookups, catalogs, timer, reading, excused,
             client', lookups', catalogs', timer', reading', excused')
    BY <1>1, <2>1, <2>2 DEF Calm, SameTold, Attempting
  <2> QED
    BY <1>1, <2>3, QuietStep
<1>4. CASE k # "heartbeat"
  <2> DEFINE a == [client.timers EXCEPT ![k] = NoToken]
  <2>1. client' = [client EXCEPT !.timers = a]
    BY <1>4, Given DEF TimerStarts, Clients
  <2>2. a["reconnect"] = IF k = "reconnect" THEN NoToken ELSE client.timers["reconnect"]
    BY <1>4, Given DEF Clients, Armings, Timers, NoToken
  <2> HIDE DEF a
  <2>3. /\ SameTold(client, client') /\ client'.timers = a
        /\ client'.sockets = client.sockets
    BY <2>1, Given DEF Clients, SameTold
  <2>4. Armed(client') \/ Started(client', timer') => Armed(client)
    <3>1. CASE k = "reconnect"
      <4>1. Started(client', timer') => Armed(client)
        BY <1>2, <2>3, <3>1 DEF Started, Armed, SameTold
      <4>2. client.timers["reconnect"] \in Nat /\ client.timers["reconnect"] <= client.generation
        BY Given DEF Holds, Behind, Clients, Armings, Timers
      <4>3. client.generation # NoToken
        BY <1>1, <3>1, <4>2, Told DEF NoToken
      <4>4. ~Armed(client')
        BY <2>2, <2>3, <3>1, <4>3 DEF Armed, SameTold
      <4> QED
        BY <4>1, <4>4
    <3>2. CASE k # "reconnect"
      <4>1. ~Started(client', timer')
        BY <1>2, <3>2 DEF Started
      <4>2. Armed(client') <=> Armed(client)
        BY <2>2, <2>3, <3>2 DEF Armed, SameTold
      <4> QED
        BY <4>1, <4>2
    <3> QED
      BY <3>1, <3>2
  <2>5. Attempting(client', lookups, catalogs, timer')
            => Attempting(client, lookups, catalogs, timer)
    BY <2>3, <2>4 DEF Attempting, SameTold
  <2>6. Calm(client, lookups, catalogs, timer, reading, excused,
             client', lookups', catalogs', timer', reading', excused')
    BY <1>1, <2>3, <2>5 DEF Calm
  <2> QED
    BY <1>1, <2>6, QuietStep
<1> QED
  BY <1>3, <1>4

(* A callback leaves the queue; what is left tells what it told before.    *)
LEMMA TakenTells ==
    ASSUME NEW c \in Clients, c.queue # <<>>
    PROVE  LET d == Taken(c)
           IN  /\ \A i \in DOMAIN d.queue :
                      i \in Nat /\ i + 1 \in DOMAIN c.queue /\ i + 1 # 1
               /\ \A i \in DOMAIN d.queue : \A name : Tells(d, name, i) <=> Tells(c, name, i + 1)
               /\ \A i \in DOMAIN c.queue : \A name :
                      Tells(c, name, i) => i = 1 \/ (i - 1 \in DOMAIN d.queue /\ Tells(d, name, i - 1))
               /\ 1 \in DOMAIN c.queue /\ DOMAIN c.queue \subseteq Nat
<1> DEFINE d == Taken(c)
           m == Len(c.queue)
<1>1. /\ SameConnection(c, d) /\ m \in Nat \ {0}
      /\ DOMAIN c.queue = 1 .. m /\ DOMAIN d.queue = 1 .. m - 1
      /\ \A i \in 1 .. m - 1 : d.queue[i] = c.queue[i + 1]
  BY TakenFacts
<1> HIDE DEF d, m
<1>2. \A i \in 1 .. m - 1 : i \in Nat /\ i + 1 \in 1 .. m /\ i + 1 # 1
  BY <1>1
<1>3. ASSUME NEW i \in DOMAIN d.queue, NEW name
      PROVE  Tells(d, name, i) <=> Tells(c, name, i + 1)
  <2>1. d.queue[i] = c.queue[i + 1] /\ i + 1 \in DOMAIN c.queue /\ d.generation = c.generation
    BY <1>1, <1>2 DEF SameConnection
  <2> QED
    BY <2>1 DEF Tells
<1>4. ASSUME NEW i \in DOMAIN c.queue, NEW name, Tells(c, name, i), i # 1
      PROVE  i - 1 \in DOMAIN d.queue /\ Tells(d, name, i - 1)
  <2>1. i - 1 \in 1 .. m - 1 /\ (i - 1) + 1 = i
    BY <1>1, <1>4
  <2>2. d.queue[i - 1] = c.queue[i] /\ d.generation = c.generation
    BY <1>1, <2>1 DEF SameConnection
  <2> QED
    BY <1>1, <1>4, <2>1, <2>2 DEF Tells
<1>5. 1 \in 1 .. m /\ 1 .. m \subseteq Nat
  BY <1>1
<1> QED
  BY <1>1, <1>2, <1>3, <1>4, <1>5 DEF d

(* What told and excused become when the first task is called back.        *)
Calls(c, td, ex, td2, ex2) ==
    LET told2 == {"connected", "disconnected"}
    IN  \/ /\ ~c.stopped /\ td2 \in told2 /\ Tells(c, td2, 1) /\ ex2 = FALSE
        \/ /\ td2 = td /\ ex2 = ex
           /\ c.stopped \/ \A name \in told2 : ~Tells(c, name, 1)

LEMMA TurnTaken ==
    ASSUME NEW c \in Clients, c.queue # <<>>, NEW lk, NEW ct, NEW tm, NEW rd, NEW td, NEW ex,
           NEW td2, NEW ex2, Turn(c, lk, ct, tm, rd, td, ex), Calls(c, td, ex, td2, ex2)
    PROVE  Turn(Taken(c), lk, ct, tm, rd, td2, ex2)
<1> DEFINE d == Taken(c)
<1>1. SameConnection(c, d) /\ d.stopped = c.stopped /\ d.connected = c.connected
  BY TakenFacts
<1>2. /\ \A i \in DOMAIN d.queue : i \in Nat /\ i + 1 \in DOMAIN c.queue /\ i + 1 # 1
      /\ \A i \in DOMAIN d.queue : \A name : Tells(d, name, i) <=> Tells(c, name, i + 1)
      /\ \A i \in DOMAIN c.queue : \A name :
             Tells(c, name, i) => i = 1 \/ (i - 1 \in DOMAIN d.queue /\ Tells(d, name, i - 1))
      /\ 1 \in DOMAIN c.queue /\ DOMAIN c.queue \subseteq Nat
  BY TakenTells
<1> HIDE DEF d
<1>3. Unconnected(d) <=> Unconnected(c)
  BY <1>1 DEF Unconnected, SameConnection
<1>4. TellsOnce(d)
  <2>1. ASSUME NEW i \in DOMAIN d.queue, NEW j \in DOMAIN d.queue,
               Tells(d, "connected", i), Tells(d, "connected", j)
        PROVE  i = j
    <3>1. Tells(c, "connected", i + 1) /\ Tells(c, "connected", j + 1)
      BY <1>2, <2>1
    <3>2. i + 1 = j + 1
      BY <1>2, <3>1 DEF Turn, TellsOnce
    <3> QED
      BY <1>2, <3>2
  <2>2. ASSUME Unconnected(d), NEW i \in DOMAIN d.queue
        PROVE  ~Tells(d, "connected", i)
    BY <1>2, <1>3, <2>2 DEF Turn, TellsOnce
  <2> QED
    BY <2>1, <2>2 DEF TellsOnce
<1>5. /\ d.connected => d.active
      /\ d.active /\ ~d.closed /\ Attempting(d, lk, ct, tm) => ~d.connected
      /\ \A t \in rd : t <= d.generation /\ (Valid(d, t) => ~Attempting(d, lk, ct, tm))
  <2>1. Attempting(d, lk, ct, tm) <=> Attempting(c, lk, ct, tm)
    BY <1>1 DEF Attempting, Armed, Started, SameConnection
  <2> QED
    BY <1>1, <2>1 DEF Turn, SameConnection, Valid
<1>6. ASSUME ~c.stopped, td2 = "connected", Tells(c, "connected", 1), ex2 = FALSE
      PROVE  (d.stopped => ex2) /\ (td2 = "connected" /\ ~ex2 => TellsLoss(d))
  <2>1. ~Unconnected(d)
    BY <1>2, <1>3, <1>6 DEF Turn, TellsOnce
  <2>2. \A i \in DOMAIN d.queue : ~Tells(d, "connected", i)
    BY <1>2, <1>6 DEF Turn, TellsOnce
  <2>3. TellsLoss(d)
    BY <2>1, <2>2 DEF TellsLoss
  <2> QED
    BY <1>1, <1>6, <2>3
<1>7. ASSUME ~c.stopped, td2 = "disconnected", ex2 = FALSE
      PROVE  (d.stopped => ex2) /\ (td2 = "connected" /\ ~ex2 => TellsLoss(d))
  BY <1>1, <1>7
<1>8. ASSUME td2 = td, ex2 = ex,
             c.stopped \/ (~Tells(c, "connected", 1) /\ ~Tells(c, "disconnected", 1))
      PROVE  (d.stopped => ex2) /\ (td2 = "connected" /\ ~ex2 => TellsLoss(d))
  <2>1. ASSUME td = "connected", ~ex
        PROVE  TellsLoss(d)
    <3>1. TellsLoss(c) /\ ~Tells(c, "disconnected", 1)
      BY <1>8, <2>1 DEF Turn
    <3>2. ASSUME Unconnected(d)
          PROVE  \E i \in DOMAIN d.queue : Tells(d, "disconnected", i)
      <4>1. PICK i \in DOMAIN c.queue : Tells(c, "disconnected", i)
        BY <1>3, <3>1, <3>2 DEF TellsLoss
      <4> QED
        BY <1>2, <3>1, <4>1
    <3>3. ASSUME NEW i \in DOMAIN d.queue, Tells(d, "connected", i)
          PROVE  \E j \in DOMAIN d.queue : j < i /\ Tells(d, "disconnected", j)
      <4>1. i + 1 \in DOMAIN c.queue /\ Tells(c, "connected", i + 1)
        BY <1>2, <3>3
      <4>2. PICK j \in DOMAIN c.queue : j < i + 1 /\ Tells(c, "disconnected", j)
        BY <3>1, <4>1 DEF TellsLoss
      <4>3. j - 1 \in DOMAIN d.queue /\ Tells(d, "disconnected", j - 1)
        BY <1>2, <3>1, <4>2
      <4>4. j - 1 < i
        BY <1>2, <4>2
      <4> QED
        BY <4>3, <4>4
    <3> QED
      BY <3>2, <3>3 DEF TellsLoss
  <2>2. c.stopped => ex
    BY DEF Turn
  <2> QED
    BY <1>1, <1>8, <2>1, <2>2
<1>9. (d.stopped => ex2) /\ (td2 = "connected" /\ ~ex2 => TellsLoss(d))
  BY <1>6, <1>7, <1>8 DEF Calls
<1>10. Turn(d, lk, ct, tm, rd, td2, ex2)
  BY <1>4, <1>5, <1>9 DEF Turn
<1> QED
  BY <1>10 DEF d

LEMMA TakeTaskTurn ==
    ASSUME ConnectionInv, TurnInv, TakeTask
    PROVE  TurnInv'
<1> DEFINE c == Taken(client)
           task == Head(client.queue)
           announces == Current(task) /\ task.name \in {"connected", "disconnected"}
<1>1. /\ client.queue # <<>>
      /\ client' = c \/ (Current(task) /\ task.name \notin {"error", "overload"}
                         /\ client' = Emit(c, "error"))
      /\ announces => told' = task.name /\ excused' = FALSE
      /\ ~announces => told' = told /\ excused' = excused
      /\ UNCHANGED <<lookups, catalogs, timer, reading>>
  BY DEF TakeTask, Taken, threadVars
<1>2. /\ c \in Clients /\ SameConnection(client, c) /\ c.stopped = client.stopped
      /\ Len(client.queue) \in Nat \ {0} /\ Len(c.queue) = Len(client.queue) - 1
      /\ DOMAIN client.queue = 1 .. Len(client.queue)
      /\ task = client.queue[1]
  BY <1>1, Told, TakenFacts
<1>3. ~client.closed
  BY <1>1, Given DEF Holds, OwnedHandles
<1>4. 1 \in DOMAIN client.queue
  BY <1>2
<1>5. \A name : Tells(client, name, 1) <=> (task.name = name /\ task.token = client.generation)
  BY <1>2, <1>4 DEF Tells
<1>6. Calls(client, told, excused, told', excused')
  <2>1. CASE announces
    BY <1>1, <1>5, <2>1 DEF Calls, Current
  <2>2. CASE ~announces
    <3>1. client.stopped \/ \A name \in {"connected", "disconnected"} : ~Tells(client, name, 1)
      BY <1>3, <1>5, <2>2 DEF Current
    <3> QED
      BY <1>1, <2>2, <3>1 DEF Calls
  <2> QED
    BY <2>1, <2>2
<1>7. Turn(c, lookups, catalogs, timer, reading, told', excused')
  BY <1>1, <1>6, Told, TurnTaken
<1>8. CASE client' = c
  BY <1>1, <1>7, <1>8 DEF TurnInv
<1>9. CASE /\ Current(task) /\ task.name \notin {"error", "overload"}
           /\ client' = Emit(c, "error")
  <2> HIDE DEF c
  <2>1. ~client.stopped
    BY <1>9 DEF Current
  <2>2. Len(c.queue) < TaskCapacity
    <3>1. Len(client.queue) <= TaskCapacity /\ TaskCapacity \in Nat
      BY Told, JavaAssumption DEF OwnTasks
    <3> QED
      BY <1>2, <3>1
  <2> DEFINE e == [c EXCEPT !.queue = Append(c.queue, NewTask(c, "error", c.generation))]
  <2>3. c.generation \in Nat
    BY <1>2 DEF Clients
  <2>4. client' = e
    <3>1. ~c.closed /\ ~c.stopped
      BY <1>2, <1>3, <2>1 DEF SameConnection
    <3>2. Emit(c, "error") = PutTask(c, "error", c.generation)
      BY <2>2, <3>1 DEF Emit, EmitFrom
    <3>3. c \in Clients /\ "error" \in Names
      BY <1>2 DEF Names
    <3>4. PutTask(c, "error", c.generation) = e
      BY <2>3, <3>3, PutTaskFacts, Zenon
    <3> QED
      BY <1>9, <3>2, <3>4
  <2> HIDE DEF e
  <2>5. Grows(c, e)
    BY <1>2, <2>3, AppendGrows DEF Names, e
  <2>6. Growing(c, lookups, catalogs, timer, reading, told', excused', e, excused')
    BY <1>7, <2>5 DEF Growing
  <2>7. Turn(e, lookups, catalogs, timer, reading, told', excused')
    BY <2>6, TurnGrows
  <2> QED
    BY <1>1, <2>4, <2>7 DEF TurnInv
<1> QED
  BY <1>1, <1>8, <1>9

LEMMA TurnStep == ASSUME ConnectionInv, TurnInv, [JavaNext]_javaVars PROVE TurnInv'
<1>1. CASE UNCHANGED javaVars
  BY <1>1 DEF javaVars, threadVars, historyVars, TurnInv
<1>2. CASE Application
  BY <1>2, ConnectTurn, CloseTurn, CallsTurn DEF Application
<1>3. CASE Pool
  BY <1>3, CallsTurn DEF Pool
<1>4. CASE Answers
  BY <1>4, FailuresTurn, CatalogThrowsTurn, AcquiredTurn, CatalogLoadedTurn, CatalogFailsTurn
     DEF Answers
<1>5. CASE Handshake
  BY <1>5, OnOpenTurn, OnOpenFailsTurn DEF Handshake
<1>6. CASE Frames
  BY <1>6, FailuresTurn, ReceiveMalformedTurn, ApplyTurn DEF Frames
<1>7. CASE \E s \in client.sockets : OnEnd(s) \/ ReceiveStarts(s)
  BY <1>7, OnEndTurn, ReceiveStartsTurn
<1>8. CASE TimerThread
  BY <1>8, TimerStartsTurn, FailuresTurn, DeadlineTurn, ReconnectTurn DEF TimerThread
<1>9. CASE TakeTask
  BY <1>9, TakeTaskTurn
<1> QED
  BY <1>1, <1>2, <1>3, <1>4, <1>5, <1>6, <1>7, <1>8, <1>9 DEF JavaNext, Network

LEMMA TurnInit == JavaInit => TurnInv
<1> SUFFICES ASSUME JavaInit PROVE TurnInv
  OBVIOUS
<1>1. /\ ~client.active /\ ~client.stopped /\ ~client.connected /\ client.queue = <<>>
      /\ reading = {} /\ told = "none"
  BY DEF JavaInit
<1>2. DOMAIN client.queue = {}
  BY <1>1
<1> QED
  BY <1>1, <1>2 DEF TurnInv, Turn, TellsOnce

LEMMA ConnectionInit == JavaInit => ConnectionInv
  <1> SUFFICES ASSUME JavaInit PROVE ConnectionInv
    OBVIOUS
  <1>1. /\ client.active = FALSE /\ client.closed = FALSE /\ client.generation = 0
        /\ client.queue = <<>> /\ client.sockets = {}
        /\ client.timers = [k \in Timers |-> NoToken]
        /\ lookups = {} /\ catalogs = {} /\ timer = NoTask
    BY DEF JavaInit, NoTask
  <1>2. client \in Clients
    <2>1. /\ <<>> \in Queues /\ {} \in SocketSets /\ [k \in Timers |-> NoToken] \in Armings
          /\ 0 \in Operations /\ [f \in 1 .. MaxConnects |-> "none"] \in Futures
          /\ {} \in Completions /\ {} \in Marks /\ NoToken \in Nat
      BY JavaAssumption DEF Queues, SocketSets, Armings, Operations, Futures, Completions, Marks,
         NoToken
    <2> QED
      BY <2>1 DEF JavaInit, Clients
  <1>3. JavaType
    <2>1. NoTask \in [kind : Timers \cup {"none"}, token : Nat]
      BY DEF NoTask
    <2>2. setup \in [confirm : BOOLEAN, gifts : BOOLEAN]
      BY JavaAssumption DEF JavaInit
    <2>3. reading = {} /\ told = "none" /\ excused = FALSE
      BY DEF JavaInit
    <2> QED
      BY <1>1, <1>2, <2>1, <2>2, <2>3 DEF JavaType
  <1>4. OwnedHandles(client)
    BY <1>1 DEF OwnedHandles, Timers
  <1>5. OwnTasks(client)
    BY <1>1, JavaAssumption DEF OwnTasks
  <1>6. Behind(client, lookups, catalogs, timer)
    BY <1>1 DEF Behind, NoTask, Timers, NoToken
  <1>7. InOnePlace(client, lookups, catalogs, timer)
    BY <1>1 DEF InOnePlace
  <1> QED
    BY <1>3, <1>4, <1>5, <1>6, <1>7 DEF ConnectionInv, Holds

LEMMA ConnectionNext == ASSUME ConnectionInv, TurnInv, [JavaNext]_javaVars PROVE ConnectionInv'
  <1>1. ASSUME JavaNext
        PROVE  ConnectionInv'
    <2>1. Sound' /\ HistoryTyped /\ TokensTyped
      BY <1>1, ConnectionStep, TokensStep
    <2> QED
      BY <1>1, <2>1
         DEF Sound, HistoryTyped, TokensTyped, ConnectionInv, JavaType, Timings
  <1>2. ASSUME UNCHANGED javaVars
        PROVE  ConnectionInv'
    <2>1. UNCHANGED <<setup, client, lookups, catalogs, reading, timer, told, excused>>
      BY <1>2 DEF javaVars, threadVars, historyVars
    <2> QED
      BY <1>2, <2>1, ZenonT(30)
         DEF ConnectionInv, JavaType, Holds, OwnedHandles, OwnTasks, Behind, InOnePlace,
             Valid, Armed, Started, HasSocket, HasTimers, OwnBeat
  <1> QED
    BY <1>1, <1>2

(* The connection's invariant: where an attempt is, whose the sockets, the *)
(* timers and the tasks are, for any number of connections and faults. A   *)
(* heartbeat that a batch asks for is armed for a connection that has its  *)
(* socket, which TurnInv knows of what is inside receive().                *)
THEOREM ConnectionInvHolds == JavaSpec => []ConnectionInv
<1>1. JavaInit => ConnectionInv /\ TurnInv
  BY ConnectionInit, TurnInit
<1>2. ConnectionInv /\ TurnInv /\ [JavaNext]_javaVars => (ConnectionInv /\ TurnInv)'
  BY ConnectionNext, TurnStep
<1> QED
  BY <1>1, <1>2, PTL DEF JavaSpec

(* Ownership: no socket and no timer outlives its connection, but for the  *)
(* stray heartbeat that a batch arms after its own "connected" overflowed, *)
(* and no message is called back in another one.                           *)
THEOREM JavaOwnershipHolds == JavaSpec => []Ownership
  <1>1. ConnectionInv => Ownership
    <2> SUFFICES ASSUME ConnectionInv PROVE Ownership
      OBVIOUS
    <2>1. OwnedHandles(client)
      BY Given DEF Holds
    <2>2. \A i \in DOMAIN client.queue :
             client.queue[i].name = "event" => client.queue[i].from = client.queue[i].token
      BY Given DEF Holds, OwnTasks
    <2> QED
      BY <2>1, <2>2 DEF Ownership, FromThisConnection
  <1> QED
    BY <1>1, ConnectionInvHolds, PTL

(* A client tells its application of a connection once, not before the     *)
(* loss of the one before has been told or waits to be told first; only    *)
(* what the application did, or an overflow, may take such a callback      *)
(* away. This holds whichever answers, frames and timers of an earlier     *)
(* attempt wait for the monitor.                                           *)
THEOREM TurnInvHolds == JavaSpec => []TurnInv
<1>1. ConnectionInv /\ TurnInv /\ [JavaNext]_javaVars => TurnInv'
  BY TurnStep
<1> QED
  BY <1>1, TurnInit, ConnectionInvHolds, PTL DEF JavaSpec

(* ToldInTurn, for every capacity of the queue, number of retries, of      *)
(* calls, faults and batches: between two callbacks of connected there is  *)
(* one of disconnected, or the application acted, or delivery overflowed.  *)
THEOREM ToldInTurnHolds == JavaSpec => ToldInTurn
<1>1. ASSUME ConnectionInv, TurnInv, TakeTask, Current(Head(client.queue)),
             Head(client.queue).name = "connected"
      PROVE  told # "connected" \/ excused
  <2>1. client.queue # <<>>
    BY <1>1 DEF TakeTask
  <2>2. /\ Head(client.queue) = client.queue[1]
        /\ Len(client.queue) \in Nat \ {0} /\ DOMAIN client.queue = 1 .. Len(client.queue)
    BY <1>1, <2>1, Told, TakenFacts
  <2>3. 1 \in DOMAIN client.queue /\ \A j \in DOMAIN client.queue : ~(j < 1)
    BY <2>2
  <2>4. Tells(client, "connected", 1)
    BY <1>1, <2>2, <2>3 DEF Tells, Current
  <2>5. ~TellsLoss(client)
    BY <2>3, <2>4 DEF TellsLoss
  <2> QED
    BY <1>1, <2>5, Told DEF Turn
<1>2. ConnectionInv /\ TurnInv /\ [JavaNext]_javaVars
          => [TakeTask /\ Current(Head(client.queue)) /\ Head(client.queue).name = "connected"
                  => told # "connected" \/ excused]_javaVars
  BY <1>1
<1> QED
  BY <1>2, ConnectionInvHolds, TurnInvHolds, PTL DEF JavaSpec, ToldInTurn

--------------------------------------------------------------------------------
(* What Settles comes to without fairness. A future that is still open is  *)
(* about to be completed, or it is the pending one of a connection attempt *)
(* that somebody goes on with: its retry is armed or started, the provider *)
(* or the gift list has it, its handshake is under way, or its socket is   *)
(* open and a deadline watches over it; or it is stranded, the request for *)
(* its gift list having thrown, and has no socket. And an overflow that    *)
(* the application has not been told of waits alone in the queue.          *)
WillComplete(c, f) == \E r \in c.completing : r.future = f

Promised(c) ==
    \A f \in 1 .. MaxConnects :
        c.future[f] = "open" => WillComplete(c, f) \/ (f = c.pending /\ Unconnected(c))

Stranded(c) == c.generation \in c.dropped /\ ~HasSocket(c)

Served(c, lk, ct, tm) ==
    c.active /\ ~c.closed =>
        \/ Armed(c) \/ Started(c, tm) \/ c.generation \in lk \/ c.generation \in ct
        \/ Stranded(c)
        \/ \E s \in c.sockets : s.token = c.generation /\ ~s.cancelled

Guarded(c, tm) ==
    Unconnected(c) =>
        \A s \in c.sockets :
            s.token = c.generation /\ s.phase = "open" =>
                \/ c.timers["deadline"] = c.generation
                \/ tm.kind = "deadline" /\ tm.token = c.generation

Attended(c, lk, ct, tm) == Promised(c) /\ Served(c, lk, ct, tm) /\ Guarded(c, tm)

Overflown(c) ==
    /\ c.stopped /\ ~c.active /\ ~c.closed
    /\ c.queue = <<NewTask(c, "overload", NoToken)>>

AttendInv ==
    /\ Attended(client, lookups, catalogs, timer)
    /\ unreported => Overflown(client)

(* Nothing is left to be done for the pending future. *)
Released(c) == \A f \in 1 .. MaxConnects : c.future[f] = "open" => WillComplete(c, f)

SameFutures(c, d) == d.future = c.future /\ d.pending = c.pending /\ d.completing = c.completing

LEMMA ReleasedSame ==
    ASSUME NEW c, NEW d, Released(c), d.future = c.future, d.completing = c.completing
    PROVE  Released(d) /\ Promised(d)
BY DEF Released, Promised, WillComplete

LEMMA PromisedSame ==
    ASSUME NEW c, NEW d, Promised(c), SameFutures(c, d), Unconnected(c) => Unconnected(d)
    PROVE  Promised(d)
BY DEF SameFutures, Promised, WillComplete

LEMMA CompleteReleases ==
    ASSUME NEW c \in Clients, NEW result, Promised(c)
    PROVE  Released(Complete(c, result))
<1> DEFINE d == Complete(c, result)
           done == [future |-> c.pending, result |-> result]
<1>1. d.future = c.future /\ d.completing = c.completing \cup {done} /\ done.future = c.pending
  BY DEF Complete, Clients
<1> HIDE DEF d, done
<1> QED
  BY <1>1 DEF Released, Promised, WillComplete, d

LEMMA CompletedReleases ==
    ASSUME NEW c, NEW j, NEW d, NEW result, Promised(c), SameFutures(c, j), d.future = j.future,
           d.completing = j.completing \cup {[future |-> j.pending, result |-> result]}
    PROVE  Released(d)
<1> DEFINE done == [future |-> j.pending, result |-> result]
<1>1. done.future = c.pending /\ d.completing = c.completing \cup {done} /\ d.future = c.future
  BY DEF SameFutures
<1> HIDE DEF done
<1> QED
  BY <1>1 DEF Released, Promised, WillComplete

(* disconnect() cancels what it leaves: nobody waits for it any more.      *)
LEMMA CancelReleases ==
    ASSUME NEW c \in Clients, Promised(c)
    PROVE  Released(CancelPending(Abandon(c)))
<1> DEFINE a == Abandon(c)
           b == [a EXCEPT !.future[a.pending] = "cancelled"]
<1>1. /\ a \in Clients /\ ~a.active /\ SameFutures(c, a)
  BY AbandonFacts DEF Abandoned, Ended, SameFutures
<1>2. CancelPending(a) = IF PendingOpen(a) THEN Abandon(b) ELSE a
  BY DEF CancelPending
<1> HIDE DEF a
<1>3. \A f \in 1 .. MaxConnects : a.future[f] = "open" => WillComplete(a, f) \/ f = a.pending
  BY <1>1 DEF Promised, WillComplete, SameFutures
<1>4. CASE PendingOpen(a)
  <2>1. /\ b.completing = a.completing
        /\ \A f \in 1 .. MaxConnects :
               b.future[f] = "open" => a.future[f] = "open" /\ f # a.pending
    BY <1>1 DEF Clients, Futures
  <2>2. b \in Clients
    <3>1. [a.future EXCEPT ![a.pending] = "cancelled"] \in Futures
      BY <1>1 DEF Clients, Futures
    <3>2. b = [a EXCEPT !.future = [a.future EXCEPT ![a.pending] = "cancelled"]]
      OBVIOUS
    <3> QED
      BY <1>1, <3>1, <3>2 DEF Clients
  <2> HIDE DEF b
  <2>3. Released(b)
    BY <1>3, <2>1 DEF Released, WillComplete
  <2>4. SameFutures(b, Abandon(b))
    BY <2>2, AbandonFacts DEF SameFutures
  <2> QED
    BY <1>2, <1>4, <2>3, <2>4, ReleasedSame DEF SameFutures, a
<1>5. CASE ~PendingOpen(a)
  <2>1. \A f \in 1 .. MaxConnects : f = a.pending => a.future[f] # "open"
    BY <1>5, JavaAssumption DEF PendingOpen
  <2> QED
    BY <1>2, <1>3, <1>5, <2>1 DEF Released, a
<1> QED
  BY <1>4, <1>5

LEMMA OverflowReleases ==
    ASSUME NEW c \in Clients, ~c.closed, ~c.stopped
    PROVE  Overflown(Overflow(c)) /\ (Promised(c) => Released(Overflow(c)))
<1>1. Overflown(Overflow(c))
  <2>1. Overflows(c, Overflow(c))
    BY OverflowFacts
  <2> QED
    BY <2>1 DEF Overflows, Overflown, Ended
<1>2. ASSUME Promised(c) PROVE Released(Overflow(c))
  <2> DEFINE b == [c EXCEPT !.stopped = TRUE]
             a == CancelPending(Abandon(b))
  <2>1. b \in Clients /\ SameFutures(c, b) /\ (Unconnected(c) => Unconnected(b))
    BY DEF Clients, SameFutures, Unconnected
  <2>2. Overflow(c) = PutTask(a, "overload", NoToken)
    BY DEF Overflow
  <2> HIDE DEF b
  <2>3. Promised(b)
    BY <1>2, <2>1, PromisedSame
  <2>4. Released(a) /\ a \in Clients
    BY <2>1, <2>3, CancelReleases, CancelPendingFacts DEF Abandoned, Ended
  <2> HIDE DEF a
  <2>5. Overflow(c).future = a.future /\ Overflow(c).completing = a.completing
    BY <2>2, <2>4 DEF PutTask, Clients
  <2> QED
    BY <2>4, <2>5, ReleasedSame
<1> QED
  BY <1>1, <1>2

(* What emit() may do to an attempt: nothing, or end it and release those  *)
(* who wait for it; an overflow leaves its report.                         *)
SameAttempt(c, d) ==
    /\ d.active = c.active /\ d.closed = c.closed /\ d.generation = c.generation
    /\ d.sockets = c.sockets /\ d.connected = c.connected /\ d.dropped = c.dropped
    /\ d.timers["reconnect"] = c.timers["reconnect"]
    /\ d.timers["deadline"] = c.timers["deadline"]

Speaks(c, d) ==
    /\ d \in Clients
    /\ Promised(c) => Promised(d)
    /\ Overflown(c) => Overflown(d)
    /\ d.stopped /\ ~c.stopped => Overflown(d)
    /\ d.active => SameAttempt(c, d)

LEMMA SpeaksTwice ==
    ASSUME NEW c, NEW d, NEW e, Speaks(c, d), Speaks(d, e)
    PROVE  Speaks(c, e)
BY DEF Speaks, SameAttempt

LEMMA SpeaksAppended ==
    ASSUME NEW c \in Clients, NEW q, NEW d, d = [c EXCEPT !.queue = q], d \in Clients, ~c.stopped
    PROVE  Speaks(c, d)
<1>1. SameAttempt(c, d) /\ SameFutures(c, d) /\ d.stopped = c.stopped
  BY DEF Clients, SameAttempt, SameFutures
<1>2. Promised(c) => Promised(d)
  BY <1>1, PromisedSame DEF SameAttempt, Unconnected
<1> QED
  BY <1>1, <1>2 DEF Speaks, Overflown

LEMMA SpeaksOverflow ==
    ASSUME NEW c \in Clients, ~c.closed, ~c.stopped
    PROVE  Speaks(c, Overflow(c))
<1>1. Overflow(c) \in Clients /\ ~Overflow(c).active
  BY OverflowFacts DEF Overflows, Ended
<1>2. Promised(c) => Promised(Overflow(c))
  BY OverflowReleases, ReleasedSame
<1> QED
  BY <1>1, <1>2, OverflowReleases DEF Speaks

LEMMA SpeaksSame == ASSUME NEW c \in Clients PROVE Speaks(c, c)
BY DEF Speaks, SameAttempt

LEMMA EmitSpeaks ==
    ASSUME NEW c \in Clients, NEW name \in Names, NEW from \in Nat
    PROVE  Speaks(c, EmitFrom(c, name, from))
<1>1. CASE c.closed \/ c.stopped
  BY <1>1, SpeaksSame DEF EmitFrom
<1>2. CASE ~c.closed /\ ~c.stopped /\ Len(c.queue) < TaskCapacity
  <2> DEFINE q == Append(c.queue, NewTask(c, name, from))
             d == PutTask(c, name, from)
  <2>1. EmitFrom(c, name, from) = d
    BY <1>2 DEF EmitFrom
  <2>2. d = [c EXCEPT !.queue = q] /\ d \in Clients
    BY PutTaskFacts
  <2> HIDE DEF q, d
  <2> QED
    BY <1>2, <2>1, <2>2, SpeaksAppended
<1>3. CASE ~c.closed /\ ~c.stopped /\ ~(Len(c.queue) < TaskCapacity)
  BY <1>3, SpeaksOverflow DEF EmitFrom
<1> QED
  BY <1>1, <1>2, <1>3

LEMMA EmitsSpeak ==
    ASSUME NEW c \in Clients, NEW name \in Names
    PROVE  Speaks(c, Emit(c, name))
BY EmitSpeaks DEF Emit, Clients

LEMMA BatchSpeaks ==
    ASSUME NEW c \in Clients, NEW n \in Nat, NEW t, TaskCapacity \in Nat \ {0},
           c.generation = t \/ c.closed \/ c.stopped
    PROVE  Speaks(c, EmitBatch(c, n, t))
<1>1. CASE c.closed \/ c.stopped
  BY <1>1, SpeaksSame DEF EmitBatch
<1>2. CASE ~c.closed /\ ~c.stopped /\ Len(c.queue) + n > TaskCapacity
  BY <1>2, SpeaksOverflow DEF EmitBatch
<1>3. CASE ~c.closed /\ ~c.stopped /\ ~(Len(c.queue) + n > TaskCapacity)
  <2>1. t = c.generation
    BY <1>3
  <2>2. EmitBatch(c, n, c.generation) \in Clients
    BY BatchFacts
  <2>3. \E q : EmitBatch(c, n, c.generation) = [c EXCEPT !.queue = q]
    BY <1>3 DEF EmitBatch
  <2> QED
    BY <1>3, <2>1, <2>2, <2>3, SpeaksAppended
<1> QED
  BY <1>1, <1>2, <1>3

LEMMA BeatSpeaks ==
    ASSUME NEW c, NEW d, OnlyBeats(c, d)
    PROVE  Speaks(c, d)
<1>1. SameAttempt(c, d) /\ SameFutures(c, d) /\ d.stopped = c.stopped /\ d.queue = c.queue
  BY DEF OnlyBeats, SameTold, SameAttempt, SameFutures
<1>2. Promised(c) => Promised(d)
  BY <1>1, PromisedSame DEF SameAttempt, Unconnected
<1>3. Overflown(c) => Overflown(d)
  BY <1>1 DEF SameAttempt, Overflown, NewTask
<1>4. d \in Clients
  BY DEF OnlyBeats
<1> QED
  BY <1>1, <1>2, <1>3, <1>4 DEF Speaks

(* The failure of an attempt, or of a connection: the pending future is    *)
(* released, or the next attempt is armed in a new generation.             *)
Anew(d) == Armed(d) /\ \A s \in d.sockets : s.token # d.generation

Falls(c, d) ==
    /\ d \in Clients
    /\ Promised(c) => Promised(d)
    /\ d.stopped /\ ~c.stopped => Overflown(d)
    /\ d.active => Anew(d)

LEMMA TellFalls ==
    ASSUME NEW c \in Clients, c.active, ~c.closed, \A s \in c.sockets : s.token <= c.generation
    PROVE  LET d == Tell(c)
           IN  /\ d \in Clients
               /\ Promised(c) => Promised(d)
               /\ d.stopped /\ ~c.stopped => Overflown(d)
               /\ d.active => \A s \in d.sockets : s.token # d.generation
<1> DEFINE l == Lost(c)
           e == Emit(l, "error")
           d == Emit(e, "disconnected")
<1>1. /\ l \in Clients /\ l.active /\ ~l.closed /\ ~l.connected /\ l.stopped = c.stopped
      /\ l.generation = c.generation + 1 /\ SameFutures(c, l)
      /\ \A s \in l.sockets : \E old \in c.sockets : s.token = old.token
  BY LostFacts DEF Ended, Tame, SameFutures
<1>2. Tell(c) = d
  BY DEF Tell, Lost
<1> HIDE DEF l
<1>3. Promised(c) => Promised(l)
  BY <1>1, PromisedSame DEF Unconnected
<1>4. \A s \in l.sockets : s.token # l.generation
  <2>1. c.generation \in Nat /\ \A s \in c.sockets : s.token \in Nat
    BY DEF Clients, SocketSets, Sockets
  <2> QED
    BY <1>1, <2>1
<1>5. Speaks(l, e) /\ e \in Clients
  BY <1>1, EmitsSpeak DEF Names, Speaks
<1> HIDE DEF e
<1>6. Speaks(e, d)
  BY <1>5, EmitsSpeak DEF Names
<1> HIDE DEF d
<1>7. Speaks(l, d)
  BY <1>5, <1>6, SpeaksTwice
<1> QED
  BY <1>1, <1>2, <1>3, <1>4, <1>7 DEF Speaks, SameAttempt

LEMMA GiveUpReleases ==
    ASSUME NEW c \in Clients
    PROVE  LET d == GiveUp(c)
           IN  (Promised(c) => Promised(d)) /\ (Overflown(c) => Overflown(d))
<1> DEFINE b == IF PendingOpen(c) THEN Complete(c, "failed") ELSE c
           d == GiveUp(c)
<1>1. ASSUME Promised(c) PROVE Released(b)
  <2>1. CASE PendingOpen(c)
    BY <1>1, <2>1, CompleteReleases
  <2>2. CASE ~PendingOpen(c)
    <3>1. \A f \in 1 .. MaxConnects : f = c.pending => c.future[f] # "open"
      BY <2>2, JavaAssumption DEF PendingOpen
    <3> QED
      BY <1>1, <2>2, <3>1 DEF Promised, Released
  <2> QED
    BY <2>1, <2>2
<1>2. b \in Clients
  BY CompleteFacts DEF Results
<1>3. d = [b EXCEPT !.active = FALSE]
  BY DEF GiveUp
<1> HIDE DEF b
<1>4. d.future = b.future /\ d.completing = b.completing
  BY <1>2, <1>3 DEF Clients
<1> HIDE DEF d
<1>5. Promised(c) => Promised(d)
  BY <1>1, <1>4, ReleasedSame
<1>6. Overflown(c) => Overflown(d)
  BY GiveUpFacts DEF Overflown, NewTask, d
<1> QED
  BY <1>5, <1>6 DEF d

LEMMA RetryArms ==
    ASSUME NEW c \in Clients, c.active => \A s \in c.sockets : s.token # c.generation
    PROVE  LET d == Retry(c)
           IN  /\ d \in Clients
               /\ Promised(c) => Promised(d)
               /\ Overflown(c) => Overflown(d)
               /\ d.stopped /\ ~c.stopped => Overflown(d)
               /\ d.active => Anew(d)
<1> DEFINE b == Retried(c)
           e == Emit(b, "reconnecting")
           d == Retry(c)
<1>1. /\ b \in Clients /\ SameConnection(c, b) /\ b.queue = c.queue /\ b.stopped = c.stopped
      /\ b.connected = c.connected /\ e \in Clients
      /\ d = [e EXCEPT !.timers = [e.timers EXCEPT !["reconnect"] = c.generation]]
      /\ d \in Clients
  BY RetryFacts
<1>2. SameFutures(c, b)
  BY DEF SameFutures, Retried, Clients
<1> HIDE DEF b
<1>3. Speaks(b, e)
  BY <1>1, EmitsSpeak DEF Names
<1> HIDE DEF e, d
<1>4. /\ SameFutures(e, d) /\ d.active = e.active /\ d.closed = e.closed
      /\ d.connected = e.connected /\ d.generation = e.generation /\ d.sockets = e.sockets
      /\ d.stopped = e.stopped /\ d.queue = e.queue
      /\ d.timers["reconnect"] = c.generation
  BY <1>1 DEF Clients, SameFutures, Armings, Timers
<1>5. Promised(c) => Promised(d)
  <2>1. Promised(c) => Promised(b)
    BY <1>1, <1>2, PromisedSame DEF SameConnection, Unconnected
  <2>2. Promised(e) => Promised(d)
    BY <1>4, PromisedSame DEF Unconnected
  <2> QED
    BY <1>3, <2>1, <2>2 DEF Speaks
<1>6. Overflown(e) => Overflown(d)
  BY <1>4 DEF Overflown, NewTask
<1>7. Overflown(c) => Overflown(b)
  BY <1>1 DEF Overflown, NewTask, SameConnection
<1>8. d.active => Anew(d)
  BY <1>1, <1>3, <1>4 DEF Speaks, SameAttempt, SameConnection, Anew, Armed
<1>9. d.stopped /\ ~c.stopped => Overflown(d)
  BY <1>1, <1>3, <1>4, <1>6 DEF Speaks
<1> QED
  BY <1>1, <1>3, <1>5, <1>6, <1>7, <1>8, <1>9 DEF Speaks, d

LEMMA FailFalls ==
    ASSUME NEW c \in Clients, NEW t, NEW retryable, Valid(c, t),
           \A s \in c.sockets : s.token <= c.generation
    PROVE  Falls(c, Fail(c, t, retryable))
<1> DEFINE e == Tell(c)
<1>1. c.active /\ ~c.closed
  BY DEF Valid
<1>2. /\ e \in Clients
      /\ Promised(c) => Promised(e)
      /\ e.stopped /\ ~c.stopped => Overflown(e)
      /\ e.active => \A s \in e.sockets : s.token # e.generation
  BY <1>1, TellFalls
<1>3. Fail(c, t, retryable) = GiveUp(e) \/ Fail(c, t, retryable) = Retry(e)
  BY DEF Fail
<1> HIDE DEF e
<1>4. Falls(c, GiveUp(e))
  <2>1. GiveUp(e) \in Clients /\ ~GiveUp(e).active /\ GiveUp(e).stopped = e.stopped
    BY <1>2, GiveUpFacts
  <2>2. (Promised(e) => Promised(GiveUp(e))) /\ (Overflown(e) => Overflown(GiveUp(e)))
    BY <1>2, GiveUpReleases
  <2> QED
    BY <1>2, <2>1, <2>2 DEF Falls
<1>5. Falls(c, Retry(e))
  <2>1. /\ Retry(e) \in Clients
        /\ Promised(e) => Promised(Retry(e))
        /\ Overflown(e) => Overflown(Retry(e))
        /\ Retry(e).stopped /\ ~e.stopped => Overflown(Retry(e))
        /\ Retry(e).active => Anew(Retry(e))
    BY <1>2, RetryArms
  <2> QED
    BY <1>2, <2>1 DEF Falls
<1> QED
  BY <1>3, <1>4, <1>5

LEMMA AttendedAnew ==
    ASSUME NEW d, NEW lk, NEW ct, NEW tm, Promised(d), d.active => Anew(d)
    PROVE  Attended(d, lk, ct, tm)
BY DEF Attended, Served, Guarded, Anew, Unconnected

LEMMA AttendedIdle ==
    ASSUME NEW d, NEW lk, NEW ct, NEW tm, Promised(d), ~d.active \/ d.closed
    PROVE  Attended(d, lk, ct, tm)
BY DEF Attended, Served, Guarded, Unconnected

(* What is over may leave, when it is not the attempt's. *)
Leaves(c, lk, ct, tm, lk2, ct2, tm2) ==
    /\ \A x \in (lk \ lk2) \cup (ct \ ct2) : ~Valid(c, x)
    /\ tm2 = tm \/ ~Valid(c, tm.token)

LEMMA AttendedLess ==
    ASSUME NEW c, NEW lk, NEW ct, NEW tm, NEW lk2, NEW ct2, NEW tm2,
           Attended(c, lk, ct, tm), Leaves(c, lk, ct, tm, lk2, ct2, tm2)
    PROVE  Attended(c, lk2, ct2, tm2)
<1>1. Served(c, lk2, ct2, tm2)
  BY DEF Attended, Served, Leaves, Valid, Started
<1>2. Guarded(c, tm2)
  BY DEF Attended, Guarded, Leaves, Valid, Unconnected
<1> QED
  BY <1>1, <1>2 DEF Attended

LEMMA AttendedSpeaks ==
    ASSUME NEW c, NEW d, NEW lk, NEW ct, NEW tm, Attended(c, lk, ct, tm), Speaks(c, d)
    PROVE  Attended(d, lk, ct, tm)
<1>1. Promised(d)
  BY DEF Attended, Speaks
<1>2. CASE ~d.active
  BY <1>1, <1>2, AttendedIdle
<1>3. CASE d.active
  <2>1. SameAttempt(c, d)
    BY <1>3 DEF Speaks
  <2> QED
    BY <1>1, <2>1
       DEF SameAttempt, Attended, Served, Stranded, HasSocket, Guarded, Armed, Started, Unconnected
<1> QED
  BY <1>2, <1>3

(* The actions. *)
LEMMA LeaveReports ==
    ASSUME NEW d, Leave(d), AttendInv, Overflown(client) => Overflown(d),
           d.stopped /\ ~client.stopped => Overflown(d)
    PROVE  client' = d /\ (unreported' => Overflown(client'))
<1>1. client' = d
  BY DEF Leave
<1>2. unreported' => unreported \/ (d.stopped /\ ~client.stopped)
  BY Zenon DEF Leave, Overflowed
<1> QED
  BY <1>1, <1>2 DEF AttendInv

LEMMA SpeaksAttend ==
    ASSUME NEW c, NEW d, Speaks(c, d), Leave(d), AttendInv,
           Attended(c, lookups', catalogs', timer'),
           Overflown(client) => Overflown(c), c.stopped = client.stopped
    PROVE  AttendInv'
<1>1. Attended(d, lookups', catalogs', timer')
  BY AttendedSpeaks
<1>2. client' = d /\ (unreported' => Overflown(client'))
  BY LeaveReports DEF Speaks
<1> QED
  BY <1>1, <1>2 DEF AttendInv

(* A failure, of the attempt or of one that is over, reported by what is   *)
(* over with it.                                                           *)
LEMMA FailAttends ==
    ASSUME ConnectionInv, AttendInv, NEW t, NEW retryable, Leave(Fail(client, t, retryable)),
           \A x \in (lookups \ lookups') \cup (catalogs \ catalogs') : x = t,
           timer' = timer \/ timer.token = t
    PROVE  AttendInv'
<1> DEFINE d == Fail(client, t, retryable)
<1>1. CASE Valid(client, t)
  <2>1. \A s \in client.sockets : s.token <= client.generation
    BY Given DEF Holds, Behind
  <2>2. Falls(client, d)
    BY <1>1, <2>1, Given, FailFalls
  <2> HIDE DEF d
  <2>3. ~Overflown(client)
    BY <1>1 DEF Valid, Overflown
  <2>4. Attended(d, lookups', catalogs', timer')
    BY <2>2, AttendedAnew DEF AttendInv, Attended, Falls
  <2>5. client' = d /\ (unreported' => Overflown(client'))
    BY <2>2, <2>3, LeaveReports DEF d, Falls
  <2> QED
    BY <2>4, <2>5 DEF AttendInv
<1>2. CASE ~Valid(client, t)
  <2>1. d = client
    BY <1>2 DEF Fail
  <2>2. Attended(client, lookups', catalogs', timer')
    BY <1>2, AttendedLess DEF Leaves, AttendInv
  <2>3. client' = d /\ (unreported' => Overflown(client'))
    BY <2>1, LeaveReports
  <2> QED
    BY <2>1, <2>2, <2>3 DEF AttendInv
<1> QED
  BY <1>1, <1>2

LEMMA FailuresAttend ==
    ASSUME ConnectionInv, AttendInv,
           \/ \E t \in lookups : AcquisitionFails(t)
           \/ \E t \in lookups \cup catalogs : OpenThrows(t)
           \/ \E t \in reading : AckFails(t)
           \/ HeartbeatRuns
    PROVE  AttendInv'
<1>1. ASSUME NEW t \in lookups, AcquisitionFails(t) PROVE AttendInv'
  BY <1>1, FailAttends DEF AcquisitionFails
<1>2. ASSUME NEW t \in lookups \cup catalogs, OpenThrows(t) PROVE AttendInv'
  BY <1>2, FailAttends DEF OpenThrows
<1>3. ASSUME NEW t \in reading, AckFails(t) PROVE AttendInv'
  BY <1>3, FailAttends DEF AckFails
<1>4. CASE HeartbeatRuns
  BY <1>4, FailAttends DEF HeartbeatRuns, TimerEnds
<1> QED
  BY <1>1, <1>2, <1>3, <1>4

LEMMA DeadlineAttends ==
    ASSUME ConnectionInv, AttendInv, DeadlineRuns
    PROVE  AttendInv'
<1>1. UNCHANGED <<lookups, catalogs>>
  BY DEF DeadlineRuns, TimerEnds
<1>2. CASE client.connected
  <2>1. Leave(client)
    BY <1>2 DEF DeadlineRuns
  <2>2. client' = client /\ (unreported' => Overflown(client'))
    BY <2>1, LeaveReports
  <2>3. Attended(client, lookups, catalogs, timer')
    BY <1>2 DEF AttendInv, Attended, Served, Guarded, Started, Unconnected, DeadlineRuns
  <2> QED
    BY <1>1, <2>2, <2>3 DEF AttendInv
<1>3. CASE ~client.connected
  BY <1>1, <1>3, FailAttends DEF DeadlineRuns
<1> QED
  BY <1>2, <1>3

LEMMA ReconnectAttends ==
    ASSUME ConnectionInv, AttendInv, ReconnectRuns
    PROVE  AttendInv'
<1> DEFINE t == timer.token
<1>1. catalogs' = catalogs
  BY DEF ReconnectRuns, TimerEnds
<1>2. CASE Valid(client, t) /\ Leave(client) /\ lookups' = lookups \cup {t}
  <2>1. client' = client /\ (unreported' => Overflown(client'))
    BY <1>2, LeaveReports
  <2>2. timer.kind = "reconnect" /\ t = client.generation
    BY <1>2 DEF ReconnectRuns, Valid
  <2>3. Served(client, lookups', catalogs', timer')
    BY <1>2, <2>2 DEF Served
  <2>4. Guarded(client, timer')
    BY <2>2 DEF AttendInv, Attended, Guarded
  <2> QED
    BY <2>1, <2>3, <2>4 DEF AttendInv, Attended
<1>3. ASSUME NEW retryable \in BOOLEAN, Leave(Fail(client, t, retryable)), lookups' = lookups
      PROVE  AttendInv'
  BY <1>1, <1>3, FailAttends
<1>4. CASE ~Valid(client, t) /\ Leave(client) /\ lookups' = lookups
  <2>1. client' = client /\ (unreported' => Overflown(client'))
    BY <1>4, LeaveReports
  <2>2. Attended(client, lookups', catalogs', timer')
    BY <1>1, <1>4, AttendedLess DEF AttendInv, Leaves
  <2> QED
    BY <2>1, <2>2 DEF AttendInv
<1> QED
  BY <1>2, <1>3, <1>4 DEF ReconnectRuns, Request

LEMMA TimerStartsAttends ==
    ASSUME ConnectionInv, AttendInv, NEW k \in Timers, TimerStarts(k)
    PROVE  AttendInv'
<1>1. /\ timer' = [kind |-> k, token |-> client.timers[k]] /\ timer.kind = "none"
      /\ UNCHANGED <<lookups, catalogs>> /\ unreported' = unreported
  BY DEF TimerStarts, historyVars
<1>2. CASE k = "heartbeat"
  <2>1. client' = client
    BY <1>2 DEF TimerStarts
  <2>2. Attended(client, lookups, catalogs, timer')
    BY <1>1 DEF AttendInv, Attended, Served, Guarded, Started
  <2> QED
    BY <1>1, <2>1, <2>2 DEF AttendInv
<1>3. CASE k # "heartbeat"
  <2> DEFINE a == [client.timers EXCEPT ![k] = NoToken]
  <2>1. client' = [client EXCEPT !.timers = a]
    BY <1>3, Given DEF TimerStarts, Clients
  <2>2. \A x \in Timers : x # k => a[x] = client.timers[x]
    BY Given DEF Clients, Armings
  <2> HIDE DEF a
  <2>3. /\ SameFutures(client, client') /\ client'.active = client.active
        /\ client'.closed = client.closed /\ client'.connected = client.connected
        /\ client'.generation = client.generation /\ client'.sockets = client.sockets
        /\ client'.stopped = client.stopped /\ client'.queue = client.queue
        /\ client'.timers = a /\ client'.dropped = client.dropped
    BY <2>1, Given DEF Clients, SameFutures
  <2>4. Promised(client')
    BY <2>3, PromisedSame DEF AttendInv, Attended, Unconnected
  <2>5. Served(client', lookups, catalogs, timer')
    <3>1. Armed(client) => Armed(client') \/ Started(client', timer')
      BY <1>1, <2>2, <2>3 DEF Armed, Started, Timers
    <3>2. ~Started(client, timer)
      BY <1>1 DEF Started
    <3> QED
      BY <2>3, <3>1, <3>2 DEF AttendInv, Attended, Served, Stranded, HasSocket
  <2>6. Guarded(client', timer')
    <3>1. client.timers["deadline"] = client.generation =>
             \/ a["deadline"] = client.generation
             \/ timer'.kind = "deadline" /\ timer'.token = client.generation
      BY <1>1, <2>2 DEF Timers
    <3>2. timer.kind # "deadline"
      BY <1>1
    <3> QED
      BY <2>3, <3>1, <3>2 DEF AttendInv, Attended, Guarded, Unconnected
  <2>7. Overflown(client) => Overflown(client')
    BY <2>3 DEF Overflown, NewTask
  <2> QED
    BY <1>1, <2>4, <2>5, <2>6, <2>7 DEF AttendInv, Attended
<1> QED
  BY <1>2, <1>3

(* Calls of the application, and the pool. *)
LEMMA DisconnectReleases ==
    ASSUME NEW c \in Clients, Promised(c), ~c.closed
    PROVE  LET d == Disconnect(c) IN d \in Clients /\ Promised(d) /\ ~d.active
<1> DEFINE e == CancelPending(Abandon(c))
           f == Emit(e, "disconnected")
<1>1. e \in Clients /\ ~e.active /\ Promised(e)
  BY CancelPendingFacts, CancelReleases, ReleasedSame DEF Abandoned, Ended
<1>2. Disconnect(c) = e \/ Disconnect(c) = f
  BY DEF Disconnect
<1> HIDE DEF e
<1>3. Speaks(e, f)
  BY <1>1, EmitsSpeak DEF Names
<1> QED
  BY <1>1, <1>2, <1>3 DEF Speaks, SameAttempt

LEMMA EndAttends ==
    ASSUME ConnectionInv, AttendInv,
           \/ DisconnectCall \/ CloseCall
           \/ \E f \in cancelling : CancelHandler(f)
    PROVE  AttendInv'
<1> DEFINE d == Disconnect(client)
<1>1. ~client.closed => d \in Clients /\ Promised(d) /\ ~d.active
  BY Given, DisconnectReleases DEF AttendInv, Attended
<1>2. client.closed => d = client
  BY DEF Disconnect
<1>3. ~unreported' /\ UNCHANGED <<lookups, catalogs, timer>>
  BY DEF DisconnectCall, CloseCall, CancelHandler, LeaveCall, threadVars
<1>4. CASE DisconnectCall
  <2>1. client' = d /\ ~client.closed
    BY <1>4 DEF DisconnectCall, LeaveCall
  <2> QED
    BY <1>1, <1>3, <2>1, AttendedIdle DEF AttendInv
<1>5. CASE CloseCall
  <2>1. client' = [d EXCEPT !.closed = TRUE, !.queue = <<>>] /\ ~client.closed
    BY <1>5 DEF CloseCall, LeaveCall
  <2> HIDE DEF d
  <2>2. Released(d)
    BY <1>1, <2>1 DEF Promised, Released, Unconnected
  <2>3. client'.future = d.future /\ client'.completing = d.completing /\ ~client'.active
    BY <1>1, <2>1 DEF Clients
  <2> QED
    BY <1>3, <2>2, <2>3, AttendedIdle, ReleasedSame DEF AttendInv
<1>6. ASSUME NEW f \in cancelling, CancelHandler(f) PROVE AttendInv'
  <2>1. client' = client \/ client' = d
    BY <1>6 DEF CancelHandler, LeaveCall
  <2>2. CASE client' = client
    BY <1>3, <2>2 DEF AttendInv
  <2>3. CASE client' = d /\ ~client.closed
    BY <1>1, <1>3, <2>3, AttendedIdle DEF AttendInv
  <2> QED
    BY <1>2, <2>1, <2>2, <2>3
<1> QED
  BY <1>4, <1>5, <1>6

LEMMA CancelFutureAttends ==
    ASSUME ConnectionInv, AttendInv, NEW f \in 1 .. MaxConnects, CancelFuture(f)
    PROVE  AttendInv'
<1> DEFINE g == [client.future EXCEPT ![f] = "cancelled"]
<1>1. /\ client' = [client EXCEPT !.future = g] /\ UNCHANGED <<lookups, catalogs, timer>>
      /\ unreported' = unreported
  BY DEF CancelFuture, historyVars
<1>2. \A x \in 1 .. MaxConnects : g[x] = "open" => client.future[x] = "open"
  BY Given DEF Clients, Futures
<1> HIDE DEF g
<1>3. /\ SameAttempt(client, client') /\ client'.pending = client.pending
      /\ client'.completing = client.completing /\ client'.future = g
      /\ client'.queue = client.queue /\ client'.stopped = client.stopped
  BY <1>1, Given DEF Clients, SameAttempt
<1>4. Promised(client')
  BY <1>2, <1>3 DEF AttendInv, Attended, Promised, WillComplete, Unconnected, SameAttempt
<1>5. Served(client', lookups, catalogs, timer) /\ Guarded(client', timer)
  BY <1>3 DEF AttendInv, Attended, Served, Stranded, HasSocket, Guarded, Armed, Started,
              Unconnected, SameAttempt
<1>6. Overflown(client) => Overflown(client')
  BY <1>3 DEF Overflown, NewTask, SameAttempt
<1> QED
  BY <1>1, <1>4, <1>5, <1>6 DEF AttendInv, Attended

LEMMA CompletionAttends ==
    ASSUME ConnectionInv, AttendInv, NEW r \in client.completing, Completion(r)
    PROVE  AttendInv'
<1> DEFINE g == [client.future EXCEPT ![r.future] = IF @ = "open" THEN r.result ELSE @]
           left == client.completing \ {r}
<1>1. /\ client' = [client EXCEPT !.completing = left, !.future = g]
      /\ UNCHANGED <<lookups, catalogs, timer>> /\ unreported' = unreported
  BY Given DEF Completion, threadVars, historyVars, Clients
<1>2. \A x \in 1 .. MaxConnects : g[x] = "open" => client.future[x] = "open" /\ x # r.future
  <2>1. r.result \in Results /\ client.future \in Futures
    BY Given DEF Clients, Completions
  <2> QED
    BY <2>1 DEF Futures, Results
<1>3. \A x : x # r.future /\ WillComplete(client, x) => \E q \in left : q.future = x
  BY DEF WillComplete
<1> HIDE DEF g, left
<1>4. /\ SameAttempt(client, client') /\ client'.pending = client.pending
      /\ client'.completing = left /\ client'.future = g
      /\ client'.queue = client.queue /\ client'.stopped = client.stopped
  BY <1>1, Given DEF Clients, SameAttempt
<1>5. Promised(client')
  BY <1>2, <1>3, <1>4 DEF AttendInv, Attended, Promised, WillComplete, Unconnected, SameAttempt
<1>6. Served(client', lookups, catalogs, timer) /\ Guarded(client', timer)
  BY <1>4 DEF AttendInv, Attended, Served, Stranded, HasSocket, Guarded, Armed, Started,
              Unconnected, SameAttempt
<1>7. Overflown(client) => Overflown(client')
  BY <1>4 DEF Overflown, NewTask, SameAttempt
<1> QED
  BY <1>1, <1>5, <1>6, <1>7 DEF AttendInv, Attended

(* connect(): the operation before has nobody left who waits for it.       *)
LEMMA BegunPromises ==
    ASSUME NEW c \in Clients, c.pending < MaxConnects, Promised(c), ~c.active, ~c.closed,
           ~c.connected
    PROVE  Promised(Begun(c)) /\ Begun(c).active /\ ~Begun(c).closed
<1> DEFINE d == Begun(c)
           p == c.pending + 1
<1>1. c.pending \in 0 .. MaxConnects /\ MaxConnects \in Nat
  BY JavaAssumption DEF Clients, Operations
<1>2. p \in 1 .. MaxConnects
  BY <1>1
<1>3. /\ d.completing = c.completing /\ d.pending = p /\ Unconnected(d)
      /\ d.active /\ ~d.closed /\ d.future = [c.future EXCEPT ![p] = "open"]
  BY DEF Begun, Clients, Unconnected
<1>4. \A f \in 1 .. MaxConnects : f # p => d.future[f] = c.future[f]
  BY <1>3 DEF Clients, Futures
<1> HIDE DEF d, p
<1>5. Released(c)
  BY DEF Promised, Released, Unconnected
<1> QED
  BY <1>3, <1>4, <1>5 DEF Promised, Released, WillComplete, d

LEMMA ConnectAttends ==
    ASSUME ConnectionInv, TurnInv, AttendInv, Connect
    PROVE  AttendInv'
<1> DEFINE c == Begun(client)
<1>1. /\ ~client.closed /\ ~client.active /\ client.pending < MaxConnects
      /\ \/ client' = c /\ lookups' = lookups \cup {c.generation} /\ ~unreported'
         \/ /\ \E retryable \in BOOLEAN : client' = Fail(c, c.generation, retryable)
            /\ unreported' = client'.stopped
      /\ UNCHANGED <<catalogs, timer>>
  BY DEF Connect, Begun, LeaveCall
<1>2. ~client.connected
  BY <1>1, Told DEF Turn
<1>3. Promised(c) /\ c.active /\ ~c.closed
  BY <1>1, <1>2, Given, BegunPromises DEF AttendInv, Attended
<1>4. /\ c \in Clients /\ ~c.stopped /\ Ready(c, lookups, catalogs, timer)
  BY <1>1, Given, BegunFacts, JavaAssumption
<1> HIDE DEF c
<1>5. \A s \in c.sockets : s.token < c.generation
  BY <1>4 DEF Ready, Fresh
<1>6. c.generation \in Nat /\ \A s \in c.sockets : s.token \in Nat
  BY <1>4 DEF Clients, SocketSets, Sockets
<1>7. CASE client' = c /\ lookups' = lookups \cup {c.generation} /\ ~unreported'
  <2>1. Served(c, lookups', catalogs', timer')
    BY <1>7 DEF Served
  <2>2. Guarded(c, timer')
    BY <1>5, <1>6 DEF Guarded
  <2> QED
    BY <1>3, <1>7, <2>1, <2>2 DEF AttendInv, Attended
<1>8. ASSUME NEW retryable \in BOOLEAN, client' = Fail(c, c.generation, retryable),
             unreported' = client'.stopped
      PROVE  AttendInv'
  <2>1. Valid(c, c.generation) /\ \A s \in c.sockets : s.token <= c.generation
    BY <1>3, <1>5, <1>6 DEF Valid
  <2>2. Falls(c, client')
    BY <1>4, <1>8, <2>1, FailFalls
  <2>3. Attended(client', lookups', catalogs', timer')
    BY <1>3, <2>2, AttendedAnew DEF Falls
  <2> QED
    BY <1>4, <1>8, <2>2, <2>3 DEF AttendInv, Falls
<1> QED
  BY <1>1, <1>7, <1>8

(* The answers of the provider and of the gift list. *)
LEMMA OpenAttends ==
    ASSUME NEW c \in Clients, NEW t, NEW lk, NEW ct, NEW tm, Promised(c),
           c.active => t = c.generation /\ ~HasSocket(c)
    PROVE  /\ Attended(Open(c, t), lk, ct, tm)
           /\ Overflown(c) => Overflown(Open(c, t))
           /\ Open(c, t).stopped = c.stopped
<1> DEFINE d == Open(c, t)
           new == [token |-> t, phase |-> "connecting", cancelled |-> FALSE]
<1>1. /\ SameFutures(c, d) /\ d.active = c.active /\ d.closed = c.closed
      /\ d.connected = c.connected /\ d.generation = c.generation /\ d.timers = c.timers
      /\ d.stopped = c.stopped /\ d.queue = c.queue /\ d.sockets = c.sockets \cup {new}
      /\ new.token = t /\ new.phase = "connecting" /\ ~new.cancelled
  BY DEF Open, Clients, SameFutures
<1> HIDE DEF d, new
<1>2. Promised(d)
  BY <1>1, PromisedSame DEF Unconnected
<1>3. Served(d, lk, ct, tm) /\ Guarded(d, tm)
  BY <1>1 DEF Served, Guarded, HasSocket, Unconnected
<1>4. Overflown(c) => Overflown(d)
  BY <1>1 DEF Overflown, NewTask
<1> QED
  BY <1>1, <1>2, <1>3, <1>4 DEF Attended, d

LEMMA AcquiredAttends ==
    ASSUME ConnectionInv, AttendInv, NEW t \in lookups, NEW live \in BOOLEAN, Acquired(t, live)
    PROVE  AttendInv'
<1>1. lookups' = lookups \ {t} /\ timer' = timer
  BY DEF Acquired
<1>2. CASE ~Valid(client, t) /\ Leave(client) /\ catalogs' = catalogs
  <2>1. client' = client /\ (unreported' => Overflown(client'))
    BY <1>2, LeaveReports
  <2>2. Attended(client, lookups', catalogs', timer')
    BY <1>1, <1>2, AttendedLess DEF AttendInv, Leaves
  <2> QED
    BY <2>1, <2>2 DEF AttendInv
<1>3. CASE /\ Valid(client, t) /\ Leave(Emit(Offline(client), "offline"))
           /\ catalogs' = catalogs
  <2> DEFINE b == [client EXCEPT !.active = FALSE, !.connected = FALSE]
             o == Offline(client)
             d == Emit(o, "offline")
  <2>1. o \in Clients /\ ~o.active /\ o.stopped = client.stopped
    BY Given, OfflineFacts
  <2>2. Promised(o)
    <3>1. o.future = client.future
          /\ o.completing = client.completing \cup {[future |-> client.pending, result |-> "value"]}
      BY Given DEF Offline, Complete, Clients
    <3>2. Released(o)
      BY <3>1, CompletedReleases DEF AttendInv, Attended, SameFutures
    <3> QED
      BY <3>2, ReleasedSame
  <2>3. ~Overflown(client)
    BY <1>3 DEF Valid, Overflown
  <2> HIDE DEF o
  <2>4. Speaks(o, d)
    BY <2>1, EmitsSpeak DEF Names
  <2>5. Attended(o, lookups', catalogs', timer')
    BY <2>1, <2>2, AttendedIdle
  <2> QED
    BY <1>3, <2>1, <2>3, <2>4, <2>5, SpeaksAttend DEF o
<1>4. CASE Valid(client, t) /\ Leave(client) /\ catalogs' = catalogs \cup {t}
  <2>1. client' = client /\ (unreported' => Overflown(client'))
    BY <1>4, LeaveReports
  <2>2. Served(client, lookups', catalogs', timer')
    BY <1>4 DEF Served, Valid
  <2> QED
    BY <1>1, <2>1, <2>2 DEF AttendInv, Attended
<1>5. CASE Valid(client, t) /\ Leave(Open(client, t)) /\ catalogs' = catalogs
  <2>1. t = client.generation /\ ~HasSocket(client)
    BY <1>5, AttemptAlone
  <2>2. /\ Attended(Open(client, t), lookups', catalogs', timer')
        /\ Overflown(client) => Overflown(Open(client, t))
        /\ Open(client, t).stopped = client.stopped
    BY <2>1, Given, OpenAttends DEF AttendInv, Attended
  <2>3. client' = Open(client, t) /\ (unreported' => Overflown(client'))
    BY <1>5, <2>2, LeaveReports
  <2> QED
    BY <2>2, <2>3 DEF AttendInv
<1> QED
  BY <1>2, <1>3, <1>4, <1>5 DEF Acquired, Offline

(* The attempt is dropped: nobody has it, and nobody will. *)
LEMMA CatalogThrowsAttends ==
    ASSUME ConnectionInv, AttendInv, NEW t \in lookups, CatalogThrows(t)
    PROVE  AttendInv'
<1> DEFINE d == [client EXCEPT !.dropped = {t}]
<1>1. Leave(d) /\ Valid(client, t) /\ UNCHANGED <<catalogs, timer>>
  BY DEF CatalogThrows
<1>2. t = client.generation /\ ~HasSocket(client)
  BY <1>1, AttemptAlone
<1>3. /\ SameFutures(client, d) /\ d.active = client.active /\ d.closed = client.closed
      /\ d.connected = client.connected /\ d.generation = client.generation
      /\ d.timers = client.timers /\ d.stopped = client.stopped /\ d.queue = client.queue
      /\ d.sockets = client.sockets /\ d.dropped = {t}
  BY Given DEF Clients, SameFutures
<1> HIDE DEF d
<1>4. Promised(d)
  BY <1>3, PromisedSame DEF AttendInv, Attended, Unconnected
<1>5. Served(d, lookups', catalogs', timer')
  BY <1>2, <1>3 DEF Served, Stranded, HasSocket
<1>6. Guarded(d, timer')
  BY <1>1, <1>3 DEF AttendInv, Attended, Guarded, Unconnected
<1>7. client' = d /\ (unreported' => Overflown(client'))
  BY <1>1, <1>3, LeaveReports DEF Overflown, NewTask
<1> QED
  BY <1>4, <1>5, <1>6, <1>7 DEF AttendInv, Attended

LEMMA CatalogAttends ==
    ASSUME ConnectionInv, AttendInv, NEW t \in catalogs, CatalogLoaded(t) \/ CatalogFails(t)
    PROVE  AttendInv'
<1> DEFINE e == Emit(client, "error")
<1>1. catalogs' = catalogs \ {t} /\ UNCHANGED <<lookups, timer>>
  BY DEF CatalogLoaded, CatalogFails
<1>2. CASE ~Valid(client, t) /\ Leave(client)
  <2>1. client' = client /\ (unreported' => Overflown(client'))
    BY <1>2, LeaveReports
  <2>2. Attended(client, lookups', catalogs', timer')
    BY <1>1, <1>2, AttendedLess DEF AttendInv, Leaves
  <2> QED
    BY <2>1, <2>2 DEF AttendInv
<1>3. ASSUME NEW c, Valid(client, t), Leave(Open(c, t)), Speaks(client, c)
      PROVE  AttendInv'
  <2>1. t = client.generation /\ ~HasSocket(client)
    BY <1>3, AttemptAlone
  <2>2. c \in Clients /\ Promised(c) /\ (c.active => t = c.generation /\ ~HasSocket(c))
    BY <1>3, <2>1 DEF Speaks, SameAttempt, HasSocket, AttendInv, Attended
  <2>3. /\ Attended(Open(c, t), lookups', catalogs', timer')
        /\ Overflown(c) => Overflown(Open(c, t))
        /\ Open(c, t).stopped = c.stopped
    BY <2>2, OpenAttends
  <2>4. client' = Open(c, t) /\ (unreported' => Overflown(client'))
    BY <1>3, <2>3, LeaveReports DEF Speaks
  <2> QED
    BY <2>3, <2>4 DEF AttendInv
<1>4. Speaks(client, client) /\ Speaks(client, e)
  BY Given, SpeaksSame, EmitsSpeak DEF Names
<1>5. \/ ~Valid(client, t) /\ Leave(client)
      \/ Valid(client, t) /\ (Leave(Open(client, t)) \/ Leave(Open(e, t)))
  BY DEF CatalogLoaded, CatalogFails
<1> HIDE DEF e
<1> QED
  BY <1>2, <1>3, <1>4, <1>5

(* The callbacks of the WebSocket. The socket of the attempt is usable     *)
(* when it opens: an attempt that has its socket is nowhere else.          *)
LEMMA OpensUsable ==
    ASSUME ConnectionInv, AttendInv, NEW s \in client.sockets, Valid(client, s.token)
    PROVE  ~s.cancelled
<1>1. s.token = client.generation /\ client.active /\ ~client.closed /\ HasSocket(client)
  BY DEF Valid, HasSocket
<1>2. /\ ~Armed(client) /\ ~Started(client, timer)
      /\ client.generation \notin lookups /\ client.generation \notin catalogs
      /\ \A s1, s2 \in client.sockets :
             s1.token = client.generation /\ s2.token = client.generation => s1 = s2
  BY <1>1, Given DEF Holds, InOnePlace
<1>3. \E x \in client.sockets : x.token = client.generation /\ ~x.cancelled
  BY <1>1, <1>2 DEF AttendInv, Attended, Served, Stranded
<1> QED
  BY <1>1, <1>2, <1>3

LEMMA MoveLeaves ==
    ASSUME NEW c \in Clients, NEW s \in c.sockets
    PROVE  LET m == Move(c, s, "open")
           IN  /\ SameFutures(c, m) /\ m.active = c.active /\ m.closed = c.closed
               /\ m.connected = c.connected /\ m.generation = c.generation
               /\ m.timers = c.timers /\ m.stopped = c.stopped /\ m.queue = c.queue
               /\ m.dropped = c.dropped
<1> DEFINE m == Move(c, s, "open")
<1>1. m = [c EXCEPT !.sockets = m.sockets]
  BY MoveFacts
<1> HIDE DEF m
<1> QED
  BY <1>1 DEF Clients, SameFutures, m

LEMMA EnteredFutures ==
    ASSUME NEW m \in Clients, NEW t \in Nat, NEW same \in BOOLEAN
    PROVE  /\ Waits(m, t, same).timers["deadline"] = t
           /\ SameFutures(m, Waits(m, t, same)) /\ SameFutures(m, Joins(m, t, same))
<1> DEFINE b == [m EXCEPT !.socket = t]
           d == Prepared(m, t, same)
<1>1. b \in Clients /\ SameFutures(m, b)
  BY DEF Clients, SameFutures
<1>2. d = StartHeartbeat(b, t, same)
  BY DEF Prepared
<1> HIDE DEF b, d
<1>3. PICK hb \in Armings : d = [b EXCEPT !.timers = hb]
  BY <1>1, <1>2, StartHeartbeatFacts
<1>4. d \in Clients /\ SameFutures(m, d)
  BY <1>1, <1>3 DEF Clients, SameFutures
<1>5. Waits(m, t, same) = [d EXCEPT !.timers = [d.timers EXCEPT !["deadline"] = t], !.connected = FALSE]
  BY DEF Waits, d
<1>6. Joins(m, t, same) = [d EXCEPT !.connected = TRUE, !.retries = 0]
  BY DEF Joins, d
<1>7. SameFutures(d, Waits(m, t, same)) /\ SameFutures(d, Joins(m, t, same))
  BY <1>4, <1>5, <1>6 DEF Clients, SameFutures
<1>8. Waits(m, t, same).timers["deadline"] = t
  BY <1>4, <1>5 DEF Clients, Armings, Timers
<1> QED
  BY <1>4, <1>7, <1>8 DEF SameFutures

LEMMA OnOpenAttends ==
    ASSUME ConnectionInv, AttendInv, NEW s \in client.sockets, NEW same \in BOOLEAN,
           OnOpen(s, same)
    PROVE  AttendInv'
<1> DEFINE m == Move(client, s, "open")
           t == s.token
           new == [s EXCEPT !.phase = "open"]
<1>1. /\ m \in Clients /\ m.sockets = (client.sockets \ {s}) \cup {new}
      /\ new.token = t /\ new.cancelled = s.cancelled
  BY Given, MoveFacts
<1>2. /\ SameFutures(client, m) /\ m.active = client.active /\ m.closed = client.closed
      /\ m.connected = client.connected /\ m.generation = client.generation
      /\ m.timers = client.timers /\ m.stopped = client.stopped /\ m.queue = client.queue
      /\ m.dropped = client.dropped
  BY Given, MoveLeaves
<1>3. /\ Leave(IF Valid(m, t) THEN Entered(m, t, same) ELSE CancelSocket(m, t))
      /\ UNCHANGED <<lookups, catalogs, timer>>
  BY DEF OnOpen, threadVars
<1>4. t \in Nat
  BY Given DEF Clients, SocketSets, Sockets
<1>5. Promised(m) /\ (Overflown(client) => Overflown(m))
  <2>1. Promised(m)
    BY <1>2, PromisedSame DEF AttendInv, Attended, Unconnected
  <2> QED
    BY <1>2, <2>1 DEF Overflown, NewTask
<1>6. Valid(m, t) <=> Valid(client, t)
  BY <1>2 DEF Valid
<1> HIDE DEF m, new
<1>7. CASE ~Valid(client, t)
  <2> DEFINE d == CancelSocket(m, t)
  <2>1. Cancels(m, d, t)
    BY <1>1, <1>4, CancelSocketFacts
  <2>2. Leave(d)
    BY <1>3, <1>6, <1>7
  <2>3. d = [m EXCEPT !.sockets = {IF x.token = t THEN [x EXCEPT !.cancelled = TRUE] ELSE x : x \in m.sockets}]
    BY DEF CancelSocket
  <2>4. \A x \in m.sockets : x.token # t => x \in d.sockets
    <3>1. d.sockets = {IF x.token = t THEN [x EXCEPT !.cancelled = TRUE] ELSE x : x \in m.sockets}
      BY <1>1, <2>3 DEF Clients
    <3> QED
      BY <3>1
  <2>5. /\ SameFutures(m, d) /\ d.active = m.active /\ d.closed = m.closed
        /\ d.connected = m.connected /\ d.generation = m.generation
        /\ d.timers = m.timers /\ d.stopped = m.stopped /\ d.queue = m.queue
        /\ d.dropped = m.dropped
    <3>1. d = [m EXCEPT !.sockets = d.sockets]
      BY <2>1 DEF Cancels
    <3> HIDE DEF d
    <3> QED
      BY <1>1, <3>1 DEF Clients, SameFutures
  <2>6. \A x \in d.sockets : x.token = t \/ x \in m.sockets
    BY <2>1 DEF Cancels
  <2> HIDE DEF d
  <2>7. Promised(d)
    BY <1>5, <2>5, PromisedSame DEF Unconnected
  <2>8. CASE ~d.active \/ d.closed
    <3>1. Attended(d, lookups, catalogs, timer)
      BY <2>7, <2>8, AttendedIdle
    <3>2. client' = d /\ (unreported' => Overflown(client'))
      BY <1>2, <1>5, <2>2, <2>5, LeaveReports DEF Overflown, NewTask
    <3> QED
      BY <1>3, <3>1, <3>2 DEF AttendInv
  <2>9. CASE d.active /\ ~d.closed
    <3>1. d.generation # t /\ d.generation = client.generation
      BY <1>2, <1>7, <2>5, <2>9 DEF Valid
    <3>2. \A x : x.token = d.generation => (x \in d.sockets <=> x \in client.sockets)
      BY <1>1, <2>4, <2>6, <3>1
    <3>3. Served(d, lookups, catalogs, timer)
      BY <1>2, <2>5, <3>1, <3>2
         DEF AttendInv, Attended, Served, Stranded, HasSocket, Armed, Started
    <3>4. Guarded(d, timer)
      BY <1>2, <2>5, <3>1, <3>2 DEF AttendInv, Attended, Guarded, Unconnected
    <3>5. client' = d /\ (unreported' => Overflown(client'))
      BY <1>2, <1>5, <2>2, <2>5, LeaveReports DEF Overflown, NewTask
    <3> QED
      BY <1>3, <2>7, <3>3, <3>4, <3>5 DEF AttendInv, Attended
  <2> QED
    BY <2>8, <2>9
<1>8. CASE Valid(client, t)
  <2> DEFINE waits == Waits(m, t, same)
             joins == Joins(m, t, same)
  <2>1. /\ Opens(m, waits, t) /\ ~waits.connected
        /\ Opens(m, joins, t) /\ joins.connected
    BY <1>1, <1>4, EnteredFacts
  <2>2. /\ waits.timers["deadline"] = t
        /\ SameFutures(m, waits) /\ SameFutures(m, joins)
    BY <1>1, <1>4, EnteredFutures
  <2>3. Leave(Entered(m, t, same))
    BY <1>3, <1>6, <1>8
  <2>4. /\ setup.confirm => Entered(m, t, same) = waits
        /\ ~setup.confirm => Entered(m, t, same) = Emit(Complete(joins, "value"), "connected")
    BY DEF Entered, Waits, Joins, Prepared
  <2>5. t = client.generation /\ client.active /\ ~client.closed /\ ~Overflown(client)
    BY <1>8 DEF Valid, Overflown
  <2>6. new \in m.sockets /\ new.token = t /\ ~new.cancelled
    BY <1>1, <1>8, OpensUsable
  <2> HIDE DEF waits, joins
  <2>7. \A d \in {waits, joins} :
           /\ d.active /\ ~d.closed /\ d.generation = t /\ d.stopped = client.stopped
           /\ Served(d, lookups, catalogs, timer)
    BY <1>2, <2>1, <2>5, <2>6 DEF Opens, Served
  <2>8. CASE setup.confirm
    <3>1. Promised(waits)
      BY <1>5, <2>1, <2>2, <2>7, PromisedSame DEF Unconnected
    <3>2. Guarded(waits, timer)
      BY <2>2, <2>7 DEF Guarded
    <3>3. client' = waits /\ (unreported' => Overflown(client'))
      BY <2>3, <2>4, <2>5, <2>7, <2>8, LeaveReports
    <3> QED
      BY <1>3, <2>7, <3>1, <3>2, <3>3 DEF AttendInv, Attended
  <2>9. CASE ~setup.confirm
    <3> DEFINE b == Complete(joins, "value")
               d == Emit(b, "connected")
    <3>1. /\ b \in Clients /\ SameConnection(joins, b) /\ b.stopped = joins.stopped
          /\ b.connected = joins.connected
      BY <2>1, CompleteFacts DEF Results, Opens
    <3>2. Promised(b)
      <4>1. b.future = joins.future /\ joins \in Clients
            /\ b.completing = joins.completing \cup {[future |-> joins.pending, result |-> "value"]}
        BY <2>1 DEF Complete, Clients, Opens
      <4>2. Released(b)
        BY <1>5, <2>2, <4>1, CompletedReleases
      <4> QED
        BY <4>2, ReleasedSame
    <3> HIDE DEF b
    <3>3. Served(b, lookups, catalogs, timer)
      BY <2>1, <2>6, <2>7, <3>1 DEF SameConnection, Opens, Served
    <3>4. Guarded(b, timer)
      BY <2>1, <3>1 DEF Guarded, Unconnected
    <3>5. Speaks(b, d)
      BY <3>1, EmitsSpeak DEF Names
    <3>6. Leave(d)
      BY <2>3, <2>4, <2>9 DEF b
    <3>7. Attended(b, lookups', catalogs', timer')
      BY <1>3, <3>2, <3>3, <3>4 DEF Attended
    <3>8. b.stopped = client.stopped
      BY <2>7, <3>1
    <3> QED
      BY <2>5, <3>5, <3>6, <3>7, <3>8, SpeaksAttend
  <2> QED
    BY <2>8, <2>9
<1> QED
  BY <1>7, <1>8

LEMMA FallsAttends ==
    ASSUME NEW c, NEW d, AttendInv, Leave(d), Falls(c, d), Promised(c),
           c.stopped = client.stopped, client.active
    PROVE  AttendInv'
<1>1. Attended(d, lookups', catalogs', timer')
  BY AttendedAnew DEF Falls
<1>2. client' = d /\ (unreported' => Overflown(client'))
  BY LeaveReports DEF Falls, Overflown
<1> QED
  BY <1>1, <1>2 DEF AttendInv

LEMMA OnOpenFailsAttends ==
    ASSUME ConnectionInv, AttendInv, NEW s \in client.sockets, OnOpenFails(s)
    PROVE  AttendInv'
<1> DEFINE m == Move(client, s, "open")
           c == [m EXCEPT !.socket = s.token]
<1>1. /\ m \in Clients
      /\ m.sockets = (client.sockets \ {s}) \cup {[s EXCEPT !.phase = "open"]}
      /\ [s EXCEPT !.phase = "open"].token = s.token
  BY Given, MoveFacts
<1>2. /\ SameFutures(client, m) /\ m.active = client.active /\ m.closed = client.closed
      /\ m.connected = client.connected /\ m.generation = client.generation
      /\ m.timers = client.timers /\ m.stopped = client.stopped /\ m.queue = client.queue
  BY Given, MoveLeaves
<1>3. Leave(Fail(c, s.token, TRUE)) /\ Valid(client, s.token)
  BY DEF OnOpenFails
<1>4. s.token \in Nat /\ \A x \in client.sockets : x.token <= client.generation
  BY Given DEF Clients, SocketSets, Sockets, Holds, Behind
<1>5. \A x \in m.sockets : x.token <= m.generation
  BY <1>1, <1>2, <1>4
<1> HIDE DEF m
<1>6. c \in Clients
  BY <1>1, <1>4 DEF Clients
<1>7. /\ SameFutures(m, c) /\ c.active = m.active /\ c.closed = m.closed
      /\ c.connected = m.connected /\ c.generation = m.generation
      /\ c.stopped = m.stopped /\ c.sockets = m.sockets
  BY <1>1 DEF Clients, SameFutures
<1> HIDE DEF c
<1>8. Promised(c)
  <2>1. Promised(m)
    BY <1>2, PromisedSame DEF AttendInv, Attended, Unconnected
  <2> QED
    BY <1>7, <2>1, PromisedSame DEF Unconnected
<1>9. Valid(c, s.token) /\ \A x \in c.sockets : x.token <= c.generation
  BY <1>2, <1>3, <1>5, <1>7 DEF Valid
<1>10. Falls(c, Fail(c, s.token, TRUE))
  BY <1>6, <1>9, FailFalls
<1> QED
  BY <1>2, <1>3, <1>7, <1>8, <1>10, FallsAttends DEF Valid

LEMMA OnEndAttends ==
    ASSUME ConnectionInv, AttendInv, NEW s \in client.sockets, OnEnd(s)
    PROVE  AttendInv'
<1> DEFINE S == client.sockets \ {s}
           c == [client EXCEPT !.sockets = S]
<1>1. Leave(Fail(c, s.token, TRUE)) /\ UNCHANGED <<lookups, catalogs, timer>>
  <2>1. c = [client EXCEPT !.sockets = @ \ {s}]
    BY Given DEF Clients
  <2> QED
    BY <2>1 DEF OnEnd, threadVars
<1>2. S \in SocketSets
  BY Given DEF Clients, SocketSets
<1> HIDE DEF S
<1>3. c \in Clients
  BY <1>2, Given DEF Clients
<1>4. /\ SameFutures(client, c) /\ c.active = client.active /\ c.closed = client.closed
      /\ c.connected = client.connected /\ c.generation = client.generation
      /\ c.timers = client.timers /\ c.stopped = client.stopped /\ c.queue = client.queue
      /\ c.sockets = S /\ c.dropped = client.dropped
  BY Given DEF Clients, SameFutures
<1> HIDE DEF c
<1>5. Promised(c)
  BY <1>4, PromisedSame DEF AttendInv, Attended, Unconnected
<1>6. CASE Valid(client, s.token)
  <2>1. Valid(c, s.token) /\ \A x \in c.sockets : x.token <= c.generation
    BY <1>4, <1>6, Given DEF Valid, Holds, Behind, S
  <2>2. Falls(c, Fail(c, s.token, TRUE))
    BY <1>3, <2>1, FailFalls
  <2> QED
    BY <1>1, <1>4, <1>5, <1>6, <2>2, FallsAttends DEF Valid
<1>7. CASE ~Valid(client, s.token)
  <2>1. Fail(c, s.token, TRUE) = c
    BY <1>4, <1>7 DEF Fail, Valid
  <2>2. Served(c, lookups, catalogs, timer)
    BY <1>4, <1>7
       DEF AttendInv, Attended, Served, Stranded, HasSocket, Armed, Started, Valid, S
  <2>3. Guarded(c, timer)
    BY <1>4, <1>7 DEF AttendInv, Attended, Guarded, Unconnected, S
  <2>4. client' = c /\ (unreported' => Overflown(client'))
    BY <1>1, <1>4, <2>1, LeaveReports DEF Overflown, NewTask
  <2> QED
    BY <1>1, <1>5, <2>2, <2>3, <2>4 DEF AttendInv, Attended
<1> QED
  BY <1>6, <1>7

LEMMA FramesAttend ==
    ASSUME ConnectionInv, AttendInv, NEW t \in reading,
           \/ ReceiveMalformed(t)
           \/ \E n \in 0 .. MaxBatch : \E beat \in Beats : Apply(t, n, beat)
    PROVE  AttendInv'
<1>1. UNCHANGED <<lookups, catalogs, timer>>
  BY DEF ReceiveMalformed, Apply
<1>2. ASSUME NEW c, NEW d, Speaks(c, d), Leave(d), Attended(c, lookups, catalogs, timer),
             Overflown(client) => Overflown(c), c.stopped = client.stopped
      PROVE  AttendInv'
  BY <1>1, <1>2, SpeaksAttend
<1>3. Attended(client, lookups, catalogs, timer)
  BY DEF AttendInv
<1>4. CASE ReceiveMalformed(t)
  <2>1. Speaks(client, EmitFrom(client, "error", t))
    BY Given, EmitSpeaks DEF Names
  <2> QED
    BY <1>2, <1>3, <1>4, <2>1 DEF ReceiveMalformed
<1>5. ASSUME NEW n \in 0 .. MaxBatch, NEW beat \in Beats, Apply(t, n, beat) PROVE AttendInv'
  <2>1. n \in Nat /\ t \in Nat /\ TaskCapacity \in Nat \ {0}
    BY Given, JavaAssumption
  <2>2. CASE ~Valid(client, t)
    <3>1. Leave(client) /\ Speaks(client, client)
      BY <1>5, <2>2, Given, SpeaksSame DEF Apply
    <3> QED
      BY <1>2, <1>3, <3>1
  <2>3. ASSUME NEW e, e \in Clients, e.generation = t \/ e.closed \/ e.stopped
        PROVE  Speaks(e, EmitBatch(Beaten(e, t, beat), n, t))
    <3> DEFINE b == Beaten(e, t, beat)
    <3>1. OnlyBeats(e, b)
      BY <2>1, <2>3, BeatenFacts
    <3> HIDE DEF b
    <3>2. Speaks(e, b) /\ b \in Clients
      BY <3>1, BeatSpeaks DEF OnlyBeats
    <3>3. b.generation = t \/ b.closed \/ b.stopped
      BY <2>3, <3>1 DEF OnlyBeats, SameTold
    <3>4. Speaks(b, EmitBatch(b, n, t))
      BY <2>1, <3>2, <3>3, BatchSpeaks
    <3> QED
      BY <3>2, <3>4, SpeaksTwice DEF b
  <2>4. CASE Valid(client, t) /\ ~(setup.confirm /\ ~client.connected)
    <3>1. Leave(EmitBatch(Beaten(client, t, beat), n, t))
      BY <1>5, <2>4 DEF Apply, Confirmed
    <3>2. Speaks(client, EmitBatch(Beaten(client, t, beat), n, t))
      BY <2>3, <2>4, Given DEF Valid
    <3> QED
      BY <1>2, <1>3, <3>1, <3>2
  <2>5. CASE Valid(client, t) /\ setup.confirm /\ ~client.connected
    <3> DEFINE j == Joined(client)
               b == Complete(j, "value")
               e == Emit(b, "connected")
               d == EmitBatch(Beaten(e, t, beat), n, t)
    <3>1. Leave(d)
      <4>1. Confirmed(client) = e
        BY <2>5 DEF Confirmed, Joined
      <4> QED
        BY <1>5, <2>5, <4>1 DEF Apply
    <3>2. /\ j \in Clients /\ j.active = client.active /\ j.closed = client.closed
          /\ j.generation = client.generation /\ j.sockets = client.sockets
          /\ j.timers["reconnect"] = client.timers["reconnect"]
          /\ j.connected /\ j.stopped = client.stopped /\ j.dropped = client.dropped
      BY Given, JoinedFacts
    <3>3. SameFutures(client, j)
      BY Given DEF Joined, SameFutures, Clients
    <3> HIDE DEF j
    <3>4. /\ b \in Clients /\ SameConnection(j, b) /\ b.stopped = j.stopped
          /\ b.connected = j.connected
      BY <3>2, CompleteFacts DEF Results
    <3>13. b.dropped = j.dropped
      BY <3>2 DEF Complete, Clients
    <3>5. Promised(b)
      <4>1. b.future = j.future
            /\ b.completing = j.completing \cup {[future |-> j.pending, result |-> "value"]}
        BY <3>2 DEF Complete, Clients
      <4>2. Released(b)
        BY <1>3, <3>3, <4>1, CompletedReleases DEF Attended
      <4> QED
        BY <4>2, ReleasedSame
    <3> HIDE DEF b
    <3>6. Served(b, lookups, catalogs, timer) /\ Guarded(b, timer)
      BY <1>3, <3>2, <3>4, <3>13
         DEF SameConnection, Attended, Served, Stranded, HasSocket, Guarded, Armed, Started,
             Unconnected
    <3>7. Speaks(b, e) /\ e \in Clients
      BY <3>4, EmitsSpeak DEF Names, Speaks
    <3>8. e.generation = t \/ e.closed \/ e.stopped
      <4>1. b.generation = t /\ b.generation \in Nat
        BY <2>5, <3>2, <3>4 DEF Valid, SameConnection, Clients
      <4>2. Emits(b, e, "connected", b.generation)
        BY <3>4, <4>1, EmitFacts DEF Emit, Names
      <4> QED
        BY <3>4, <4>1, <4>2 DEF Emits, Overflows, Clients
    <3> HIDE DEF e
    <3>9. Speaks(e, d)
      BY <2>3, <3>7, <3>8
    <3> HIDE DEF d
    <3>10. Speaks(b, d)
      BY <3>7, <3>9, SpeaksTwice
    <3>11. ~Overflown(client)
      BY <2>5 DEF Valid, Overflown
    <3>12. Attended(b, lookups, catalogs, timer) /\ b.stopped = client.stopped
      BY <3>2, <3>4, <3>5, <3>6 DEF Attended
    <3> QED
      BY <1>2, <3>1, <3>10, <3>11, <3>12
  <2> QED
    BY <2>2, <2>4, <2>5
<1> QED
  BY <1>4, <1>5

(* The report of an overflow is the first callback, and then it is told.   *)
LEMMA TakeTaskAttends ==
    ASSUME ConnectionInv, AttendInv, TakeTask
    PROVE  AttendInv'
<1> DEFINE c == Taken(client)
           e == Emit(c, "error")
<1>1. /\ client' = c \/ client' = e
      /\ client.queue # <<>> /\ UNCHANGED <<lookups, catalogs, timer>>
  BY DEF TakeTask, Taken, threadVars
<1>2. c \in Clients /\ SameConnection(client, c) /\ c.connected = client.connected
  BY <1>1, Given, TakenFacts
<1>3. SameFutures(client, c) /\ c.dropped = client.dropped
  BY Given DEF Taken, SameFutures, Clients
<1> HIDE DEF c
<1>4. Attended(c, lookups, catalogs, timer)
  <2>1. Promised(c)
    BY <1>2, <1>3, PromisedSame DEF AttendInv, Attended, SameConnection, Unconnected
  <2> QED
    BY <1>2, <1>3, <2>1
       DEF AttendInv, Attended, SameConnection, Served, Stranded, HasSocket, Guarded, Armed,
           Started, Unconnected
<1>5. Attended(e, lookups, catalogs, timer)
  BY <1>2, <1>4, EmitsSpeak, AttendedSpeaks DEF Names
<1>6. ~unreported'
  <2>1. unreported' => unreported /\ ~(Current(Head(client.queue)) /\ Head(client.queue).name = "overload")
    BY Zenon DEF TakeTask
  <2>2. ASSUME unreported
        PROVE  Current(Head(client.queue)) /\ Head(client.queue).name = "overload"
    <3> DEFINE task == NewTask(client, "overload", NoToken)
    <3>1. Overflown(client)
      BY <2>2 DEF AttendInv
    <3>2. task.name = "overload" /\ task.token = client.generation
      BY DEF NewTask
    <3>3. client.queue = <<task>> /\ ~client.closed
      BY <3>1 DEF Overflown
    <3> HIDE DEF task
    <3>4. Head(client.queue) = task
      BY <3>3
    <3> QED
      BY <3>2, <3>3, <3>4 DEF Current
  <2> QED
    BY <2>1, <2>2
<1> QED
  BY <1>1, <1>4, <1>5, <1>6 DEF AttendInv

LEMMA ReceiveStartsAttends ==
    ASSUME AttendInv, NEW s \in client.sockets, ReceiveStarts(s)
    PROVE  AttendInv'
BY DEF ReceiveStarts, AttendInv, historyVars

LEMMA AttendStep ==
    ASSUME ConnectionInv, TurnInv, AttendInv, [JavaNext]_javaVars
    PROVE  AttendInv'
<1>1. CASE UNCHANGED javaVars
  BY <1>1 DEF javaVars, threadVars, historyVars, AttendInv
<1>2. CASE Application
  BY <1>2, ConnectAttends, EndAttends, CancelFutureAttends DEF Application
<1>3. CASE Pool
  BY <1>3, EndAttends, CompletionAttends DEF Pool
<1>4. CASE Answers
  BY <1>4, FailuresAttend, AcquiredAttends, CatalogThrowsAttends, CatalogAttends DEF Answers
<1>5. CASE Handshake
  BY <1>5, OnOpenAttends, OnOpenFailsAttends DEF Handshake
<1>6. CASE Frames
  BY <1>6, FailuresAttend, FramesAttend DEF Frames
<1>7. CASE \E s \in client.sockets : OnEnd(s) \/ ReceiveStarts(s)
  BY <1>7, OnEndAttends, ReceiveStartsAttends
<1>8. CASE TimerThread
  BY <1>8, TimerStartsAttends, FailuresAttend, DeadlineAttends, ReconnectAttends DEF TimerThread
<1>9. CASE TakeTask
  BY <1>9, TakeTaskAttends
<1> QED
  BY <1>1, <1>2, <1>3, <1>4, <1>5, <1>6, <1>7, <1>8, <1>9 DEF JavaNext, Network

LEMMA AttendInit == JavaInit => AttendInv
<1> SUFFICES ASSUME JavaInit PROVE AttendInv
  OBVIOUS
<1>1. /\ ~client.active /\ client.future = [f \in 1 .. MaxConnects |-> "none"] /\ ~unreported
  BY DEF JavaInit
<1>2. Promised(client)
  BY <1>1 DEF Promised
<1> QED
  BY <1>1, <1>2, AttendedIdle DEF AttendInv

(* Nobody waits for a Java client in vain, except for an attempt that was  *)
(* dropped with the request for the gift list: the core of Settles, for    *)
(* every capacity of the queue, number of retries, of calls, faults and    *)
(* batches.                                                                *)
THEOREM AttendInvHolds == JavaSpec => []AttendInv
<1>1. ConnectionInv /\ TurnInv /\ AttendInv /\ [JavaNext]_javaVars => AttendInv'
  BY AttendStep
<1> QED
  BY <1>1, AttendInit, ConnectionInvHolds, TurnInvHolds, PTL DEF JavaSpec
================================================================================
