------------------------------ MODULE ConnectBroker ------------------------------
(***************************************************************************)
(* The broker of crates/ttl-live-api: what POST /v1/connect (api/          *)
(* connect.rs) and GET /v1/live (api/relay.rs) share. A request takes a    *)
(* relay lease (live only) and a request slot, resolves its creator        *)
(* through the room cache and the single-flight map of service/connect.rs, *)
(* asks the signer for a ticket, and, for a relay, dials TikTok.           *)
(*                                                                         *)
(* Requests run on a multi-threaded tokio runtime: they interleave at      *)
(* every lock and await, and a request whose client hangs up is dropped at *)
(* the await it is in. A request is served once; a flight (the             *)
(* Arc<OnceCell>) is named by the request that put it in the map. Requests *)
(* that fail authentication, parsing or the rate limit touch none of this  *)
(* state and are left out. Time is left out too: a cache entry may expire  *)
(* at any moment, and a resolver or signer may answer or time out.         *)
(***************************************************************************)
EXTENDS Integers, FiniteSets

CONSTANTS
    Requests, Creators, Customers,
    None,
    MaxRequests,       \* config.max_concurrent_requests: slots, and flights in the map
    MaxDiscovery,      \* config.max_concurrent_discovery
    MaxSigns,          \* config.max_concurrent_signs
    MaxRelays,         \* config.max_active_relays
    PerCustomer,       \* config.max_relays_per_customer
    CacheCapacity      \* config.room_cache_capacity

ASSUME BrokerAssumption ==
    /\ None \notin Requests
    /\ {MaxRequests, MaxDiscovery, MaxSigns, MaxRelays, PerCustomer, CacheCapacity}
         \subseteq Nat \ {0}

VARIABLES
    pc, req, res,                \* where each request is, what it asks, its resolution
    relaySlots, customers,       \* RelayLimits: free slots, leases of each customer
    requestSlots, discoverySlots, signingSlots,   \* free permits
    cache,                       \* RoomCache
    flights, flightOf,           \* the flight map; the flight each request holds an Arc of
    cell, runner                 \* the OnceCell of a flight, and who is initializing it

limitVars == <<relaySlots, customers, requestSlots>>
slotVars == <<discoverySlots, signingSlots>>
flightVars == <<flights, flightOf, cell, runner>>
vars == <<pc, req, res, limitVars, slotVars, cache, flightVars>>

(* What a resolution may be: a RoomResolution or a ResolveFailure. *)
Found == {"live", "offline", "notfound"}
Failures == {"capacity", "failed", "cancelled"}
NoResult == "none"
Resolution == Found \cup Failures \cup {NoResult}

Init ==
    /\ pc = [r \in Requests |-> "idle"]
    /\ req \in [Requests -> [creator : Creators, customer : Customers, live : BOOLEAN]]
    /\ res = [r \in Requests |-> NoResult]
    /\ relaySlots = MaxRelays
    /\ customers = [c \in Customers |-> 0]
    /\ requestSlots = MaxRequests
    /\ discoverySlots = MaxDiscovery
    /\ signingSlots = MaxSigns
    /\ cache = [k \in Creators |-> NoResult]
    /\ flights = [k \in Creators |-> None]
    /\ flightOf = [r \in Requests |-> None]
    /\ cell = [f \in Requests |-> NoResult]
    /\ runner = [f \in Requests |-> None]

Creator(r) == req[r].creator

Goto(r, place) == pc' = [pc EXCEPT ![r] = place]

--------------------------------------------------------------------------------
(* Admission *)

(* A request arrives and passes authentication and the rate limit. *)
Arrive(r) ==
    /\ pc[r] = "idle"
    /\ Goto(r, IF req[r].live THEN "relay" ELSE "request")
    /\ UNCHANGED <<req, res, limitVars, slotVars, cache, flightVars>>

(* RelayLimits::acquire takes a global slot ... *)
TakeRelaySlot(r) ==
    /\ pc[r] = "relay"
    /\ IF relaySlots = 0 THEN Goto(r, "done") /\ UNCHANGED relaySlots
       ELSE Goto(r, "customer") /\ relaySlots' = relaySlots - 1
    /\ UNCHANGED <<req, res, customers, requestSlots, slotVars, cache, flightVars>>

(* ... and then, under the lock, counts the customer; a customer at the    *)
(* limit gives the slot back.                                              *)
CountCustomer(r) ==
    LET c == req[r].customer
    IN  /\ pc[r] = "customer"
        /\ IF customers[c] >= PerCustomer
           THEN Goto(r, "done") /\ relaySlots' = relaySlots + 1 /\ UNCHANGED customers
           ELSE /\ Goto(r, "request")
                /\ customers' = [customers EXCEPT ![c] = @ + 1]
                /\ UNCHANGED relaySlots
        /\ UNCHANGED <<req, res, requestSlots, slotVars, cache, flightVars>>

(* The handler has returned; a relay lease it still owns is dropped.       *)
AfterHandler(r) == IF req[r].live THEN "unrelay" ELSE "done"

(* try_request_slot *)
TakeRequestSlot(r) ==
    /\ pc[r] = "request"
    /\ IF requestSlots = 0 THEN Goto(r, AfterHandler(r)) /\ UNCHANGED requestSlots
       ELSE Goto(r, "cache") /\ requestSlots' = requestSlots - 1
    /\ UNCHANGED <<req, res, relaySlots, customers, slotVars, cache, flightVars>>

--------------------------------------------------------------------------------
(* resolve *)

(* What connect() does with a resolution: only a live room is signed. *)
AfterResolve(v) == IF v = "live" THEN "sign" ELSE "end"

(* RoomCache::get *)
CacheGet(r) ==
    LET v == cache[Creator(r)]
    IN  /\ pc[r] = "cache"
        /\ IF v # NoResult THEN res' = [res EXCEPT ![r] = v] /\ Goto(r, AfterResolve(v))
           ELSE UNCHANGED res /\ Goto(r, "lease")
        /\ UNCHANGED <<req, limitVars, slotVars, cache, flightVars>>

(* The lease: the flight of the creator, which may be new, unless the map  *)
(* is full.                                                                *)
TakeLease(r) ==
    LET k == Creator(r)
        full == flights[k] = None
                /\ Cardinality({j \in Creators : flights[j] # None}) >= MaxRequests
        f == IF flights[k] = None THEN r ELSE flights[k]
    IN  /\ pc[r] = "lease"
        /\ IF full
           THEN /\ res' = [res EXCEPT ![r] = "capacity"]
                /\ Goto(r, "end")
                /\ UNCHANGED <<flights, flightOf>>
           ELSE /\ flights' = [flights EXCEPT ![k] = f]
                /\ flightOf' = [flightOf EXCEPT ![r] = f]
                /\ Goto(r, "cell")
                /\ UNCHANGED res
        /\ UNCHANGED <<req, limitVars, slotVars, cache, cell, runner>>

(* get_or_init finds the cell set. *)
ReadCell(r) ==
    LET f == flightOf[r]
    IN  /\ pc[r] = "cell"
        /\ cell[f] # NoResult
        /\ res' = [res EXCEPT ![r] = cell[f]]
        /\ Goto(r, "unlease")
        /\ UNCHANGED <<req, limitVars, slotVars, cache, flightVars>>

(* get_or_init finds it empty with nobody initializing: the cache is read  *)
(* again, and a discovery slot is taken. A full semaphore is a result too, *)
(* and is what the siblings of this flight will read.                      *)
InitCell(r) ==
    LET f == flightOf[r]
        v == cache[Creator(r)]
        hit == v # NoResult
        found == IF hit THEN v ELSE "capacity"
    IN  /\ pc[r] = "cell"
        /\ cell[f] = NoResult /\ runner[f] = None
        /\ IF hit \/ discoverySlots = 0
           THEN /\ cell' = [cell EXCEPT ![f] = found]
                /\ res' = [res EXCEPT ![r] = found]
                /\ Goto(r, "unlease")
                /\ UNCHANGED <<runner, discoverySlots>>
           ELSE /\ runner' = [runner EXCEPT ![f] = r]
                /\ discoverySlots' = discoverySlots - 1
                /\ Goto(r, "discover")
                /\ UNCHANGED <<cell, res>>
        /\ UNCHANGED <<req, limitVars, signingSlots, cache, flights, flightOf>>

(* RoomCache::put of v for creator k: a full cache loses an arbitrary entry. *)
Put(k, v) ==
    LET entries == {j \in Creators : cache[j] # NoResult}
        full == Cardinality(entries) >= CacheCapacity /\ k \notin entries
    IN  \E out \in (IF full THEN entries ELSE {k}) :
            cache' = [cache EXCEPT ![out] = NoResult, ![k] = v]

(* The resolver answers, or the request times out: a result is cached, and *)
(* a failure is not.                                                       *)
Discovered(r, v) ==
    LET f == flightOf[r]
    IN  /\ pc[r] = "discover"
        /\ IF v \in Found THEN Put(Creator(r), v) ELSE UNCHANGED cache
        /\ cell' = [cell EXCEPT ![f] = v]
        /\ runner' = [runner EXCEPT ![f] = None]
        /\ res' = [res EXCEPT ![r] = v]
        /\ discoverySlots' = discoverySlots + 1
        /\ Goto(r, "unlease")
        /\ UNCHANGED <<req, limitVars, signingSlots, flights, flightOf>>

Holders(f) == {r \in Requests : flightOf[r] = f}

(* FlightLease::drop under the lock. The strong count is two when the map  *)
(* and this lease are the only owners.                                     *)
DropLeaseAlways(r) ==
    /\ pc[r] = "unlease"
    /\ flights' = [flights EXCEPT ![Creator(r)] = IF @ = flightOf[r] THEN None ELSE @]
    /\ Goto(r, "unlock")
    /\ UNCHANGED <<req, res, limitVars, slotVars, cache, flightOf, cell, runner>>
DropLease(r) ==
    /\ pc[r] = "unlease"
    /\ flights' = [flights EXCEPT ![Creator(r)] =
                     IF @ = flightOf[r] /\ Holders(flightOf[r]) = {r} THEN None ELSE @]
    /\ Goto(r, "unlock")
    /\ UNCHANGED <<req, res, limitVars, slotVars, cache, flightOf, cell, runner>>

(* The lock is free again before the lease's own Arc is dropped.           *)
DropArc(r) ==
    /\ pc[r] = "unlock"
    /\ flightOf' = [flightOf EXCEPT ![r] = None]
    /\ Goto(r, AfterResolve(res[r]))
    /\ UNCHANGED <<req, res, limitVars, slotVars, cache, flights, cell, runner>>

--------------------------------------------------------------------------------
(* sign, and the answer *)

(* No slot is taken when the signer's runtime is not ready, or none is left. *)
TakeSigningSlot(r) ==
    /\ pc[r] = "sign"
    /\ \/ Goto(r, "end") /\ UNCHANGED signingSlots
       \/ signingSlots > 0 /\ Goto(r, "signing") /\ signingSlots' = signingSlots - 1
    /\ UNCHANGED <<req, res, limitVars, discoverySlots, cache, flightVars>>

(* The signer answers: a ticket, a refusal by TikTok, which drops the      *)
(* creator from the cache, or a failure.                                   *)
Signed(r, outcome) ==
    /\ pc[r] = "signing"
    /\ signingSlots' = signingSlots + 1
    /\ cache' = IF outcome = "refused" THEN [cache EXCEPT ![Creator(r)] = NoResult] ELSE cache
    /\ Goto(r, IF outcome = "ticket" /\ req[r].live THEN "dial" ELSE "end")
    /\ UNCHANGED <<req, res, limitVars, discoverySlots, flightVars>>

(* The relay dials TikTok: the handler returns and the relay runs on with  *)
(* its lease, or the handler returns an error.                             *)
Dial(r, ok) ==
    /\ pc[r] = "dial"
    /\ Goto(r, IF ok THEN "relaying" ELSE AfterHandler(r))
    /\ requestSlots' = requestSlots + 1
    /\ res' = [res EXCEPT ![r] = NoResult]
    /\ UNCHANGED <<req, relaySlots, customers, slotVars, cache, flightVars>>

(* The handler answers and drops its request slot. *)
Respond(r) ==
    /\ pc[r] = "end"
    /\ requestSlots' = requestSlots + 1
    /\ res' = [res EXCEPT ![r] = NoResult]
    /\ Goto(r, AfterHandler(r))
    /\ UNCHANGED <<req, relaySlots, customers, slotVars, cache, flightVars>>

(* Either side of a relay goes away, is idle, or does not take a write.    *)
RelayEnds(r) ==
    /\ pc[r] = "relaying"
    /\ Goto(r, "unrelay")
    /\ UNCHANGED <<req, res, limitVars, slotVars, cache, flightVars>>

(* RelayPermit::drop under the lock, and then the slot it owns. *)
DropCustomer(r) ==
    /\ pc[r] = "unrelay"
    /\ customers' = [customers EXCEPT ![req[r].customer] = @ - 1]
    /\ Goto(r, "unslot")
    /\ UNCHANGED <<req, res, relaySlots, requestSlots, slotVars, cache, flightVars>>

DropRelaySlot(r) ==
    /\ pc[r] = "unslot"
    /\ relaySlots' = relaySlots + 1
    /\ Goto(r, "done")
    /\ UNCHANGED <<req, res, customers, requestSlots, slotVars, cache, flightVars>>

--------------------------------------------------------------------------------
(* The client hangs up: the request is dropped at the await it is in, and  *)
(* what it holds is dropped with it. An initializer leaves the cell empty  *)
(* for a sibling.                                                          *)
CancelLeavesRunner(r) ==
    /\ pc[r] \in {"cell", "discover"}
    /\ res' = [res EXCEPT ![r] = "cancelled"]
    /\ UNCHANGED runner
    /\ discoverySlots' = IF pc[r] = "discover" THEN discoverySlots + 1 ELSE discoverySlots
    /\ Goto(r, "unlease")
    /\ UNCHANGED <<req, limitVars, signingSlots, cache, flights, flightOf, cell>>
CancelLeavesSlot(r) ==
    /\ pc[r] \in {"cell", "discover"}
    /\ res' = [res EXCEPT ![r] = "cancelled"]
    /\ runner' = [f \in Requests |-> IF runner[f] = r THEN None ELSE runner[f]]
    /\ UNCHANGED discoverySlots
    /\ Goto(r, "unlease")
    /\ UNCHANGED <<req, limitVars, signingSlots, cache, flights, flightOf, cell>>
CancelResolve(r) ==
    /\ pc[r] \in {"cell", "discover"}
    /\ res' = [res EXCEPT ![r] = "cancelled"]
    /\ runner' = [f \in Requests |-> IF runner[f] = r THEN None ELSE runner[f]]
    /\ discoverySlots' = IF pc[r] = "discover" THEN discoverySlots + 1 ELSE discoverySlots
    /\ Goto(r, "unlease")
    /\ UNCHANGED <<req, limitVars, signingSlots, cache, flights, flightOf, cell>>

CancelSign(r) ==
    /\ pc[r] = "signing"
    /\ signingSlots' = signingSlots + 1
    /\ Goto(r, "end")
    /\ UNCHANGED <<req, res, limitVars, discoverySlots, cache, flightVars>>

(* ... or while it waits for the cache's lock or for TikTok's socket.      *)
CancelAwait(r) ==
    /\ pc[r] \in {"cache", "dial"}
    /\ Goto(r, "end")
    /\ UNCHANGED <<req, res, limitVars, slotVars, cache, flightVars>>

(* The entry of a creator expires. *)
Expire(k) ==
    /\ cache[k] # NoResult
    /\ cache' = [cache EXCEPT ![k] = NoResult]
    /\ UNCHANGED <<pc, req, res, limitVars, slotVars, flightVars>>

Serve(r) ==
    \/ TakeRelaySlot(r) \/ CountCustomer(r) \/ TakeRequestSlot(r)
    \/ CacheGet(r) \/ TakeLease(r) \/ ReadCell(r) \/ InitCell(r)
    \/ \E kind \in Found \cup {"failed"} : Discovered(r, kind)
    \/ DropLease(r) \/ DropArc(r)
    \/ TakeSigningSlot(r)
    \/ \E outcome \in {"ticket", "refused", "failed"} : Signed(r, outcome)
    \/ \E ok \in BOOLEAN : Dial(r, ok)
    \/ Respond(r) \/ DropCustomer(r) \/ DropRelaySlot(r)

Next ==
    \/ \E r \in Requests :
         \/ Arrive(r) \/ Serve(r) \/ RelayEnds(r)
         \/ CancelResolve(r) \/ CancelSign(r) \/ CancelAwait(r)
    \/ \E k \in Creators : Expire(k)

Spec == Init /\ [][Next]_vars

(* The runtime polls every request, and resolver, signer and dial have     *)
(* deadlines. Nothing is assumed of clients, relays and the clock.         *)
FairSpec == Spec /\ \A r \in Requests : WF_vars(Serve(r))

--------------------------------------------------------------------------------
(* Properties *)

Places == {"idle", "relay", "customer", "request", "cache", "lease", "cell", "discover",
           "unlease", "unlock", "sign", "signing", "dial", "end", "relaying", "unrelay",
           "unslot", "done"}
Leased == {"cell", "discover", "unlease"}
Holding == Leased \cup {"unlock"}

TypeOK ==
    /\ pc \in [Requests -> Places]
    /\ req \in [Requests -> [creator : Creators, customer : Customers, live : BOOLEAN]]
    /\ res \in [Requests -> Resolution]
    /\ relaySlots \in 0 .. MaxRelays
    /\ customers \in [Customers -> 0 .. PerCustomer]
    /\ requestSlots \in 0 .. MaxRequests
    /\ discoverySlots \in 0 .. MaxDiscovery
    /\ signingSlots \in 0 .. MaxSigns
    /\ cache \in [Creators -> Resolution]
    /\ flights \in [Creators -> Requests \cup {None}]
    /\ flightOf \in [Requests -> Requests \cup {None}]
    /\ cell \in [Requests -> Resolution]
    /\ runner \in [Requests -> Requests \cup {None}]

At(places) == {r \in Requests : pc[r] \in places}

(* Simultaneous lookups of a creator are coalesced: TikTok is asked once,  *)
(* whoever joins, hangs up or drops its lease meanwhile.                   *)
SingleFlight ==
    \A r, s \in At({"discover"}) : Creator(r) = Creator(s) => r = s

(* The permits of the service. *)
Permits ==
    /\ discoverySlots + Cardinality(At({"discover"})) = MaxDiscovery
    /\ signingSlots + Cardinality(At({"signing"})) = MaxSigns
    /\ requestSlots + Cardinality(At({"cache", "lease", "cell", "discover", "unlease",
                                      "unlock", "sign", "signing", "dial", "end"})) = MaxRequests

(* What is counted for a customer is exactly its live requests that hold a *)
(* lease, and every lease has its global slot.                             *)
RelayAccounting ==
    LET leases == {r \in Requests :
                     req[r].live /\ pc[r] \notin {"idle", "relay", "customer", "unslot", "done"}}
    IN  /\ \A c \in Customers :
             customers[c] = Cardinality({r \in leases : req[r].customer = c})
        /\ relaySlots + Cardinality(leases) + Cardinality(At({"customer", "unslot"})) = MaxRelays

(* Every permit is held by a request that is using it and comes back on    *)
(* every way out: an answer, an error, a refusal, a client that hung up;   *)
(* and "a permit stays captured through upgrade and relay completion".     *)
PermitsConserved == TypeOK /\ Permits /\ RelayAccounting

(* Every flight in the map has an owner: "Only the last caller removes the *)
(* matching map entry", "All permits and single-flight entries were        *)
(* released after completion".                                             *)
FlightsOwned == \A k \in Creators : flights[k] # None => Holders(flights[k]) # {}

(* A request that was let in is answered, even when the sibling it waits   *)
(* for is dropped in the middle of the lookup.                             *)
Answered == \A r \in Requests : pc[r] # "idle" ~> pc[r] \in {"relaying", "done"}
================================================================================
