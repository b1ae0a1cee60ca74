---------------------------- MODULE LiveClientProofs ----------------------------
(***************************************************************************)
(* The Node client, for any number of generations and attempts: what it    *)
(* owns (OwnershipInv is the inductive invariant), whose signer it uses    *)
(* (IdentityInv), that a refused identity is not offered again             *)
(* (RefusalInv) and that it never stops trying without a word (Driven).    *)
(* Flows and #reconnect() calls are records of which the arguments only    *)
(* need the stage, so each action is first reduced to what it does to the  *)
(* stages; the lemmas named Keeps then say that such a change is harmless. *)
(***************************************************************************)
EXTENDS LiveClient, TLAPS

(* Why Ownership holds. A flow is under way only for the generation that   *)
(* connect() shares, its socket is the client's one, and a connection that *)
(* is up belongs to the current generation; a flow that has settled stays  *)
(* settled, and what #reconnect() waits for has been started.              *)
Under == FlowStages \ (Settled \cup {"none"})

FlowsOwned ==
    /\ \A g \in Gens : flow[g].pc # "none" => g <= gen
    /\ \A g \in Gens : g = gen /\ ~closing /\ flow[g].pc \in Under => connecting = g
    /\ connecting # None => /\ connecting = gen /\ gen \in Gens /\ ~closing
                           /\ flow[gen].pc \in Under
    /\ \A g \in Gens : flow[g].pc = "opening" =>
          /\ g = gen /\ ~closing
          /\ socket = g /\ cancelOpen = g /\ wire[g] = "connecting"

SocketsOwned ==
    /\ \A g \in Gens : wire[g] = "connecting" => flow[g].pc = "opening"
    /\ \A g \in Gens : wire[g] = "open" => connected /\ socket = g
    /\ connected => /\ ~closing /\ gen \in Gens /\ socket = gen
                    /\ wire[gen] = "open" /\ flow[gen].pc = "ok"
    /\ heartbeat <=> connected
    /\ closing => timer = None /\ socket = None /\ cancelOpen = None

LoopsOwned ==
    /\ \A g \in Gens : reconn[g].pc # "none" => flow[g].pc # "none"
    /\ \A g \in Gens : reconn[g].pc \in {"session", "creating"} => flow[g].pc = "refused"
    /\ frame \in {"disconnected", "error", "reconnecting"} => gen \in Gens /\ reconn[gen].pc = "none"
    /\ timer # None => gen \in Gens /\ timer = gen /\ reconn[gen].pc = "none"

OwnershipInv == TypeOK /\ FlowsOwned /\ SocketsOwned /\ LoopsOwned

(* Why SignerMatchesIdentity holds. The bootstrap of the current           *)
(* generation is awaited by its flow or by its refresh, so nobody builds a *)
(* signer meanwhile, and who builds one holds the identity of the cookie.  *)
BootAwaited(b) ==
    \/ flow[gen].pc = "session" /\ flow[gen].boot = b
    \/ reconn[gen].pc = "session" /\ reconn[gen].boot = b

IdentityInv ==
    /\ SignerMatchesIdentity
    /\ \A b \in DOMAIN boots : boots[b].gen <= gen
    /\ \A b \in DOMAIN boots :
          ~BootDone(b) /\ ~Stale(boots[b].gen) => signer = NoIdentity /\ BootAwaited(b)
    /\ \A g \in Gens : flow[g].pc = "creating" /\ ~Stale(g) => flow[g].identity = cookie
    /\ \A g \in Gens : reconn[g].pc = "creating" /\ ~Stale(g) => reconn[g].identity = cookie
(* Why RefusalIsFinal holds. The client is about to offer its cookie while *)
(* a flow of its own has not been refused, while a refresh has its new     *)
(* identity, and while it is going to retry; then the cookie is not one    *)
(* that was refused. A refused identity is never that of a bootstrap still *)
(* to come. Listeners that leave connect() alone start no flow that the    *)
(* retry could mistake for its own.                                        *)
Retrying ==
    \/ timer # None
    \/ frame \in {"disconnected", "error"} /\ ~closing
    \/ frame = "reconnecting" /\ ~Stale(armFor)
Offering ==
    /\ ~closing
    /\ \/ gen \in auto /\ flow[gen].pc # "refused"
       \/ gen \in Gens /\ reconn[gen].pc = "creating"
       \/ gen \in Gens /\ reconn[gen].pc = "session" /\ boots[reconn[gen].boot].state = "stored"
       \/ Retrying

RetriesAlone ==
    /\ \A g \in Gens : reconn[g].pc = "await" => g \in auto
    /\ Retrying => connecting = None
    /\ Offering => cookie \notin refusals

RefusalInv ==
    /\ \A i \in refusals \cup {cookie} : i <= Len(boots) /\ (i \in DOMAIN boots => BootDone(i))
    /\ \A g \in Gens : flow[g].pc = "opening" => flow[g].identity = cookie
    /\ connected => cookie \notin refusals
    /\ \A g \in Gens : reconn[g].pc = "session" => reconn[g].boot \in DOMAIN boots
    /\ armFor <= gen /\ \A g \in auto : g <= gen
    /\ ~listenersConnect => RetriesAlone

--------------------------------------------------------------------------------
FlowRecord(n) == [pc : FlowStages, boot : 0 .. n, identity : Identities]
LoopStages == {"none", "await", "session", "creating", "last"}
LoopRecord(n) == [pc : LoopStages, boot : 0 .. n, identity : Identities]

Flags ==
    /\ closing \in BOOLEAN /\ connected \in BOOLEAN /\ heartbeat \in BOOLEAN
    /\ guestMode \in BOOLEAN /\ refreshed \in BOOLEAN /\ roomKnown \in BOOLEAN
    /\ listenersConnect \in BOOLEAN /\ told \in BOOLEAN

Numbers ==
    /\ gen \in Nat /\ connecting \in 0 .. MaxGen
    /\ socket \in 0 .. MaxGen /\ cancelOpen \in 0 .. MaxGen
    /\ cookie \in Identities /\ signer \in Identities
    /\ attempt \in 0 .. Attempts /\ timer \in Nat /\ armFor \in Nat
    /\ wire \in [Gens -> {"none", "connecting", "open", "closing", "closed"}]
    /\ frame \in {"none", "signing", "disconnected", "error", "reconnecting"}
    /\ auto \subseteq Gens /\ refusals \subseteq Identities

Boot == [gen : Gens, state : {"pending", "stored", "cancelled", "error"}]
Bootstraps == boots \in Seq(Boot) /\ guest \in 0 .. Len(boots)

Flows == flow \in [Gens -> FlowRecord(Len(boots))]
Loops == reconn \in [Gens -> LoopRecord(Len(boots))]

Typed == Flags /\ Numbers /\ Bootstraps /\ Flows /\ Loops

LEMMA TypeParts == TypeOK <=> Typed
BY Zenon DEF TypeOK, Typed, Flags, Numbers, Bootstraps, Boot, Flows, Loops, FlowRecord,
   LoopRecord, LoopStages

LEMMA TypePartsNext == Typed' => TypeOK'
BY Zenon DEF TypeOK, Typed, Flags, Numbers, Bootstraps, Boot, Flows, Loops, FlowRecord,
   LoopRecord, LoopStages

--------------------------------------------------------------------------------
(* Records of flows, of #reconnect() calls and of bootstraps *)

LEMMA FlowSet ==
    ASSUME NEW n \in Nat, flow \in [Gens -> FlowRecord(n)], NEW g \in Gens,
           NEW r \in FlowRecord(n), flow' = [flow EXCEPT ![g] = r]
    PROVE  /\ flow' \in [Gens -> FlowRecord(n)]
           /\ \A h \in Gens : flow'[h] = IF h = g THEN r ELSE flow[h]
OBVIOUS

LEMMA FlowMoves ==
    ASSUME NEW n \in Nat, flow \in [Gens -> FlowRecord(n)], NEW g \in Gens,
           NEW p \in FlowStages, flow' = [flow EXCEPT ![g].pc = p]
    PROVE  /\ flow' \in [Gens -> FlowRecord(n)]
           /\ \A h \in Gens : flow'[h].pc = IF h = g THEN p ELSE flow[h].pc
           /\ \A h \in Gens : flow'[h].boot = flow[h].boot /\ flow'[h].identity = flow[h].identity
<1> DEFINE r == [flow[g] EXCEPT !.pc = p]
<1>1. r \in FlowRecord(n) /\ r.pc = p /\ r.boot = flow[g].boot /\ r.identity = flow[g].identity
  BY DEF FlowRecord
<1>2. flow' = [flow EXCEPT ![g] = r]
  OBVIOUS
<1> HIDE DEF r
<1>3. flow' \in [Gens -> FlowRecord(n)] /\ \A h \in Gens : flow'[h] = IF h = g THEN r ELSE flow[h]
  BY <1>1, <1>2, FlowSet
<1> QED
  BY <1>1, <1>3

(* The flow takes the identity of the cookie with it. *)
LEMMA FlowTakesCookie ==
    ASSUME NEW n \in Nat, flow \in [Gens -> FlowRecord(n)], NEW g \in Gens,
           NEW p \in FlowStages, cookie \in Identities,
           flow' = [flow EXCEPT ![g].pc = p, ![g].identity = cookie]
    PROVE  /\ flow' \in [Gens -> FlowRecord(n)]
           /\ \A h \in Gens : flow'[h].pc = IF h = g THEN p ELSE flow[h].pc
           /\ \A h \in Gens : flow'[h].boot = flow[h].boot
           /\ \A h \in Gens : flow'[h].identity = IF h = g THEN cookie ELSE flow[h].identity
<1> DEFINE q == [flow[g] EXCEPT !.pc = p]
           r == [q EXCEPT !.identity = cookie]
<1>1. q \in FlowRecord(n) /\ q.pc = p /\ q.boot = flow[g].boot
  BY DEF FlowRecord
<1>2. flow' = [flow EXCEPT ![g] = r]
  OBVIOUS
<1> HIDE DEF q
<1>4. r \in FlowRecord(n) /\ r.pc = p /\ r.boot = flow[g].boot /\ r.identity = cookie
  BY <1>1 DEF FlowRecord
<1> HIDE DEF r
<1>3. flow' \in [Gens -> FlowRecord(n)] /\ \A h \in Gens : flow'[h] = IF h = g THEN r ELSE flow[h]
  BY <1>2, <1>4, FlowSet
<1> QED
  BY <1>3, <1>4

LEMMA LoopSet ==
    ASSUME NEW n \in Nat, reconn \in [Gens -> LoopRecord(n)], NEW g \in Gens,
           NEW r \in LoopRecord(n), reconn' = [reconn EXCEPT ![g] = r]
    PROVE  /\ reconn' \in [Gens -> LoopRecord(n)]
           /\ \A h \in Gens : reconn'[h] = IF h = g THEN r ELSE reconn[h]
OBVIOUS

LEMMA LoopMoves ==
    ASSUME NEW n \in Nat, reconn \in [Gens -> LoopRecord(n)], NEW g \in Gens,
           NEW p \in LoopStages, reconn' = [reconn EXCEPT ![g].pc = p]
    PROVE  /\ reconn' \in [Gens -> LoopRecord(n)]
           /\ \A h \in Gens : reconn'[h].pc = IF h = g THEN p ELSE reconn[h].pc
           /\ \A h \in Gens : reconn'[h].boot = reconn[h].boot /\ reconn'[h].identity = reconn[h].identity
<1> DEFINE r == [reconn[g] EXCEPT !.pc = p]
<1>1. r \in LoopRecord(n) /\ r.pc = p /\ r.boot = reconn[g].boot /\ r.identity = reconn[g].identity
  BY DEF LoopRecord
<1>2. reconn' = [reconn EXCEPT ![g] = r]
  OBVIOUS
<1> HIDE DEF r
<1>3. /\ reconn' \in [Gens -> LoopRecord(n)]
      /\ \A h \in Gens : reconn'[h] = IF h = g THEN r ELSE reconn[h]
  BY <1>1, <1>2, LoopSet
<1> QED
  BY <1>1, <1>3

LEMMA NoFlowType ==
    ASSUME NEW n \in Nat
    PROVE  /\ NoFlow \in FlowRecord(n) /\ NoFlow \in LoopRecord(n)
           /\ NoFlow.pc = "none" /\ NoFlow.boot = None /\ NoFlow.identity = NoIdentity
BY DEF NoFlow, FlowRecord, LoopRecord, LoopStages, FlowStages, None, NoIdentity, Identities

(* The records stay what they are when another bootstrap is added. *)
LEMMA Wider ==
    ASSUME NEW n \in Nat, NEW m \in Nat, n <= m
    PROVE  /\ \A f \in [Gens -> FlowRecord(n)] : f \in [Gens -> FlowRecord(m)]
           /\ \A f \in [Gens -> LoopRecord(n)] : f \in [Gens -> LoopRecord(m)]
<1>1. FlowRecord(n) \subseteq FlowRecord(m) /\ LoopRecord(n) \subseteq LoopRecord(m)
  BY DEF FlowRecord, LoopRecord
<1> QED
  BY <1>1

LEMMA BootAdded ==
    ASSUME boots \in Seq(Boot), NEW g \in Gens,
           boots' = Append(boots, [gen |-> g, state |-> "pending"])
    PROVE  /\ boots' \in Seq(Boot) /\ Len(boots) \in Nat /\ Len(boots') = Len(boots) + 1
           /\ DOMAIN boots = 1 .. Len(boots) /\ DOMAIN boots' = 1 .. Len(boots) + 1
           /\ \A b \in DOMAIN boots : boots'[b] = boots[b]
           /\ boots'[Len(boots) + 1].gen = g /\ boots'[Len(boots) + 1].state = "pending"
<1> DEFINE r == [gen |-> g, state |-> "pending"]
<1>1. r \in Boot /\ r.gen = g /\ r.state = "pending"
  BY DEF Boot
<1> HIDE DEF r
<1>2. boots' = Append(boots, r)
  BY DEF r
<1> QED
  BY <1>1, <1>2

LEMMA BootSettles ==
    ASSUME boots \in Seq(Boot), NEW b \in DOMAIN boots, NEW s \in {"stored", "cancelled", "error"},
           boots' = [boots EXCEPT ![b].state = s]
    PROVE  /\ boots' \in Seq(Boot) /\ Len(boots) \in Nat /\ Len(boots') = Len(boots)
           /\ DOMAIN boots = 1 .. Len(boots) /\ DOMAIN boots' = DOMAIN boots
           /\ \A c \in DOMAIN boots : boots'[c].gen = boots[c].gen
           /\ \A c \in DOMAIN boots : boots'[c].state = IF c = b THEN s ELSE boots[c].state
<1> DEFINE r == [boots[b] EXCEPT !.state = s]
<1>0. boots[b] \in Boot
  OBVIOUS
<1>1. r \in Boot /\ r.gen = boots[b].gen /\ r.state = s
  BY <1>0 DEF Boot
<1>2. boots' = [boots EXCEPT ![b] = r]
  OBVIOUS
<1> HIDE DEF r
<1>3. boots' \in Seq(Boot) /\ Len(boots') = Len(boots) /\ DOMAIN boots' = DOMAIN boots
  BY <1>1, <1>2
<1>4. \A c \in DOMAIN boots : boots'[c] = IF c = b THEN r ELSE boots[c]
  BY <1>2
<1> QED
  BY <1>1, <1>3, <1>4

--------------------------------------------------------------------------------
(* A flow moves on, or settles, before it has opened its socket *)

FlowAlone ==
    /\ UNCHANGED <<closing, gen, socketVars, cookie, guest, guestMode, refreshed, retryVars,
                   wire, boots, reconn, historyVars>>
    /\ roomKnown' \in BOOLEAN /\ signer' \in Identities /\ frame' \in {frame, "none", "signing"}

LEMMA StageKeeps ==
    ASSUME OwnershipInv, NEW g \in Gens, flow[g].pc \in Under \ {"opening"},
           NEW p \in FlowStages \ {"none", "opening"}, Flows',
           \A h \in Gens : flow'[h].pc = IF h = g THEN p ELSE flow[h].pc,
           connecting' = IF p \in Settled /\ connecting = g THEN None ELSE connecting,
           FlowAlone
    PROVE  OwnershipInv'
<1>1. Typed
  BY TypeParts DEF OwnershipInv
<1>2. Flags'
  BY <1>1, Zenon DEF Typed, Flags, FlowAlone, socketVars, historyVars
<1>3. Numbers'
  <2>1. connecting' \in 0 .. MaxGen
    BY <1>1, ClientAssumption DEF Typed, Numbers, None
  <2>2. frame' \in {"none", "signing", "disconnected", "error", "reconnecting"}
    BY <1>1, Zenon DEF Typed, Numbers, FlowAlone
  <2> QED
    BY <1>1, <2>1, <2>2, Zenon DEF Typed, Numbers, FlowAlone, socketVars, retryVars, historyVars
<1>4. Bootstraps' /\ Loops'
  BY <1>1, Zenon DEF Typed, Bootstraps, Loops, FlowAlone, socketVars, historyVars
<1>5. TypeOK'
  BY <1>2, <1>3, <1>4, TypePartsNext DEF Typed
<1>6. FlowsOwned'
  BY <1>1 DEF OwnershipInv, Typed, Numbers, FlowsOwned, Under, FlowStages, Settled, None,
     FlowAlone, socketVars, retryVars, Gens
<1>7. SocketsOwned'
  BY <1>1 DEF OwnershipInv, Typed, Numbers, SocketsOwned, Under, FlowStages, Settled, None,
     FlowAlone, socketVars, retryVars, Gens
<1>8. LoopsOwned'
  BY <1>1 DEF OwnershipInv, Typed, Numbers, LoopsOwned, Under, FlowStages, Settled, None,
     FlowAlone, socketVars, retryVars, Gens
<1> QED
  BY <1>5, <1>6, <1>7, <1>8 DEF OwnershipInv

LEMMA FlowSettles ==
    ASSUME OwnershipInv, NEW g \in Gens, flow[g].pc \in Under \ {"opening"},
           NEW p \in Settled, Settle(g, p), FlowAlone
    PROVE  OwnershipInv'
<1>1. Typed /\ Len(boots) \in Nat
  BY TypeParts DEF OwnershipInv, Typed, Bootstraps
<1>2. p \in FlowStages \ {"none", "opening"}
  BY DEF FlowStages, Settled
<1>3. flow' = [flow EXCEPT ![g].pc = p] /\ connecting' = IF connecting = g THEN None ELSE connecting
  BY DEF Settle
<1>4. /\ flow' \in [Gens -> FlowRecord(Len(boots))]
      /\ \A h \in Gens : flow'[h].pc = IF h = g THEN p ELSE flow[h].pc
  BY <1>1, <1>2, <1>3, FlowMoves DEF Typed, Flows
<1>5. Flows'
  BY <1>4, Zenon DEF Flows, FlowAlone
<1> QED
  BY <1>2, <1>3, <1>4, <1>5, StageKeeps

LEMMA FlowAdvances ==
    ASSUME OwnershipInv, NEW g \in Gens, flow[g].pc \in Under \ {"opening"},
           NEW p \in Under \ {"opening"}, Advance(g, p), FlowAlone
    PROVE  OwnershipInv'
<1>1. Typed /\ Len(boots) \in Nat
  BY TypeParts DEF OwnershipInv, Typed, Bootstraps
<1>2. p \in FlowStages \ {"none", "opening"} /\ p \notin Settled
  BY DEF Under
<1>3. flow' = [flow EXCEPT ![g].pc = p] /\ connecting' = connecting
  BY DEF Advance
<1>4. /\ flow' \in [Gens -> FlowRecord(Len(boots))]
      /\ \A h \in Gens : flow'[h].pc = IF h = g THEN p ELSE flow[h].pc
  BY <1>1, <1>2, <1>3, FlowMoves DEF Typed, Flows
<1>5. Flows'
  BY <1>4, Zenon DEF Flows, FlowAlone
<1> QED
  BY <1>2, <1>3, <1>4, <1>5, StageKeeps

LEMMA AfterRoomType == {AfterRoom, AfterInfo, "lookup", "signer", "signing", "creating"} \subseteq Under \ {"opening"}
BY DEF AfterRoom, AfterInfo, Under, FlowStages, Settled

LEMMA SessionReadyKeeps ==
    ASSUME OwnershipInv, NEW g \in Gens, SessionReady(g)
    PROVE  OwnershipInv'
<1> DEFINE b == flow[g].boot
<1>1. Typed
  BY TypeParts DEF OwnershipInv
<1>2. FlowAlone
  BY <1>1, Zenon DEF SessionReady, FlowAlone, identityVars, Typed, Flags, Numbers
<1>3. flow[g].pc \in Under \ {"opening"}
  BY DEF SessionReady, Under, FlowStages, Settled
<1>4. CASE b # None /\ boots[b].state # "stored"
  <2>1. b \in DOMAIN boots /\ boots[b].state # "pending"
    BY <1>1, <1>4 DEF SessionReady, BootDone, Typed, Flows, Bootstraps, FlowRecord, None
  <2>2. boots[b].state \in Settled
    <3>1. boots[b] \in Boot
      BY <1>1, <2>1 DEF Typed, Bootstraps
    <3> QED
      BY <1>4, <2>1, <3>1 DEF Boot, Settled
  <2>3. Settle(g, boots[b].state)
    BY <1>4, Zenon DEF SessionReady
  <2> QED
    BY <1>2, <1>3, <2>2, <2>3, FlowSettles
<1>5. CASE ~(b # None /\ boots[b].state # "stored") /\ Stale(g)
  <2>1. Settle(g, "cancelled")
    BY <1>5, Zenon DEF SessionReady
  <2> QED
    BY <1>2, <1>3, <2>1, FlowSettles DEF Settled
<1>6. CASE ~(b # None /\ boots[b].state # "stored") /\ ~Stale(g)
  <2>1. Advance(g, IF roomKnown THEN AfterRoom ELSE "lookup")
    BY <1>6, Zenon DEF SessionReady
  <2> QED
    BY <1>2, <1>3, <2>1, AfterRoomType, FlowAdvances
<1> QED
  BY <1>4, <1>5, <1>6, Zenon

LEMMA RoomLookupKeeps ==
    ASSUME OwnershipInv, NEW g \in Gens, NEW live \in BOOLEAN, RoomLookup(g, live)
    PROVE  OwnershipInv'
<1>1. Typed
  BY TypeParts DEF OwnershipInv
<1>2. FlowAlone
  BY <1>1, Zenon DEF RoomLookup, FlowAlone, identityVars, Typed, Flags, Numbers
<1>3. flow[g].pc \in Under \ {"opening"}
  BY DEF RoomLookup, Under, FlowStages, Settled
<1>4. Settle(g, "cancelled") \/ Settle(g, "error") \/ Advance(g, AfterRoom)
  BY Zenon DEF RoomLookup
<1>5. CASE Settle(g, "cancelled")
  BY <1>2, <1>3, <1>5, FlowSettles DEF Settled
<1>6. CASE Settle(g, "error")
  BY <1>2, <1>3, <1>6, FlowSettles DEF Settled
<1>7. CASE Advance(g, AfterRoom)
  BY <1>2, <1>3, <1>7, AfterRoomType, FlowAdvances
<1> QED
  BY <1>4, <1>5, <1>6, <1>7, Zenon

LEMMA MetadataKeeps ==
    ASSUME OwnershipInv, NEW g \in Gens, Metadata(g)
    PROVE  OwnershipInv'
<1>1. Typed
  BY TypeParts DEF OwnershipInv
<1>2. FlowAlone
  BY <1>1, Zenon DEF Metadata, FlowAlone, identityVars, Typed, Flags, Numbers
<1>3. flow[g].pc \in Under \ {"opening"}
  BY DEF Metadata, Under, FlowStages, Settled
<1>4. Settle(g, "cancelled") \/ Advance(g, IF flow[g].pc = "info" THEN AfterInfo ELSE "signer")
  BY Zenon DEF Metadata
<1>5. CASE Settle(g, "cancelled")
  BY <1>2, <1>3, <1>5, FlowSettles DEF Settled
<1>6. CASE Advance(g, IF flow[g].pc = "info" THEN AfterInfo ELSE "signer")
  BY <1>2, <1>3, <1>6, AfterRoomType, FlowAdvances
<1> QED
  BY <1>4, <1>5, <1>6, Zenon

LEMMA CreateSignerKeeps ==
    ASSUME OwnershipInv, NEW g \in Gens, CreateSigner(g)
    PROVE  OwnershipInv'
<1>1. Typed /\ Len(boots) \in Nat
  BY TypeParts DEF OwnershipInv, Typed, Bootstraps
<1>2. FlowAlone
  BY <1>1, Zenon DEF CreateSigner, FlowAlone, identityVars, ownerVars, Typed, Flags, Numbers
<1>3. flow[g].pc \in Under \ {"opening"}
  BY DEF CreateSigner, Under, FlowStages, Settled
<1>4. flow' = [flow EXCEPT ![g].pc = "creating", ![g].identity = cookie] /\ connecting' = connecting
  BY Zenon DEF CreateSigner, ownerVars
<1>5. "creating" \in FlowStages \ {"none", "opening"} /\ "creating" \notin Settled
  BY DEF FlowStages, Settled
<1>6. /\ flow' \in [Gens -> FlowRecord(Len(boots))]
      /\ \A h \in Gens : flow'[h].pc = IF h = g THEN "creating" ELSE flow[h].pc
  <2>1. flow \in [Gens -> FlowRecord(Len(boots))] /\ cookie \in Identities /\ "creating" \in FlowStages
    BY <1>1, <1>5 DEF Typed, Flows, Numbers
  <2> QED
    BY <1>1, <1>4, <2>1, FlowTakesCookie, Zenon
<1>7. Flows'
  BY <1>6, Zenon DEF CreateSigner, Flows
<1> QED
  BY <1>2, <1>3, <1>4, <1>5, <1>6, <1>7, StageKeeps

LEMMA SignerReadyKeeps ==
    ASSUME OwnershipInv, NEW g \in Gens, SignerReady(g)
    PROVE  OwnershipInv'
<1>1. Typed
  BY TypeParts DEF OwnershipInv
<1>2. flow[g].identity \in Identities
  BY <1>1 DEF Typed, Flows, FlowRecord
<1>3. signer' \in Identities /\ frame' \in {frame, "none", "signing"}
  BY <1>1, <1>2, Zenon DEF SignerReady, Typed, Numbers
<1>4. FlowAlone
  BY <1>1, <1>3, Zenon DEF SignerReady, FlowAlone, Typed, Flags
<1>5. flow[g].pc \in Under \ {"opening"}
  BY DEF SignerReady, Under, FlowStages, Settled
<1>6. Settle(g, "cancelled") \/ Advance(g, "signing")
  BY Zenon DEF SignerReady
<1>7. CASE Settle(g, "cancelled")
  BY <1>4, <1>5, <1>7, FlowSettles DEF Settled
<1>8. CASE Advance(g, "signing")
  BY <1>4, <1>5, <1>8, AfterRoomType, FlowAdvances
<1> QED
  BY <1>6, <1>7, <1>8, Zenon

LEMMA SignerFailsKeeps ==
    ASSUME OwnershipInv, NEW g \in Gens, SignerFails(g)
    PROVE  OwnershipInv'
<1>1. Typed
  BY TypeParts DEF OwnershipInv
<1>2. FlowAlone
  BY <1>1, Zenon DEF SignerFails, FlowAlone, identityVars, Typed, Flags, Numbers
<1>3. flow[g].pc \in Under \ {"opening"} /\ Settle(g, "error")
  BY DEF SignerFails, Under, FlowStages, Settled
<1> QED
  BY <1>2, <1>3, FlowSettles DEF Settled

LEMMA OpenThrowsKeeps ==
    ASSUME OwnershipInv, NEW g \in Gens, OpenThrows(g)
    PROVE  OwnershipInv'
<1>1. Typed
  BY TypeParts DEF OwnershipInv
<1>2. FlowAlone
  BY <1>1, Zenon DEF OpenThrows, FlowAlone, identityVars, Typed, Flags, Numbers
<1>3. flow[g].pc \in Under \ {"opening"} /\ Settle(g, "error")
  BY DEF OpenThrows, Under, FlowStages, Settled
<1> QED
  BY <1>2, <1>3, FlowSettles DEF Settled

--------------------------------------------------------------------------------
(* The socket opens, fails, closes *)

LEMMA OpenKeeps ==
    ASSUME OwnershipInv, NEW g \in Gens, Open(g)
    PROVE  OwnershipInv'
<1>1. Typed /\ Len(boots) \in Nat
  BY TypeParts DEF OwnershipInv, Typed, Bootstraps
<1>2. flow[g].pc = "signing" /\ flow[g].pc \in Under \ {"opening"} /\ frame' = "none"
  BY DEF Open, Under, FlowStages, Settled
<1>3. CASE Stale(g)
  <2>1. PICK made \in {"none", "closing"} :
          /\ flow' = [flow EXCEPT ![g].pc = "cancelled"] /\ wire' = [wire EXCEPT ![g] = made]
          /\ connecting' = IF connecting = g THEN None ELSE connecting
    BY <1>3, Zenon DEF Open, Settle
  <2>2. /\ UNCHANGED <<closing, gen, connected, heartbeat, timer, reconn, boots, socket, cancelOpen>>
        /\ frame' = "none"
    BY <1>3, Zenon DEF Open, retryVars
  <2>3. /\ flow' \in [Gens -> FlowRecord(Len(boots))]
        /\ \A h \in Gens : flow'[h].pc = IF h = g THEN "cancelled" ELSE flow[h].pc
    <3>1. "cancelled" \in FlowStages
      BY DEF FlowStages, Settled
    <3> QED
      BY <1>1, <2>1, <3>1, FlowMoves DEF Typed, Flows
  <2>4. /\ wire' \in [Gens -> {"none", "connecting", "open", "closing", "closed"}]
        /\ \A h \in Gens : wire'[h] = IF h = g THEN made ELSE wire[h]
    BY <1>1, <2>1 DEF Typed, Numbers
  <2>5. Flags'
    BY <1>1, <1>3, <2>2, Zenon DEF Open, Typed, Flags, identityVars, historyVars
  <2>6. Numbers'
    <3>1. connecting' \in 0 .. MaxGen
      BY <1>1, <2>1, ClientAssumption DEF Typed, Numbers, None
    <3> QED
      BY <1>1, <2>2, <2>4, <3>1, Zenon DEF Open, Typed, Numbers, identityVars, retryVars, historyVars
  <2>7. Bootstraps' /\ Flows' /\ Loops'
    BY <1>1, <2>2, <2>3, Zenon DEF Open, Typed, Bootstraps, Flows, Loops, identityVars
  <2>8. TypeOK'
    BY <2>5, <2>6, <2>7, TypePartsNext DEF Typed
  <2> HIDE DEF Open
  <2>9. FlowsOwned'
    BY <1>1, <1>2, <1>3, <2>1, <2>2, <2>3, <2>4 DEF OwnershipInv, Typed, Numbers, FlowsOwned, Stale, Under, FlowStages, Settled, None, Gens
  <2>10. SocketsOwned'
    BY <1>1, <1>2, <1>3, <2>1, <2>2, <2>3, <2>4 DEF OwnershipInv, Typed, Numbers, SocketsOwned, Stale, Under, FlowStages, Settled, None, Gens
  <2>11. LoopsOwned'
    BY <1>1, <1>2, <2>2, <2>3 DEF OwnershipInv, Typed, Numbers, LoopsOwned, Under, FlowStages, Settled, None, Gens
  <2> QED
    BY <2>8, <2>9, <2>10, <2>11 DEF OwnershipInv
<1>4. CASE ~Stale(g)
  <2>1. /\ flow' = [flow EXCEPT ![g].pc = "opening", ![g].identity = cookie]
        /\ wire' = [wire EXCEPT ![g] = "connecting"] /\ socket' = g /\ cancelOpen' = g
        /\ UNCHANGED <<connecting, closing, gen, connected, heartbeat, timer, reconn, boots>>
    BY <1>4, Zenon DEF Open, retryVars
  <2>2. /\ flow' \in [Gens -> FlowRecord(Len(boots))]
        /\ \A h \in Gens : flow'[h].pc = IF h = g THEN "opening" ELSE flow[h].pc
    <3>1. /\ flow \in [Gens -> FlowRecord(Len(boots))] /\ cookie \in Identities
          /\ "opening" \in FlowStages
      BY <1>1 DEF Typed, Flows, Numbers, FlowStages
    <3> QED
      BY <1>1, <2>1, <3>1, FlowTakesCookie, Zenon
  <2>3. Flags'
    BY <1>1, <2>1, Zenon DEF Open, Typed, Flags, identityVars, historyVars
  <2>4. Numbers'
    <3>1. socket' \in 0 .. MaxGen /\ cancelOpen' \in 0 .. MaxGen
      BY <2>1, ClientAssumption DEF Gens
    <3>2. wire' \in [Gens -> {"none", "connecting", "open", "closing", "closed"}]
      BY <1>1, <2>1 DEF Typed, Numbers
    <3> QED
      BY <1>1, <1>2, <2>1, <3>1, <3>2, Zenon DEF Open, Typed, Numbers, identityVars, retryVars, historyVars
  <2>5. Bootstraps' /\ Flows' /\ Loops'
    BY <1>1, <2>1, <2>2, Zenon DEF Open, Typed, Bootstraps, Flows, Loops, identityVars
  <2>6. TypeOK'
    BY <2>3, <2>4, <2>5, TypePartsNext DEF Typed
  <2>7. g = gen /\ ~closing
    BY <1>4 DEF Stale
  <2> HIDE DEF Open
  <2>8. FlowsOwned'
    BY <1>1, <1>2, <2>1, <2>2, <2>7 DEF OwnershipInv, Typed, Numbers, FlowsOwned, Under, FlowStages, Settled, None, Gens
  <2>9. SocketsOwned'
    BY <1>1, <1>2, <2>1, <2>2, <2>7 DEF OwnershipInv, Typed, Numbers, FlowsOwned, SocketsOwned, Under, FlowStages, Settled, None, Gens
  <2>10. LoopsOwned'
    BY <1>1, <1>2, <2>1, <2>2, <2>7 DEF OwnershipInv, Typed, Numbers, LoopsOwned, Under, FlowStages, Settled, None, Gens
  <2> QED
    BY <2>6, <2>8, <2>9, <2>10 DEF OwnershipInv
<1> QED
  BY <1>3, <1>4, Zenon

LEMMA FlowEnds ==
    ASSUME OwnershipInv, NEW g \in Gens, NEW p \in Settled,
           flow' = [flow EXCEPT ![g].pc = p], boots' = boots
    PROVE  Flows' /\ \A h \in Gens : flow'[h].pc = IF h = g THEN p ELSE flow[h].pc
<1>1. Typed /\ Len(boots) \in Nat /\ p \in FlowStages
  BY TypeParts DEF OwnershipInv, Typed, Bootstraps, FlowStages
<1>2. flow' \in [Gens -> FlowRecord(Len(boots))] /\ \A h \in Gens : flow'[h].pc = IF h = g THEN p ELSE flow[h].pc
  BY <1>1, FlowMoves DEF Typed, Flows
<1> QED
  BY <1>2, Zenon DEF Flows

LEMMA SocketOpensKeeps ==
    ASSUME OwnershipInv, NEW g \in Gens, SocketOpens(g)
    PROVE  OwnershipInv'
<1>1. Typed
  BY TypeParts DEF OwnershipInv
<1>2. /\ flow[g].pc = "opening" /\ ~closing /\ g = gen /\ socket = g
      /\ wire' = [wire EXCEPT ![g] = "open"] /\ heartbeat' = TRUE /\ connected' = TRUE
      /\ attempt' = 0 /\ refreshed' = FALSE /\ cancelOpen' = None
      /\ flow' = [flow EXCEPT ![g].pc = "ok"] /\ connecting' = IF connecting = g THEN None ELSE connecting
      /\ UNCHANGED <<closing, gen, socket, timer, reconn, frame, boots>>
  BY Zenon DEF SocketOpens, Settle, Stale
<1>3. Flows' /\ \A h \in Gens : flow'[h].pc = IF h = g THEN "ok" ELSE flow[h].pc
  BY <1>2, FlowEnds DEF Settled
<1>4. Flags'
  BY <1>1, <1>2, Zenon DEF SocketOpens, Typed, Flags
<1>5. Numbers'
  <2>1. /\ connecting' \in 0 .. MaxGen /\ cancelOpen' \in 0 .. MaxGen /\ attempt' \in 0 .. Attempts
        /\ wire' \in [Gens -> {"none", "connecting", "open", "closing", "closed"}]
    BY <1>1, <1>2, ClientAssumption DEF Typed, Numbers, None
  <2>2. refusals' \subseteq Identities
    BY <1>1, Zenon DEF SocketOpens, Typed, Numbers
  <2> QED
    BY <1>1, <1>2, <2>1, <2>2, Zenon DEF SocketOpens, Typed, Numbers
<1>6. Bootstraps' /\ Loops'
  BY <1>1, <1>2, Zenon DEF SocketOpens, Typed, Bootstraps, Loops
<1>7. TypeOK'
  BY <1>3, <1>4, <1>5, <1>6, TypePartsNext DEF Typed
<1>8. FlowsOwned'
  BY <1>1, <1>2, <1>3 DEF OwnershipInv, Typed, Numbers, FlowsOwned, Under, FlowStages, Settled, None, Gens
<1>9. SocketsOwned'
  BY <1>1, <1>2, <1>3 DEF OwnershipInv, Typed, Numbers, FlowsOwned, SocketsOwned, Under, FlowStages, Settled, None, Gens
<1>10. LoopsOwned'
  BY <1>1, <1>2, <1>3 DEF OwnershipInv, Typed, Numbers, LoopsOwned, Under, FlowStages, Settled, None, Gens
<1> QED
  BY <1>7, <1>8, <1>9, <1>10 DEF OwnershipInv

LEMMA OpenTimeoutKeeps ==
    ASSUME OwnershipInv, NEW g \in Gens, OpenTimeout(g)
    PROVE  OwnershipInv'
<1>1. Typed
  BY TypeParts DEF OwnershipInv
<1>2. /\ flow[g].pc = "opening" /\ wire' = [wire EXCEPT ![g] = "closing"]
      /\ flow' = [flow EXCEPT ![g].pc = "error"] /\ connecting' = IF connecting = g THEN None ELSE connecting
      /\ UNCHANGED <<closing, gen, connected, heartbeat, socket, cancelOpen, timer, reconn, frame, boots>>
  BY Zenon DEF OpenTimeout, Settle, socketVars, retryVars
<1>3. Flows' /\ \A h \in Gens : flow'[h].pc = IF h = g THEN "error" ELSE flow[h].pc
  BY <1>2, FlowEnds DEF Settled
<1>4. Flags'
  BY <1>1, <1>2, Zenon DEF OpenTimeout, Typed, Flags, identityVars, historyVars
<1>5. Numbers'
  <2>1. /\ connecting' \in 0 .. MaxGen
        /\ wire' \in [Gens -> {"none", "connecting", "open", "closing", "closed"}]
    BY <1>1, <1>2, ClientAssumption DEF Typed, Numbers, None
  <2> QED
    BY <1>1, <1>2, <2>1, Zenon DEF OpenTimeout, Typed, Numbers, identityVars, retryVars, historyVars
<1>6. Bootstraps' /\ Loops'
  BY <1>1, <1>2, Zenon DEF OpenTimeout, Typed, Bootstraps, Loops, identityVars
<1>7. TypeOK'
  BY <1>3, <1>4, <1>5, <1>6, TypePartsNext DEF Typed
<1>8. FlowsOwned'
  BY <1>1, <1>2, <1>3 DEF OwnershipInv, Typed, Numbers, FlowsOwned, Under, FlowStages, Settled, None, Gens
<1>9. SocketsOwned'
  BY <1>1, <1>2, <1>3 DEF OwnershipInv, Typed, Numbers, FlowsOwned, SocketsOwned, Under, FlowStages, Settled, None, Gens
<1>10. LoopsOwned'
  BY <1>1, <1>2, <1>3 DEF OwnershipInv, Typed, Numbers, LoopsOwned, Under, FlowStages, Settled, None, Gens
<1> QED
  BY <1>7, <1>8, <1>9, <1>10 DEF OwnershipInv

(* 'close' before 'open' either refuses the flow whose socket it was, or   *)
(* comes after the flow has timed out.                                     *)
LEMMA HandshakeFailsKeeps ==
    ASSUME OwnershipInv, NEW g \in Gens, NEW cause \in {"refusal", "network"}, HandshakeFails(g, cause)
    PROVE  OwnershipInv'
<1>1. Typed
  BY TypeParts DEF OwnershipInv
<1>2. /\ socket = g /\ wire[g] \in {"connecting", "closing"} /\ wire' = [wire EXCEPT ![g] = "closed"]
      /\ socket' = None /\ cancelOpen' = None /\ connected' = FALSE /\ heartbeat' = FALSE
      /\ UNCHANGED <<closing, gen, timer, reconn, frame, boots>>
  BY Zenon DEF HandshakeFails, retryVars
<1>3. \/ /\ flow[g].pc = "opening" /\ flow' = [flow EXCEPT ![g].pc = "refused"]
         /\ connecting' = IF connecting = g THEN None ELSE connecting
      \/ flow[g].pc # "opening" /\ UNCHANGED <<flow, connecting>>
  BY Zenon DEF HandshakeFails, Settle
<1>4. Flags'
  BY <1>1, <1>2, Zenon DEF HandshakeFails, Typed, Flags, identityVars
<1>5. Numbers'
  <2>1. /\ connecting' \in 0 .. MaxGen /\ socket' \in 0 .. MaxGen /\ cancelOpen' \in 0 .. MaxGen
        /\ wire' \in [Gens -> {"none", "connecting", "open", "closing", "closed"}]
    BY <1>1, <1>2, <1>3, ClientAssumption DEF Typed, Numbers, None
  <2>2. flow[g].identity \in Identities
    BY <1>1 DEF Typed, Flows, FlowRecord
  <2>3. refusals' \subseteq Identities
    BY <1>1, <2>2, Zenon DEF HandshakeFails, Typed, Numbers
  <2> QED
    BY <1>1, <1>2, <2>1, <2>3, Zenon DEF HandshakeFails, Typed, Numbers, identityVars, retryVars
<1>6. Bootstraps' /\ Loops'
  BY <1>1, <1>2, Zenon DEF HandshakeFails, Typed, Bootstraps, Loops, identityVars
<1>7. Flows' /\ \A h \in Gens : flow'[h].pc = IF h = g /\ flow[g].pc = "opening" THEN "refused" ELSE flow[h].pc
  <2>1. CASE flow[g].pc = "opening" /\ flow' = [flow EXCEPT ![g].pc = "refused"]
    <3>1. "refused" \in Settled
      BY DEF Settled
    <3>2. Flows' /\ \A h \in Gens : flow'[h].pc = IF h = g THEN "refused" ELSE flow[h].pc
      BY <1>2, <2>1, <3>1, FlowEnds, Zenon
    <3> QED
      BY <2>1, <3>2, Zenon
  <2>2. CASE flow[g].pc # "opening" /\ UNCHANGED <<flow, connecting>>
    BY <1>1, <1>2, <2>2, Zenon DEF Typed, Flows
  <2> QED
    BY <1>3, <2>1, <2>2, Zenon
<1>8. connecting' = IF connecting = g /\ flow[g].pc = "opening" THEN None ELSE connecting
  BY <1>3, Zenon
<1>9. TypeOK'
  BY <1>4, <1>5, <1>6, <1>7, TypePartsNext DEF Typed
<1>10. FlowsOwned'
  BY <1>1, <1>2, <1>7, <1>8 DEF OwnershipInv, Typed, Numbers, FlowsOwned, SocketsOwned, Under, FlowStages, Settled, None, Gens
<1>11. SocketsOwned'
  BY <1>1, <1>2, <1>7 DEF OwnershipInv, Typed, Numbers, FlowsOwned, SocketsOwned, Under, FlowStages, Settled, None, Gens
<1>12. LoopsOwned'
  BY <1>1, <1>2, <1>7 DEF OwnershipInv, Typed, Numbers, LoopsOwned, Under, FlowStages, Settled, None, Gens
<1> QED
  BY <1>9, <1>10, <1>11, <1>12 DEF OwnershipInv

LEMMA StaleSocketClosesKeeps ==
    ASSUME OwnershipInv, NEW g \in Gens, StaleSocketCloses(g)
    PROVE  OwnershipInv'
<1>1. Typed
  BY TypeParts DEF OwnershipInv
<1>2. /\ wire[g] = "closing" /\ socket # g /\ wire' = [wire EXCEPT ![g] = "closed"]
      /\ UNCHANGED <<closing, gen, connecting, connected, heartbeat, socket, cancelOpen, timer, reconn, frame,
                     flow, boots>>
  BY Zenon DEF StaleSocketCloses, ownerVars, socketVars, retryVars
<1>3. Flags' /\ Bootstraps' /\ Flows' /\ Loops'
  BY <1>1, <1>2, Zenon DEF StaleSocketCloses, Typed, Flags, Bootstraps, Flows, Loops, identityVars, historyVars
<1>4. wire' \in [Gens -> {"none", "connecting", "open", "closing", "closed"}]
  BY <1>1, <1>2 DEF Typed, Numbers
<1>5. Numbers'
  BY <1>1, <1>2, <1>4, Zenon DEF StaleSocketCloses, Typed, Numbers, identityVars, retryVars, historyVars
<1>6. TypeOK'
  BY <1>3, <1>5, TypePartsNext DEF Typed
<1>7. FlowsOwned' /\ SocketsOwned'
  BY <1>1, <1>2 DEF OwnershipInv, Typed, Numbers, FlowsOwned, SocketsOwned, Gens
<1>8. LoopsOwned'
  BY <1>2, Zenon DEF OwnershipInv, LoopsOwned
<1> QED
  BY <1>6, <1>7, <1>8 DEF OwnershipInv

LEMMA SocketClosesKeeps ==
    ASSUME OwnershipInv, NEW g \in Gens, SocketCloses(g)
    PROVE  OwnershipInv'
<1>1. Typed
  BY TypeParts DEF OwnershipInv
<1>2. /\ socket = g /\ wire[g] = "open" /\ wire' = [wire EXCEPT ![g] = "closed"]
      /\ socket' = None /\ cancelOpen' = None /\ connected' = FALSE /\ heartbeat' = FALSE
      /\ frame' = "disconnected" /\ told' = FALSE
      /\ UNCHANGED <<closing, gen, connecting, timer, reconn, flow, boots>>
  BY Zenon DEF SocketCloses, ownerVars, retryVars
<1>3. Flags' /\ Bootstraps' /\ Flows' /\ Loops'
  BY <1>1, <1>2, Zenon DEF SocketCloses, Typed, Flags, Bootstraps, Flows, Loops, identityVars
<1>4. /\ wire' \in [Gens -> {"none", "connecting", "open", "closing", "closed"}]
      /\ socket' \in 0 .. MaxGen /\ cancelOpen' \in 0 .. MaxGen
  BY <1>1, <1>2, ClientAssumption DEF Typed, Numbers, None
<1>5. Numbers'
  BY <1>1, <1>2, <1>4, Zenon DEF SocketCloses, Typed, Numbers, identityVars, retryVars
<1>6. TypeOK'
  BY <1>3, <1>5, TypePartsNext DEF Typed
<1>7. FlowsOwned' /\ SocketsOwned'
  BY <1>1, <1>2 DEF OwnershipInv, Typed, Numbers, FlowsOwned, SocketsOwned, Gens, None, Under, FlowStages, Settled
<1>8. LoopsOwned'
  <2>1. connected /\ gen \in Gens /\ flow[gen].pc = "ok"
    BY <1>2 DEF OwnershipInv, SocketsOwned
  <2>2. reconn[gen].pc \notin {"await", "last"}
    BY <2>1 DEF SocketCloses, Quiet, Settled
  <2>3. reconn[gen].pc \in LoopStages
    BY <1>1, <2>1 DEF Typed, Loops, LoopRecord
  <2>4. reconn[gen].pc = "none"
    BY <2>1, <2>2, <2>3 DEF OwnershipInv, LoopsOwned, LoopStages
  <2> QED
    BY <1>2, <2>1, <2>4 DEF OwnershipInv, LoopsOwned
<1> QED
  BY <1>6, <1>7, <1>8 DEF OwnershipInv

--------------------------------------------------------------------------------
(* disconnect() *)

LEMMA DropKeeps ==
    ASSUME OwnershipInv, NEW n \in 1 .. 2, Drop(n), gen + n \in Gens \/ frame = "none", Flows',
           \A h \in Gens : IF flow[h].pc = "opening" THEN flow'[h].pc \in Settled
                                                     ELSE flow'[h].pc = flow[h].pc,
           UNCHANGED <<cookie, signer, guestMode, refreshed, attempt, armFor, roomKnown, boots,
                       reconn, frame, historyVars>>
    PROVE  OwnershipInv'
<1>1. Typed
  BY TypeParts DEF OwnershipInv
<1>2. /\ closing' = TRUE /\ guest' = None /\ gen' = gen + n /\ connecting' = None /\ timer' = None
      /\ cancelOpen' = None /\ heartbeat' = FALSE /\ socket' = None /\ connected' = FALSE
      /\ wire' = [g \in Gens |-> IF g = socket /\ wire[g] # "closed" THEN "closing" ELSE wire[g]]
  BY Zenon DEF Drop
<1>3. Flags' /\ Loops'
  BY <1>1, <1>2, Zenon DEF Typed, Flags, Loops, historyVars
<1>4. Bootstraps'
  BY <1>1, <1>2 DEF Typed, Bootstraps, None
<1>5. Numbers'
  <2>1. /\ gen' \in Nat /\ connecting' \in 0 .. MaxGen /\ socket' \in 0 .. MaxGen
        /\ cancelOpen' \in 0 .. MaxGen /\ timer' \in Nat
    BY <1>1, <1>2, ClientAssumption DEF Typed, Numbers, None
  <2>2. wire' \in [Gens -> {"none", "connecting", "open", "closing", "closed"}]
    BY <1>1, <1>2 DEF Typed, Numbers
  <2> QED
    BY <1>1, <1>2, <2>1, <2>2, Zenon DEF Typed, Numbers, historyVars
<1>6. TypeOK'
  BY <1>3, <1>4, <1>5, TypePartsNext DEF Typed
<1>7. FlowsOwned'
  BY <1>1, <1>2 DEF OwnershipInv, Typed, Numbers, FlowsOwned, Under, FlowStages, Settled, None, Gens
<1>8. SocketsOwned'
  BY <1>1, <1>2 DEF OwnershipInv, Typed, Numbers, FlowsOwned, SocketsOwned, Under, FlowStages, Settled, None, Gens
<1>9. LoopsOwned'
  <2>1. /\ \A g \in Gens : reconn'[g].pc # "none" => flow'[g].pc # "none"
        /\ \A g \in Gens : reconn'[g].pc \in {"session", "creating"} => flow'[g].pc = "refused"
    BY DEF OwnershipInv, LoopsOwned, Settled
  <2>2. gen + n \in Gens => reconn[gen + n].pc = "none"
    BY <1>1 DEF OwnershipInv, LoopsOwned, FlowsOwned, Typed, Numbers, Gens
  <2> QED
    BY <1>2, <2>1, <2>2 DEF LoopsOwned, None
<1> QED
  BY <1>6, <1>7, <1>8, <1>9 DEF OwnershipInv

LEMMA DisconnectKeeps ==
    ASSUME OwnershipInv, Disconnect
    PROVE  OwnershipInv'
<1>1. Typed /\ Len(boots) \in Nat
  BY TypeParts DEF OwnershipInv, Typed, Bootstraps
<1>2. /\ gen < MaxGen /\ Drop(1)
      /\ flow' = [g \in Gens |-> IF g = cancelOpen /\ flow[g].pc = "opening"
                                 THEN [flow[g] EXCEPT !.pc = "cancelled"] ELSE flow[g]]
      /\ UNCHANGED <<cookie, signer, guestMode, refreshed, attempt, armFor, roomKnown, boots,
                     reconn, frame, historyVars>>
  BY Zenon DEF Disconnect
<1>3. \A g \in Gens : /\ [flow[g] EXCEPT !.pc = "cancelled"] \in FlowRecord(Len(boots))
                      /\ [flow[g] EXCEPT !.pc = "cancelled"].pc = "cancelled"
                      /\ flow[g] \in FlowRecord(Len(boots))
  BY <1>1 DEF Typed, Flows, FlowRecord, FlowStages, Settled
<1> DEFINE C(g) == [flow[g] EXCEPT !.pc = "cancelled"]
<1>4. /\ flow' = [g \in Gens |-> IF g = cancelOpen /\ flow[g].pc = "opening" THEN C(g) ELSE flow[g]]
      /\ \A g \in Gens : C(g) \in FlowRecord(Len(boots)) /\ C(g).pc = "cancelled"
  BY <1>2, <1>3
<1> HIDE DEF C
<1>5. flow' \in [Gens -> FlowRecord(Len(boots))]
  BY <1>3, <1>4
<1>6. Flows'
  BY <1>2, <1>5, Zenon DEF Flows
<1>7. \A h \in Gens : IF flow[h].pc = "opening" THEN flow'[h].pc \in Settled
                                                ELSE flow'[h].pc = flow[h].pc
  BY <1>4 DEF OwnershipInv, FlowsOwned, Settled
<1>8. gen + 1 \in Gens
  BY <1>1, <1>2, ClientAssumption DEF Typed, Numbers, Gens
<1> QED
  BY <1>2, <1>6, <1>7, <1>8, DropKeeps

LEMMA EnterRoomFailsKeeps ==
    ASSUME OwnershipInv, NEW g \in Gens, EnterRoomFails(g)
    PROVE  OwnershipInv'
<1>1. PICK n \in 1 .. 2 : Drop(n)
  BY DEF EnterRoomFails
<1>2. /\ flow[g].pc = "opening" /\ flow' = [flow EXCEPT ![g].pc = "error"] /\ frame = "none"
      /\ UNCHANGED <<cookie, signer, guestMode, refreshed, attempt, armFor, roomKnown, boots,
                     reconn, frame, historyVars>>
  BY Zenon DEF EnterRoomFails, Quiet
<1>3. Flows' /\ \A h \in Gens : flow'[h].pc = IF h = g THEN "error" ELSE flow[h].pc
  BY <1>2, FlowEnds DEF Settled
<1>4. \A h \in Gens : flow[h].pc = "opening" => h = g
  BY <1>2 DEF OwnershipInv, FlowsOwned
<1>5. \A h \in Gens : IF flow[h].pc = "opening" THEN flow'[h].pc \in Settled
                                                ELSE flow'[h].pc = flow[h].pc
  BY <1>2, <1>3, <1>4 DEF Settled
<1> QED
  BY <1>1, <1>2, <1>3, <1>5, DropKeeps

LEMMA WriteOverflowsKeeps ==
    ASSUME OwnershipInv, WriteOverflows
    PROVE  OwnershipInv'
<1>1. /\ connected /\ Drop(1) /\ flow' = flow /\ frame = "none"
      /\ UNCHANGED <<cookie, signer, guestMode, refreshed, attempt, armFor, roomKnown, boots,
                     reconn, frame, historyVars>>
  BY Zenon DEF WriteOverflows, Quiet
<1>2. Flows'
  BY <1>1, TypeParts, Zenon DEF OwnershipInv, Typed, Flows
<1>3. \A h \in Gens : flow[h].pc # "opening"
  BY <1>1 DEF OwnershipInv, FlowsOwned, SocketsOwned
<1> QED
  BY <1>1, <1>2, <1>3, DropKeeps

--------------------------------------------------------------------------------
(* connect() starts a flow *)

LEMMA StartStages ==
    ASSUME OwnershipInv, NEW c \in Identities, StartConnect(c)
    PROVE  /\ gen + 1 \in Gens /\ Bootstraps' /\ Flows' /\ Len(boots) \in Nat
           /\ Len(boots') \in Nat /\ Len(boots) <= Len(boots')
           /\ \A h \in Gens : flow'[h].pc = IF h = gen + 1 THEN "session" ELSE flow[h].pc
           /\ \A h \in Gens : h # gen + 1 => flow'[h] = flow[h]
           /\ flow'[gen + 1].boot = IF c # NoIdentity THEN None ELSE guest'
<1> DEFINE g == gen + 1
           bootstrap == c = NoIdentity /\ guest = None
           k == Len(boots) + 1
           r == [NoFlow EXCEPT !.pc = "session",
                               !.boot = IF c # NoIdentity THEN None
                                        ELSE IF bootstrap THEN k ELSE guest]
<1>1. Typed /\ Len(boots) \in Nat
  BY TypeParts DEF OwnershipInv, Typed, Bootstraps
<1>2. /\ gen < MaxGen /\ flow' = [flow EXCEPT ![g] = r]
      /\ guest' = IF bootstrap THEN k ELSE guest
      /\ boots' = IF bootstrap THEN Append(boots, [gen |-> g, state |-> "pending"]) ELSE boots
  BY Zenon DEF StartConnect
<1>3. g \in Gens
  BY <1>1, <1>2, ClientAssumption DEF Typed, Numbers, Gens
<1>4. Bootstraps' /\ Len(boots') \in Nat /\ Len(boots) <= Len(boots')
  <2>1. CASE bootstrap
    <3>1. boots' = Append(boots, [gen |-> g, state |-> "pending"]) /\ guest' = k
      BY <1>2, <2>1, Zenon
    <3>2. boots' \in Seq(Boot) /\ Len(boots') = Len(boots) + 1
      BY <1>1, <1>3, <3>1, BootAdded, Zenon DEF Typed, Bootstraps
    <3> QED
      BY <1>1, <3>1, <3>2 DEF Bootstraps
  <2>2. CASE ~bootstrap
    BY <1>1, <1>2, <2>2 DEF Typed, Bootstraps
  <2> QED
    BY <2>1, <2>2, Zenon
<1>5. /\ r \in FlowRecord(Len(boots')) /\ r.pc = "session"
      /\ r.boot = IF c # NoIdentity THEN None ELSE guest'
  <2> DEFINE w == IF c # NoIdentity THEN None ELSE IF bootstrap THEN k ELSE guest
  <2>1. w = IF c # NoIdentity THEN None ELSE guest'
    BY <1>2, Zenon
  <2>2. w \in 0 .. Len(boots')
    BY <1>4, <2>1 DEF Bootstraps, None
  <2> DEFINE q == [NoFlow EXCEPT !.pc = "session"]
  <2>3. q \in FlowRecord(Len(boots')) /\ q.pc = "session"
    BY <1>4, NoFlowType DEF FlowRecord, FlowStages
  <2>4. r = [q EXCEPT !.boot = w]
    OBVIOUS
  <2> HIDE DEF w, r, q
  <2> QED
    BY <2>1, <2>2, <2>3, <2>4 DEF FlowRecord
<1> HIDE DEF r
<1>6. flow \in [Gens -> FlowRecord(Len(boots'))]
  <2>1. flow \in [Gens -> FlowRecord(Len(boots))]
    BY <1>1 DEF Typed, Flows
  <2> QED
    BY <1>1, <1>4, <2>1, Wider
<1>7. flow' \in [Gens -> FlowRecord(Len(boots'))] /\ \A h \in Gens : flow'[h] = IF h = g THEN r ELSE flow[h]
  BY <1>2, <1>3, <1>4, <1>5, <1>6, FlowSet
<1> QED
  BY <1>1, <1>3, <1>4, <1>5, <1>7 DEF Flows

LEMMA StartKeeps ==
    ASSUME OwnershipInv, StartConnect(cookie), ~connected, connecting = None,
           Loops', frame = "none" \/ reconn' = reconn,
           \A h \in Gens : \/ reconn'[h].pc \in {"none", reconn[h].pc}
                           \/ h = gen + 1 /\ reconn'[h].pc \in {"await", "last"},
           UNCHANGED <<socketVars, cookie, refreshed, attempt, armFor, roomKnown, wire, frame,
                       refusals, listenersConnect>>,
           signer' \in Identities, auto' \subseteq Gens, told' \in BOOLEAN
    PROVE  OwnershipInv'
<1>1. Typed /\ cookie \in Identities
  BY TypeParts DEF OwnershipInv, Typed, Numbers
<1>2. /\ closing' = FALSE /\ timer' = None /\ gen' = gen + 1 /\ connecting' = gen + 1
      /\ guestMode' \in BOOLEAN
  BY <1>1, Zenon DEF StartConnect, Typed, Flags
<1>3. /\ gen + 1 \in Gens /\ Bootstraps' /\ Flows'
      /\ \A h \in Gens : flow'[h].pc = IF h = gen + 1 THEN "session" ELSE flow[h].pc
  BY <1>1, StartStages
<1>4. Flags'
  BY <1>1, <1>2, Zenon DEF Typed, Flags, socketVars
<1>5. Numbers'
  <2>1. gen' \in Nat /\ connecting' \in 0 .. MaxGen /\ timer' \in Nat
    BY <1>1, <1>2, <1>3, ClientAssumption DEF Typed, Numbers, None, Gens
  <2> QED
    BY <1>1, <1>2, <2>1, Zenon DEF Typed, Numbers, socketVars
<1>6. TypeOK'
  BY <1>3, <1>4, <1>5, TypePartsNext DEF Typed
<1>7. \A h \in Gens : flow[h].pc # "opening"
  BY DEF OwnershipInv, FlowsOwned, None, Under, FlowStages, Settled, Gens
<1>8. FlowsOwned'
  BY <1>1, <1>2, <1>3, <1>7 DEF OwnershipInv, Typed, Numbers, FlowsOwned, Under, FlowStages, Settled, None, Gens, socketVars
<1>9. SocketsOwned'
  BY <1>1, <1>2, <1>3, <1>7 DEF OwnershipInv, Typed, Numbers, SocketsOwned, None, Gens, socketVars
<1>10. LoopsOwned'
  <2>1. flow[gen + 1].pc = "none" /\ reconn[gen + 1].pc = "none"
    BY <1>1, <1>3 DEF OwnershipInv, FlowsOwned, LoopsOwned, Typed, Numbers
  <2>2. /\ \A g \in Gens : reconn'[g].pc # "none" => flow'[g].pc # "none"
        /\ \A g \in Gens : reconn'[g].pc \in {"session", "creating"} => flow'[g].pc = "refused"
    BY <1>3, <2>1 DEF OwnershipInv, LoopsOwned
  <2> QED
    BY <1>2, <1>3, <2>1, <2>2 DEF LoopsOwned, None
<1> QED
  BY <1>6, <1>8, <1>9, <1>10 DEF OwnershipInv

(* The #reconnect() records stay what they are while a bootstrap is added. *)
LEMMA LoopsWiden ==
    ASSUME OwnershipInv, NEW c \in Identities, StartConnect(c)
    PROVE  reconn \in [Gens -> LoopRecord(Len(boots'))] /\ Len(boots') \in Nat
<1>1. reconn \in [Gens -> LoopRecord(Len(boots))]
  BY TypeParts DEF OwnershipInv, Typed, Loops
<1> QED
  BY <1>1, StartStages, Wider

LEMMA ConnectKeeps ==
    ASSUME OwnershipInv, Connect
    PROVE  OwnershipInv'
<1>1. Typed /\ cookie \in Identities
  BY TypeParts DEF OwnershipInv, Typed, Numbers
<1>2. /\ ~connected /\ connecting = None /\ StartConnect(cookie) /\ told' = TRUE
      /\ UNCHANGED <<socketVars, cookie, signer, refreshed, attempt, armFor, roomKnown, wire,
                     reconn, frame, auto, refusals, listenersConnect>>
  BY Zenon DEF Connect
<1>3. Loops'
  BY <1>1, <1>2, LoopsWiden, Zenon DEF Loops
<1>4. signer' \in Identities /\ auto' \subseteq Gens /\ told' \in BOOLEAN
  BY <1>1, <1>2, Zenon DEF Typed, Numbers
<1>5. \A h \in Gens : \/ reconn'[h].pc \in {"none", reconn[h].pc}
                      \/ h = gen + 1 /\ reconn'[h].pc \in {"await", "last"}
  BY <1>2, Zenon
<1>6. /\ frame = "none" \/ reconn' = reconn
      /\ UNCHANGED <<socketVars, cookie, refreshed, attempt, armFor, roomKnown, wire, frame,
                     refusals, listenersConnect>>
  BY <1>2, Zenon
<1> QED
  BY <1>2, <1>3, <1>4, <1>5, <1>6, StartKeeps, Zenon

LEMMA TimerFiresKeeps ==
    ASSUME OwnershipInv, TimerFires
    PROVE  OwnershipInv'
<1>1. Typed /\ cookie \in Identities /\ Len(boots) \in Nat
  BY TypeParts DEF OwnershipInv, Typed, Numbers, Bootstraps
<1>2. /\ timer # None /\ frame = "none"
      /\ UNCHANGED <<socketVars, cookie, signer, refreshed, attempt, armFor, roomKnown,
                     wire, frame, refusals, told, listenersConnect>>
  BY Zenon DEF TimerFires, Quiet
<1>3. CASE /\ timer' = None /\ UNCHANGED <<ownerVars, guest, guestMode, flow, boots, auto>>
           /\ \/ reconn' = reconn
              \/ connecting # None /\ reconn' = [reconn EXCEPT ![connecting].pc = "await"]
  <2>1. Loops' /\ \A h \in Gens : \/ reconn'[h].pc = reconn[h].pc
                                  \/ connecting = h /\ reconn'[h].pc = "await"
    <3>1. CASE reconn' = reconn
      BY <1>1, <1>3, <3>1, Zenon DEF Typed, Loops
    <3>2. CASE connecting # None /\ reconn' = [reconn EXCEPT ![connecting].pc = "await"]
      <4>1. connecting \in Gens
        BY <3>2 DEF OwnershipInv, FlowsOwned
      <4>2. "await" \in LoopStages /\ reconn \in [Gens -> LoopRecord(Len(boots))]
        BY <1>1 DEF Typed, Loops, LoopStages
      <4>3. /\ reconn' \in [Gens -> LoopRecord(Len(boots))]
            /\ \A h \in Gens : reconn'[h].pc = IF h = connecting THEN "await" ELSE reconn[h].pc
        BY <1>1, <3>2, <4>1, <4>2, LoopMoves, Zenon
      <4> QED
        BY <1>3, <4>3, Zenon DEF Loops
    <3> QED
      BY <1>3, <3>1, <3>2, Zenon
  <2>2. Flags' /\ Bootstraps' /\ Flows'
    BY <1>1, <1>2, <1>3, Zenon DEF Typed, Flags, Bootstraps, Flows, ownerVars, socketVars
  <2>3. timer' \in Nat
    BY <1>3 DEF None
  <2>4. Numbers'
    BY <1>1, <1>2, <1>3, <2>3, Zenon DEF Typed, Numbers, ownerVars, socketVars
  <2>5. TypeOK'
    BY <2>1, <2>2, <2>4, TypePartsNext DEF Typed
  <2>6. FlowsOwned'
    BY <1>2, <1>3, Zenon DEF OwnershipInv, FlowsOwned, ownerVars, socketVars
  <2>7. SocketsOwned'
    BY <1>2, <1>3, Zenon DEF OwnershipInv, SocketsOwned, ownerVars, socketVars
  <2>8. \A h \in Gens : connecting = h => flow[h].pc \in Under
    BY DEF OwnershipInv, FlowsOwned, None, Gens
  <2>9. LoopsOwned'
    BY <1>2, <1>3, <2>1, <2>8 DEF OwnershipInv, LoopsOwned, ownerVars, Under, FlowStages, Settled
  <2> QED
    BY <2>5, <2>6, <2>7, <2>9 DEF OwnershipInv
<1>4. CASE /\ ~connected /\ connecting = None /\ StartConnect(cookie)
           /\ reconn' = [reconn EXCEPT ![gen + 1].pc = "await"] /\ auto' = auto \cup {gen + 1}
  <2>1. gen + 1 \in Gens
    BY <1>1, <1>4, StartStages
  <2>2. /\ reconn' \in [Gens -> LoopRecord(Len(boots'))]
        /\ \A h \in Gens : reconn'[h].pc = IF h = gen + 1 THEN "await" ELSE reconn[h].pc
    <3>1. "await" \in LoopStages /\ reconn \in [Gens -> LoopRecord(Len(boots'))] /\ Len(boots') \in Nat
      BY <1>1, <1>4, LoopsWiden DEF LoopStages
    <3> QED
      BY <1>4, <2>1, <3>1, LoopMoves, Zenon
  <2>3. \A h \in Gens : \/ reconn'[h].pc \in {"none", reconn[h].pc}
                        \/ h = gen + 1 /\ reconn'[h].pc \in {"await", "last"}
    BY <2>2, Zenon
  <2>4. Loops' /\ auto' \subseteq Gens /\ signer' \in Identities /\ told' \in BOOLEAN
    BY <1>1, <1>2, <1>4, <2>1, <2>2, Zenon DEF Loops, Typed, Flags, Numbers
  <2>5. UNCHANGED <<socketVars, cookie, refreshed, attempt, armFor, roomKnown, wire, frame,
                    refusals, listenersConnect>>
    BY <1>2, Zenon
  <2>6. frame = "none" \/ reconn' = reconn
    BY <1>2
  <2> QED
    BY <1>4, <2>3, <2>4, <2>5, <2>6, StartKeeps, Zenon
<1> QED
  BY <1>3, <1>4, Zenon DEF TimerFires

--------------------------------------------------------------------------------
(* #reconnect() *)

LEMMA LoopKeeps ==
    ASSUME OwnershipInv, NEW g \in Gens, reconn[g].pc # "none",
           Bootstraps', Flows', Loops',
           \A h \in Gens : h # g => reconn'[h].pc = reconn[h].pc,
           reconn'[g].pc = "none" \/ (reconn'[g].pc \in {"session", "creating"} /\ flow[g].pc = "refused"),
           frame' = frame \/ (frame' = "error" /\ g = gen /\ reconn'[g].pc = "none"),
           UNCHANGED <<ownerVars, socketVars, retryVars, roomKnown, guestMode, flow, wire,
                       auto, refusals, listenersConnect>>,
           cookie' \in Identities, signer' \in Identities, refreshed' \in BOOLEAN, told' \in BOOLEAN
    PROVE  OwnershipInv'
<1>1. Typed
  BY TypeParts DEF OwnershipInv
<1>2. Flags'
  BY <1>1, Zenon DEF Typed, Flags, ownerVars, socketVars
<1>3. frame' \in {"none", "signing", "disconnected", "error", "reconnecting"}
  BY <1>1, Zenon DEF Typed, Numbers
<1>4. Numbers'
  BY <1>1, <1>3, Zenon DEF Typed, Numbers, ownerVars, socketVars, retryVars
<1>5. TypeOK'
  BY <1>2, <1>4, TypePartsNext DEF Typed
<1>6. FlowsOwned'
  BY Zenon DEF OwnershipInv, FlowsOwned, ownerVars, socketVars
<1>7. SocketsOwned'
  BY Zenon DEF OwnershipInv, SocketsOwned, ownerVars, socketVars, retryVars
<1>8. gen' = gen /\ timer' = timer /\ flow' = flow
  BY Zenon DEF ownerVars, retryVars
<1>9. LoopsOwned'
  BY <1>8 DEF OwnershipInv, LoopsOwned
<1> QED
  BY <1>5, <1>6, <1>7, <1>9 DEF OwnershipInv

(* #reconnect() of generation g ends. *)
LEMMA LoopEnds ==
    ASSUME OwnershipInv, NEW g \in Gens, reconn[g].pc # "none",
           reconn' = [reconn EXCEPT ![g] = NoFlow],
           frame' = frame \/ (frame' = "error" /\ g = gen),
           UNCHANGED <<ownerVars, socketVars, identityVars, retryVars, roomKnown, flow, wire,
                       boots, auto, refusals, listenersConnect>>,
           told' \in BOOLEAN
    PROVE  OwnershipInv'
<1>1. Typed /\ Len(boots) \in Nat
  BY TypeParts DEF OwnershipInv, Typed, Bootstraps
<1>2. NoFlow \in LoopRecord(Len(boots)) /\ NoFlow.pc = "none"
  BY <1>1, NoFlowType
<1>3. /\ reconn' \in [Gens -> LoopRecord(Len(boots))]
      /\ \A h \in Gens : reconn'[h] = IF h = g THEN NoFlow ELSE reconn[h]
  BY <1>1, <1>2, LoopSet DEF Typed, Loops
<1>4. /\ Bootstraps' /\ Flows' /\ Loops' /\ cookie' \in Identities /\ signer' \in Identities
      /\ refreshed' \in BOOLEAN
  BY <1>1, <1>3, Zenon DEF Typed, Bootstraps, Flows, Loops, Flags, Numbers, identityVars
<1>5. reconn'[g].pc = "none" /\ \A h \in Gens : h # g => reconn'[h].pc = reconn[h].pc
  BY <1>2, <1>3
<1>6. UNCHANGED <<ownerVars, socketVars, retryVars, roomKnown, guestMode, flow, wire,
                  auto, refusals, listenersConnect>>
  BY Zenon DEF identityVars
<1> QED
  BY <1>4, <1>5, <1>6, LoopKeeps, Zenon

LEMMA ReconnectReturnsKeeps ==
    ASSUME OwnershipInv, NEW g \in Gens, ReconnectReturns(g)
    PROVE  OwnershipInv'
<1>1. Typed
  BY TypeParts DEF OwnershipInv
<1>2. reconn[g].pc # "none" /\ told' \in BOOLEAN /\ frame' = frame
  BY <1>1 DEF ReconnectReturns, Typed, Flags, historyVars
<1> QED
  BY <1>2, LoopEnds, Zenon DEF ReconnectReturns, historyVars

LEMMA ReconnectFailsKeeps ==
    ASSUME OwnershipInv, NEW g \in Gens, ReconnectFails(g)
    PROVE  OwnershipInv'
<1>1. Typed
  BY TypeParts DEF OwnershipInv
<1>2. reconn[g].pc # "none" /\ told' \in BOOLEAN /\ frame' = "error" /\ g = gen
  BY <1>1 DEF ReconnectFails, Typed, Flags, historyVars, Stale
<1> QED
  BY <1>2, LoopEnds, Zenon DEF ReconnectFails, historyVars

LEMMA ReconnectRefusedKeeps ==
    ASSUME OwnershipInv, NEW g \in Gens, ReconnectRefused(g)
    PROVE  OwnershipInv'
<1>1. reconn[g].pc # "none" /\ frame' = frame
  BY DEF ReconnectRefused
<1>2. told' \in BOOLEAN
  BY Zenon DEF ReconnectRefused
<1> QED
  BY <1>1, <1>2, LoopEnds, Zenon DEF ReconnectRefused

LEMMA LastAttemptReturnsKeeps ==
    ASSUME OwnershipInv, NEW g \in Gens, LastAttemptReturns(g)
    PROVE  OwnershipInv'
<1>1. reconn[g].pc # "none" /\ frame' = frame
  BY DEF LastAttemptReturns
<1>2. told' \in BOOLEAN
  BY Zenon DEF LastAttemptReturns
<1> QED
  BY <1>1, <1>2, LoopEnds, Zenon DEF LastAttemptReturns

LEMMA RefreshEndsKeeps ==
    ASSUME OwnershipInv, NEW g \in Gens, RefreshEnds(g)
    PROVE  OwnershipInv'
<1>1. reconn[g].pc # "none" /\ frame' = frame
  BY DEF RefreshEnds
<1>2. told' \in BOOLEAN
  BY Zenon DEF RefreshEnds
<1> QED
  BY <1>1, <1>2, LoopEnds, Zenon DEF RefreshEnds

LEMMA RefreshGuestSessionKeeps ==
    ASSUME OwnershipInv, NEW g \in Gens, RefreshGuestSession(g)
    PROVE  OwnershipInv'
<1> DEFINE k == Len(boots) + 1
           q == [reconn[g] EXCEPT !.pc = "session"]
           r == [q EXCEPT !.boot = k]
<1>1. Typed /\ Len(boots) \in Nat
  BY TypeParts DEF OwnershipInv, Typed, Bootstraps
<1>2. /\ reconn[g].pc = "await" /\ flow[g].pc = "refused" /\ refreshed' = TRUE
      /\ cookie' = NoIdentity /\ signer' = NoIdentity /\ guest' = k /\ frame' = frame
      /\ boots' = Append(boots, [gen |-> g, state |-> "pending"])
      /\ reconn' = [reconn EXCEPT ![g].pc = "session", ![g].boot = k]
      /\ UNCHANGED <<ownerVars, socketVars, guestMode, retryVars, roomKnown, flow, wire, historyVars>>
  BY Zenon DEF RefreshGuestSession
<1>3. boots' \in Seq(Boot) /\ Len(boots') = Len(boots) + 1
  BY <1>1, <1>2, BootAdded DEF Typed, Bootstraps
<1>4. Bootstraps' /\ Len(boots') \in Nat /\ Len(boots) <= Len(boots') /\ k \in 0 .. Len(boots')
  BY <1>1, <1>2, <1>3 DEF Bootstraps
<1>5. /\ flow \in [Gens -> FlowRecord(Len(boots'))] /\ reconn \in [Gens -> LoopRecord(Len(boots'))]
      /\ reconn[g] \in LoopRecord(Len(boots'))
  <2>1. flow \in [Gens -> FlowRecord(Len(boots))] /\ reconn \in [Gens -> LoopRecord(Len(boots))]
    BY <1>1 DEF Typed, Flows, Loops
  <2>2. flow \in [Gens -> FlowRecord(Len(boots'))] /\ reconn \in [Gens -> LoopRecord(Len(boots'))]
    BY <1>1, <1>4, <2>1, Wider
  <2> QED
    BY <2>2
<1>6. reconn' = [reconn EXCEPT ![g] = r]
  BY <1>2
<1>7. q \in LoopRecord(Len(boots')) /\ q.pc = "session"
  BY <1>5 DEF LoopRecord, LoopStages
<1> HIDE DEF q, k
<1>8. r \in LoopRecord(Len(boots')) /\ r.pc = "session"
  BY <1>4, <1>7 DEF LoopRecord
<1> HIDE DEF r
<1>9. /\ reconn' \in [Gens -> LoopRecord(Len(boots'))]
      /\ \A h \in Gens : reconn'[h] = IF h = g THEN r ELSE reconn[h]
  BY <1>4, <1>5, <1>6, <1>8, LoopSet
<1>10. Flows' /\ Loops' /\ refreshed' \in BOOLEAN /\ told' \in BOOLEAN
  BY <1>1, <1>2, <1>5, <1>9, Zenon DEF Flows, Loops, Typed, Flags, historyVars
<1>11. cookie' \in Identities /\ signer' \in Identities
  BY <1>2 DEF NoIdentity, Identities
<1>12. /\ \A h \in Gens : h # g => reconn'[h].pc = reconn[h].pc
       /\ reconn'[g].pc \in {"session", "creating"} /\ reconn[g].pc # "none"
  BY <1>2, <1>8, <1>9
<1>13. UNCHANGED <<ownerVars, socketVars, retryVars, roomKnown, guestMode, flow, wire,
                   auto, refusals, listenersConnect>>
  BY <1>2, Zenon DEF historyVars
<1> QED
  BY <1>2, <1>4, <1>10, <1>11, <1>12, <1>13, LoopKeeps, Zenon

LEMMA RefreshSessionKeeps ==
    ASSUME OwnershipInv, NEW g \in Gens, RefreshSession(g)
    PROVE  OwnershipInv'
<1> DEFINE b == reconn[g].boot
           q == [NoFlow EXCEPT !.pc = "creating"]
           c == [q EXCEPT !.identity = cookie]
           r == IF boots[b].state = "stored" THEN c ELSE NoFlow
<1>1. Typed /\ Len(boots) \in Nat /\ cookie \in Identities
  BY TypeParts DEF OwnershipInv, Typed, Bootstraps, Numbers
<1>2. /\ reconn[g].pc = "session" /\ frame' = frame
      /\ reconn' = [reconn EXCEPT ![g] = IF boots[b].state = "stored"
                                         THEN [NoFlow EXCEPT !.pc = "creating", !.identity = cookie]
                                         ELSE NoFlow]
      /\ UNCHANGED <<ownerVars, socketVars, identityVars, retryVars, roomKnown, flow,
                     wire, boots, auto, refusals, listenersConnect>>
  BY Zenon DEF RefreshSession
<1>3. told' \in BOOLEAN
  BY <1>1, Zenon DEF RefreshSession, Typed, Flags
<1>4. reconn' = [reconn EXCEPT ![g] = r]
  BY <1>2
<1>5. q \in LoopRecord(Len(boots)) /\ q.pc = "creating"
  BY <1>1, NoFlowType DEF LoopRecord, LoopStages
<1> HIDE DEF q
<1>6. c \in LoopRecord(Len(boots)) /\ c.pc = "creating"
  BY <1>1, <1>5 DEF LoopRecord
<1> HIDE DEF c
<1>7. r \in LoopRecord(Len(boots)) /\ r.pc \in {"none", "creating"}
  BY <1>1, <1>6, NoFlowType
<1> HIDE DEF r
<1>8. /\ reconn' \in [Gens -> LoopRecord(Len(boots))]
      /\ \A h \in Gens : reconn'[h] = IF h = g THEN r ELSE reconn[h]
  BY <1>1, <1>4, <1>7, LoopSet DEF Typed, Loops
<1>9. /\ Bootstraps' /\ Flows' /\ Loops' /\ cookie' \in Identities /\ signer' \in Identities
      /\ refreshed' \in BOOLEAN
  BY <1>1, <1>2, <1>8, Zenon DEF Typed, Bootstraps, Flows, Loops, Flags, Numbers, identityVars
<1>10. /\ \A h \in Gens : h # g => reconn'[h].pc = reconn[h].pc
       /\ reconn'[g].pc \in {"none", "creating"} /\ reconn[g].pc # "none"
  BY <1>2, <1>7, <1>8
<1>11. reconn'[g].pc = "none" \/ (reconn'[g].pc \in {"session", "creating"} /\ flow[g].pc = "refused")
  BY <1>2, <1>10 DEF OwnershipInv, LoopsOwned
<1>12. UNCHANGED <<ownerVars, socketVars, retryVars, roomKnown, guestMode, flow, wire,
                   auto, refusals, listenersConnect>>
  BY <1>2, Zenon DEF identityVars
<1> QED
  BY <1>2, <1>3, <1>9, <1>10, <1>11, <1>12, LoopKeeps, Zenon

LEMMA RefreshedConnectKeeps ==
    ASSUME OwnershipInv, NEW g \in Gens, RefreshedConnect(g)
    PROVE  OwnershipInv'
<1>1. Typed /\ cookie \in Identities
  BY TypeParts DEF OwnershipInv, Typed, Numbers
<1>2. /\ reconn[g].pc = "creating" /\ ~Stale(g) /\ StartConnect(cookie) /\ frame = "none"
      /\ signer' = IF signer = NoIdentity THEN reconn[g].identity ELSE signer
      /\ reconn' = [reconn EXCEPT ![g] = NoFlow, ![gen + 1].pc = "last"]
      /\ auto' = auto \cup {gen + 1}
      /\ UNCHANGED <<socketVars, cookie, refreshed, attempt, armFor, roomKnown, wire, frame,
                     refusals, told, listenersConnect>>
  BY Zenon DEF RefreshedConnect, Quiet
<1>3. g = gen /\ g # gen + 1 /\ flow[gen].pc = "refused" /\ ~connected /\ connecting = None
  BY <1>1, <1>2 DEF Stale, OwnershipInv, LoopsOwned, FlowsOwned, SocketsOwned, Under, Settled,
     FlowStages, Typed, Numbers
<1>4. gen + 1 \in Gens
  BY <1>1, <1>2, StartStages
<1>5. reconn \in [Gens -> LoopRecord(Len(boots'))] /\ Len(boots') \in Nat
  BY <1>1, <1>2, LoopsWiden
<1> DEFINE r == [reconn[gen + 1] EXCEPT !.pc = "last"]
<1>6. r \in LoopRecord(Len(boots')) /\ r.pc = "last"
  BY <1>4, <1>5 DEF LoopRecord, LoopStages
<1>7. NoFlow \in LoopRecord(Len(boots')) /\ NoFlow.pc = "none"
  BY <1>5, NoFlowType
<1>8. reconn' = [[reconn EXCEPT ![g] = NoFlow] EXCEPT ![gen + 1] = r]
  BY <1>2, <1>3, <1>4, <1>5
<1> HIDE DEF r
<1>9. /\ reconn' \in [Gens -> LoopRecord(Len(boots'))]
      /\ \A h \in Gens : reconn'[h] = IF h = gen + 1 THEN r ELSE IF h = g THEN NoFlow ELSE reconn[h]
  BY <1>4, <1>5, <1>6, <1>7, <1>8
<1>10. \A h \in Gens : \/ reconn'[h].pc \in {"none", reconn[h].pc}
                       \/ h = gen + 1 /\ reconn'[h].pc \in {"await", "last"}
  BY <1>6, <1>7, <1>9
<1>11. Loops' /\ auto' \subseteq Gens /\ told' \in BOOLEAN
  BY <1>1, <1>2, <1>4, <1>9, Zenon DEF Loops, Typed, Flags, Numbers
<1>12. reconn[g].identity \in Identities
  BY <1>5 DEF LoopRecord
<1>13. signer' \in Identities
  BY <1>1, <1>2, <1>12, Zenon DEF Typed, Numbers
<1>14. frame = "none" \/ reconn' = reconn
  BY <1>2
<1>15. UNCHANGED <<socketVars, cookie, refreshed, attempt, armFor, roomKnown, wire, frame,
                   refusals, listenersConnect>>
  BY <1>2, Zenon
<1> QED
  BY <1>2, <1>3, <1>10, <1>11, <1>13, <1>14, <1>15, StartKeeps, Zenon

LEMMA BootstrapKeeps ==
    ASSUME OwnershipInv, NEW b \in DOMAIN boots, NEW ok \in BOOLEAN, Bootstrap(b, ok)
    PROVE  OwnershipInv'
<1> DEFINE kept == ok /\ ~Stale(boots[b].gen)
           s == IF kept THEN "stored" ELSE IF ok THEN "cancelled" ELSE "error"
<1>1. Typed
  BY TypeParts DEF OwnershipInv
<1>2. /\ boots' = [boots EXCEPT ![b].state = s]
      /\ cookie' = IF kept THEN b ELSE cookie
      /\ guest' = IF ~kept /\ guest = b THEN None ELSE guest
      /\ UNCHANGED <<ownerVars, socketVars, signer, guestMode, refreshed, retryVars,
                     roomKnown, flow, wire, reconn, frame, historyVars>>
  BY Zenon DEF Bootstrap
<1>3. s \in {"stored", "cancelled", "error"}
  OBVIOUS
<1> HIDE DEF s
<1>4. boots' \in Seq(Boot) /\ Len(boots) \in Nat /\ Len(boots') = Len(boots) /\ DOMAIN boots = 1 .. Len(boots)
  BY <1>1, <1>2, <1>3, BootSettles DEF Typed, Bootstraps
<1>5. Bootstraps'
  BY <1>1, <1>2, <1>4 DEF Typed, Bootstraps, None
<1>6. Flags' /\ Flows' /\ Loops'
  BY <1>1, <1>2, <1>4, Zenon DEF Typed, Flags, Flows, Loops, ownerVars, socketVars, historyVars
<1>7. cookie' \in Identities
  BY <1>1, <1>2, <1>4 DEF Typed, Numbers, Identities
<1>8. Numbers'
  BY <1>1, <1>2, <1>7, Zenon DEF Typed, Numbers, ownerVars, socketVars, retryVars, historyVars
<1>9. TypeOK'
  BY <1>5, <1>6, <1>8, TypePartsNext DEF Typed
<1>10. FlowsOwned' /\ SocketsOwned' /\ LoopsOwned'
  BY <1>2, Zenon DEF OwnershipInv, FlowsOwned, SocketsOwned, LoopsOwned, ownerVars, socketVars, retryVars
<1> QED
  BY <1>9, <1>10 DEF OwnershipInv

LEMMA ScheduleReconnectKeeps ==
    ASSUME OwnershipInv, ScheduleReconnect
    PROVE  OwnershipInv'
<1>1. Typed
  BY TypeParts DEF OwnershipInv
<1>2. /\ frame \in {"disconnected", "error"} /\ frame' \in {"none", "reconnecting"}
      /\ \/ UNCHANGED <<attempt, armFor>>
         \/ ~(attempt >= Attempts) /\ attempt' = attempt + 1 /\ armFor' = gen
      /\ UNCHANGED <<ownerVars, socketVars, identityVars, timer, roomKnown, flow, wire,
                     boots, reconn, auto, refusals, listenersConnect>>
  BY Zenon DEF ScheduleReconnect
<1>3. told' \in BOOLEAN
  BY <1>1, Zenon DEF ScheduleReconnect, Typed, Flags
<1>4. Flags' /\ Bootstraps' /\ Flows' /\ Loops'
  BY <1>1, <1>2, <1>3, Zenon DEF Typed, Flags, Bootstraps, Flows, Loops, ownerVars, socketVars, identityVars
<1>5. attempt' \in 0 .. Attempts /\ armFor' \in Nat
  BY <1>1, <1>2, ClientAssumption DEF Typed, Numbers
<1>6. Numbers'
  BY <1>1, <1>2, <1>5, Zenon DEF Typed, Numbers, ownerVars, socketVars, identityVars
<1>7. TypeOK'
  BY <1>4, <1>6, TypePartsNext DEF Typed
<1>8. FlowsOwned' /\ SocketsOwned'
  BY <1>2, Zenon DEF OwnershipInv, FlowsOwned, SocketsOwned, ownerVars, socketVars
<1>9. LoopsOwned'
  BY <1>2, Zenon DEF OwnershipInv, LoopsOwned, ownerVars
<1> QED
  BY <1>7, <1>8, <1>9 DEF OwnershipInv

LEMMA ArmTimerKeeps ==
    ASSUME OwnershipInv, ArmTimer
    PROVE  OwnershipInv'
<1>1. Typed
  BY TypeParts DEF OwnershipInv
<1>2. /\ frame = "reconnecting" /\ frame' = "none" /\ armFor' = 0
      /\ \/ timer' = timer
         \/ ~closing /\ armFor = gen /\ timer' = armFor
      /\ UNCHANGED <<ownerVars, socketVars, identityVars, attempt, roomKnown, flow, wire,
                     boots, reconn, historyVars>>
  BY Zenon DEF ArmTimer, Stale
<1>3. Flags' /\ Bootstraps' /\ Flows' /\ Loops'
  BY <1>1, <1>2, Zenon DEF Typed, Flags, Bootstraps, Flows, Loops, ownerVars, socketVars, identityVars, historyVars
<1>4. armFor' \in Nat /\ timer' \in Nat
  BY <1>1, <1>2 DEF Typed, Numbers
<1>5. Numbers'
  BY <1>1, <1>2, <1>4, Zenon DEF Typed, Numbers, ownerVars, socketVars, identityVars, historyVars
<1>6. TypeOK'
  BY <1>3, <1>5, TypePartsNext DEF Typed
<1>7. FlowsOwned'
  BY <1>2, Zenon DEF OwnershipInv, FlowsOwned, ownerVars, socketVars
<1>8. SocketsOwned'
  BY <1>2, Zenon DEF OwnershipInv, SocketsOwned, ownerVars, socketVars
<1>9. LoopsOwned'
  BY <1>2, Zenon DEF OwnershipInv, LoopsOwned, ownerVars
<1> QED
  BY <1>6, <1>7, <1>8, <1>9 DEF OwnershipInv

--------------------------------------------------------------------------------
(* What the client owns *)

LEMMA OwnershipInit == Init => OwnershipInv
<1> SUFFICES ASSUME Init PROVE OwnershipInv
  OBVIOUS
<1>1. boots = <<>> /\ Len(boots) = 0
  BY DEF Init
<1>2. NoFlow \in FlowRecord(0) /\ NoFlow \in LoopRecord(0) /\ NoFlow.pc = "none"
  BY NoFlowType
<1>3. Flows /\ Loops /\ Bootstraps
  BY <1>1, <1>2 DEF Init, Flows, Loops, Bootstraps, None
<1>4. Flags
  BY ClientAssumption, Zenon DEF Init, Flags
<1>5. Numbers
  BY ClientAssumption DEF Init, Numbers, None, NoIdentity, SuppliedIdentity, Identities
<1>6. TypeOK
  BY <1>3, <1>4, <1>5, TypeParts DEF Typed
<1>7. \A g \in Gens : flow[g].pc = "none" /\ reconn[g].pc = "none" /\ wire[g] = "none"
  BY <1>2 DEF Init
<1>8. FlowsOwned /\ SocketsOwned /\ LoopsOwned
  BY <1>7 DEF Init, FlowsOwned, SocketsOwned, LoopsOwned, None, Under
<1> QED
  BY <1>6, <1>8 DEF OwnershipInv

LEMMA OwnershipNext == OwnershipInv /\ [Next]_vars => OwnershipInv'
<1> SUFFICES ASSUME OwnershipInv, [Next]_vars PROVE OwnershipInv'
  OBVIOUS
<1>1. CASE UNCHANGED vars
  <2>1. TypeOK'
    BY <1>1, ZenonT(30) DEF vars, ownerVars, socketVars, identityVars, retryVars, historyVars, OwnershipInv, TypeOK
  <2>2. FlowsOwned'
    BY <1>1, Zenon DEF vars, ownerVars, socketVars, OwnershipInv, FlowsOwned
  <2>3. SocketsOwned'
    BY <1>1, Zenon DEF vars, ownerVars, socketVars, retryVars, OwnershipInv, SocketsOwned
  <2>4. LoopsOwned'
    BY <1>1, Zenon DEF vars, ownerVars, retryVars, OwnershipInv, LoopsOwned
  <2> QED
    BY <2>1, <2>2, <2>3, <2>4 DEF OwnershipInv
<1>2. CASE \E b \in DOMAIN boots, ok \in BOOLEAN : Bootstrap(b, ok)
  BY <1>2, BootstrapKeeps
<1>3. ASSUME NEW g \in Gens,
             \/ SessionReady(g) \/ (\E live \in BOOLEAN : RoomLookup(g, live)) \/ Metadata(g)
             \/ CreateSigner(g) \/ SignerReady(g) \/ SignerFails(g) \/ OpenThrows(g) \/ Open(g)
      PROVE  OwnershipInv'
  BY <1>3, SessionReadyKeeps, RoomLookupKeeps, MetadataKeeps, CreateSignerKeeps, SignerReadyKeeps,
     SignerFailsKeeps, OpenThrowsKeeps, OpenKeeps
<1>4. ASSUME NEW g \in Gens,
             \/ SocketOpens(g) \/ EnterRoomFails(g) \/ OpenTimeout(g) \/ StaleSocketCloses(g)
             \/ (\E cause \in {"refusal", "network"} : HandshakeFails(g, cause)) \/ SocketCloses(g)
      PROVE  OwnershipInv'
  BY <1>4, SocketOpensKeeps, EnterRoomFailsKeeps, OpenTimeoutKeeps, StaleSocketClosesKeeps,
     HandshakeFailsKeeps, SocketClosesKeeps
<1>5. ASSUME NEW g \in Gens,
             \/ ReconnectReturns(g) \/ ReconnectFails(g) \/ ReconnectRefused(g) \/ RefreshGuestSession(g)
             \/ RefreshSession(g) \/ RefreshedConnect(g) \/ RefreshEnds(g) \/ LastAttemptReturns(g)
      PROVE  OwnershipInv'
  BY <1>5, ReconnectReturnsKeeps, ReconnectFailsKeeps, ReconnectRefusedKeeps, RefreshGuestSessionKeeps,
     RefreshSessionKeeps, RefreshedConnectKeeps, RefreshEndsKeeps, LastAttemptReturnsKeeps
<1>6. CASE ScheduleReconnect \/ ArmTimer \/ TimerFires \/ Connect \/ Disconnect \/ WriteOverflows
  BY <1>6, ScheduleReconnectKeeps, ArmTimerKeeps, TimerFiresKeeps, ConnectKeeps, DisconnectKeeps,
     WriteOverflowsKeeps
<1> QED
  BY <1>1, <1>2, <1>3, <1>4, <1>5, <1>6, Zenon DEF Next, Progress

LEMMA OwnershipInvImplies == OwnershipInv => Ownership
<1> SUFFICES ASSUME OwnershipInv PROVE Ownership
  OBVIOUS
<1>1. Typed
  BY TypeParts DEF OwnershipInv
<1>2. NoLeakedSocket
  BY DEF OwnershipInv, FlowsOwned, SocketsOwned, NoLeakedSocket
<1>3. ConnectedIsReal
  BY DEF OwnershipInv, SocketsOwned, ConnectedIsReal
<1>4. ClosedIsQuiet
  BY DEF OwnershipInv, FlowsOwned, SocketsOwned, ClosedIsQuiet
<1>5. Budget
  BY <1>1, ClientAssumption DEF OwnershipInv, LoopsOwned, Budget, Typed, Numbers
<1> QED
  BY <1>2, <1>3, <1>4, <1>5 DEF OwnershipInv, Ownership

(* The inductive invariant: a flow under way is the one connect() shares,  *)
(* an opening flow holds the client's one socket, a connection that is up  *)
(* is the current generation's, and no timer is armed while a #reconnect() *)
(* of that generation is alive.                                            *)
THEOREM OwnershipInvHolds == Spec => []OwnershipInv
<1> QED
  BY OwnershipInit, OwnershipNext, PTL DEF Spec

(* Whatever listeners, timers, user calls and late answers do, in any      *)
(* order: no socket leaks, connected is true of the socket, a closed       *)
(* client is quiet, and one loop at most retries.                          *)
THEOREM OwnershipHolds == Spec => []Ownership
<1> QED
  BY OwnershipInvHolds, OwnershipInvImplies, PTL

--------------------------------------------------------------------------------
(* Whose signer it is *)

(* Time passes: the generation stays, or the client closes. *)
SameOrClosed == gen' \in Nat /\ gen <= gen' /\ (closing' = TRUE \/ UNCHANGED <<closing, gen>>)

(* Nobody stops waiting for a pending bootstrap, and who starts to build a *)
(* signer builds it for the cookie.                                        *)
FlowsWait ==
    /\ \A h \in Gens : flow[h].pc = "session" /\ flow[h].boot \in DOMAIN boots /\ ~BootDone(flow[h].boot)
                          => flow'[h].pc = "session" /\ flow'[h].boot = flow[h].boot
    /\ \A h \in Gens : flow'[h].pc = "creating"
                          => \/ flow[h].pc = "creating" /\ flow'[h].identity = flow[h].identity
                             \/ flow'[h].identity = cookie
LoopsWait ==
    /\ \A h \in Gens : reconn[h].pc = "session" /\ reconn[h].boot \in DOMAIN boots /\ ~BootDone(reconn[h].boot)
                          => reconn'[h].pc = "session" /\ reconn'[h].boot = reconn[h].boot
    /\ \A h \in Gens : reconn'[h].pc = "creating"
                          => \/ reconn[h].pc = "creating" /\ reconn'[h].identity = reconn[h].identity
                             \/ reconn'[h].identity = cookie

LEMMA BootGen ==
    ASSUME OwnershipInv
    PROVE  \A b \in DOMAIN boots : /\ boots[b].gen \in Gens
                                   /\ boots[b].state \in {"pending", "stored", "cancelled", "error"}
<1>1. boots \in Seq(Boot)
  BY TypeParts DEF OwnershipInv, Typed, Bootstraps
<1>2. \A b \in DOMAIN boots : boots[b] \in Boot
  BY <1>1
<1> QED
  BY <1>2 DEF Boot

LEMMA IdentityKeeps ==
    ASSUME OwnershipInv, IdentityInv, UNCHANGED <<cookie, signer, boots>>, SameOrClosed, FlowsWait, LoopsWait
    PROVE  IdentityInv'
<1>1. gen \in Nat /\ \A b \in DOMAIN boots : boots[b].gen \in Gens
  BY TypeParts, BootGen DEF OwnershipInv, Typed, Numbers
<1>2. SignerMatchesIdentity'
  BY Zenon DEF IdentityInv, SignerMatchesIdentity
<1>3. \A b \in DOMAIN boots' : boots'[b].gen <= gen'
  <2>1. \A b \in DOMAIN boots : boots[b].gen <= gen /\ boots[b].gen \in Nat
    BY <1>1 DEF IdentityInv, Gens
  <2> QED
    BY <1>1, <2>1 DEF SameOrClosed
<1>4. ASSUME NEW b \in DOMAIN boots', ~BootDone(b)', ~Stale(boots[b].gen)'
      PROVE  signer' = NoIdentity /\ BootAwaited(b)'
  <2>1. ~closing /\ gen' = gen /\ boots[b].gen = gen /\ gen \in Gens
    <3>1. ~closing' /\ boots'[b].gen = gen' /\ b \in DOMAIN boots
      BY <1>4, Zenon DEF Stale
    <3>2. closing' = closing /\ gen' = gen
      BY <3>1, Zenon DEF SameOrClosed
    <3> QED
      BY <1>1, <3>1, <3>2, Zenon
  <2>2. ~BootDone(b) /\ ~Stale(boots[b].gen) /\ b \in DOMAIN boots
    BY <1>4, <2>1, Zenon DEF BootDone, Stale
  <2>3. signer = NoIdentity /\ BootAwaited(b)
    BY <2>2, Zenon DEF IdentityInv
  <2>4. CASE flow[gen].pc = "session" /\ flow[gen].boot = b
    BY <2>1, <2>2, <2>3, <2>4, Zenon DEF FlowsWait, BootAwaited
  <2>5. CASE reconn[gen].pc = "session" /\ reconn[gen].boot = b
    BY <2>1, <2>2, <2>3, <2>5, Zenon DEF LoopsWait, BootAwaited
  <2> QED
    BY <2>3, <2>4, <2>5, Zenon DEF BootAwaited
<1>5. ASSUME NEW g \in Gens, ~Stale(g)' PROVE ~Stale(g)
  BY <1>5, Zenon DEF Stale, SameOrClosed
<1>6. \A g \in Gens : flow'[g].pc = "creating" /\ ~Stale(g)' => flow'[g].identity = cookie'
  BY <1>5, Zenon DEF FlowsWait, IdentityInv
<1>7. \A g \in Gens : reconn'[g].pc = "creating" /\ ~Stale(g)' => reconn'[g].identity = cookie'
  BY <1>5, Zenon DEF LoopsWait, IdentityInv
<1>8. \A b \in DOMAIN boots' : ~BootDone(b)' /\ ~Stale(boots[b].gen)' => signer' = NoIdentity /\ BootAwaited(b)'
  BY <1>4, Zenon
<1> QED
  BY <1>2, <1>3, <1>6, <1>7, <1>8, Zenon DEF IdentityInv, Stale

(* Flows and #reconnect() calls stay as they are. *)
LEMMA IdentityIdle ==
    ASSUME OwnershipInv, IdentityInv, UNCHANGED <<cookie, signer, boots, flow, reconn>>, SameOrClosed
    PROVE  IdentityInv'
<1>1. FlowsWait /\ LoopsWait
  BY Zenon DEF FlowsWait, LoopsWait
<1> QED
  BY <1>1, IdentityKeeps, Zenon

(* A flow moves on that does not wait for a bootstrap, and starts nothing. *)
LEMMA IdentityFlow ==
    ASSUME OwnershipInv, IdentityInv, UNCHANGED <<cookie, signer, boots, reconn>>, SameOrClosed,
           NEW g \in Gens, NEW p \in FlowStages \ {"creating"}, flow' = [flow EXCEPT ![g].pc = p],
           ~(flow[g].pc = "session" /\ flow[g].boot \in DOMAIN boots /\ ~BootDone(flow[g].boot))
    PROVE  IdentityInv'
<1>1. flow \in [Gens -> FlowRecord(Len(boots))] /\ Len(boots) \in Nat
  BY TypeParts DEF OwnershipInv, Typed, Flows, Bootstraps
<1>2. /\ \A h \in Gens : flow'[h].pc = IF h = g THEN p ELSE flow[h].pc
      /\ \A h \in Gens : flow'[h].boot = flow[h].boot /\ flow'[h].identity = flow[h].identity
  BY <1>1, FlowMoves
<1>3. p # "creating"
  OBVIOUS
<1>4. FlowsWait
  BY <1>2, <1>3, Zenon DEF FlowsWait
<1>5. LoopsWait
  BY Zenon DEF LoopsWait
<1> QED
  BY <1>4, <1>5, IdentityKeeps, Zenon

(* #reconnect() of generation g ends without having waited for one. *)
LEMMA IdentityLoop ==
    ASSUME OwnershipInv, IdentityInv, UNCHANGED <<cookie, signer, boots, flow>>, SameOrClosed,
           NEW g \in Gens, reconn[g].pc # "session", reconn' = [reconn EXCEPT ![g] = NoFlow]
    PROVE  IdentityInv'
<1>1. reconn \in [Gens -> LoopRecord(Len(boots))] /\ Len(boots) \in Nat
  BY TypeParts DEF OwnershipInv, Typed, Loops, Bootstraps
<1>2. NoFlow \in LoopRecord(Len(boots)) /\ NoFlow.pc = "none"
  BY <1>1, NoFlowType
<1>3. \A h \in Gens : reconn'[h] = IF h = g THEN NoFlow ELSE reconn[h]
  BY <1>1, <1>2, LoopSet
<1>4. reconn'[g].pc # "creating"
  BY <1>2, <1>3
<1>5. LoopsWait
  BY <1>3, <1>4, Zenon DEF LoopsWait
<1>6. FlowsWait
  BY Zenon DEF FlowsWait
<1> QED
  BY <1>5, <1>6, IdentityKeeps, Zenon

LEMMA Unmoved == OwnershipInv /\ UNCHANGED <<closing, gen>> => SameOrClosed
BY TypeParts DEF OwnershipInv, Typed, Numbers, SameOrClosed

LEMMA Dropped == OwnershipInv /\ (\E n \in 1 .. 2 : Drop(n)) => SameOrClosed
BY TypeParts DEF OwnershipInv, Typed, Numbers, SameOrClosed, Drop

LEMMA IdentityFlows ==
    ASSUME OwnershipInv, IdentityInv, NEW g \in Gens,
           \/ SessionReady(g) \/ (\E live \in BOOLEAN : RoomLookup(g, live)) \/ Metadata(g)
           \/ SignerFails(g) \/ OpenThrows(g) \/ SocketOpens(g) \/ OpenTimeout(g) \/ EnterRoomFails(g)
    PROVE  IdentityInv'
<1>1. Typed
  BY TypeParts DEF OwnershipInv
<1>2. {AfterRoom, AfterInfo, "lookup", "signer", "ok", "error", "cancelled"} \subseteq FlowStages \ {"creating"}
  BY DEF AfterRoom, AfterInfo, FlowStages, Settled
<1>3. CASE SessionReady(g)
  <2> DEFINE b == flow[g].boot
  <2>1. ~(flow[g].pc = "session" /\ b \in DOMAIN boots /\ ~BootDone(b))
    BY <1>1, <1>3 DEF SessionReady, Typed, Bootstraps, None
  <2>2. UNCHANGED <<closing, gen, cookie, signer, boots, reconn>>
    BY <1>3, Zenon DEF SessionReady, identityVars
  <2>3. \E p \in FlowStages \ {"creating"} : flow' = [flow EXCEPT ![g].pc = p]
    <3>1. CASE b # None /\ boots[b].state # "stored"
      <4>1. b \in DOMAIN boots /\ boots[b].state # "pending"
        BY <1>1, <1>3, <3>1 DEF SessionReady, BootDone, Typed, Flows, Bootstraps, FlowRecord, None
      <4>2. boots[b].state \in FlowStages \ {"creating"}
        BY <3>1, <4>1, BootGen DEF FlowStages, Settled
      <4>3. flow' = [flow EXCEPT ![g].pc = boots[b].state]
        BY <1>3, <3>1, Zenon DEF SessionReady, Settle
      <4> QED
        BY <4>2, <4>3, Zenon
    <3>2. CASE ~(b # None /\ boots[b].state # "stored") /\ Stale(g)
      <4>1. flow' = [flow EXCEPT ![g].pc = "cancelled"]
        BY <1>3, <3>2, Zenon DEF SessionReady, Settle
      <4> QED
        BY <1>2, <4>1, Zenon
    <3>3. CASE ~(b # None /\ boots[b].state # "stored") /\ ~Stale(g)
      <4>1. flow' = [flow EXCEPT ![g].pc = IF roomKnown THEN AfterRoom ELSE "lookup"]
        BY <1>3, <3>3, Zenon DEF SessionReady, Advance
      <4>2. (IF roomKnown THEN AfterRoom ELSE "lookup") \in FlowStages \ {"creating"}
        BY <1>2, Zenon
      <4> QED
        BY <4>1, <4>2, Zenon
    <3> QED
      BY <3>1, <3>2, <3>3, Zenon
  <2> QED
    BY <2>1, <2>2, <2>3, Unmoved, IdentityFlow, Zenon
<1>4. CASE \E live \in BOOLEAN : RoomLookup(g, live)
  <2>1. UNCHANGED <<closing, gen, cookie, signer, boots, reconn>> /\ flow[g].pc # "session"
    BY <1>4 DEF RoomLookup, identityVars
  <2>2. \E p \in {"cancelled", "error", AfterRoom} : flow' = [flow EXCEPT ![g].pc = p]
    BY <1>4, Zenon DEF RoomLookup, Settle, Advance
  <2>3. \E p \in FlowStages \ {"creating"} : flow' = [flow EXCEPT ![g].pc = p]
    BY <1>2, <2>2, Zenon
  <2> QED
    BY <2>1, <2>3, Unmoved, IdentityFlow, Zenon
<1>5. CASE Metadata(g)
  <2>1. UNCHANGED <<closing, gen, cookie, signer, boots, reconn>> /\ flow[g].pc # "session"
    BY <1>5 DEF Metadata, identityVars
  <2>2. \/ flow' = [flow EXCEPT ![g].pc = "cancelled"]
        \/ flow' = [flow EXCEPT ![g].pc = IF flow[g].pc = "info" THEN AfterInfo ELSE "signer"]
    BY <1>5, Zenon DEF Metadata, Settle, Advance
  <2>3. (IF flow[g].pc = "info" THEN AfterInfo ELSE "signer") \in FlowStages \ {"creating"}
    BY <1>2, Zenon
  <2>4. \E p \in FlowStages \ {"creating"} : flow' = [flow EXCEPT ![g].pc = p]
    BY <1>2, <2>2, <2>3, Zenon
  <2> QED
    BY <2>1, <2>4, Unmoved, IdentityFlow, Zenon
<1>6. CASE SignerFails(g) \/ OpenThrows(g) \/ SocketOpens(g) \/ OpenTimeout(g)
  <2>1. UNCHANGED <<closing, gen, cookie, signer, boots, reconn>> /\ flow[g].pc # "session"
    BY <1>6 DEF SignerFails, OpenThrows, SocketOpens, OpenTimeout, identityVars
  <2>2. \E p \in {"ok", "error"} : flow' = [flow EXCEPT ![g].pc = p]
    BY <1>6, Zenon DEF SignerFails, OpenThrows, SocketOpens, OpenTimeout, Settle
  <2>3. \E p \in FlowStages \ {"creating"} : flow' = [flow EXCEPT ![g].pc = p]
    BY <1>2, <2>2, Zenon
  <2> QED
    BY <2>1, <2>3, Unmoved, IdentityFlow, Zenon
<1>7. CASE EnterRoomFails(g)
  <2>1. UNCHANGED <<cookie, signer, boots, reconn>> /\ flow[g].pc # "session" /\ \E n \in 1 .. 2 : Drop(n)
    BY <1>7 DEF EnterRoomFails
  <2>2. flow' = [flow EXCEPT ![g].pc = "error"]
    BY <1>7, Zenon DEF EnterRoomFails
  <2>3. "error" \in FlowStages \ {"creating"}
    BY <1>2, Zenon
  <2> QED
    BY <2>1, <2>2, <2>3, Dropped, IdentityFlow, Zenon
<1> QED
  BY <1>3, <1>4, <1>5, <1>6, <1>7, Zenon

LEMMA IdentityCreates ==
    ASSUME OwnershipInv, IdentityInv, NEW g \in Gens, CreateSigner(g) \/ Open(g)
    PROVE  IdentityInv'
<1>1. Typed /\ Len(boots) \in Nat /\ cookie \in Identities
  BY TypeParts DEF OwnershipInv, Typed, Bootstraps, Numbers
<1>2. UNCHANGED <<closing, gen, cookie, signer, boots, reconn>> /\ flow[g].pc # "session"
  BY DEF CreateSigner, Open, identityVars, ownerVars
<1>3. CASE \E p \in FlowStages : flow' = [flow EXCEPT ![g].pc = p, ![g].identity = cookie]
  <2>1. PICK p \in FlowStages : flow' = [flow EXCEPT ![g].pc = p, ![g].identity = cookie]
    BY <1>3, Zenon
  <2>2. flow \in [Gens -> FlowRecord(Len(boots))]
    BY <1>1, Zenon DEF Typed, Flows
  <2>3. /\ \A h \in Gens : flow'[h].pc = IF h = g THEN p ELSE flow[h].pc
        /\ \A h \in Gens : flow'[h].boot = flow[h].boot
        /\ \A h \in Gens : flow'[h].identity = IF h = g THEN cookie ELSE flow[h].identity
    BY <1>1, <2>1, <2>2, FlowTakesCookie, Zenon
  <2>4. FlowsWait
    BY <1>2, <2>3, Zenon DEF FlowsWait
  <2>5. LoopsWait
    BY <1>2, Zenon DEF LoopsWait
  <2> QED
    BY <1>2, <2>4, <2>5, Unmoved, IdentityKeeps, Zenon
<1>4. CASE flow' = [flow EXCEPT ![g].pc = "cancelled"]
  <2>1. "cancelled" \in FlowStages \ {"creating"}
    BY DEF FlowStages, Settled
  <2> QED
    BY <1>2, <1>4, <2>1, Unmoved, IdentityFlow, Zenon
<1>5. "creating" \in FlowStages /\ "opening" \in FlowStages
  BY DEF FlowStages
<1> QED
  BY <1>3, <1>4, <1>5, Zenon DEF CreateSigner, Open, Settle

(* A signer is built for the cookie, and no bootstrap can then change it.  *)
LEMMA IdentitySigner ==
    ASSUME OwnershipInv, IdentityInv, NEW g \in Gens, SignerReady(g)
    PROVE  IdentityInv'
<1>1. Typed /\ Len(boots) \in Nat
  BY TypeParts DEF OwnershipInv, Typed, Bootstraps
<1>2. UNCHANGED <<closing, gen, cookie, boots, reconn>> /\ flow[g].pc \in {"signer", "creating"}
  BY DEF SignerReady
<1>3. CASE Stale(g)
  <2>1. flow' = [flow EXCEPT ![g].pc = "cancelled"] /\ signer' = signer
    BY <1>3, Zenon DEF SignerReady, Settle
  <2>2. "cancelled" \in FlowStages \ {"creating"} /\ flow[g].pc # "session"
    BY <1>2 DEF FlowStages, Settled
  <2> QED
    BY <1>2, <2>1, <2>2, Unmoved, IdentityFlow, Zenon
<1>4. CASE ~Stale(g)
  <2>1. /\ flow' = [flow EXCEPT ![g].pc = "signing"]
        /\ signer' = IF flow[g].pc = "creating" THEN flow[g].identity ELSE signer
    BY <1>4, Zenon DEF SignerReady, Advance
  <2>2. flow \in [Gens -> FlowRecord(Len(boots))] /\ "signing" \in FlowStages /\ g = gen /\ ~closing
    BY <1>1, <1>4 DEF Typed, Flows, FlowStages, Stale
  <2>3. /\ \A h \in Gens : flow'[h].pc = IF h = g THEN "signing" ELSE flow[h].pc
        /\ \A h \in Gens : flow'[h].boot = flow[h].boot /\ flow'[h].identity = flow[h].identity
    BY <1>1, <2>1, <2>2, FlowMoves
  <2>4. SignerMatchesIdentity'
    BY <1>2, <1>4, <2>1, Zenon DEF IdentityInv, SignerMatchesIdentity
  <2>5. \A b \in DOMAIN boots : ~(~BootDone(b) /\ ~Stale(boots[b].gen))
    <3> SUFFICES ASSUME NEW b \in DOMAIN boots, BootAwaited(b) PROVE FALSE
      BY Zenon DEF IdentityInv
    <3> QED
      BY <1>2, <2>2 DEF BootAwaited, OwnershipInv, LoopsOwned
  <2>6. \A b \in DOMAIN boots' : ~(~BootDone(b)' /\ ~Stale(boots[b].gen)')
    BY <1>2, <2>5, Zenon DEF BootDone, Stale
  <2>7. \A h \in Gens : ~Stale(h)' => ~Stale(h)
    BY <1>2, Zenon DEF Stale
  <2>8. \A h \in Gens : flow'[h].pc = "creating" /\ ~Stale(h)' => flow'[h].identity = cookie'
    <3>1. \A h \in Gens : flow'[h].pc = "creating" => flow[h].pc = "creating"
      BY <2>3
    <3> QED
      BY <1>2, <2>3, <2>7, <3>1, Zenon DEF IdentityInv
  <2>9. \A h \in Gens : reconn'[h].pc = "creating" /\ ~Stale(h)' => reconn'[h].identity = cookie'
    BY <1>2, <2>7, Zenon DEF IdentityInv
  <2>10. \A b \in DOMAIN boots' : boots'[b].gen <= gen'
    BY <1>2, Zenon DEF IdentityInv
  <2> QED
    BY <2>4, <2>6, <2>8, <2>9, <2>10, Zenon DEF IdentityInv, Stale
<1> QED
  BY <1>3, <1>4, Zenon

LEMMA IdentityOthers ==
    ASSUME OwnershipInv, IdentityInv,
           \/ \E g \in Gens : StaleSocketCloses(g) \/ SocketCloses(g)
           \/ ScheduleReconnect \/ ArmTimer \/ WriteOverflows
    PROVE  IdentityInv'
<1>1. UNCHANGED <<cookie, signer, boots, flow, reconn>>
  BY Zenon DEF StaleSocketCloses, SocketCloses, ScheduleReconnect, ArmTimer, WriteOverflows, identityVars
<1>2. UNCHANGED <<closing, gen>> \/ \E n \in 1 .. 2 : Drop(n)
  BY DEF StaleSocketCloses, SocketCloses, ScheduleReconnect, ArmTimer, WriteOverflows, ownerVars
<1> QED
  BY <1>1, <1>2, Unmoved, Dropped, IdentityIdle, Zenon

LEMMA IdentityHandshake ==
    ASSUME OwnershipInv, IdentityInv, NEW g \in Gens, NEW cause, HandshakeFails(g, cause)
    PROVE  IdentityInv'
<1>1. UNCHANGED <<closing, gen, cookie, signer, boots, reconn>>
  BY Zenon DEF HandshakeFails, identityVars
<1>2. CASE flow' = flow
  BY <1>1, <1>2, Unmoved, IdentityIdle, Zenon
<1>3. CASE flow[g].pc = "opening" /\ flow' = [flow EXCEPT ![g].pc = "refused"]
  <2>1. "refused" \in FlowStages \ {"creating"} /\ flow[g].pc # "session"
    BY <1>3 DEF FlowStages, Settled
  <2> QED
    BY <1>1, <1>3, <2>1, Unmoved, IdentityFlow, Zenon
<1> QED
  BY <1>2, <1>3, Zenon DEF HandshakeFails, Settle

LEMMA IdentityDisconnect ==
    ASSUME OwnershipInv, IdentityInv, Disconnect
    PROVE  IdentityInv'
<1>1. /\ UNCHANGED <<cookie, signer, boots, reconn>> /\ \E n \in 1 .. 2 : Drop(n)
      /\ \A g \in Gens : flow'[g] = IF g = cancelOpen /\ flow[g].pc = "opening"
                                    THEN [flow[g] EXCEPT !.pc = "cancelled"] ELSE flow[g]
  BY DEF Disconnect
<1>2. flow \in [Gens -> FlowRecord(Len(boots))]
  BY TypeParts DEF OwnershipInv, Typed, Flows
<1>3. \A g \in Gens : [flow[g] EXCEPT !.pc = "cancelled"].pc = "cancelled"
  BY <1>2 DEF FlowRecord
<1>4. \A g \in Gens : \/ flow'[g] = flow[g]
                      \/ flow[g].pc = "opening" /\ flow'[g].pc = "cancelled"
  BY <1>1, <1>3, Zenon
<1>5. FlowsWait
  <2>1. \A g \in Gens : flow[g].pc = "session" => flow'[g] = flow[g]
    BY <1>4
  <2>2. \A g \in Gens : flow'[g].pc = "creating" => flow'[g] = flow[g]
    BY <1>4
  <2> QED
    BY <2>1, <2>2, Zenon DEF FlowsWait
<1>6. LoopsWait
  BY <1>1, Zenon DEF LoopsWait
<1> QED
  BY <1>1, <1>5, <1>6, Dropped, IdentityKeeps, Zenon

(* A connect() without an identity starts a bootstrap, and there is no     *)
(* signer then; every older bootstrap belongs to a generation that passed. *)
LEMMA IdentityStart ==
    ASSUME OwnershipInv, IdentityInv, StartConnect(cookie), cookie' = cookie,
           signer' # NoIdentity => signer' = cookie,
           gen + 1 \in Gens => reconn'[gen + 1].pc # "creating"
    PROVE  IdentityInv'
<1> DEFINE g == gen + 1
<1>0. PICK k : k = Len(boots) + 1
  OBVIOUS
<1>1. Typed /\ cookie \in Identities /\ gen \in Nat /\ boots \in Seq(Boot)
  BY TypeParts DEF OwnershipInv, Typed, Numbers, Bootstraps
<1>2. /\ closing' = FALSE /\ gen' = g
      /\ \/ boots' = boots
         \/ /\ cookie = NoIdentity /\ guest' = k
            /\ boots' = Append(boots, [gen |-> g, state |-> "pending"])
  BY <1>0, Zenon DEF StartConnect
<1>3. /\ g \in Gens /\ flow'[g].pc = "session" /\ flow'[g].boot = IF cookie # NoIdentity THEN None ELSE guest'
  BY <1>1, StartStages
<1>4. SignerMatchesIdentity'
  BY Zenon DEF SignerMatchesIdentity
<1>5. \A h \in Gens : ~Stale(h)' => h = g
  BY <1>2, Zenon DEF Stale
<1>6. \A h \in Gens : flow'[h].pc = "creating" /\ ~Stale(h)' => flow'[h].identity = cookie'
  BY <1>3, <1>5
<1>7. \A h \in Gens : reconn'[h].pc = "creating" /\ ~Stale(h)' => reconn'[h].identity = cookie'
  BY <1>3, <1>5, Zenon
<1>8. \A b \in DOMAIN boots : boots[b].gen <= gen /\ boots[b].gen \in Nat /\ boots[b].gen # g
  BY <1>1, BootGen DEF IdentityInv, Gens
<1>9. CASE boots' = boots
  <2>1. \A b \in DOMAIN boots' : boots'[b].gen <= gen'
    BY <1>1, <1>2, <1>8, <1>9
  <2>2. \A b \in DOMAIN boots' : Stale(boots[b].gen)'
    BY <1>2, <1>8, <1>9 DEF Stale
  <2> QED
    BY <1>4, <1>6, <1>7, <2>1, <2>2, Zenon DEF IdentityInv, Stale
<1>10. CASE /\ cookie = NoIdentity /\ guest' = k
            /\ boots' = Append(boots, [gen |-> g, state |-> "pending"])
  <2>1. /\ DOMAIN boots = 1 .. Len(boots) /\ DOMAIN boots' = 1 .. Len(boots) + 1 /\ Len(boots) \in Nat
        /\ \A b \in DOMAIN boots : boots'[b] = boots[b]
        /\ boots'[k].gen = g
    BY <1>0, <1>1, <1>3, <1>10, BootAdded
  <2>2. \A b \in DOMAIN boots' : boots'[b].gen <= gen' /\ (b = k \/ boots'[b].gen # gen')
    BY <1>0, <1>1, <1>2, <1>8, <2>1
  <2>3. signer' = NoIdentity
    BY <1>10
  <2>4. BootAwaited(k)'
    BY <1>2, <1>3, <1>10, Zenon DEF BootAwaited
  <2>5. \A b \in DOMAIN boots' : ~BootDone(b)' /\ ~Stale(boots[b].gen)' => signer' = NoIdentity /\ BootAwaited(b)'
    BY <2>2, <2>3, <2>4, Zenon DEF Stale
  <2>6. \A b \in DOMAIN boots' : boots'[b].gen <= gen'
    BY <2>2, Zenon
  <2> QED
    BY <1>4, <1>6, <1>7, <2>5, <2>6, Zenon DEF IdentityInv, Stale
<1> QED
  BY <1>2, <1>9, <1>10, Zenon

LEMMA IdentityConnect ==
    ASSUME OwnershipInv, IdentityInv, Connect
    PROVE  IdentityInv'
<1>1. StartConnect(cookie) /\ UNCHANGED <<cookie, signer, reconn>>
  BY Zenon DEF Connect
<1>2. cookie \in Identities /\ gen \in Nat
  BY TypeParts DEF OwnershipInv, Typed, Numbers
<1>3. gen + 1 \in Gens => reconn'[gen + 1].pc # "creating"
  BY <1>1, <1>2 DEF OwnershipInv, FlowsOwned, LoopsOwned
<1>4. signer' # NoIdentity => signer' = cookie
  BY <1>1, Zenon DEF IdentityInv, SignerMatchesIdentity
<1> QED
  BY <1>1, <1>3, <1>4, IdentityStart, Zenon

LEMMA IdentityTimer ==
    ASSUME OwnershipInv, IdentityInv, TimerFires
    PROVE  IdentityInv'
<1>1. Typed /\ cookie \in Identities /\ Len(boots) \in Nat /\ gen \in Nat
  BY TypeParts DEF OwnershipInv, Typed, Numbers, Bootstraps
<1>2. UNCHANGED <<cookie, signer>>
  BY Zenon DEF TimerFires
<1>3. CASE UNCHANGED <<ownerVars, flow, boots, reconn>>
  <2>1. UNCHANGED <<closing, gen>>
    BY <1>3, Zenon DEF ownerVars
  <2> QED
    BY <1>2, <1>3, <2>1, Unmoved, IdentityIdle, Zenon
<1>4. CASE /\ connecting # None /\ reconn' = [reconn EXCEPT ![connecting].pc = "await"]
           /\ UNCHANGED <<ownerVars, flow, boots>>
  <2>1. connecting \in Gens /\ flow[connecting].pc \in Under
    BY <1>4 DEF OwnershipInv, FlowsOwned
  <2>2. reconn[connecting].pc # "session"
    BY <2>1 DEF OwnershipInv, LoopsOwned, Under, Settled
  <2>3. "await" \in LoopStages /\ reconn \in [Gens -> LoopRecord(Len(boots))]
    BY <1>1 DEF Typed, Loops, LoopStages
  <2>4. /\ \A h \in Gens : reconn'[h].pc = IF h = connecting THEN "await" ELSE reconn[h].pc
        /\ \A h \in Gens : reconn'[h].boot = reconn[h].boot /\ reconn'[h].identity = reconn[h].identity
    BY <1>1, <1>4, <2>1, <2>3, LoopMoves, Zenon
  <2>5. \A h \in Gens : reconn'[h].pc = "creating" => reconn[h].pc = "creating"
    BY <2>4
  <2>6. LoopsWait
    BY <2>2, <2>4, <2>5, Zenon DEF LoopsWait
  <2>7. FlowsWait
    BY <1>4, Zenon DEF FlowsWait
  <2>8. UNCHANGED <<closing, gen>>
    BY <1>4, Zenon DEF ownerVars
  <2> QED
    BY <1>2, <1>4, <2>6, <2>7, <2>8, Unmoved, IdentityKeeps, Zenon
<1>5. CASE StartConnect(cookie) /\ reconn' = [reconn EXCEPT ![gen + 1].pc = "await"]
  <2>1. ASSUME gen + 1 \in Gens PROVE reconn'[gen + 1].pc # "creating"
    <3>1. "await" \in LoopStages /\ reconn \in [Gens -> LoopRecord(Len(boots))]
      BY <1>1 DEF Typed, Loops, LoopStages
    <3>2. \A h \in Gens : reconn'[h].pc = IF h = gen + 1 THEN "await" ELSE reconn[h].pc
      BY <1>1, <1>5, <2>1, <3>1, LoopMoves, Zenon
    <3>3. reconn'[gen + 1].pc = "await"
      BY <2>1, <3>2, Zenon
    <3> QED
      BY <3>3
  <2>2. signer' # NoIdentity => signer' = cookie
    BY <1>2, Zenon DEF IdentityInv, SignerMatchesIdentity
  <2> QED
    BY <1>2, <1>5, <2>1, <2>2, IdentityStart, Zenon
<1> QED
  BY <1>3, <1>4, <1>5, Zenon DEF TimerFires

LEMMA IdentityRefreshed ==
    ASSUME OwnershipInv, IdentityInv, NEW g \in Gens, RefreshedConnect(g)
    PROVE  IdentityInv'
<1>1. Typed /\ cookie \in Identities /\ gen \in Nat /\ reconn \in [Gens -> LoopRecord(Len(boots))]
  BY TypeParts DEF OwnershipInv, Typed, Numbers, Loops
<1>2. /\ reconn[g].pc = "creating" /\ ~Stale(g) /\ StartConnect(cookie) /\ cookie' = cookie
      /\ signer' = IF signer = NoIdentity THEN reconn[g].identity ELSE signer
      /\ reconn' = [reconn EXCEPT ![g] = NoFlow, ![gen + 1].pc = "last"]
  BY Zenon DEF RefreshedConnect
<1>3. signer' # NoIdentity => signer' = cookie
  BY <1>2, Zenon DEF IdentityInv, SignerMatchesIdentity
<1>4. g # gen + 1
  BY <1>1, <1>2 DEF Stale
<1>5. ASSUME gen + 1 \in Gens PROVE reconn'[gen + 1].pc # "creating"
  <2> DEFINE r == [reconn[gen + 1] EXCEPT !.pc = "last"]
  <2>1. r.pc = "last"
    BY <1>1, <1>5 DEF LoopRecord
  <2>2. reconn'[gen + 1] = r
    BY <1>1, <1>2, <1>4, <1>5
  <2> HIDE DEF r
  <2> QED
    BY <2>1, <2>2
<1> QED
  BY <1>2, <1>3, <1>5, IdentityStart, Zenon

(* The bootstrap of the current generation is stored: whoever could build  *)
(* a signer is waiting for it.                                             *)
LEMMA IdentityBootstrap ==
    ASSUME OwnershipInv, IdentityInv, NEW b \in DOMAIN boots, NEW ok \in BOOLEAN, Bootstrap(b, ok)
    PROVE  IdentityInv'
<1> DEFINE kept == ok /\ ~Stale(boots[b].gen)
           s == IF kept THEN "stored" ELSE IF ok THEN "cancelled" ELSE "error"
<1>1. Typed /\ boots \in Seq(Boot)
  BY TypeParts DEF OwnershipInv, Typed, Bootstraps
<1>2. /\ boots' = [boots EXCEPT ![b].state = s] /\ cookie' = IF kept THEN b ELSE cookie
      /\ ~BootDone(b) /\ UNCHANGED <<closing, gen, signer, flow, reconn>>
  BY Zenon DEF Bootstrap, ownerVars
<1>3. s \in {"stored", "cancelled", "error"}
  OBVIOUS
<1>4. kept => ~Stale(boots[b].gen)
  OBVIOUS
<1> HIDE DEF s, kept
<1>5. /\ DOMAIN boots' = DOMAIN boots
      /\ \A c \in DOMAIN boots : boots'[c].gen = boots[c].gen
      /\ \A c \in DOMAIN boots : boots'[c].state = IF c = b THEN s ELSE boots[c].state
  BY <1>1, <1>2, <1>3, BootSettles
<1>6. \A h \in Gens : ~Stale(h)' <=> ~Stale(h)
  BY <1>2, Zenon DEF Stale
<1>7. \A c \in DOMAIN boots' : boots'[c].gen <= gen'
  BY <1>2, <1>5, Zenon DEF IdentityInv
<1>8. \A c \in DOMAIN boots' : ~BootDone(c)' /\ ~Stale(boots[c].gen)' => signer' = NoIdentity /\ BootAwaited(c)'
  <2>1. SUFFICES ASSUME NEW c \in DOMAIN boots', ~BootDone(c)', ~Stale(boots[c].gen)'
                 PROVE  signer' = NoIdentity /\ BootAwaited(c)'
    BY Zenon
  <2>2. boots'[c].state = "pending" /\ c # b
    BY <1>3, <1>5, <2>1 DEF BootDone
  <2>3. ~BootDone(c) /\ ~Stale(boots[c].gen) /\ c \in DOMAIN boots
    BY <1>2, <1>5, <2>1, <2>2, Zenon DEF BootDone, Stale
  <2>4. signer = NoIdentity /\ BootAwaited(c)
    BY <2>3, Zenon DEF IdentityInv
  <2> QED
    BY <1>2, <2>4, Zenon DEF BootAwaited
<1>9. CASE ~kept
  <2>1. cookie' = cookie
    BY <1>2, <1>9, Zenon
  <2>2. SignerMatchesIdentity'
    BY <1>2, <2>1, Zenon DEF IdentityInv, SignerMatchesIdentity
  <2>3. \A h \in Gens : flow'[h].pc = "creating" /\ ~Stale(h)' => flow'[h].identity = cookie'
    BY <1>2, <1>6, <2>1, Zenon DEF IdentityInv
  <2>4. \A h \in Gens : reconn'[h].pc = "creating" /\ ~Stale(h)' => reconn'[h].identity = cookie'
    BY <1>2, <1>6, <2>1, Zenon DEF IdentityInv
  <2> QED
    BY <1>7, <1>8, <2>2, <2>3, <2>4, Zenon DEF IdentityInv, Stale
<1>10. CASE kept
  <2>1. signer = NoIdentity /\ BootAwaited(b) /\ gen \in Gens
    BY <1>2, <1>4, <1>10, BootGen DEF IdentityInv, Stale
  <2>2. flow[gen].pc # "creating" /\ reconn[gen].pc # "creating"
    BY <2>1 DEF BootAwaited, OwnershipInv, LoopsOwned
  <2>3. \A h \in Gens : ~Stale(h)' => h = gen
    BY <1>2, Zenon DEF Stale
  <2>4. SignerMatchesIdentity'
    BY <1>2, <2>1, Zenon DEF SignerMatchesIdentity
  <2>5. \A h \in Gens : flow'[h].pc = "creating" /\ ~Stale(h)' => flow'[h].identity = cookie'
    BY <1>2, <2>2, <2>3, Zenon
  <2>6. \A h \in Gens : reconn'[h].pc = "creating" /\ ~Stale(h)' => reconn'[h].identity = cookie'
    BY <1>2, <2>2, <2>3, Zenon
  <2> QED
    BY <1>7, <1>8, <2>4, <2>5, <2>6, Zenon DEF IdentityInv, Stale
<1> QED
  BY <1>9, <1>10, Zenon

(* The refused identity and its signer are dropped together, and only the  *)
(* refresh waits for the new bootstrap.                                    *)
LEMMA IdentityRefresh ==
    ASSUME OwnershipInv, IdentityInv, NEW g \in Gens, RefreshGuestSession(g)
    PROVE  IdentityInv'
<1>0. PICK k : k = Len(boots) + 1
  OBVIOUS
<1>1. /\ Typed /\ boots \in Seq(Boot) /\ Len(boots) \in Nat /\ gen \in Nat
      /\ reconn \in [Gens -> LoopRecord(Len(boots))]
  BY TypeParts DEF OwnershipInv, Typed, Bootstraps, Numbers, Loops
<1>2. /\ reconn[g].pc = "await" /\ flow[g].pc = "refused" /\ ~Stale(g)
      /\ cookie' = NoIdentity /\ signer' = NoIdentity
      /\ boots' = Append(boots, [gen |-> g, state |-> "pending"])
      /\ reconn' = [reconn EXCEPT ![g].pc = "session", ![g].boot = k]
      /\ UNCHANGED <<closing, gen, flow>>
  BY <1>0, Zenon DEF RefreshGuestSession, ownerVars
<1>3. g = gen /\ ~closing
  BY <1>2, Zenon DEF Stale
<1>4. reconn'[g].pc = "session" /\ reconn'[g].boot = k
  <2> DEFINE q == [reconn[g] EXCEPT !.pc = "session"]
             r == [q EXCEPT !.boot = k]
  <2>1. q \in LoopRecord(Len(boots)) /\ q.pc = "session"
    BY <1>1 DEF LoopRecord, LoopStages
  <2>2. reconn'[g] = r
    BY <1>1, <1>2
  <2> HIDE DEF q
  <2>3. r.pc = "session" /\ r.boot = k
    BY <2>1 DEF LoopRecord
  <2> HIDE DEF r
  <2> QED
    BY <2>2, <2>3
<1>5. /\ DOMAIN boots = 1 .. Len(boots) /\ DOMAIN boots' = 1 .. Len(boots) + 1
      /\ \A b \in DOMAIN boots : boots'[b] = boots[b]
      /\ boots'[k].gen = g
  BY <1>0, <1>1, <1>2, BootAdded
<1>6. \A b \in DOMAIN boots' : b = k \/ b \in DOMAIN boots
  BY <1>0, <1>1, <1>5
<1>7. \A b \in DOMAIN boots' : boots'[b].gen <= gen'
  <2>1. \A b \in DOMAIN boots : boots[b].gen <= gen
    BY Zenon DEF IdentityInv
  <2> QED
    BY <1>1, <1>2, <1>3, <1>5, <1>6, <2>1
<1>8. \A b \in DOMAIN boots : BootDone(b) \/ Stale(boots[b].gen)
  <2> SUFFICES ASSUME NEW b \in DOMAIN boots, BootAwaited(b) PROVE FALSE
    BY Zenon DEF IdentityInv
  <2> QED
    BY <1>2, <1>3 DEF BootAwaited
<1>9. BootAwaited(k)'
  BY <1>2, <1>3, <1>4, Zenon DEF BootAwaited
<1>10. \A b \in DOMAIN boots' : ~BootDone(b)' /\ ~Stale(boots[b].gen)' => signer' = NoIdentity /\ BootAwaited(b)'
  <2>1. \A b \in DOMAIN boots : BootDone(b)' \/ Stale(boots[b].gen)'
    BY <1>2, <1>5, <1>8, Zenon DEF BootDone, Stale
  <2> QED
    BY <1>2, <1>6, <1>9, <2>1, Zenon
<1>11. \A h \in Gens : ~Stale(h)' => h = g
  BY <1>2, <1>3, Zenon DEF Stale
<1>12. \A h \in Gens : flow'[h].pc = "creating" /\ ~Stale(h)' => flow'[h].identity = cookie'
  BY <1>2, <1>11
<1>13. \A h \in Gens : reconn'[h].pc = "creating" /\ ~Stale(h)' => reconn'[h].identity = cookie'
  BY <1>4, <1>11
<1>14. SignerMatchesIdentity'
  BY <1>2, Zenon DEF SignerMatchesIdentity
<1> QED
  BY <1>7, <1>10, <1>12, <1>13, <1>14, Zenon DEF IdentityInv, Stale

LEMMA IdentityRefreshSession ==
    ASSUME OwnershipInv, IdentityInv, NEW g \in Gens, RefreshSession(g)
    PROVE  IdentityInv'
<1> DEFINE b == reconn[g].boot
           q == [NoFlow EXCEPT !.pc = "creating"]
           c == [q EXCEPT !.identity = cookie]
           r == IF boots[b].state = "stored" THEN c ELSE NoFlow
<1>1. Typed /\ Len(boots) \in Nat /\ cookie \in Identities /\ reconn \in [Gens -> LoopRecord(Len(boots))]
  BY TypeParts DEF OwnershipInv, Typed, Bootstraps, Numbers, Loops
<1>2. /\ BootDone(b) /\ UNCHANGED <<closing, gen, cookie, signer, boots, flow>>
      /\ reconn' = [reconn EXCEPT ![g] = IF boots[b].state = "stored"
                                         THEN [NoFlow EXCEPT !.pc = "creating", !.identity = cookie]
                                         ELSE NoFlow]
  BY Zenon DEF RefreshSession, ownerVars, identityVars
<1>3. reconn' = [reconn EXCEPT ![g] = r]
  BY <1>2
<1>4. q \in LoopRecord(Len(boots)) /\ q.pc = "creating"
  BY <1>1, NoFlowType DEF LoopRecord, LoopStages
<1> HIDE DEF q
<1>5. c.identity = cookie
  BY <1>1, <1>4 DEF LoopRecord
<1> HIDE DEF c
<1>6. r.pc = "creating" => r.identity = cookie
  BY <1>1, <1>5, NoFlowType
<1> HIDE DEF r
<1>7. \A h \in Gens : reconn'[h] = IF h = g THEN r ELSE reconn[h]
  BY <1>1, <1>3
<1>8. LoopsWait
  BY <1>2, <1>6, <1>7, Zenon DEF LoopsWait
<1>9. FlowsWait
  BY <1>2, Zenon DEF FlowsWait
<1> QED
  BY <1>2, <1>8, <1>9, Unmoved, IdentityKeeps, Zenon

LEMMA IdentityLoopEnds ==
    ASSUME OwnershipInv, IdentityInv, NEW g \in Gens,
           \/ ReconnectReturns(g) \/ ReconnectFails(g) \/ ReconnectRefused(g)
           \/ RefreshEnds(g) \/ LastAttemptReturns(g)
    PROVE  IdentityInv'
<1>1. reconn[g].pc # "session"
  BY DEF ReconnectReturns, ReconnectFails, ReconnectRefused, RefreshEnds, LastAttemptReturns
<1>2. UNCHANGED <<closing, gen, cookie, signer, boots, flow>> /\ reconn' = [reconn EXCEPT ![g] = NoFlow]
  BY Zenon DEF ReconnectReturns, ReconnectFails, ReconnectRefused, RefreshEnds, LastAttemptReturns,
     ownerVars, identityVars
<1> QED
  BY <1>1, <1>2, Unmoved, IdentityLoop, Zenon

LEMMA IdentityInit == Init => IdentityInv
<1> SUFFICES ASSUME Init PROVE IdentityInv
  OBVIOUS
<1>1. \A g \in Gens : flow[g].pc = "none" /\ reconn[g].pc = "none"
  BY DEF Init, NoFlow
<1>2. DOMAIN boots = {} /\ signer = NoIdentity
  BY DEF Init
<1> QED
  BY <1>1, <1>2 DEF IdentityInv, SignerMatchesIdentity

LEMMA IdentityNext == OwnershipInv /\ IdentityInv /\ [Next]_vars => IdentityInv'
<1> SUFFICES ASSUME OwnershipInv, IdentityInv, [Next]_vars PROVE IdentityInv'
  OBVIOUS
<1>1. CASE UNCHANGED vars
  <2>1. UNCHANGED <<cookie, signer, boots, flow, reconn>> /\ UNCHANGED <<closing, gen>>
    BY <1>1, Zenon DEF vars, ownerVars, identityVars
  <2> QED
    BY <2>1, Unmoved, IdentityIdle, Zenon
<1>2. CASE \E b \in DOMAIN boots, ok \in BOOLEAN : Bootstrap(b, ok)
  BY <1>2, IdentityBootstrap
<1>3. ASSUME NEW g \in Gens,
             \/ SessionReady(g) \/ (\E live \in BOOLEAN : RoomLookup(g, live)) \/ Metadata(g)
             \/ CreateSigner(g) \/ SignerReady(g) \/ SignerFails(g) \/ OpenThrows(g) \/ Open(g)
      PROVE  IdentityInv'
  BY <1>3, IdentityFlows, IdentityCreates, IdentitySigner
<1>4. ASSUME NEW g \in Gens,
             \/ SocketOpens(g) \/ EnterRoomFails(g) \/ OpenTimeout(g) \/ StaleSocketCloses(g)
             \/ (\E cause \in {"refusal", "network"} : HandshakeFails(g, cause)) \/ SocketCloses(g)
      PROVE  IdentityInv'
  BY <1>4, IdentityFlows, IdentityOthers, IdentityHandshake
<1>5. ASSUME NEW g \in Gens,
             \/ ReconnectReturns(g) \/ ReconnectFails(g) \/ ReconnectRefused(g) \/ RefreshGuestSession(g)
             \/ RefreshSession(g) \/ RefreshedConnect(g) \/ RefreshEnds(g) \/ LastAttemptReturns(g)
      PROVE  IdentityInv'
  BY <1>5, IdentityLoopEnds, IdentityRefresh, IdentityRefreshSession, IdentityRefreshed
<1>6. CASE ScheduleReconnect \/ ArmTimer \/ TimerFires \/ Connect \/ Disconnect \/ WriteOverflows
  BY <1>6, IdentityOthers, IdentityTimer, IdentityConnect, IdentityDisconnect
<1> QED
  BY <1>1, <1>2, <1>3, <1>4, <1>5, <1>6, Zenon DEF Next, Progress

(* Through refreshes, cancelled flows and late bootstraps, the signer in   *)
(* use is the one of the identity the cookie carries.                      *)
THEOREM SignerMatchesIdentityHolds == Spec => []SignerMatchesIdentity
<1>1. Spec => []IdentityInv
  BY IdentityInit, IdentityNext, OwnershipInvHolds, PTL DEF Spec
<1>2. IdentityInv => SignerMatchesIdentity
  BY DEF IdentityInv
<1> QED
  BY <1>1, <1>2, PTL

--------------------------------------------------------------------------------
(* Which identity it offers *)

(* What a step does that gives the client nothing new to offer. *)
OffersNothingNew ==
    /\ UNCHANGED <<cookie, boots, auto, listenersConnect, armFor>>
    /\ connecting' \in {connecting, None} /\ timer' \in {timer, None}
    /\ refusals' \subseteq refusals
    /\ connected' => connected \/ cookie \notin refusals'
    /\ frame' \in {frame, "none", "signing"}
    /\ \A h \in Gens : flow'[h].pc = "opening" => flow'[h].identity = cookie
    /\ \A h \in Gens : flow[h].pc = "refused" => flow'[h].pc = "refused"
    /\ \A h \in Gens : reconn'[h] = reconn[h] \/ reconn'[h].pc = "none"

LEMMA RefusalKeeps ==
    ASSUME OwnershipInv, RefusalInv, SameOrClosed, OffersNothingNew
    PROVE  RefusalInv'
<1>1. /\ gen \in Nat /\ gen' \in Nat /\ gen <= gen' /\ armFor \in Nat /\ auto \subseteq Gens
  BY TypeParts DEF OwnershipInv, Typed, Numbers, SameOrClosed
<1>2. ~closing' => ~closing /\ gen' = gen
  BY Zenon DEF SameOrClosed
<1>3. Retrying' => Retrying
  <2>1. CASE timer' # None
    BY <2>1, Zenon DEF OffersNothingNew, Retrying
  <2>2. CASE frame' \in {"disconnected", "error"} /\ ~closing'
    BY <1>2, <2>2 DEF OffersNothingNew, Retrying
  <2>3. CASE frame' = "reconnecting" /\ ~Stale(armFor)'
    <3>1. frame = "reconnecting" /\ ~closing' /\ armFor' = gen' /\ armFor' = armFor
      BY <2>3 DEF OffersNothingNew, Stale
    <3> QED
      BY <1>2, <3>1 DEF Retrying, Stale
  <2> QED
    BY <2>1, <2>2, <2>3, Zenon DEF Retrying
<1>4. Offering' => Offering
  <2> SUFFICES ASSUME Offering' PROVE Offering
    OBVIOUS
  <2>1. ~closing' /\ ~closing /\ gen' = gen
    BY <1>2, Zenon DEF Offering
  <2>2. CASE gen' \in auto' /\ flow'[gen'].pc # "refused"
    BY <1>1, <2>1, <2>2, Zenon DEF OffersNothingNew, Offering
  <2>3. CASE gen' \in Gens /\ reconn'[gen'].pc = "creating"
    <3>1. reconn'[gen] = reconn[gen]
      BY <2>1, <2>3 DEF OffersNothingNew
    <3> QED
      BY <2>1, <2>3, <3>1, Zenon DEF Offering
  <2>4. CASE gen' \in Gens /\ reconn'[gen'].pc = "session" /\ boots'[reconn'[gen'].boot].state = "stored"
    <3>1. reconn'[gen] = reconn[gen] /\ boots' = boots
      BY <2>1, <2>4 DEF OffersNothingNew
    <3> QED
      BY <2>1, <2>4, <3>1, Zenon DEF Offering
  <2>5. CASE Retrying'
    BY <1>3, <2>1, <2>5, Zenon DEF Offering
  <2> QED
    BY <2>2, <2>3, <2>4, <2>5, Zenon DEF Offering
<1>5. \A i \in refusals' \cup {cookie'} : i <= Len(boots') /\ (i \in DOMAIN boots' => BootDone(i)')
  <2>1. boots' = boots /\ \A i \in refusals' \cup {cookie'} : i \in refusals \cup {cookie}
    BY Zenon DEF OffersNothingNew
  <2>2. \A i : BootDone(i)' <=> BootDone(i)
    BY <2>1, Zenon DEF BootDone
  <2> QED
    BY <2>1, <2>2, Zenon DEF RefusalInv
<1>6. \A g \in Gens : flow'[g].pc = "opening" => flow'[g].identity = cookie'
  BY Zenon DEF OffersNothingNew
<1>7. connected' => cookie' \notin refusals'
  BY Zenon DEF OffersNothingNew, RefusalInv
<1>8. armFor' <= gen' /\ \A g \in auto' : g <= gen'
  <2>1. armFor' = armFor /\ auto' = auto /\ armFor <= gen /\ \A g \in auto : g <= gen
    BY Zenon DEF OffersNothingNew, RefusalInv
  <2> QED
    BY <1>1, <2>1 DEF Gens
<1>9. ASSUME ~listenersConnect' PROVE RetriesAlone'
  <2>1. RetriesAlone
    BY <1>9, Zenon DEF OffersNothingNew, RefusalInv
  <2>2. \A g \in Gens : reconn'[g].pc = "await" => g \in auto'
    BY <2>1 DEF RetriesAlone, OffersNothingNew
  <2>3. Retrying' => connecting' = None
    BY <1>3, <2>1, Zenon DEF RetriesAlone, OffersNothingNew
  <2>4. Offering' => cookie' \notin refusals'
    BY <1>4, <2>1, Zenon DEF RetriesAlone, OffersNothingNew
  <2> QED
    BY <2>2, <2>3, <2>4, Zenon DEF RetriesAlone
<1>10. \A g \in Gens : reconn'[g].pc = "session" => reconn'[g].boot \in DOMAIN boots'
  <2>1. boots' = boots /\ \A g \in Gens : reconn'[g].pc = "session" => reconn'[g] = reconn[g]
    BY DEF OffersNothingNew
  <2> QED
    BY <2>1, Zenon DEF RefusalInv
<1> QED
  BY <1>5, <1>6, <1>7, <1>8, <1>9, <1>10, Zenon DEF RefusalInv

(* A flow that has not been refused moves on without opening a socket. *)
FlowsOpenNothing ==
    /\ \A h \in Gens : flow'[h].pc = "opening" => flow'[h].identity = cookie
    /\ \A h \in Gens : flow[h].pc = "refused" => flow'[h].pc = "refused"

LEMMA FlowOpensNothing ==
    ASSUME OwnershipInv, RefusalInv, NEW g \in Gens, flow[g].pc # "refused",
           NEW p \in FlowStages \ {"opening"}, flow' = [flow EXCEPT ![g].pc = p]
    PROVE  FlowsOpenNothing
<1>1. flow \in [Gens -> FlowRecord(Len(boots))] /\ Len(boots) \in Nat
  BY TypeParts DEF OwnershipInv, Typed, Flows, Bootstraps
<1>2. /\ \A h \in Gens : flow'[h].pc = IF h = g THEN p ELSE flow[h].pc
      /\ \A h \in Gens : flow'[h].boot = flow[h].boot /\ flow'[h].identity = flow[h].identity
  BY <1>1, FlowMoves
<1> QED
  BY <1>2 DEF RefusalInv, FlowsOpenNothing

LEMMA FlowsKept ==
    ASSUME RefusalInv, flow' = flow
    PROVE  FlowsOpenNothing
BY Zenon DEF RefusalInv, FlowsOpenNothing

LEMMA FlowsPart ==
    ASSUME FlowsOpenNothing, reconn' = reconn,
           UNCHANGED <<cookie, boots, auto, listenersConnect, armFor, refusals>>,
           connecting' \in {connecting, None}, timer' \in {timer, None},
           connected' => connected, frame' \in {frame, "none", "signing"}
    PROVE  OffersNothingNew
BY Zenon DEF OffersNothingNew, FlowsOpenNothing

LEMMA RefusalFlows ==
    ASSUME OwnershipInv, RefusalInv, NEW g \in Gens,
           \/ SessionReady(g) \/ (\E live \in BOOLEAN : RoomLookup(g, live)) \/ Metadata(g)
           \/ SignerReady(g) \/ SignerFails(g) \/ OpenThrows(g) \/ OpenTimeout(g) \/ EnterRoomFails(g)
           \/ StaleSocketCloses(g) \/ WriteOverflows
    PROVE  RefusalInv'
<1>1. Typed
  BY TypeParts DEF OwnershipInv
<1>2. {AfterRoom, AfterInfo, "lookup", "signer", "signing", "error", "cancelled"} \subseteq FlowStages \ {"opening"}
  BY DEF AfterRoom, AfterInfo, FlowStages, Settled
<1>3. UNCHANGED <<cookie, boots, reconn, auto, listenersConnect, armFor, refusals>>
  BY Zenon DEF SessionReady, RoomLookup, Metadata, SignerReady, SignerFails, OpenThrows, OpenTimeout,
     EnterRoomFails, StaleSocketCloses, WriteOverflows, identityVars, retryVars, historyVars
<1>4. frame' \in {frame, "none", "signing"}
  BY Zenon DEF SessionReady, RoomLookup, Metadata, SignerReady, SignerFails, OpenThrows, OpenTimeout,
     EnterRoomFails, StaleSocketCloses, WriteOverflows
<1>5. /\ connecting' \in {connecting, None} /\ timer' \in {timer, None}
      /\ connected' => connected
  <2>1. connecting' = connecting \/ connecting' = None
    BY Zenon DEF SessionReady, RoomLookup, Metadata, SignerReady, SignerFails, OpenThrows, OpenTimeout,
       EnterRoomFails, StaleSocketCloses, WriteOverflows, Settle, Advance, Drop, ownerVars
  <2>2. timer' = timer \/ timer' = None
    BY Zenon DEF SessionReady, RoomLookup, Metadata, SignerReady, SignerFails, OpenThrows, OpenTimeout,
       EnterRoomFails, StaleSocketCloses, WriteOverflows, Drop, retryVars
  <2>3. connected' = connected \/ connected' = FALSE
    BY Zenon DEF SessionReady, RoomLookup, Metadata, SignerReady, SignerFails, OpenThrows, OpenTimeout,
       EnterRoomFails, StaleSocketCloses, WriteOverflows, Drop, socketVars
  <2> QED
    BY <2>1, <2>2, <2>3
<1>6. SameOrClosed
  <2>1. UNCHANGED <<closing, gen>> \/ \E n \in 1 .. 2 : Drop(n)
    BY DEF SessionReady, RoomLookup, Metadata, SignerReady, SignerFails, OpenThrows, OpenTimeout,
       EnterRoomFails, StaleSocketCloses, WriteOverflows, ownerVars
  <2> QED
    BY <2>1, Unmoved, Dropped, Zenon
<1>7. FlowsOpenNothing
  <2>1. CASE SessionReady(g)
    <3> DEFINE b == flow[g].boot
    <3>1. flow[g].pc # "refused"
      BY <2>1 DEF SessionReady
    <3>2. \E p \in FlowStages \ {"opening"} : flow' = [flow EXCEPT ![g].pc = p]
      <4>1. CASE b # None /\ boots[b].state # "stored"
        <5>1. b \in DOMAIN boots /\ boots[b].state # "pending"
          BY <1>1, <2>1, <4>1 DEF SessionReady, BootDone, Typed, Flows, Bootstraps, FlowRecord, None
        <5>2. boots[b].state \in FlowStages \ {"opening"}
          BY <4>1, <5>1, BootGen DEF FlowStages, Settled
        <5>3. flow' = [flow EXCEPT ![g].pc = boots[b].state]
          BY <2>1, <4>1, Zenon DEF SessionReady, Settle
        <5> QED
          BY <5>2, <5>3, Zenon
      <4>2. CASE ~(b # None /\ boots[b].state # "stored") /\ Stale(g)
        <5>1. flow' = [flow EXCEPT ![g].pc = "cancelled"]
          BY <2>1, <4>2, Zenon DEF SessionReady, Settle
        <5> QED
          BY <1>2, <5>1, Zenon
      <4>3. CASE ~(b # None /\ boots[b].state # "stored") /\ ~Stale(g)
        <5>1. flow' = [flow EXCEPT ![g].pc = IF roomKnown THEN AfterRoom ELSE "lookup"]
          BY <2>1, <4>3, Zenon DEF SessionReady, Advance
        <5>2. (IF roomKnown THEN AfterRoom ELSE "lookup") \in FlowStages \ {"opening"}
          BY <1>2, Zenon
        <5> QED
          BY <5>1, <5>2, Zenon
      <4> QED
        BY <4>1, <4>2, <4>3, Zenon
    <3> QED
      BY <3>1, <3>2, FlowOpensNothing
  <2>2. CASE \E live \in BOOLEAN : RoomLookup(g, live)
    <3>1. flow[g].pc # "refused"
      BY <2>2 DEF RoomLookup
    <3>2. \E p \in {"cancelled", "error", AfterRoom} : flow' = [flow EXCEPT ![g].pc = p]
      BY <2>2, Zenon DEF RoomLookup, Settle, Advance
    <3> QED
      BY <1>2, <3>1, <3>2, FlowOpensNothing
  <2>3. CASE Metadata(g)
    <3>1. flow[g].pc # "refused"
      BY <2>3 DEF Metadata
    <3>2. \/ flow' = [flow EXCEPT ![g].pc = "cancelled"]
          \/ flow' = [flow EXCEPT ![g].pc = IF flow[g].pc = "info" THEN AfterInfo ELSE "signer"]
      BY <2>3, Zenon DEF Metadata, Settle, Advance
    <3>3. (IF flow[g].pc = "info" THEN AfterInfo ELSE "signer") \in FlowStages \ {"opening"}
      BY <1>2, Zenon
    <3> QED
      BY <1>2, <3>1, <3>2, <3>3, FlowOpensNothing
  <2>4. CASE SignerReady(g) \/ SignerFails(g) \/ OpenThrows(g) \/ OpenTimeout(g) \/ EnterRoomFails(g)
    <3>1. flow[g].pc # "refused"
      BY <2>4 DEF SignerReady, SignerFails, OpenThrows, OpenTimeout, EnterRoomFails
    <3>2. \E p \in {"cancelled", "error", "signing"} : flow' = [flow EXCEPT ![g].pc = p]
      BY <2>4, Zenon DEF SignerReady, SignerFails, OpenThrows, OpenTimeout, EnterRoomFails, Settle, Advance
    <3> QED
      BY <1>2, <3>1, <3>2, FlowOpensNothing
  <2>5. CASE StaleSocketCloses(g) \/ WriteOverflows
    BY <2>5, FlowsKept DEF StaleSocketCloses, WriteOverflows
  <2> QED
    BY <2>1, <2>2, <2>3, <2>4, <2>5
<1> QED
  BY <1>3, <1>4, <1>5, <1>6, <1>7, FlowsPart, RefusalKeeps, Zenon

(* A flow takes the identity of the cookie. *)
LEMMA RefusalCreates ==
    ASSUME OwnershipInv, RefusalInv, NEW g \in Gens, CreateSigner(g) \/ Open(g)
    PROVE  RefusalInv'
<1>1. Typed /\ Len(boots) \in Nat /\ cookie \in Identities
  BY TypeParts DEF OwnershipInv, Typed, Bootstraps, Numbers
<1>2. /\ UNCHANGED <<closing, gen, cookie, boots, reconn, auto, listenersConnect, armFor, refusals>>
      /\ flow[g].pc # "refused"
  BY DEF CreateSigner, Open, identityVars, ownerVars, retryVars, historyVars
<1>3. FlowsOpenNothing
  <2>1. CASE \E p \in FlowStages : flow' = [flow EXCEPT ![g].pc = p, ![g].identity = cookie]
    <3>1. PICK p \in FlowStages : flow' = [flow EXCEPT ![g].pc = p, ![g].identity = cookie]
      BY <2>1, Zenon
    <3>2. flow \in [Gens -> FlowRecord(Len(boots))]
      BY <1>1, Zenon DEF Typed, Flows
    <3>3. /\ \A h \in Gens : flow'[h].pc = IF h = g THEN p ELSE flow[h].pc
          /\ \A h \in Gens : flow'[h].identity = IF h = g THEN cookie ELSE flow[h].identity
      BY <1>1, <3>1, <3>2, FlowTakesCookie, Zenon
    <3> QED
      BY <1>2, <3>3 DEF RefusalInv, FlowsOpenNothing
  <2>2. CASE flow' = [flow EXCEPT ![g].pc = "cancelled"]
    <3>1. "cancelled" \in FlowStages \ {"opening"}
      BY DEF FlowStages, Settled
    <3> QED
      BY <1>2, <2>2, <3>1, FlowOpensNothing
  <2>3. "creating" \in FlowStages /\ "opening" \in FlowStages
    BY DEF FlowStages
  <2> QED
    BY <2>1, <2>2, <2>3, Zenon DEF CreateSigner, Open, Settle
<1>4. /\ connecting' \in {connecting, None} /\ timer' \in {timer, None}
      /\ connected' => connected
  <2>1. connecting' = connecting \/ connecting' = None
    BY Zenon DEF CreateSigner, Open, Settle, ownerVars
  <2>2. timer' = timer /\ connected' = connected
    BY Zenon DEF CreateSigner, Open, socketVars, retryVars
  <2> QED
    BY <2>1, <2>2
<1>5. frame' \in {frame, "none", "signing"}
  BY Zenon DEF CreateSigner, Open
<1> QED
  BY <1>2, <1>3, <1>4, <1>5, FlowsPart, Unmoved, RefusalKeeps, Zenon

(* The socket opens: its identity is the cookie, and is not refused.       *)
LEMMA RefusalOpens ==
    ASSUME OwnershipInv, RefusalInv, NEW g \in Gens, SocketOpens(g)
    PROVE  RefusalInv'
<1>1. /\ UNCHANGED <<closing, gen, cookie, boots, reconn, auto, listenersConnect, armFor, timer, frame>>
      /\ flow[g].pc = "opening" /\ refusals' = refusals \ {flow[g].identity}
      /\ flow' = [flow EXCEPT ![g].pc = "ok"] /\ connecting' \in {connecting, None}
  BY Zenon DEF SocketOpens, Settle
<1>2. "ok" \in FlowStages \ {"opening"}
  BY DEF FlowStages, Settled
<1>3. FlowsOpenNothing
  BY <1>1, <1>2, FlowOpensNothing
<1>4. cookie \notin refusals' /\ refusals' \subseteq refusals
  BY <1>1 DEF RefusalInv
<1>5. OffersNothingNew
  BY <1>1, <1>3, <1>4, Zenon DEF OffersNothingNew, FlowsOpenNothing
<1> QED
  BY <1>1, <1>5, Unmoved, RefusalKeeps, Zenon

LEMMA RefusalDisconnect ==
    ASSUME OwnershipInv, RefusalInv, Disconnect
    PROVE  RefusalInv'
<1>1. /\ UNCHANGED <<cookie, boots, reconn, auto, listenersConnect, armFor, refusals, frame>>
      /\ connecting' = None /\ timer' = None /\ connected' = FALSE /\ Drop(1)
      /\ flow' = [g \in Gens |-> IF g = cancelOpen /\ flow[g].pc = "opening"
                                 THEN [flow[g] EXCEPT !.pc = "cancelled"] ELSE flow[g]]
  BY Zenon DEF Disconnect, Drop, historyVars
<1>2. flow \in [Gens -> FlowRecord(Len(boots))]
  BY TypeParts DEF OwnershipInv, Typed, Flows
<1>3. \A g \in Gens : [flow[g] EXCEPT !.pc = "cancelled"].pc = "cancelled"
  BY <1>2 DEF FlowRecord
<1>4. \A g \in Gens : \/ flow'[g] = flow[g]
                      \/ flow[g].pc = "opening" /\ flow'[g].pc = "cancelled"
  BY <1>1, <1>3
<1>5. FlowsOpenNothing
  BY <1>4 DEF RefusalInv, FlowsOpenNothing
<1>6. SameOrClosed
  <2>1. \E n \in 1 .. 2 : Drop(n)
    BY <1>1
  <2> QED
    BY <2>1, Dropped, Zenon
<1> QED
  BY <1>1, <1>5, <1>6, FlowsPart, RefusalKeeps, Zenon

(* The handshake fails: a flow that is refused offers nothing any more.    *)
LEMMA RefusalHandshake ==
    ASSUME OwnershipInv, RefusalInv, NEW g \in Gens, NEW cause, HandshakeFails(g, cause)
    PROVE  RefusalInv'
<1>1. /\ UNCHANGED <<closing, gen, cookie, boots, reconn, auto, listenersConnect, armFor, timer, frame>>
      /\ connected' = FALSE
  BY Zenon DEF HandshakeFails, identityVars, retryVars
<1>2. CASE flow[g].pc # "opening"
  <2>1. UNCHANGED <<flow, connecting, refusals>>
    BY <1>2, Zenon DEF HandshakeFails
  <2>2. OffersNothingNew
    BY <1>1, <2>1, FlowsKept, FlowsPart
  <2> QED
    BY <1>1, <2>2, Unmoved, RefusalKeeps, Zenon
<1>3. CASE flow[g].pc = "opening"
  <2>1. /\ flow' = [flow EXCEPT ![g].pc = "refused"] /\ connecting' \in {connecting, None}
        /\ refusals' = refusals \/ refusals' = refusals \cup {flow[g].identity}
    BY <1>3, Zenon DEF HandshakeFails, Settle
  <2>2. "refused" \in FlowStages \ {"opening"} /\ flow[g].pc # "refused"
    BY <1>3 DEF FlowStages, Settled
  <2>3. FlowsOpenNothing
    BY <2>1, <2>2, FlowOpensNothing
  <2>4. /\ gen = g /\ ~closing /\ connecting = g /\ connecting # None
        /\ flow[g].identity = cookie
    BY <1>3 DEF OwnershipInv, FlowsOwned, RefusalInv, None, Under, FlowStages, Settled, Gens
  <2>5. flow'[gen].pc = "refused"
    <3>1. flow \in [Gens -> FlowRecord(Len(boots))] /\ Len(boots) \in Nat /\ "refused" \in FlowStages
      BY TypeParts DEF OwnershipInv, Typed, Flows, Bootstraps, FlowStages, Settled
    <3> QED
      BY <2>1, <2>4, <3>1, FlowMoves
  <2>6. \A i \in refusals' \cup {cookie'} : i <= Len(boots') /\ (i \in DOMAIN boots' => BootDone(i)')
    <3>1. boots' = boots /\ \A i \in refusals' \cup {cookie'} : i \in refusals \cup {cookie}
      BY <1>1, <2>1, <2>4
    <3> QED
      BY <3>1, Zenon DEF RefusalInv, BootDone
  <2>7. ASSUME ~listenersConnect' PROVE RetriesAlone'
    <3>1. RetriesAlone /\ ~Retrying
      BY <1>1, <2>4, <2>7, Zenon DEF RefusalInv, RetriesAlone
    <3>2. ~Retrying'
      BY <1>1, <3>1, Zenon DEF Retrying, Stale
    <3>3. reconn[gen].pc \notin {"session", "creating"}
      BY <1>3, <2>4 DEF OwnershipInv, LoopsOwned
    <3>4. ~Offering'
      BY <1>1, <2>5, <3>2, <3>3 DEF Offering
    <3> QED
      BY <1>1, <3>1, <3>2, <3>4, Zenon DEF RetriesAlone
  <2> QED
    BY <1>1, <2>3, <2>6, <2>7, Zenon DEF RefusalInv, FlowsOpenNothing
<1> QED
  BY <1>2, <1>3

(* The client is going to retry: nothing is under way, and its cookie was  *)
(* not refused.                                                            *)
LEMMA RefusalRetry ==
    ASSUME OwnershipInv, RefusalInv,
           UNCHANGED <<closing, gen, cookie, boots, auto, listenersConnect, refusals, connecting, flow>>,
           connected' => connected, armFor' \in {armFor, gen, 0},
           \A h \in Gens : reconn'[h] = reconn[h] \/ reconn'[h].pc = "none",
           (~listenersConnect /\ Retrying') => Retrying \/ (connecting = None /\ cookie \notin refusals)
    PROVE  RefusalInv'
<1>1. /\ gen \in Nat /\ gen' = gen /\ armFor \in Nat /\ auto \subseteq Gens
  BY TypeParts DEF OwnershipInv, Typed, Numbers
<1>2. \A i \in refusals' \cup {cookie'} : i <= Len(boots') /\ (i \in DOMAIN boots' => BootDone(i)')
  BY Zenon DEF RefusalInv, BootDone
<1>3. (\A g \in Gens : flow'[g].pc = "opening" => flow'[g].identity = cookie') /\ (connected' => cookie' \notin refusals')
  BY Zenon DEF RefusalInv
<1>4. armFor' <= gen' /\ \A g \in auto' : g <= gen'
  BY <1>1 DEF RefusalInv
<1>5. ASSUME ~listenersConnect' PROVE RetriesAlone'
  <2>1. RetriesAlone
    BY <1>5, Zenon DEF RefusalInv
  <2>2. \A g \in Gens : reconn'[g].pc = "await" => g \in auto'
    BY <2>1 DEF RetriesAlone
  <2>3. Retrying' => connecting = None /\ (~closing => cookie \notin refusals)
    BY <1>5, <2>1, Zenon DEF RetriesAlone, Offering
  <2>4. ASSUME Offering' PROVE Offering \/ cookie \notin refusals
    <3>1. ~closing
      BY <2>4, Zenon DEF Offering
    <3>2. CASE gen \in auto /\ flow[gen].pc # "refused"
      BY <3>1, <3>2, Zenon DEF Offering
    <3>3. CASE gen \in Gens /\ reconn'[gen].pc \in {"creating", "session"}
      <4>1. reconn'[gen] = reconn[gen]
        BY <3>3
      <4>2. CASE reconn'[gen].pc = "creating"
        BY <3>1, <3>3, <4>1, <4>2, Zenon DEF Offering
      <4>3. CASE reconn'[gen].pc = "session" /\ boots'[reconn'[gen].boot].state = "stored"
        BY <3>1, <3>3, <4>1, <4>3, Zenon DEF Offering
      <4>4. CASE Retrying'
        BY <2>3, <3>1, <4>4
      <4>5. CASE gen' \in auto' /\ flow'[gen'].pc # "refused"
        BY <3>1, <4>5, Zenon DEF Offering
      <4> QED
        BY <2>4, <4>2, <4>3, <4>4, <4>5, Zenon DEF Offering
    <3>4. CASE Retrying'
      BY <2>3, <3>1, <3>4
    <3> QED
      BY <2>4, <3>2, <3>3, <3>4 DEF Offering
  <2> QED
    BY <2>1, <2>2, <2>3, <2>4, Zenon DEF RetriesAlone
<1>6. \A g \in Gens : reconn'[g].pc = "session" => reconn'[g].boot \in DOMAIN boots'
  <2>1. \A g \in Gens : reconn'[g].pc = "session" => reconn'[g] = reconn[g]
    OBVIOUS
  <2> QED
    BY <2>1, Zenon DEF RefusalInv
<1> QED
  BY <1>2, <1>3, <1>4, <1>5, <1>6, Zenon DEF RefusalInv

LEMMA RefusalSchedules ==
    ASSUME OwnershipInv, RefusalInv,
           \/ \E g \in Gens : SocketCloses(g) \/ ReconnectFails(g)
           \/ ScheduleReconnect \/ ArmTimer
    PROVE  RefusalInv'
<1>1. /\ UNCHANGED <<closing, gen, cookie, boots, auto, listenersConnect, refusals, connecting, flow>>
      /\ armFor' \in {armFor, gen, 0}
  BY Zenon DEF SocketCloses, ReconnectFails, ScheduleReconnect, ArmTimer, ownerVars, identityVars,
     retryVars, historyVars
<1>2. connected' => connected
  BY DEF SocketCloses, ReconnectFails, ScheduleReconnect, ArmTimer, socketVars
<1>3. \A h \in Gens : reconn'[h] = reconn[h] \/ reconn'[h].pc = "none"
  <2>1. reconn \in [Gens -> LoopRecord(Len(boots))] /\ Len(boots) \in Nat
    BY TypeParts DEF OwnershipInv, Typed, Loops, Bootstraps
  <2>2. reconn' = reconn \/ \E g \in Gens : reconn' = [reconn EXCEPT ![g] = NoFlow]
    BY Zenon DEF SocketCloses, ReconnectFails, ScheduleReconnect, ArmTimer
  <2> QED
    BY <2>1, <2>2, NoFlowType, LoopSet
<1>4. ASSUME ~listenersConnect, Retrying'
      PROVE  Retrying \/ (connecting = None /\ cookie \notin refusals)
  <2>0. RetriesAlone
    BY <1>4, Zenon DEF RefusalInv
  <2>1. ASSUME NEW g \in Gens, SocketCloses(g)
        PROVE  connecting = None /\ cookie \notin refusals
    <3>1. connected /\ gen \in Gens /\ flow[gen].pc = "ok"
      BY <2>1 DEF SocketCloses, OwnershipInv, SocketsOwned
    <3> QED
      BY <3>1 DEF RefusalInv, OwnershipInv, FlowsOwned, Under, Settled
  <2>2. ASSUME NEW g \in Gens, ReconnectFails(g)
        PROVE  connecting = None /\ cookie \notin refusals
    <3>1. g = gen /\ ~closing /\ reconn[g].pc = "await" /\ flow[g].pc \in {"error", "cancelled"}
      BY <2>2 DEF ReconnectFails, Stale
    <3>2. gen \in auto
      BY <2>0, <3>1 DEF RetriesAlone
    <3>3. Offering
      BY <3>1, <3>2 DEF Offering
    <3>4. connecting = None
      BY <3>1 DEF OwnershipInv, FlowsOwned, Under, Settled
    <3> QED
      BY <2>0, <3>3, <3>4, Zenon DEF RetriesAlone
  <2>3. CASE ScheduleReconnect
    <3>1. frame \in {"disconnected", "error"} /\ timer' = timer /\ closing' = closing
      BY <1>1, <2>3 DEF ScheduleReconnect
    <3>2. CASE closing
      BY <1>1, <1>4, <2>3, <3>1, <3>2 DEF ScheduleReconnect, Retrying
    <3>3. CASE ~closing
      BY <3>1, <3>3, Zenon DEF Retrying
    <3> QED
      BY <3>2, <3>3
  <2>4. CASE ArmTimer
    <3>1. /\ frame = "reconnecting" /\ frame' = "none"
          /\ timer' = IF Stale(armFor) THEN timer ELSE armFor
      BY <2>4 DEF ArmTimer
    <3>2. timer' # None
      BY <1>4, <3>1 DEF Retrying
    <3> QED
      BY <3>1, <3>2, Zenon DEF Retrying
  <2> QED
    BY <2>1, <2>2, <2>3, <2>4
<1> QED
  BY <1>1, <1>2, <1>3, <1>4, RefusalRetry, Zenon

(* #reconnect() of generation g returns, and does not go on. *)
LEMMA RefusalLoopEnds ==
    ASSUME OwnershipInv, RefusalInv, NEW g \in Gens,
           ReconnectReturns(g) \/ ReconnectRefused(g) \/ RefreshEnds(g) \/ LastAttemptReturns(g)
    PROVE  RefusalInv'
<1>1. /\ UNCHANGED <<closing, gen, cookie, boots, auto, listenersConnect, refusals, connecting, flow,
                     armFor, timer, frame>>
      /\ reconn' = [reconn EXCEPT ![g] = NoFlow]
  BY Zenon DEF ReconnectReturns, ReconnectRefused, RefreshEnds, LastAttemptReturns, ownerVars,
     identityVars, retryVars, historyVars
<1>2. connected' = connected
  BY Zenon DEF ReconnectReturns, ReconnectRefused, RefreshEnds, LastAttemptReturns, socketVars
<1>3. \A h \in Gens : reconn'[h] = reconn[h] \/ reconn'[h].pc = "none"
  <2>1. reconn \in [Gens -> LoopRecord(Len(boots))] /\ Len(boots) \in Nat
    BY TypeParts DEF OwnershipInv, Typed, Loops, Bootstraps
  <2> QED
    BY <1>1, <2>1, NoFlowType, LoopSet
<1>4. Retrying' => Retrying
  BY <1>1, Zenon DEF Retrying, Stale
<1> QED
  BY <1>1, <1>2, <1>3, <1>4, RefusalRetry

(* A connect() starts, and bootstraps nobody else's identity. *)
LEMMA RefusalStart ==
    ASSUME OwnershipInv, RefusalInv, StartConnect(cookie),
           UNCHANGED <<cookie, connected, armFor, refusals, listenersConnect, frame>>,
           auto' \in {auto, auto \cup {gen + 1}},
           \A h \in Gens : \/ reconn'[h].pc \in {"none", "last"} \/ reconn'[h] = reconn[h]
                           \/ reconn'[h].pc = "await" /\ h \in auto',
           reconn'[gen + 1].pc \notin {"creating", "session"},
           ~listenersConnect /\ frame \in {"disconnected", "error"} => closing',
           ~listenersConnect /\ gen + 1 \in auto' => cookie \notin refusals
    PROVE  RefusalInv'
<1> DEFINE g == gen + 1
<1>0. PICK k : k = Len(boots) + 1
  OBVIOUS
<1>1. /\ Typed /\ cookie \in Int /\ refusals \subseteq Int /\ gen \in Nat /\ armFor \in Nat
      /\ boots \in Seq(Boot) /\ Len(boots) \in Nat /\ auto \subseteq Gens
  BY TypeParts DEF OwnershipInv, Typed, Numbers, Bootstraps, Identities
<1>2. /\ closing' = FALSE /\ gen' = g /\ timer' = None
      /\ \/ boots' = boots
         \/ boots' = Append(boots, [gen |-> g, state |-> "pending"])
  BY Zenon DEF StartConnect
<1>3. /\ g \in Gens /\ flow'[g].pc = "session"
      /\ \A h \in Gens : h # g => flow'[h] = flow[h]
  BY <1>1, StartStages DEF Identities
<1>4. /\ DOMAIN boots = 1 .. Len(boots) /\ DOMAIN boots \subseteq DOMAIN boots' /\ Len(boots) <= Len(boots')
      /\ \A i \in DOMAIN boots' : i <= Len(boots) => i \in DOMAIN boots
      /\ \A i \in DOMAIN boots : boots'[i] = boots[i]
  <2>1. CASE boots' = boots
    BY <1>1, <2>1
  <2>2. CASE boots' = Append(boots, [gen |-> g, state |-> "pending"])
    BY <1>1, <1>3, <2>2, BootAdded
  <2> QED
    BY <1>2, <2>1, <2>2
<1>5. \A i \in refusals' \cup {cookie'} : i <= Len(boots') /\ (i \in DOMAIN boots' => BootDone(i)')
  <2> SUFFICES ASSUME NEW i \in refusals \cup {cookie}
               PROVE  i <= Len(boots') /\ (i \in DOMAIN boots' => BootDone(i)')
    OBVIOUS
  <2>1. i \in Int /\ i <= Len(boots) /\ (i \in DOMAIN boots => BootDone(i))
    BY <1>1 DEF RefusalInv
  <2>2. Len(boots') \in Nat
    BY <1>1, StartStages DEF Identities
  <2>3. i <= Len(boots')
    BY <1>1, <1>4, <2>1, <2>2
  <2>4. i \in DOMAIN boots' => i \in DOMAIN boots /\ boots'[i] = boots[i]
    BY <1>4, <2>1
  <2> QED
    BY <2>1, <2>3, <2>4 DEF BootDone
<1>6. \A h \in Gens : flow'[h].pc = "opening" => flow'[h].identity = cookie'
  <2>1. \A h \in Gens : flow'[h].pc = "opening" => flow'[h] = flow[h]
    BY <1>3
  <2> QED
    BY <2>1, Zenon DEF RefusalInv
<1>7. connected' => cookie' \notin refusals'
  BY Zenon DEF RefusalInv
<1>8. \A h \in Gens : reconn'[h].pc = "session" => reconn'[h].boot \in DOMAIN boots'
  <2>1. \A h \in Gens : reconn'[h].pc = "session" => reconn'[h] = reconn[h]
    OBVIOUS
  <2> QED
    BY <1>4, <2>1 DEF RefusalInv
<1>9. armFor' <= gen' /\ \A h \in auto' : h <= gen'
  BY <1>1, <1>2 DEF RefusalInv, Gens
<1>10. ASSUME ~listenersConnect' PROVE RetriesAlone'
  <2>1. RetriesAlone /\ frame \notin {"disconnected", "error"}
    BY <1>2, <1>10 DEF RefusalInv
  <2>2. \A h \in Gens : reconn'[h].pc = "await" => h \in auto'
    BY <2>1 DEF RetriesAlone
  <2>3. armFor' # gen'
    BY <1>1, <1>2 DEF RefusalInv
  <2>4. ~Retrying'
    BY <1>2, <2>1, <2>3 DEF Retrying, Stale
  <2>5. Offering' => g \in auto'
    BY <1>2, <2>4 DEF Offering
  <2>6. Offering' => cookie' \notin refusals'
    BY <1>10, <2>5
  <2> QED
    BY <2>2, <2>4, <2>6, Zenon DEF RetriesAlone
<1> QED
  BY <1>5, <1>6, <1>7, <1>8, <1>9, <1>10, Zenon DEF RefusalInv

(* connect() by the user, from outside the listeners that leave it alone.  *)
LEMMA RefusalConnect ==
    ASSUME OwnershipInv, RefusalInv, Connect
    PROVE  RefusalInv'
<1>1. /\ StartConnect(cookie) /\ (frame \in {"disconnected", "error"} => listenersConnect)
      /\ UNCHANGED <<cookie, armFor, reconn, frame, auto, refusals, listenersConnect>>
  BY Zenon DEF Connect
<1>2. connected' = connected
  BY Zenon DEF Connect, socketVars
<1>3. gen \in Nat /\ gen + 1 \in Gens /\ cookie \in Identities
  BY <1>1, StartStages, TypeParts DEF OwnershipInv, Typed, Numbers
<1>4. gen + 1 \notin auto'
  BY <1>1, <1>3 DEF RefusalInv
<1>5. reconn'[gen + 1].pc \notin {"creating", "session"}
  BY <1>1, <1>3 DEF OwnershipInv, FlowsOwned, LoopsOwned
<1> QED
  BY <1>1, <1>2, <1>4, <1>5, RefusalStart

(* The timer fires for a client that retries alone: it starts its own flow.*)
LEMMA RefusalTimer ==
    ASSUME OwnershipInv, RefusalInv, TimerFires
    PROVE  RefusalInv'
<1>1. /\ UNCHANGED <<cookie, armFor, frame, refusals, listenersConnect>> /\ connected' = connected
      /\ frame = "none" /\ timer # None
  BY Zenon DEF TimerFires, Quiet, socketVars
<1>2. CASE /\ timer' = None /\ UNCHANGED <<ownerVars, flow, boots, reconn, auto>>
  <2>1. Retrying' => Retrying
    BY <1>1, <1>2 DEF Retrying
  <2>2. UNCHANGED <<closing, gen, connecting>>
    BY <1>2, Zenon DEF ownerVars
  <2> QED
    BY <1>1, <1>2, <2>1, <2>2, RefusalRetry
<1>3. CASE /\ connecting # None /\ reconn' = [reconn EXCEPT ![connecting].pc = "await"]
           /\ timer' = None /\ UNCHANGED <<ownerVars, flow, boots, auto>>
  <2>1. connecting \in Gens /\ Retrying
    BY <1>1, <1>3 DEF OwnershipInv, FlowsOwned, Retrying
  <2>2. listenersConnect
    BY <1>3, <2>1, Zenon DEF RefusalInv, RetriesAlone
  <2>3. /\ reconn \in [Gens -> LoopRecord(Len(boots))] /\ Len(boots) \in Nat /\ "await" \in LoopStages
    BY TypeParts DEF OwnershipInv, Typed, Loops, Bootstraps, LoopStages
  <2>4. /\ \A h \in Gens : reconn'[h].pc = IF h = connecting THEN "await" ELSE reconn[h].pc
        /\ \A h \in Gens : reconn'[h].boot = reconn[h].boot
    BY <1>3, <2>1, <2>3, LoopMoves
  <2>5. \A h \in Gens : reconn'[h].pc = "session" => reconn'[h].boot \in DOMAIN boots'
    BY <1>3, <2>4 DEF RefusalInv
  <2>6. \A i \in refusals' \cup {cookie'} : i <= Len(boots') /\ (i \in DOMAIN boots' => BootDone(i)')
    BY <1>1, <1>3, Zenon DEF RefusalInv, BootDone
  <2>7. gen' = gen
    BY <1>3, Zenon DEF ownerVars
  <2> QED
    BY <1>1, <1>3, <2>2, <2>5, <2>6, <2>7, Zenon DEF RefusalInv
<1>4. CASE /\ connecting = None /\ StartConnect(cookie)
           /\ reconn' = [reconn EXCEPT ![gen + 1].pc = "await"] /\ auto' = auto \cup {gen + 1}
  <2>1. gen + 1 \in Gens /\ cookie \in Identities
    BY <1>4, StartStages, TypeParts DEF OwnershipInv, Typed, Numbers
  <2>2. ~listenersConnect => cookie \notin refusals
    <3>1. Retrying /\ ~closing
      BY <1>1 DEF Retrying, OwnershipInv, SocketsOwned
    <3> QED
      BY <3>1, Zenon DEF Offering, RefusalInv, RetriesAlone
  <2>3. reconn \in [Gens -> LoopRecord(Len(boots))]
    BY TypeParts DEF OwnershipInv, Typed, Loops
  <2>4. \A h \in Gens : h # gen + 1 => reconn'[h] = reconn[h]
    BY <1>4, <2>1, <2>3
  <2>5. reconn'[gen + 1].pc = "await"
    <3>1. Len(boots) \in Nat /\ "await" \in LoopStages
      BY TypeParts DEF OwnershipInv, Typed, Bootstraps, LoopStages
    <3> QED
      BY <1>4, <2>1, <2>3, <3>1, LoopMoves
  <2>6. \A h \in Gens : \/ reconn'[h].pc \in {"none", "last"} \/ reconn'[h] = reconn[h]
                        \/ reconn'[h].pc = "await" /\ h \in auto'
    BY <1>4, <2>4, <2>5
  <2> QED
    BY <1>1, <1>4, <2>2, <2>5, <2>6, RefusalStart
<1> QED
  BY <1>2, <1>3, <1>4, Zenon DEF TimerFires

(* The refreshed signer is there: the new identity is offered. *)
LEMMA RefusalRefreshed ==
    ASSUME OwnershipInv, RefusalInv, NEW g \in Gens, RefreshedConnect(g)
    PROVE  RefusalInv'
<1>1. /\ UNCHANGED <<cookie, armFor, frame, refusals, listenersConnect>> /\ connected' = connected
      /\ frame = "none" /\ reconn[g].pc = "creating" /\ ~Stale(g) /\ StartConnect(cookie)
      /\ reconn' = [reconn EXCEPT ![g] = NoFlow, ![gen + 1].pc = "last"]
      /\ auto' = auto \cup {gen + 1}
  BY Zenon DEF RefreshedConnect, Quiet, socketVars
<1>2. gen + 1 \in Gens /\ cookie \in Identities /\ g = gen /\ ~closing /\ gen \in Nat
  BY <1>1, StartStages, TypeParts DEF OwnershipInv, Typed, Numbers, Stale
<1>3. ~listenersConnect => cookie \notin refusals
  <2>1. Offering
    BY <1>1, <1>2 DEF Offering
  <2> QED
    BY <2>1, Zenon DEF RefusalInv, RetriesAlone
<1>4. reconn \in [Gens -> LoopRecord(Len(boots))] /\ Len(boots) \in Nat
  BY TypeParts DEF OwnershipInv, Typed, Loops, Bootstraps
<1>5. \A h \in Gens : h # g /\ h # gen + 1 => reconn'[h] = reconn[h]
  BY <1>1, <1>2, <1>4
<1>6. reconn'[g].pc = "none"
  <2>1. reconn'[g] = NoFlow
    BY <1>1, <1>2, <1>4
  <2> QED
    BY <1>4, <2>1, NoFlowType
<1>7. reconn'[gen + 1].pc = "last"
  <2> DEFINE r == [reconn[gen + 1] EXCEPT !.pc = "last"]
  <2>1. r.pc = "last"
    BY <1>2, <1>4 DEF LoopRecord
  <2>2. reconn'[gen + 1] = r
    BY <1>1, <1>2, <1>4
  <2> HIDE DEF r
  <2> QED
    BY <2>1, <2>2
<1>8. \A h \in Gens : \/ reconn'[h].pc \in {"none", "last"} \/ reconn'[h] = reconn[h]
                      \/ reconn'[h].pc = "await" /\ h \in auto'
  BY <1>5, <1>6, <1>7
<1> QED
  BY <1>1, <1>3, <1>7, <1>8, RefusalStart

(* The refused guest identity is dropped, and a new bootstrap starts. *)
LEMMA RefusalRefresh ==
    ASSUME OwnershipInv, RefusalInv, NEW g \in Gens, RefreshGuestSession(g)
    PROVE  RefusalInv'
<1>0. PICK k : k = Len(boots) + 1
  OBVIOUS
<1>1. /\ refusals \subseteq Int /\ gen \in Nat /\ armFor \in Nat /\ auto \subseteq Gens
      /\ boots \in Seq(Boot) /\ Len(boots) \in Nat
      /\ reconn \in [Gens -> LoopRecord(Len(boots))]
  BY TypeParts DEF OwnershipInv, Typed, Numbers, Bootstraps, Loops, Identities
<1>2. /\ UNCHANGED <<closing, gen, connecting, timer, armFor, flow, frame, auto, refusals, listenersConnect>>
      /\ reconn[g].pc = "await" /\ flow[g].pc = "refused" /\ ~Stale(g)
      /\ cookie' = NoIdentity
      /\ boots' = Append(boots, [gen |-> g, state |-> "pending"])
      /\ reconn' = [reconn EXCEPT ![g].pc = "session", ![g].boot = k]
  BY <1>0, Zenon DEF RefreshGuestSession, ownerVars, retryVars, historyVars
<1>3. g = gen /\ ~closing /\ connected' = connected
  BY DEF RefreshGuestSession, Stale, socketVars
<1>4. /\ DOMAIN boots = 1 .. Len(boots) /\ DOMAIN boots' = 1 .. Len(boots) + 1 /\ Len(boots') = Len(boots) + 1
      /\ \A b \in DOMAIN boots : boots'[b] = boots[b]
      /\ boots'[k].state = "pending"
  BY <1>0, <1>1, <1>2, BootAdded
<1>5. reconn'[g].pc = "session" /\ reconn'[g].boot = k
  <2> DEFINE q == [reconn[g] EXCEPT !.pc = "session"]
             r == [q EXCEPT !.boot = k]
  <2>1. q \in LoopRecord(Len(boots)) /\ q.pc = "session"
    BY <1>1 DEF LoopRecord, LoopStages
  <2>2. reconn'[g] = r
    BY <1>1, <1>2
  <2> HIDE DEF q
  <2>3. r.pc = "session" /\ r.boot = k
    BY <2>1 DEF LoopRecord
  <2> HIDE DEF r
  <2> QED
    BY <2>2, <2>3
<1>6. \A h \in Gens : h # g => reconn'[h] = reconn[h]
  BY <1>1, <1>2
<1>7. \A i \in refusals' \cup {cookie'} : i <= Len(boots') /\ (i \in DOMAIN boots' => BootDone(i)')
  <2>1. ASSUME NEW i \in refusals PROVE i <= Len(boots') /\ (i \in DOMAIN boots' => BootDone(i)')
    <3>1. i \in Int /\ i <= Len(boots) /\ (i \in DOMAIN boots => BootDone(i))
      BY <1>1, <2>1 DEF RefusalInv
    <3>2. i \in DOMAIN boots' => i \in DOMAIN boots /\ boots'[i] = boots[i]
      BY <1>1, <1>4, <3>1
    <3> QED
      BY <1>1, <1>4, <3>1, <3>2 DEF BootDone
  <2>2. NoIdentity <= Len(boots') /\ NoIdentity \notin DOMAIN boots'
    BY <1>1, <1>4 DEF NoIdentity
  <2> QED
    BY <1>2, <2>1, <2>2
<1>8. ~connected' /\ timer' = None /\ ~Retrying'
  <2>1. ~connected
    BY <1>2, <1>3 DEF OwnershipInv, SocketsOwned
  <2>2. timer = None /\ frame = "none"
    BY <1>2, <1>3 DEF OwnershipInv, LoopsOwned, RefreshGuestSession
  <2> QED
    BY <1>2, <1>3, <2>1, <2>2 DEF Retrying
<1>9. \A h \in Gens : flow'[h].pc = "opening" => flow'[h].identity = cookie'
  BY <1>2, <1>3 DEF OwnershipInv, FlowsOwned
<1>10. \A h \in Gens : reconn'[h].pc = "session" => reconn'[h].boot \in DOMAIN boots'
  <2>1. k \in DOMAIN boots' /\ DOMAIN boots \subseteq DOMAIN boots'
    BY <1>0, <1>1, <1>4
  <2>2. \A h \in Gens : h # g /\ reconn'[h].pc = "session" => reconn'[h].boot \in DOMAIN boots
    BY <1>6, Zenon DEF RefusalInv
  <2> QED
    BY <1>5, <2>1, <2>2
<1>11. armFor' <= gen' /\ \A h \in auto' : h <= gen'
  BY <1>2, Zenon DEF RefusalInv
<1>12. ASSUME ~listenersConnect' PROVE RetriesAlone'
  <2>1. RetriesAlone
    BY <1>2, <1>12, Zenon DEF RefusalInv
  <2>2. \A h \in Gens : reconn'[h].pc = "await" => h \in auto'
    BY <1>2, <1>5, <1>6, <2>1 DEF RetriesAlone
  <2>3. ~Offering'
    BY <1>2, <1>3, <1>4, <1>5, <1>8 DEF Offering
  <2> QED
    BY <1>8, <2>2, <2>3, Zenon DEF RetriesAlone
<1> QED
  BY <1>7, <1>8, <1>9, <1>10, <1>11, <1>12, Zenon DEF RefusalInv

(* The refresh has its new identity, and builds a signer for it. *)
LEMMA RefusalRefreshSession ==
    ASSUME OwnershipInv, RefusalInv, NEW g \in Gens, RefreshSession(g)
    PROVE  RefusalInv'
<1> DEFINE b == reconn[g].boot
           q == [NoFlow EXCEPT !.pc = "creating"]
           c == [q EXCEPT !.identity = cookie]
           r == IF boots[b].state = "stored" THEN c ELSE NoFlow
<1>1. /\ Len(boots) \in Nat /\ cookie \in Identities /\ gen \in Nat /\ auto \subseteq Gens
      /\ reconn \in [Gens -> LoopRecord(Len(boots))]
  BY TypeParts DEF OwnershipInv, Typed, Bootstraps, Numbers, Loops
<1>2. /\ UNCHANGED <<closing, gen, connecting, cookie, boots, flow, timer, armFor, frame, auto, refusals,
                     listenersConnect>>
      /\ reconn[g].pc = "session"
      /\ reconn' = [reconn EXCEPT ![g] = IF boots[b].state = "stored"
                                         THEN [NoFlow EXCEPT !.pc = "creating", !.identity = cookie]
                                         ELSE NoFlow]
  BY Zenon DEF RefreshSession, ownerVars, identityVars, retryVars
<1>3. reconn' = [reconn EXCEPT ![g] = r] /\ connected' = connected
  BY <1>2 DEF RefreshSession, socketVars
<1>4. q \in LoopRecord(Len(boots)) /\ q.pc = "creating"
  BY <1>1, NoFlowType DEF LoopRecord, LoopStages
<1> HIDE DEF q
<1>5. c.pc = "creating"
  BY <1>1, <1>4 DEF LoopRecord
<1> HIDE DEF c
<1>6. r.pc = "none" \/ (r.pc = "creating" /\ boots[b].state = "stored")
  BY <1>1, <1>5, NoFlowType
<1> HIDE DEF r
<1>7. \A h \in Gens : reconn'[h] = IF h = g THEN r ELSE reconn[h]
  BY <1>1, <1>3
<1>8. \A h \in Gens : reconn'[h].pc = "session" => reconn'[h].boot \in DOMAIN boots'
  <2>1. \A h \in Gens : reconn'[h].pc = "session" => reconn'[h] = reconn[h]
    BY <1>6, <1>7
  <2> QED
    BY <1>2, <2>1, Zenon DEF RefusalInv
<1>9. \A i \in refusals' \cup {cookie'} : i <= Len(boots') /\ (i \in DOMAIN boots' => BootDone(i)')
  BY <1>2, Zenon DEF RefusalInv, BootDone
<1>10. ASSUME ~listenersConnect' PROVE RetriesAlone'
  <2>1. RetriesAlone
    BY <1>2, <1>10, Zenon DEF RefusalInv
  <2>2. \A h \in Gens : reconn'[h].pc = "await" => h \in auto'
    BY <1>2, <1>6, <1>7, <2>1 DEF RetriesAlone
  <2>3. Retrying' <=> Retrying
    BY <1>2, Zenon DEF Retrying, Stale
  <2>4. Offering' => Offering
    <3>1. CASE gen = g
      BY <1>2, <1>6, <1>7, <2>3, <3>1 DEF Offering
    <3>2. CASE gen # g
      BY <1>2, <1>7, <2>3, <3>2 DEF Offering
    <3> QED
      BY <3>1, <3>2
  <2> QED
    BY <1>2, <2>1, <2>2, <2>3, <2>4, Zenon DEF RetriesAlone
<1> QED
  BY <1>2, <1>3, <1>8, <1>9, <1>10, Zenon DEF RefusalInv

(* A bootstrap answers: an identity it stores is a new one.                *)
LEMMA RefusalBootstrap ==
    ASSUME OwnershipInv, IdentityInv, RefusalInv, NEW b \in DOMAIN boots, NEW ok \in BOOLEAN,
           Bootstrap(b, ok)
    PROVE  RefusalInv'
<1> DEFINE kept == ok /\ ~Stale(boots[b].gen)
           s == IF kept THEN "stored" ELSE IF ok THEN "cancelled" ELSE "error"
<1>1. boots \in Seq(Boot) /\ gen \in Nat /\ refusals \subseteq Int /\ Len(boots) \in Nat
  BY TypeParts DEF OwnershipInv, Typed, Bootstraps, Numbers, Identities
<1>2. /\ boots' = [boots EXCEPT ![b].state = s] /\ cookie' = IF kept THEN b ELSE cookie
      /\ ~BootDone(b)
      /\ UNCHANGED <<closing, gen, connecting, flow, reconn, timer, armFor, frame, auto, refusals,
                     listenersConnect>>
  BY Zenon DEF Bootstrap, ownerVars, retryVars, historyVars
<1>3. s \in {"stored", "cancelled", "error"} /\ (s = "stored" => kept) /\ connected' = connected
  BY DEF Bootstrap, socketVars
<1>4. kept => ~Stale(boots[b].gen)
  OBVIOUS
<1> HIDE DEF s, kept
<1>5. /\ DOMAIN boots' = DOMAIN boots /\ Len(boots') = Len(boots) /\ DOMAIN boots = 1 .. Len(boots)
      /\ \A c \in DOMAIN boots : boots'[c].state = IF c = b THEN s ELSE boots[c].state
  BY <1>1, <1>2, <1>3, BootSettles
<1>6. b \notin refusals
  BY <1>2 DEF RefusalInv
<1>7. \A i \in refusals' \cup {cookie'} : i <= Len(boots') /\ (i \in DOMAIN boots' => BootDone(i)')
  <2>1. \A c \in DOMAIN boots : BootDone(c) => BootDone(c)'
    BY <1>3, <1>5 DEF BootDone
  <2>2. BootDone(b)' /\ b <= Len(boots')
    BY <1>1, <1>3, <1>5 DEF BootDone
  <2>3. \A i \in refusals' \cup {cookie'} : i = b \/ i \in refusals \cup {cookie}
    BY <1>2
  <2> QED
    BY <1>5, <2>1, <2>2, <2>3 DEF RefusalInv
<1>8. \A h \in Gens : flow'[h].pc = "opening" => flow'[h].identity = cookie'
  <2>1. CASE ~kept
    BY <1>2, <2>1, Zenon DEF RefusalInv
  <2>2. CASE kept
    <3>1. boots[b].gen = gen /\ ~closing /\ BootAwaited(b) /\ gen \in Gens
      BY <1>2, <1>4, <2>2, BootGen DEF IdentityInv, Stale
    <3>2. flow[gen].pc # "opening"
      BY <3>1 DEF BootAwaited, OwnershipInv, LoopsOwned
    <3> QED
      BY <1>2, <3>2 DEF OwnershipInv, FlowsOwned
  <2> QED
    BY <2>1, <2>2
<1>9. connected' => cookie' \notin refusals'
  BY <1>2, <1>3, <1>6 DEF RefusalInv
<1>10. \A h \in Gens : reconn'[h].pc = "session" => reconn'[h].boot \in DOMAIN boots'
  BY <1>2, <1>5, Zenon DEF RefusalInv
<1>11. ASSUME ~listenersConnect' PROVE RetriesAlone'
  <2>1. RetriesAlone
    BY <1>2, <1>11, Zenon DEF RefusalInv
  <2>2. Retrying' <=> Retrying
    BY <1>2, Zenon DEF Retrying, Stale
  <2>3. CASE kept
    BY <1>2, <1>6, <2>1, <2>2, <2>3, Zenon DEF RetriesAlone
  <2>4. CASE ~kept
    <3>1. \A c \in DOMAIN boots : boots'[c].state = "stored" => boots[c].state = "stored"
      BY <1>3, <1>5, <2>4
    <3>2. \A h \in Gens : reconn[h].pc = "session" => reconn[h].boot \in DOMAIN boots
      BY Zenon DEF RefusalInv
    <3>3. Offering' => Offering
      BY <1>2, <2>2, <3>1, <3>2, Zenon DEF Offering
    <3> QED
      BY <1>2, <2>1, <2>2, <2>4, <3>3, Zenon DEF RetriesAlone
  <2> QED
    BY <2>3, <2>4
<1> QED
  BY <1>2, <1>7, <1>8, <1>9, <1>10, <1>11, Zenon DEF RefusalInv

LEMMA RefusalInit == Init => RefusalInv
<1> SUFFICES ASSUME Init PROVE RefusalInv
  OBVIOUS
<1>1. /\ \A g \in Gens : flow[g].pc = "none" /\ reconn[g].pc = "none"
      /\ DOMAIN boots = {} /\ Len(boots) = 0
      /\ refusals = {} /\ cookie <= 0 /\ ~connected /\ armFor = 0 /\ gen = 0 /\ auto = {}
      /\ timer = None /\ frame = "none"
  BY DEF Init, NoFlow, SuppliedIdentity, NoIdentity
<1>2. ~Retrying /\ (Offering => gen \in Gens)
  BY <1>1 DEF Retrying, Offering
<1>3. RetriesAlone
  BY <1>1, <1>2 DEF RetriesAlone, Offering
<1> QED
  BY <1>1, <1>3 DEF RefusalInv

LEMMA RefusalNext == OwnershipInv /\ IdentityInv /\ RefusalInv /\ [Next]_vars => RefusalInv'
<1> SUFFICES ASSUME OwnershipInv, IdentityInv, RefusalInv, [Next]_vars PROVE RefusalInv'
  OBVIOUS
<1>1. CASE UNCHANGED vars
  <2>1. /\ UNCHANGED <<closing, gen, cookie, boots, auto, listenersConnect, refusals, connecting, flow,
                       connected, armFor, reconn, timer, frame>>
    BY <1>1, Zenon DEF vars, ownerVars, identityVars, socketVars, retryVars, historyVars
  <2>2. Retrying' => Retrying
    BY <2>1, Zenon DEF Retrying, Stale
  <2> QED
    BY <2>1, <2>2, RefusalRetry
<1>2. CASE \E b \in DOMAIN boots, ok \in BOOLEAN : Bootstrap(b, ok)
  BY <1>2, RefusalBootstrap
<1>3. ASSUME NEW g \in Gens,
             \/ SessionReady(g) \/ (\E live \in BOOLEAN : RoomLookup(g, live)) \/ Metadata(g)
             \/ CreateSigner(g) \/ SignerReady(g) \/ SignerFails(g) \/ OpenThrows(g) \/ Open(g)
      PROVE  RefusalInv'
  BY <1>3, RefusalFlows, RefusalCreates, Zenon
<1>4. ASSUME NEW g \in Gens,
             \/ SocketOpens(g) \/ EnterRoomFails(g) \/ OpenTimeout(g) \/ StaleSocketCloses(g)
             \/ (\E cause \in {"refusal", "network"} : HandshakeFails(g, cause)) \/ SocketCloses(g)
      PROVE  RefusalInv'
  BY <1>4, RefusalFlows, RefusalOpens, RefusalHandshake, RefusalSchedules, Zenon
<1>5. ASSUME NEW g \in Gens,
             \/ ReconnectReturns(g) \/ ReconnectFails(g) \/ ReconnectRefused(g) \/ RefreshGuestSession(g)
             \/ RefreshSession(g) \/ RefreshedConnect(g) \/ RefreshEnds(g) \/ LastAttemptReturns(g)
      PROVE  RefusalInv'
  BY <1>5, RefusalLoopEnds, RefusalSchedules, RefusalRefresh, RefusalRefreshSession, RefusalRefreshed, Zenon
<1>6. CASE ScheduleReconnect \/ ArmTimer \/ TimerFires \/ Connect \/ Disconnect
  BY <1>6, RefusalSchedules, RefusalTimer, RefusalConnect, RefusalDisconnect, Zenon
<1>7. CASE WriteOverflows
  <2>1. 1 \in 1 .. 2 /\ \E n \in 1 .. 2 : Drop(n)
    BY <1>7 DEF WriteOverflows
  <2>2. /\ UNCHANGED <<cookie, boots, reconn, auto, listenersConnect, armFor, refusals, frame, flow>>
        /\ connecting' = None /\ timer' = None /\ connected' = FALSE
    BY <1>7, Zenon DEF WriteOverflows, Drop, historyVars
  <2>3. OffersNothingNew
    BY <2>2, FlowsKept, FlowsPart, Zenon
  <2> QED
    BY <2>1, <2>3, Dropped, RefusalKeeps, Zenon
<1> QED
  BY <1>1, <1>2, <1>3, <1>4, <1>5, <1>6, <1>7, Zenon DEF Next, Progress

(* Only #open creates a socket, for the current flow and with the cookie.  *)
LEMMA RefusedStep ==
    ASSUME OwnershipInv, RefusalInv, [Next]_vars, ~listenersConnect,
           NEW g \in auto, wire[g] = "none" /\ wire'[g] = "connecting"
    PROVE  flow'[g].identity \notin refusals
<1>1. /\ g \in Gens /\ wire \in [Gens -> {"none", "connecting", "open", "closing", "closed"}]
      /\ flow \in [Gens -> FlowRecord(Len(boots))] /\ Len(boots) \in Nat /\ cookie \in Identities
  BY TypeParts DEF OwnershipInv, Typed, Numbers, Flows, Bootstraps
<1>2. ASSUME NEW h \in Gens, Open(h) PROVE flow'[g].identity \notin refusals
  <2>1. h = g /\ ~Stale(h) /\ flow' = [flow EXCEPT ![h].pc = "opening", ![h].identity = cookie]
    BY <1>1, <1>2 DEF Open
  <2>2. "opening" \in FlowStages /\ flow[g].pc = "signing"
    BY <1>2, <2>1 DEF Open, FlowStages
  <2>3. flow'[g].identity = cookie
    <3>1. flow' = [flow EXCEPT ![g].pc = "opening", ![g].identity = cookie]
      BY <2>1, Zenon
    <3>2. \A i \in Gens : flow'[i].identity = IF i = g THEN cookie ELSE flow[i].identity
      BY <1>1, <2>2, <3>1, FlowTakesCookie, Zenon
    <3> QED
      BY <1>1, <3>2
  <2>4. Offering
    BY <2>1, <2>2 DEF Offering, Stale
  <2> QED
    BY <2>3, <2>4, Zenon DEF RefusalInv, RetriesAlone
<1>3. CASE \E h \in Gens : \/ SocketOpens(h) \/ OpenTimeout(h) \/ StaleSocketCloses(h) \/ SocketCloses(h)
                           \/ \E cause \in {"refusal", "network"} : HandshakeFails(h, cause)
  BY <1>1, <1>3 DEF SocketOpens, OpenTimeout, StaleSocketCloses, SocketCloses, HandshakeFails
<1>4. CASE \E n \in 1 .. 2 : Drop(n)
  BY <1>1, <1>4 DEF Drop
<1>5. CASE wire' = wire
  BY <1>5
<1>6. \/ \E h \in Gens : Open(h)
      \/ \E h \in Gens : \/ SocketOpens(h) \/ OpenTimeout(h) \/ StaleSocketCloses(h) \/ SocketCloses(h)
                         \/ \E cause \in {"refusal", "network"} : HandshakeFails(h, cause)
      \/ \E n \in 1 .. 2 : Drop(n)
      \/ wire' = wire
  <2>1. Disconnect \/ WriteOverflows => \E n \in 1 .. 2 : Drop(n)
    BY DEF Disconnect, WriteOverflows
  <2> QED
    BY <2>1, Zenon DEF Next, Progress, Bootstrap, SessionReady, RoomLookup, Metadata, CreateSigner,
       SignerReady, SignerFails, OpenThrows, EnterRoomFails, ReconnectReturns, ReconnectFails, ReconnectRefused,
       RefreshGuestSession, RefreshSession, RefreshedConnect, RefreshEnds, LastAttemptReturns,
       ScheduleReconnect, ArmTimer, TimerFires, Connect, vars
<1> QED
  BY <1>2, <1>3, <1>4, <1>5, <1>6, Zenon

(* "Never cycle a rejected identity", for a client whose listeners leave   *)
(* connect() alone: no attempt that it starts by itself offers an identity *)
(* the server has refused since it last accepted it.                       *)
THEOREM RefusalIsFinalHolds == Spec => RefusalIsFinal
<1>1. Spec => []OwnershipInv
  BY OwnershipInvHolds
<1>2. Spec => []IdentityInv
  BY IdentityInit, IdentityNext, OwnershipInvHolds, PTL DEF Spec
<1>3. Spec => []RefusalInv
  BY <1>1, <1>2, RefusalInit, RefusalNext, PTL DEF Spec
<1>4. OwnershipInv /\ RefusalInv /\ [Next]_vars =>
        [~listenersConnect =>
           \A g \in auto : wire[g] = "none" /\ wire'[g] = "connecting"
                           => flow'[g].identity \notin refusals]_vars
  BY RefusedStep
<1> QED
  BY <1>1, <1>3, <1>4, PTL DEF Spec, RefusalIsFinal

--------------------------------------------------------------------------------
(* What Resolves rests on                                                  *)

(* The user who was not told yet how the reconnecting ended still has      *)
(* somebody who works on it: an open connection, the listeners before the  *)
(* schedule or before the timer, the timer, or a #reconnect() under way.   *)
(* Hence no step of a listener, a refresh or a failed attempt drops the    *)
(* reconnecting without a word.                                            *)
Driven ==
    ~told /\ ~closing /\ gen \in Gens =>
        \/ connected
        \/ frame \in {"disconnected", "error"}
        \/ frame = "reconnecting" /\ armFor = gen
        \/ timer = gen
        \/ reconn[gen].pc # "none"

(* The success that a #reconnect() of the current generation is about to   *)
(* return is an open connection: the socket's close waits for it.          *)
OkIsUp ==
    ~closing /\ gen \in Gens /\ flow[gen].pc = "ok" /\ reconn[gen].pc \in {"await", "last"}
        => connected

DrivenInv == Driven /\ OkIsUp

LEMMA DrivenAlone ==
    ASSUME DrivenInv, UNCHANGED <<closing, gen, connected, timer, armFor, reconn>>,
           frame' = frame \/ frame \in {"none", "signing"}, told => told',
           \A h \in Gens : flow'[h].pc = "ok" => flow[h].pc = "ok"
    PROVE  DrivenInv'
BY DEF DrivenInv, Driven, OkIsUp

LEMMA FlowNotOk ==
    ASSUME OwnershipInv, NEW g \in Gens, NEW p \in FlowStages \ {"ok"},
           flow' = [flow EXCEPT ![g].pc = p]
    PROVE  \A h \in Gens : flow'[h].pc = "ok" => flow[h].pc = "ok"
<1>1. flow \in [Gens -> FlowRecord(Len(boots))] /\ Len(boots) \in Nat
  BY TypeParts DEF OwnershipInv, Typed, Flows, Bootstraps
<1>2. \A h \in Gens : flow'[h].pc = IF h = g THEN p ELSE flow[h].pc
  BY <1>1, FlowMoves
<1> QED
  BY <1>2

(* Flows move, and fail, without touching what drives the reconnecting.    *)
LEMMA DrivenFlows ==
    ASSUME OwnershipInv, DrivenInv, NEW g \in Gens,
           \/ SessionReady(g) \/ (\E live \in BOOLEAN : RoomLookup(g, live)) \/ Metadata(g)
           \/ SignerReady(g) \/ SignerFails(g) \/ OpenThrows(g) \/ OpenTimeout(g) \/ StaleSocketCloses(g)
    PROVE  DrivenInv'
<1>1. Typed
  BY TypeParts DEF OwnershipInv
<1>2. {AfterRoom, AfterInfo, "lookup", "signer", "signing", "error", "cancelled"} \subseteq FlowStages \ {"ok"}
  BY DEF AfterRoom, AfterInfo, FlowStages, Settled
<1>3. UNCHANGED <<closing, gen, connected, timer, armFor, reconn, told>>
  BY Zenon DEF SessionReady, RoomLookup, Metadata, SignerReady, SignerFails, OpenThrows, OpenTimeout,
     StaleSocketCloses, ownerVars, socketVars, retryVars, historyVars
<1>4. frame' = frame \/ frame \in {"none", "signing"}
  BY Zenon DEF SessionReady, RoomLookup, Metadata, SignerReady, SignerFails, OpenThrows, OpenTimeout,
     StaleSocketCloses, Quiet
<1>5. flow' = flow \/ \E p \in FlowStages \ {"ok"} : flow' = [flow EXCEPT ![g].pc = p]
  <2>1. CASE SessionReady(g)
    <3> DEFINE b == flow[g].boot
    <3>1. ASSUME b # None, boots[b].state # "stored" PROVE boots[b].state \in FlowStages \ {"ok"}
      <4>1. boots[b] \in Boot /\ boots[b].state # "pending"
        BY <1>1, <2>1, <3>1 DEF SessionReady, BootDone, Typed, Flows, Bootstraps, FlowRecord, None
      <4> QED
        BY <3>1, <4>1 DEF Boot, FlowStages, Settled
    <3> QED
      BY <1>2, <2>1, <3>1, Zenon DEF SessionReady, Settle, Advance
  <2>2. CASE (\E live \in BOOLEAN : RoomLookup(g, live)) \/ Metadata(g)
    BY <1>2, <2>2, Zenon DEF RoomLookup, Metadata, Settle, Advance
  <2>3. CASE SignerReady(g) \/ SignerFails(g) \/ OpenThrows(g) \/ OpenTimeout(g) \/ StaleSocketCloses(g)
    BY <1>2, <2>3, Zenon DEF SignerReady, SignerFails, OpenThrows, OpenTimeout, StaleSocketCloses, Settle, Advance
  <2> QED
    BY <2>1, <2>2, <2>3, Zenon
<1>6. \A h \in Gens : flow'[h].pc = "ok" => flow[h].pc = "ok"
  BY <1>5, FlowNotOk
<1> QED
  BY <1>3, <1>4, <1>6, DrivenAlone

(* The same of the steps that also record the identity of the flow.        *)
LEMMA DrivenCreates ==
    ASSUME OwnershipInv, DrivenInv, NEW g \in Gens, CreateSigner(g) \/ Open(g)
    PROVE  DrivenInv'
<1>1. /\ flow \in [Gens -> FlowRecord(Len(boots))] /\ Len(boots) \in Nat /\ cookie \in Identities
  BY TypeParts DEF OwnershipInv, Typed, Flows, Bootstraps, Numbers
<1>2. {"creating", "opening", "cancelled"} \subseteq FlowStages \ {"ok"}
  BY DEF FlowStages, Settled
<1>3. /\ UNCHANGED <<closing, gen, connected, timer, armFor, reconn, told>>
      /\ frame' = frame \/ frame \in {"none", "signing"}
  BY Zenon DEF CreateSigner, Open, Quiet, ownerVars, socketVars, retryVars, historyVars
<1>4. \/ flow' = [flow EXCEPT ![g].pc = "cancelled"]
      \/ \E p \in {"creating", "opening"} :
            flow' = [flow EXCEPT ![g].pc = p, ![g].identity = cookie]
  BY Zenon DEF CreateSigner, Open, Settle
<1>5. \A h \in Gens : flow'[h].pc = "ok" => flow[h].pc = "ok"
  <2>1. CASE flow' = [flow EXCEPT ![g].pc = "cancelled"]
    BY <1>2, <2>1, FlowNotOk
  <2>2. ASSUME NEW p \in {"creating", "opening"},
               flow' = [flow EXCEPT ![g].pc = p, ![g].identity = cookie]
        PROVE  \A h \in Gens : flow'[h].pc = "ok" => flow[h].pc = "ok"
    <3>1. p \in FlowStages /\ p # "ok"
      BY <1>2
    <3>2. \A h \in Gens : flow'[h].pc = IF h = g THEN p ELSE flow[h].pc
      BY <1>1, <2>2, <3>1, FlowTakesCookie, Zenon
    <3> QED
      BY <3>1, <3>2
  <2> QED
    BY <1>4, <2>1, <2>2
<1> QED
  BY <1>3, <1>5, DrivenAlone

(* The socket opens, fails before it is open, or is lost: 'close' on the   *)
(* open socket comes after the #reconnect() that waited for it has         *)
(* returned, and before its listeners run.                                 *)
LEMMA DrivenSockets ==
    ASSUME OwnershipInv, DrivenInv, NEW g \in Gens,
           \/ SocketOpens(g) \/ SocketCloses(g)
           \/ \E cause \in {"refusal", "network"} : HandshakeFails(g, cause)
    PROVE  DrivenInv'
<1>1. CASE SocketOpens(g)
  BY <1>1 DEF SocketOpens, DrivenInv, Driven, OkIsUp
<1>2. CASE \E cause \in {"refusal", "network"} : HandshakeFails(g, cause)
  <2>1. /\ UNCHANGED <<closing, gen, timer, armFor, reconn, told, frame>> /\ connected' = FALSE
        /\ flow' = flow \/ flow' = [flow EXCEPT ![g].pc = "refused"]
        /\ socket = g /\ wire[g] \in {"connecting", "closing"}
    BY <1>2, Zenon DEF HandshakeFails, Settle, retryVars
  <2>2. ~connected
    BY <2>1 DEF OwnershipInv, SocketsOwned
  <2>3. "refused" \in FlowStages \ {"ok"}
    BY DEF FlowStages, Settled
  <2>4. \A h \in Gens : flow'[h].pc = "ok" => flow[h].pc = "ok"
    BY <2>1, <2>3, FlowNotOk
  <2> QED
    BY <2>1, <2>2, <2>4, DrivenAlone DEF OwnershipInv, TypeOK
<1>3. CASE SocketCloses(g)
  <2>1. /\ UNCHANGED <<closing, gen, reconn, flow>> /\ frame' = "disconnected"
        /\ wire[g] = "open" /\ Quiet
    BY <1>3, Zenon DEF SocketCloses, ownerVars
  <2>2. connected /\ g = gen /\ flow[gen].pc = "ok"
    BY <2>1 DEF OwnershipInv, SocketsOwned
  <2>3. reconn[gen].pc \notin {"await", "last"}
    BY <2>1, <2>2 DEF Quiet, Settled
  <2> QED
    BY <2>1, <2>3 DEF DrivenInv, Driven, OkIsUp
<1> QED
  BY <1>1, <1>2, <1>3

(* The listeners return: the schedule finds the budget spent and says so,  *)
(* or leads to the timer, unless a listener has moved on to another        *)
(* generation, whose outcome its own caller holds.                         *)
LEMMA DrivenSchedules ==
    ASSUME OwnershipInv, DrivenInv, ScheduleReconnect \/ ArmTimer
    PROVE  DrivenInv'
<1>1. UNCHANGED <<closing, gen, connected, flow, reconn>> /\ told \in BOOLEAN
  BY DEF ScheduleReconnect, ArmTimer, ownerVars, socketVars, OwnershipInv, TypeOK
<1>2. OkIsUp'
  BY <1>1 DEF DrivenInv, OkIsUp
<1>3. Driven'
  BY <1>1 DEF DrivenInv, Driven, ScheduleReconnect, ArmTimer, Stale, historyVars, OwnershipInv, LoopsOwned
<1> QED
  BY <1>2, <1>3 DEF DrivenInv

(* connect() by the user hands out a promise; connect() by #reconnect() is *)
(* awaited by it.                                                          *)
LEMMA DrivenConnects ==
    ASSUME OwnershipInv, DrivenInv, Connect \/ TimerFires \/ \E g \in Gens : RefreshedConnect(g)
    PROVE  DrivenInv'
<1>1. /\ reconn \in [Gens -> LoopRecord(Len(boots))] /\ Len(boots) \in Nat /\ cookie \in Identities
      /\ gen \in Nat /\ NoFlow \in LoopRecord(Len(boots)) /\ NoFlow.pc = "none"
  BY TypeParts, NoFlowType DEF OwnershipInv, Typed, Loops, Bootstraps, Numbers
<1>2. ASSUME StartConnect(cookie)
      PROVE  gen' = gen + 1 /\ gen + 1 \in Gens /\ flow'[gen + 1].pc = "session"
  <2>1. gen' = gen + 1
    BY <1>2, Zenon DEF StartConnect
  <2>2. /\ gen + 1 \in Gens
        /\ \A h \in Gens : flow'[h].pc = IF h = gen + 1 THEN "session" ELSE flow[h].pc
    BY <1>1, <1>2, StartStages, Zenon
  <2> QED
    BY <2>1, <2>2
<1>3. CASE Connect
  BY <1>2, <1>3 DEF Connect, DrivenInv, Driven, OkIsUp
<1>4. CASE TimerFires /\ StartConnect(cookie) /\ reconn' = [reconn EXCEPT ![gen + 1].pc = "await"]
  <2>1. reconn'[gen + 1].pc = "await"
    BY <1>1, <1>2, <1>4, LoopMoves DEF LoopStages
  <2> QED
    BY <1>2, <1>4, <2>1 DEF DrivenInv, Driven, OkIsUp
<1>5. CASE /\ TimerFires /\ connecting # None
           /\ UNCHANGED <<closing, gen, connecting, flow>>
           /\ reconn' = [reconn EXCEPT ![connecting].pc = "await"]
  <2>1. connecting = gen /\ gen \in Gens /\ flow[gen].pc # "ok"
    BY <1>5 DEF OwnershipInv, FlowsOwned, Under, Settled
  <2>2. reconn'[gen].pc = "await"
    BY <1>1, <1>5, <2>1, LoopMoves DEF LoopStages
  <2> QED
    BY <1>5, <2>1, <2>2 DEF DrivenInv, Driven, OkIsUp
<1>6. CASE TimerFires /\ (Stale(timer) \/ connected) /\ UNCHANGED <<closing, gen, flow, reconn>>
  <2>1. connected' = connected /\ timer # None
    BY <1>6 DEF TimerFires, socketVars
  <2>2. closing \/ connected
    BY <1>6, <2>1 DEF Stale, OwnershipInv, LoopsOwned
  <2> QED
    BY <1>6, <2>1, <2>2 DEF DrivenInv, Driven, OkIsUp
<1>7. ASSUME NEW g \in Gens, RefreshedConnect(g)
      PROVE  DrivenInv'
  <2>1. StartConnect(cookie) /\ reconn' = [reconn EXCEPT ![g] = NoFlow, ![gen + 1].pc = "last"]
    BY <1>7, Zenon DEF RefreshedConnect
  <2> DEFINE q == [reconn EXCEPT ![g] = NoFlow]
  <2>2. q \in [Gens -> LoopRecord(Len(boots))]
    BY <1>1
  <2>3. reconn' = [q EXCEPT ![gen + 1].pc = "last"]
    BY <2>1
  <2> HIDE DEF q
  <2>4. reconn'[gen + 1].pc = "last"
    BY <1>2, <2>1, <2>2, <2>3 DEF LoopRecord, LoopStages
  <2> QED
    BY <1>2, <2>1, <2>4 DEF DrivenInv, Driven, OkIsUp
<1>8. TimerFires =>
        \/ TimerFires /\ StartConnect(cookie) /\ reconn' = [reconn EXCEPT ![gen + 1].pc = "await"]
        \/ /\ TimerFires /\ connecting # None
           /\ UNCHANGED <<closing, gen, connecting, flow>>
           /\ reconn' = [reconn EXCEPT ![connecting].pc = "await"]
        \/ TimerFires /\ (Stale(timer) \/ connected) /\ UNCHANGED <<closing, gen, flow, reconn>>
  BY Zenon DEF TimerFires, ownerVars
<1> QED
  BY <1>3, <1>4, <1>5, <1>6, <1>7, <1>8, Zenon

(* #reconnect() returns with an open connection, or leaves its word, the   *)
(* 'error' listeners, or the next stage of the refresh behind.             *)
LEMMA DrivenLoops ==
    ASSUME OwnershipInv, DrivenInv, NEW g \in Gens,
           \/ ReconnectReturns(g) \/ ReconnectFails(g) \/ ReconnectRefused(g)
           \/ RefreshSession(g) \/ RefreshEnds(g) \/ LastAttemptReturns(g)
    PROVE  DrivenInv'
<1>1. /\ reconn \in [Gens -> LoopRecord(Len(boots))] /\ Len(boots) \in Nat /\ cookie \in Identities
      /\ NoFlow \in LoopRecord(Len(boots)) /\ NoFlow.pc = "none" /\ told \in BOOLEAN
  BY TypeParts, NoFlowType DEF OwnershipInv, Typed, Loops, Bootstraps, Numbers, Flags
<1>2. UNCHANGED <<closing, gen, connected, flow, timer, armFor>> /\ (told => told')
  <2>1. CASE ReconnectReturns(g) \/ ReconnectFails(g) \/ ReconnectRefused(g)
    BY <2>1 DEF ReconnectReturns, ReconnectFails, ReconnectRefused, ownerVars, socketVars, retryVars,
       historyVars
  <2>2. CASE RefreshSession(g) \/ RefreshEnds(g) \/ LastAttemptReturns(g)
    BY <1>1, <2>2 DEF RefreshSession, RefreshEnds, LastAttemptReturns, ownerVars, socketVars, retryVars
  <2> QED
    BY <2>1, <2>2
<1>3. CASE reconn' = [reconn EXCEPT ![g] = NoFlow]
  <2>1. reconn'[g].pc = "none" /\ \A h \in Gens : h # g => reconn'[h] = reconn[h]
    BY <1>1, <1>3
  <2>2. OkIsUp'
    BY <1>2, <2>1 DEF DrivenInv, OkIsUp
  <2>3. g = gen /\ ~closing /\ flow[g].pc = "ok" /\ reconn[g].pc \in {"await", "last"} => connected
    BY DEF DrivenInv, OkIsUp
  <2>4. CASE ReconnectReturns(g)
    BY <1>2, <2>1, <2>2, <2>3, <2>4 DEF ReconnectReturns, Stale, DrivenInv, Driven
  <2>5. CASE ReconnectFails(g)
    BY <1>2, <2>1, <2>2, <2>5 DEF ReconnectFails, DrivenInv, Driven
  <2>6. CASE ReconnectRefused(g)
    BY <1>2, <2>1, <2>2, <2>6 DEF ReconnectRefused, DrivenInv, Driven
  <2>7. CASE RefreshEnds(g)
    BY <1>2, <2>1, <2>2, <2>7 DEF RefreshEnds, Quiet, DrivenInv, Driven
  <2>8. CASE LastAttemptReturns(g)
    BY <1>2, <2>1, <2>2, <2>3, <2>8 DEF LastAttemptReturns, DrivenInv, Driven
  <2>9. CASE RefreshSession(g)
    <3>1. CASE boots[reconn[g].boot].state = "stored"
      <4> DEFINE c == [NoFlow EXCEPT !.pc = "creating"]
      <4>1. c \in LoopRecord(Len(boots)) /\ c.pc = "creating"
        BY <1>1 DEF LoopRecord, LoopStages
      <4>2. reconn'[g] = [c EXCEPT !.identity = cookie]
        BY <1>1, <2>9, <3>1 DEF RefreshSession
      <4> HIDE DEF c
      <4>3. reconn'[g].pc = "creating"
        BY <4>1, <4>2 DEF LoopRecord
      <4> QED
        BY <2>1, <4>3
    <3>2. CASE boots[reconn[g].boot].state # "stored"
      BY <1>2, <2>1, <2>2, <2>9, <3>2 DEF RefreshSession, DrivenInv, Driven
    <3> QED
      BY <3>1, <3>2
  <2> QED
    BY <2>4, <2>5, <2>6, <2>7, <2>8, <2>9
<1>4. CASE /\ RefreshSession(g)
           /\ reconn' = [reconn EXCEPT ![g] = [NoFlow EXCEPT !.pc = "creating", !.identity = cookie]]
  <2> DEFINE c == [NoFlow EXCEPT !.pc = "creating"]
             d == [c EXCEPT !.identity = cookie]
  <2>1. c \in LoopRecord(Len(boots)) /\ c.pc = "creating"
    BY <1>1 DEF LoopRecord, LoopStages
  <2>2. reconn' = [reconn EXCEPT ![g] = d]
    BY <1>4
  <2> HIDE DEF c
  <2>3. d.pc = "creating"
    BY <2>1 DEF LoopRecord
  <2> HIDE DEF d
  <2>4. reconn'[g].pc = "creating" /\ \A h \in Gens : h # g => reconn'[h] = reconn[h]
    BY <1>1, <2>2, <2>3
  <2>5. frame' = frame
    BY <1>4 DEF RefreshSession
  <2> QED
    BY <1>2, <2>4, <2>5 DEF DrivenInv, Driven, OkIsUp
<1>5. \/ reconn' = [reconn EXCEPT ![g] = NoFlow]
      \/ /\ RefreshSession(g)
         /\ reconn' = [reconn EXCEPT ![g] = [NoFlow EXCEPT !.pc = "creating", !.identity = cookie]]
  <2>1. CASE RefreshSession(g)
    <3>1. CASE boots[reconn[g].boot].state = "stored"
      BY <2>1, <3>1 DEF RefreshSession
    <3>2. CASE boots[reconn[g].boot].state # "stored"
      BY <2>1, <3>2 DEF RefreshSession
    <3> QED
      BY <3>1, <3>2
  <2>2. CASE ~RefreshSession(g)
    BY <2>2, Zenon DEF ReconnectReturns, ReconnectFails, ReconnectRefused, RefreshEnds, LastAttemptReturns
  <2> QED
    BY <2>1, <2>2
<1> QED
  BY <1>3, <1>4, <1>5

(* The refresh waits for its new identity. *)
LEMMA DrivenRefresh ==
    ASSUME OwnershipInv, DrivenInv, NEW g \in Gens, RefreshGuestSession(g)
    PROVE  DrivenInv'
<1> DEFINE q == [reconn[g] EXCEPT !.pc = "session"]
           r == [q EXCEPT !.boot = Len(boots) + 1]
<1>1. /\ reconn \in [Gens -> LoopRecord(Len(boots))] /\ Len(boots) \in Nat
  BY TypeParts DEF OwnershipInv, Typed, Loops, Bootstraps
<1>2. q \in LoopRecord(Len(boots)) /\ q.pc = "session"
  BY <1>1 DEF LoopRecord, LoopStages
<1>3. reconn' = [reconn EXCEPT ![g] = r]
  BY DEF RefreshGuestSession
<1> HIDE DEF q
<1>4. r.pc = "session"
  BY <1>2 DEF LoopRecord
<1> HIDE DEF r
<1>5. reconn'[g].pc = "session" /\ \A h \in Gens : h # g => reconn'[h] = reconn[h]
  BY <1>1, <1>3, <1>4
<1>6. UNCHANGED <<closing, gen, connected, flow, timer, armFor, frame, told>>
  BY Zenon DEF RefreshGuestSession, ownerVars, socketVars, retryVars, historyVars
<1> QED
  BY <1>5, <1>6 DEF DrivenInv, Driven, OkIsUp

LEMMA DrivenNext == OwnershipInv /\ DrivenInv /\ [Next]_vars => DrivenInv'
<1> SUFFICES ASSUME OwnershipInv, DrivenInv, [Next]_vars PROVE DrivenInv'
  OBVIOUS
<1>1. CASE UNCHANGED vars \/ \E b \in DOMAIN boots, ok \in BOOLEAN : Bootstrap(b, ok)
  <2>1. UNCHANGED <<closing, gen, connected, timer, armFor, reconn, frame, told, flow>>
    BY <1>1, Zenon DEF vars, Bootstrap, ownerVars, socketVars, retryVars, historyVars
  <2> QED
    BY <2>1, DrivenAlone
<1>2. ASSUME NEW g \in Gens,
             \/ SessionReady(g) \/ (\E live \in BOOLEAN : RoomLookup(g, live)) \/ Metadata(g)
             \/ CreateSigner(g) \/ SignerReady(g) \/ SignerFails(g) \/ OpenThrows(g) \/ Open(g)
             \/ OpenTimeout(g) \/ StaleSocketCloses(g)
      PROVE  DrivenInv'
  BY <1>2, DrivenFlows, DrivenCreates, Zenon
<1>3. ASSUME NEW g \in Gens,
             \/ SocketOpens(g) \/ SocketCloses(g)
             \/ \E cause \in {"refusal", "network"} : HandshakeFails(g, cause)
      PROVE  DrivenInv'
  BY <1>3, DrivenSockets, Zenon
<1>4. CASE Disconnect \/ WriteOverflows \/ \E g \in Gens : EnterRoomFails(g)
  <2>1. closing' = TRUE
    BY <1>4, Zenon DEF Disconnect, WriteOverflows, EnterRoomFails, Drop
  <2> QED
    BY <2>1 DEF DrivenInv, Driven, OkIsUp
<1>5. CASE ScheduleReconnect \/ ArmTimer
  BY <1>5, DrivenSchedules
<1>6. CASE Connect \/ TimerFires \/ \E g \in Gens : RefreshedConnect(g)
  BY <1>6, DrivenConnects
<1>7. ASSUME NEW g \in Gens,
             \/ ReconnectReturns(g) \/ ReconnectFails(g) \/ ReconnectRefused(g) \/ RefreshGuestSession(g)
             \/ RefreshSession(g) \/ RefreshEnds(g) \/ LastAttemptReturns(g)
      PROVE  DrivenInv'
  BY <1>7, DrivenLoops, DrivenRefresh, Zenon
<1> QED
  BY <1>1, <1>2, <1>3, <1>4, <1>5, <1>6, <1>7, Zenon DEF Next, Progress

(* A client whose reconnecting has not been reported never stops trying:   *)
(* the safety half of Resolves, for every number of generations.           *)
THEOREM DrivenHolds == Spec => []Driven
<1>1. Spec => []OwnershipInv
  BY OwnershipInvHolds
<1>2. Init => DrivenInv
  BY DEF Init, DrivenInv, Driven, OkIsUp, Gens
<1>3. Spec => []DrivenInv
  BY <1>1, <1>2, DrivenNext, PTL DEF Spec
<1>4. DrivenInv => Driven
  BY DEF DrivenInv
<1> QED
  BY <1>3, <1>4, PTL
================================================================================
