# A TLA+ verification project for tiktok-signer

The repository connects applications to TikTok LIVE rooms: it finds the room of a creator, signs a
WebSocket URL with TikTok's own script, opens the socket, acknowledges the frames, and hands decoded
events to listeners. It does so several times, in several languages. This directory holds TLA+
modules for the parts whose correctness depends on the order of things (queues, lifecycles,
permits, threads) and for the reading of TikTok's data that two languages must agree on, the TLC
configurations that check them, and TLAPS proofs of the results that matter most. `PROJECT.json` holds
the list of runs, the lines each definition stands for, and the hazards the properties are aimed at.

Run a model with `tlc -config MCEventDelivery.cfg MCEventDelivery`, check proofs with
`tlapm EventDeliveryProofs.tla`.

## 1. The system

### Parts and what they keep

| part | source | state | operations |
|---|---|---|---|
| Node event delivery | `packages/tiktok-live/src/delivery.ts` | ring, head, depth, byte charge, one owned immediate, metrics | submit, schedule and drain, clear |
| Node client lifecycle | `packages/tiktok-live/src/client.ts`, `session.ts` | generation, closing flag, the shared connect promise, socket, heartbeat, reconnect timer, guest identity, signer | connect, disconnect, the staged connect, refresh of a refused identity, socket listeners, reconnect |
| Ticket client | `packages/live-sdk/src/client.ts`, `api.ts` | as above, without identity; the broker's retry-after | connect with a broker's ticket, offline retry, write overflow |
| Room discovery | `packages/tiktok-live/src/discovery.ts`, `crates/ttl-live-discovery` | none; its results are the client's room, metadata and gift table | room lookup, room info, gift list, live search |
| Event decoding | `packages/tiktok-live/src/events.ts`, `crates/ttl-live-events` | none | one adapter for each message type |
| Bundle loader | `packages/tiktok-live/src/signer.ts` | map of downloads, the cache file processes share | load, read, download, replace |
| Gift streaks | `crates/ttl-sign-core/src/gift_streak.rs`, `sdk/java/live-core` | open streaks; a bounded map of finished ones | observe, take open; accept |
| Connect broker | `crates/ttl-live-api` | request, discovery, signing and relay permits, leases of each customer, room cache, single-flight map, rate windows | `POST /v1/connect`, `GET /v1/live` |
| Transport loop | `crates/ttl-live-core/src/lib.rs` | attempt, failure budget | sign, open, read, back off |
| Callback dispatcher | `crates/ttl-live-core/src/buffered.rs` | bounded channel, reserved bytes, overload flag, inner cancellation | send, dispatch, forward a stop, join |
| WebSocket client | `crates/ttl-live-ws` | connection, heartbeat sequence, last acknowledgement | open, next_message, reconnect, close |
| Embedded signer | `crates/ttl-sign-embedded` | bounded queue, worker thread, counters, stopping flag | sign_with, worker loop, drop |
| C client | `crates/ttl-live-native` | callback registry, dispatcher, control lock | create, connect, disconnect, set callbacks, destroy |
| Mobile session | `crates/ttl-sign-mobile` | worker handle, callback thread | connect, disconnect, drop |
| Java client | `sdk/java/live-client` | one lock, generation, pending future, timers, bounded executor | connect, disconnect, close, fail, emit |
| Java presence monitor | `sdk/java/live-presence` | watches, timers, requests, confirmations | watch, poll, close |
| Android session and handoff | `android/.../live`, `core/nativebridge` | generation, mutex, connection; bounded queue and its pump | connect, disconnect, close; offer, pump |
| Android speech and rewards | `android/.../tts`, `data/rewards` | engine, model files; points tables | rebuild, download; award, reset |
| Signing core, other signer backends, laboratory | `crates/ttl-sign-core`, `ttl-sign-headless`, ... | none, or one request at a time | pure functions, HTTP, child processes |

### How they interact

`TikTokLive` (Node) asks discovery for a room and the signer for a URL, opens the socket, and feeds
its frames to the delivery queue, whose callbacks run user listeners, which in turn may call the
client. The broker does the first half for remote clients: it resolves and signs under permits, and
either returns a ticket, which the ticket client and the Java client open themselves, or relays the
socket. The native clients (C, mobile) run `ttl_live_core::run_buffered` on a thread: the transport
loop drives a connection of `ttl-live-ws`, signs with the embedded signer and hands notices to the
dispatcher thread, which calls the host application.

### What is hard

* **Re-entrancy.** Listeners run in the middle of a drain, a frame or a failing connection and may
  connect or disconnect there.
* **Generations.** A cancelled attempt keeps running until it next looks at its generation, so
  answers of several attempts arrive interleaved.
* **Cancellation at an await.** A broker request may be dropped at every await while it holds
  permits, a lease and a place in a shared lookup.
* **Saturation.** Every queue is bounded in number and bytes; when it is full the stream stops, and
  what was already accepted must still be accounted for.
* **Shutdown.** Threads are joined while callbacks run, engines hang or panic, and callers wait.
* **Shared files.** Processes read and replace one cached bundle, and any of them may die.
* **Two readers.** Node and Rust read the same wire data, with different integers and strings.

### What makes each part correct

Delivery: every event counted once, in order, none after a disconnect, none stranded. Client: no
socket or timer escapes `disconnect()`, the signer and the identity agree, a refused identity is not
offered again, a lost connection ends in something the user can see. Broker: one lookup for each
creator, and all permits come back. Transport and dispatcher: a gapless prefix, honest errors, a
bounded number of attempts, and an end. Signer: no caller forgotten, no work after drop, a thread
that ends. Bundle loader: a pinned caller gets what it pinned, any other a whole text, and no failed download blocks the next.
Ticket client: as the client, and one retry loop that honours the broker's delay. C client:
serialized callbacks, none with released userdata, no thread after a disconnect, calls that return.
Handoff: one pump, no leaked native handle, a disconnect that is complete when it is reported. Streaks:
each gift once, with its highest count. Java client: no socket, timer or message outlives its
connection, futures complete, an overflow is reported. Presence monitor: one poll at a time, debounced
transitions in turn, watches that keep polling. Stream: an end that is explained, acknowledged batches
that arrive, retries that end. Discovery and decoding: what the package hands out satisfies
its published schemas, and both languages see the same event and the same room.

## 2. Modules

| module | stands for | notes |
|---|---|---|
| `EventStream` | what the delivery promises | the abstract specification |
| `EventDelivery` | `delivery.ts`, with `#receive` and `#dispatch` of `client.ts` | implements `EventStream` (property `InOrder`) |
| `LiveClient` | class `TikTokLive` of `client.ts`, the identity rules of `session.ts` | frames are left to `EventDelivery` |
| `ConnectBroker` | `service/connect.rs`, the limits, the room cache, `api/connect.rs`, `api/relay.rs` | rate limit and frame forwarding left out |
| `LiveRun` | `run` and `run_buffered` of `ttl-live-core` | |
| `SigningQueue` | the worker and `sign_with` of `ttl-sign-embedded` | |
| `BundleLoader` | `loadBundle` and `readBundle` of `signer.ts` | several processes, one cache file |
| `TicketClient` | class `TikTokLive` of `live-sdk` | frames are left to `EventDelivery` |
| `NativeClient` | `ffi/client.rs` of `ttl-live-native` | what the worker does on the network is left to `LiveRun` |
| `JavaClient` | `TikTokLive.java` | providers and gift lists answer by choice |
| `PresenceMonitor` | `LivePresenceMonitor.java`, `PresenceConfirmation.java` | the lookup's answer is a choice |
| `ReconnectingStream` | `reconnect.rs` over `lib.rs` of `ttl-live-ws` | `LiveRun` models the loop that `ttl-live-core` has instead |
| `AndroidHandoff` | `MainEventHandoff.kt`, `LiveClient.kt` | the native client behind the handle is external |
| `GiftStreaks` | `gift_streak.rs`, `GiftStreakTracker.java` | both trackers beside the true totals |
| `JsonValidation` | `json-validation.ts` | JSON values and the schema checker |
| `PublicSchemas` | `gen/json/public`, `gen/json/tiktok` | the schemas as values |
| `EventAdapter` | `events.ts`, `normalize.rs`, `user.rs` | pure operators |
| `RoomDiscovery` | `discovery.ts`, the lookup and search of the Rust crates | pure operators |
| `RoomData` | what one Node client keeps of them (`client.ts`) | composes the last four |
| `EventDeliveryProofs` | theorems on `EventDelivery`, `AndroidHandoff`, `GiftStreaks` | |
| `ConnectBrokerProofs` | theorems on `ConnectBroker`, `JavaClient` | |
| `LiveRunProofs` | theorems on `LiveRun`, `ReconnectingStream` | |
| `SigningQueueProofs` | theorems on `SigningQueue`, `BundleLoader` | |
| `LiveClientProofs`, `TicketClientProofs`, `NativeClientProofs`, `PresenceMonitorProofs` | theorems on the module of that name | |
| `MC...` | instances for TLC | constants come from the `.cfg` files |

### Correspondence

**EventDelivery.** `ring`, `head`, `depth`, `bytes`, `timer` are the private fields of the class;
`immediates` counts callbacks the event loop still owes, so that a leaked immediate is visible.
JavaScript runs one callback at a time: `pc` says where the running one is. `Receive`,
`ReceiveStep`, `ReceiveEnd` are the receive loop; `SubmitNow`, `SubmitQueued` and `SubmitOverflow`
the three ways through `submit`; `Immediate`, `DrainStep`, `DrainEnd` the drain callback; `EmitTyped`
and `DispatchReturns` the two halves of `#dispatch`, between which a listener may call `Connect` and
`Disconnect`. An event is its number, its generation and its charge. The drain's time budget is the
choice to stop early.

**LiveClient.** A flow is named by the generation that started it; it walks through the stages of
`#connect`, and a stage whose generation is stale ends it, as `#checkGeneration` does. `frame` is
the listener that is running, and the code after the `emit` call is the action that leaves it.
Timers fire at any time after they are armed. An identity is a number: 0 is the supplied one, the
others are guest bootstraps. `sign()` and the WebSocket constructor are user code, inside which the
generation may pass, and may throw (`Open`, `OpenThrows`). Whether the identity is supplied, and whether failure listeners call
`connect()`, is chosen in the initial state.

**TicketClient** is built the same way; a flow is one `#connectFromApi`. `penalty` is a delay the
broker has asked for and that has not passed; `covers` says whether the armed timer waits for it. The
WebSocket constructor is user code (`WebSocketImpl`), so it is a place where calls may come in.

**ConnectBroker.** Each request has a program counter whose places are the locks and awaits of the
handlers. A flight (`Arc<OnceCell>`) is named by the request that made it; `flightOf` says who holds
an `Arc` of it, which gives the `strong_count` that `FlightLease::drop` looks at. The decision under
the lock (`unlease`) and the drop of the lease's own `Arc` afterwards (`unlock`) are two steps,
because the field is dropped after the guard. `Cancel...` drop a request at the await it is in. A
cache entry may expire at any moment, which covers every clock.

**LiveRun.** `out` is the list of notices the transport is about to hand to the sink, so that
notices and steps of other threads interleave. `Send` is `Proxy::send` with its count and byte
reservation, `Call` to `WorkerEnds` the dispatcher, `Forward` and `Return` the body of
`run_buffered`. The biased `select!` appears as guards: when a stop is visible, only the
cancelled branch is taken.

**NativeClient.** A step is one critical section, channel operation or wait of a thread. `call` says
where each caller is in `connect()`, `disconnect()`, `destroy()` or a setter; `running` names the
registration a thread is calling with. `control` is the mutex that `connect()` holds to its end. The
byte budget is the choice to reject a delivery; the four kinds of callback share one registration,
since every rule about them is the same.

**JavaClient.** The fields guarded by the client's monitor are one record, `client`, and each
`synchronized` section maps it to the next; the methods it calls (`Emit`, `Fail`, `Disconnect`,
`Overflow`) are operators on that record, so that an overflow in the middle of `fail()` has the effect
it has in the code, which goes on. What waits for the monitor is outside of the record: answers of the
provider (`lookups`) and of the gift list (`catalogs`), the task the timer thread has already started
(`timer`), a frame between the two checks of `receive()` (`reading`)
and futures whose cancellation handler has not run (`cancelling`). A heartbeat is armed by the room entry
and by any batch that asks for one (`Beaten`), with the interval of the one that runs or another: one of
the same interval stays, whose ever it is. `stray` and `dropped` record the two defects that the
properties except (section 6). `setup` says whether the provider
asks for a confirmed room and whether gifts are fetched. A callback is one step: what happens while it
runs may as well happen while its task still waits.

**PresenceMonitor.** A watch is made, stopped and taken off the map in separate steps, since the stop
holds the watch's lock, `watch()` the monitor's, and the removal none. `asking` is a lookup on its way,
`timer` the next poll; `confirmed`, `candidate` and `count` are the fields of the confirmation.

**ReconnectingStream.** `call` is the await the caller's `open()` or `next_message()` stands at; `Drop`
drops it there. `connection` is the `Option` that `reconnect()` empties before it waits.

**AndroidHandoff.** The threads are the opener, the shutdown job, the native callback thread and the
main thread with its pump; each step is one `synchronized` block or posted runnable. The native side may
refuse to open (`NativeOpenFails`), and then nobody is given the client.

**GiftStreaks.** A room sends progress, final, plain and repeated messages and keeps the true totals;
every message goes to both trackers.

**BundleLoader.** Each process has its own map of flights; the cache file is one value. `writeFile()` is
two steps, between which the file it writes is `torn`, and `Rename` puts what that file then holds at the
cache path. A process may die (`Dies`) in between and the file may vanish at every step. Nothing syncs
the file, so an outage of the whole system (`SystemDies`) may leave a torn one at the cache path.

**RoomData.** `input` and `output` hold the call being handled and what became of it. JSON is a tagged
value, a number is an integer or a fraction, a string is a model value where only its identity matters
and a sequence of UTF-16 units where its length does. The published schemas are translated field by
field and interpreted by `Check`, which is the package's own validator. The instance shrinks the
largest safe integer and the emote limits; the constants stand for them. Whether a message fits the
byte, field and depth limits of the Rust decoder, which Node does not have, is an input (`RustDecode`):
how many fields a batch has used up depends on messages of other types.

**SigningQueue.** The worker's checks (`CheckStopping`, `CheckRequest`) are separate steps, since
the flag, the caller and the clock can change between them. `Release` drops what the worker and the
channel still hold, which answers the callers with an error. The signer can be dropped only when no
call borrows it, which is what Rust's borrow checker enforces.

## 3. Runs

| run | question | states |
|---|---|---|
| `delivery` | the ways of an event to a listener. Node queue, synchronous or with two slots, under re-entrant listeners: accounting, budget, one immediate, nothing after a disconnect, everything leaves, order (refinement of `EventStream`). Android handoff (`HandoffContract`): one pump, complete disconnect; native handle released. Streak trackers (`EachGiftOnce`): totals, final once | 67 499 |
| `client` | a guest or supplied identity: `Ownership` (no leaked socket, `connected` is real, closed is quiet, one timer within the budget), signer and identity agree, a refusal is final unless a failure listener calls `connect()`, a lost connection resolves | 143 993 |
| `client_cycle` | the refusal with such a listener: **violated** | |
| `ticket` | ticket client: `Ownership` with one retry loop, the broker's delay is honoured, a lost connection resolves. Presence monitor: polls of a creator never overlap, changes are debounced and heard in turn (`TransitionsHonest`), a watch polls for ever | 354 906 |
| `broker` | three requests of two customers with scarce permits: single flight; permits and relay counts come back. Java client, two operations against every late callback: `Ownership` (sockets, timers and messages stay in their connection), `connected` and `disconnected` alternate | 2 408 468 |
| `broker_live` | every request let in is answered. Java client (`Settles`): futures complete, an overflow is reported | 62 968 |
| `broker_flights` | every flight in the map has an owner: **violated** | |
| `live_run` | one retry over a queue of two: prefix, bytes and attempts bounded, honest ending; it `Concludes` (backpressure is reported, a stop ends it). Reconnecting stream: an end is explained and what was acknowledged was handed over (`NothingLostSilently`), reconnecting ends | 61 750 |
| `signer` | three calls, one place: nobody forgotten, nothing signed after drop, `NobodyWaitsForever` (callers answered, drop joins). Bundle loader (`GivenIsExpected`): pinned callers get what they pinned, the others a whole text unless the system went down; flights end | 126 473 |
| `native` | two host threads, two connections: callback contract, quiet after a disconnect included; calls return | 209 648 |
| `native_race` | every `disconnect()` returns: **violated** | |
| `room_data` | every answer and message of the instance: results conform to the schemas; Rust agrees where its limits let it read, and in searches with a bad row | 168 498 |

`MCEventDelivery`, `MCSigningQueue`, `MCConnectBroker`, `MCTicketClient` and `MCLiveRun` each put modules
that share no state into one behaviour: a variable (`path`, `part`) chooses in the initial state which of
them runs, and the others keep their initial values. A property of one part is vacuous where another runs,
so a run of each alone would show the same. Several properties are conjunctions of named parts, each
with its own comment in the module.

A type invariant is conjoined to `Ownership` (both clients), `PermitsConserved` and
`CallbackContract`; those of `EventDelivery`, `LiveRun` and `SigningQueue` are proved instead.

### Bounds and why they are enough

* `delivery`: five events over two slots wrap the ring twice; charges 1 and 3 against a budget of 4
  make the byte limit bite before and after the slot limit; frames of three messages overflow inside
  the receive loop; four generations allow a disconnect and a reconnect inside a drain and once
  more after it. The handoff has a queue that overflows, a listener that throws, and a shutdown in
  every state of the opener. The Java tracker's map is smaller than the number of streaks, so that it
  forgets.
* `client`, `ticket`: four generations are a user's connect, a reconnect, a refresh or a second retry,
  and a connect from a listener; two reconnect attempts can both fail. `Resolves` is stated up to the
  last generation, after which the bound stops the client.
* `broker`: three requests are the first number at which one leads a lookup, one joins, and one
  arrives while they leave; two creators and a cache of one entry make it evict; two customers with
  one relay each and two relay slots let a request that its customer's limit is about to refuse hold
  the last slot. Requests, creators and
  customers are symmetric; the liveness run uses two requests and no symmetry.
* `live_run`: one retry is a first attempt, a failure and a last attempt; the costs exhaust the
  bytes with one large batch, or the slots with small notices.
* `signer`: three callers for one queue place and one worker: one is signed, one queued, one
  refused. A caller calls once. Two processes and three loads: two overlap, and one follows a death or an
  outage.
* `native`: two host threads are needed for every race of the API; two connections let the leftovers
  of one meet the next; a queue of one overflows with two deliveries.
* Java client: a queue of three tasks is filled by the report of one failure (`error`, `disconnected`,
  `reconnecting`) and overflows with one more; one failure of the network with one retry is a loss that
  is recovered; two operations let the leftovers of one meet the next. `broker` allows one call of
  the application or one failure, `broker_live` both, in one operation. A failure that is not retryable is final at once, and a room entry that is never confirmed fails by its
  deadline, which no bound limits, until the retries are used up.
* Presence monitor: two watches of two creators, room for one: the second watch is of the other creator or
  of the same one again; two confirmations; one transition waiting while another is called back.
* Reconnecting stream: policies of none to two attempts, two losses, three batches, two dropped calls: each
  loss can be dropped, refused, exhausted or recovered.
* `room_data`: each field is missing, empty, typical, at its limit, beyond it, negative or of the
  wrong type in some input; combinations are varied where the code relates two fields.

Deadlock checking is on in `room_data` and off elsewhere: a client that is disconnected, a broker with
no requests left and a dropped signer really stop.

## 4. Fairness

* `EventDelivery`: a callback that runs reaches its end (weak fairness of `Internal`), and an
  immediate is run (strong fairness: Node finishes the immediates of a turn before it polls the
  socket again, so a busy socket cannot put one off for ever). Nothing is assumed of the network.
* `LiveClient`, `TicketClient`: weak fairness of `Progress`: continuations run, timers fire, and every request the
  client makes has a deadline. Users and open connections owe nothing.
* `NativeClient`: the steps of calls and of the dispatcher, and a worker that was told to stop ends.
  A callback returns however often it calls the API (strong fairness): the README of the crate asks
  the host to keep callbacks finite. Nothing makes a host call or a connection end by itself.
* `JavaClient`: weak fairness of everything the client and its libraries owe (`Internal`): threads run,
  callbacks return, requests and handshakes end by OkHttp's timeouts, timers fire. Nothing makes a
  server send or close, or an application call.
* `PresenceMonitor`: each watch's timer fires and its lookup ends, by the probe's call timeout.
* `ReconnectingStream`: a sleep ends, and nothing else. The crate bounds neither a signature nor a
  handshake, so `RetriesEnd` names them as the ways in which reconnecting may hang.
* `AndroidHandoff`: the opener, the job and the main looper go on, and a native disconnect returns.
* `BundleLoader`: a flight goes on, since the download has a timeout and file operations return.
* `ConnectBroker`: weak fairness of each request's own steps: tokio polls woken tasks, and
  resolver, signer and dial run under `timeout`.
* `LiveRun`: the transport outside an open stream, the dispatcher, and `run_buffered`. Callbacks are
  assumed to return or to panic, as the code's join assumes.
* `SigningQueue`: the thread and woken callers. `Answered` is stated under "the engine returns or
  the timers run", and `DropJoins` under "the engine returns": the code joins the thread without a
  deadline, so with an engine that hangs it does not hold.

## 5. Proofs

Every safety property of the passing runs but the two of `room_data` is a theorem: it holds for all
values of the constants that satisfy the module's `ASSUME`, not only for those of the instance. The
assumptions say what the constructors check (a capacity is positive, a budget a natural number), that a
bound of the model is a number, and that the threads or requests of a model are distinct from its
"nobody". `GiftStreaks` and `BundleLoader` need none.

Few of the properties are inductive. Each `*Proofs` module states the strengthening that is, in named
parts, with a comment on why it is needed, before the lemmas that use it. They were tried on the runs'
instances before they were proved.

A liveness property is out of reach, but the reason why it holds is often a safety property: whoever is
waited for exists, or its work has left nothing behind. Where it is, that *core* is a theorem as well,
and only the step from "somebody will do it" to "it is done", which is fairness, stays with TLC.

* **EventDelivery** (`TypeCorrect`, `AccountingHolds`, `OneImmediateHolds`,
  `NothingAfterDisconnectHolds`). `IInv` adds to the three invariants `Indexing` (the head is a slot
  whenever there are slots) and `Provenance` (an entry of the current generation is newer than the last
  disconnect; without it a stale entry could wear the current generation). `BudgetHolds` adds `Tidy`:
  a slot outside of the window from head to depth is empty, so the charge of a slot that is filled or
  emptied is the difference of the sums. `InOrderHolds` is the refinement of `EventStream`: the
  pending sequence of the abstract specification is the ring read from its head, and each step is an
  abstract step or a stutter.
* **AndroidHandoff** (`HandoffContractHolds`, `ReleaseUnderWayHolds`, from `HandoffInv`). `scheduled`
  says whether a pump is posted or runs, and every state of the opener says who owes the native side its
  end; the second theorem, the core of `NativeReleased`, says that somebody always does.
* **GiftStreaks** (`EachGiftOnceHolds`, from `StreakInv`). What may be repeated on the wire belongs to
  the streak under way and did not end it; the Java tracker, while it has forgotten nothing, remembers
  every finished streak as completed and the running one with its count.
* **LiveClient** (`OwnershipInvHolds`, `OwnershipHolds`, `SignerMatchesIdentityHolds`,
  `RefusalIsFinalHolds`). `OwnershipInv`: a flow under way is the one `connect()` shares, an opening
  flow has the one socket, an armed timer has no `#reconnect()` beside it. `IdentityInv`: a bootstrap of
  the current generation is awaited, so nobody builds a signer meanwhile. `RefusalInv`: whoever is
  about to offer the cookie offers one that was not refused. The last holds as long as failure
  listeners leave `connect()` alone, which is the condition of the property and of its finding.
  `DrivenHolds` is the core of `Resolves`: while the user was not told how the reconnecting ended, a
  connection, a listener, the timer or a `#reconnect()` goes on with it.
* **TicketClient** (`TicketInvHolds`, `OwnershipHolds`, `RetryAfterHolds`). `OwnershipInv` is built the
  same way and says where the running listener is; `PenaltyInv` says that a delay still owed is covered
  by the timer, or by the step that is about to arm it. `DrivenHolds` is the core of its `Resolves`.
* **ConnectBroker** (`FlightInvariance`, `SingleFlightHolds`, `PermitsConservedHolds`). Single flight
  alone is not inductive: two requests could each lead a flight of their own. `FlightInv` says that a
  request which has not dropped its lease finds its own flight in the map, and that the one looking up
  is its flight's initializer. It holds although entries may leak (run `broker_flights`): a leaked
  flight is shared, never doubled. Permits are counted over the requests under way, of which `PermitInv`
  says that there are finitely many, so the set of requests itself may be infinite; each step moves one
  request between the places, which changes both sides of a balance by one. `WokenHolds` is the core of
  `Answered`: the initializer siblings wait for is a request that looks up in their flight, also when the
  one before it was cancelled; `SetOnceHolds`: what it found is never replaced.
* **JavaClient** (`ConnectionInvHolds`, `JavaOwnershipHolds`, `TurnInvHolds`, `ToldInTurnHolds`,
  `AttendInvHolds`, in `ConnectBrokerProofs`). The critical sections are operators on a record, so the lemmas are about what
  an operator leaves of a record, an overflow in the middle included. `ConnectionInv`: an attempt is in
  exactly one place (its retry armed, started by the timer, with the provider, with the gift list, or
  with its socket), and nothing is ahead of the generation. The heartbeat that a batch asks for belongs
  to a connection with a socket because what is inside `receive()` has one, which `TurnInv` knows: the
  two are proved together. That no heartbeat is ahead of the generation is what keeps a later connection
  from being taken for the stray one's. `TurnInv`: an attempt that is not connected
  has told nobody that it is, and unless the application acted or delivery overflowed, the loss of the
  connection before it is in the queue, ahead of the next `connected`. `AttendInvHolds` is the core of
  `Settles`: a future still open is about to be completed, or it is the pending one of an attempt that
  somebody goes on with and, once its socket is open, a deadline watches over, or the attempt is stranded:
  it was dropped with the request for the gift list, the exception of `Settles`. An overflow nobody was
  told of is alone in the queue, in the generation the executor still runs.
* **LiveRun** (`TypeCorrect`, `PrefixHolds`, `BoundedHolds`, `HonestEndingHolds`). Only `Send` and
  `Call` touch `Prefix`, and the sticky overload flag is what keeps later notices out. `BoundedInv`
  relates the attempts since the last open socket to the counted failures, and the reservation to the
  notice in hand. `TurnsInv` says that an error is followed at once by the state it promises, in what the
  transport has to say, in the queue, and where one goes on from the other. `EndHeardHolds`, from
  `EndInv`, is the core of `Concludes`: wherever the last word on its way to the consumer is, it is
  Disconnected once the transport has ended, so `run_buffered` returns to a consumer that has heard it.
* **ReconnectingStream** (`NothingLostSilentlyHolds`, from `StreamInv`, in `LiveRunProofs`). A stream
  that is idle without a connection has told why, or had a call dropped.
* **SigningQueue** (`TypeCorrect`, `NobodyForgottenHolds`, `NothingSignedAfterDropHolds`). The type
  invariant says when the worker has a request in hand. The last theorem needs `Borrowed` (a caller
  waits only while the signer is up): after the drop has begun the second check finds nobody waiting.
  `NothingLeftHolds` is the core of `Answered` and `DropJoins`: a thread that has left its loop has
  answered or dropped every request, and a signer that is gone has joined it.
* **BundleLoader** (`GivenIsExpectedHolds`, from `LoaderInv`, in `SigningQueueProofs`). Files are torn
  while they are written, so that the cache never is needs a reason: the file that is about to be renamed
  holds what its flight has downloaded (`WrittenWhole`), which has its digest (`SourceChecked`), and only
  an outage tears the file at the cache path (`CacheWhole`).
* **NativeClient** (`ClientInvHolds`, `CallbackContractHolds`). `LockInv` says who holds the control
  mutex and who joins, `ThreadInv` that a thread which has not ended has its handle in the client or
  with a host that joins it, `RegistrationInv` that registrations are numbered upwards. `JoinsEndHolds` is
  the core of `CallsReturn`: who joins has told the thread to end, but for the race of finding 3.
* **PresenceMonitor** (`PresenceInvHolds`, `PollsNeverOverlapHolds`, `TransitionsHonestHolds`). A watch
  that was not stopped is the one on the map (`PollsInv`); the candidate is what was seen last, as
  often in a row (`CandidateInv`); what was heard, what waits and what is confirmed follow each other in
  turn (`HeardInv`). `PollingHolds` is the core of `WatchesPoll`: a timer or a poll, and never both.

Some definitions have a form that can be reasoned about: a sum over a queue is stated by its partial
sums (`Charged`, `Sums`), and the tasks of a batch of the Java client are appended at once (`EmitBatch`), where the
first that finds no room drops them all anyway.

**Only model-checked:** liveness, since fairness and enabledness are beyond the proof system
(`EventuallyLeaves`, `NativeReleased`, both `Resolves`, `Answered`, `Settles`, `Concludes`,
`RetriesEnd`, `NobodyWaitsForever`, `FlightsEnd`, `WatchesPoll`, `CallsReturn`); and `Conforms` and
`RustAgrees` of `room_data`: `Check` and the adapters recurse over JSON values and strings, and what a
recursive definition computes for every input needs an induction the provers cannot instantiate.

## 6. Findings

1. **A refused identity is offered again** (`client_cycle`, `client.ts:488`). The close listener
   arms the reconnect timer after the `disconnected` listeners, for the generation they leave
   behind. If one of them called `connect()` and that attempt is refused, the timer is still there
   and retries the refused identity.
2. **Flights leak** (`broker_flights`, `service/connect.rs:35`). Two leases dropped at once both see
   a count of three, since each `Arc` is dropped only after the lock; neither removes the entry. It
   counts against the limit and answers the next lookup that misses the cache with an old result.
3. **`disconnect()` may wait for ever** (`native_race`, `ffi/client.rs:441`). It takes the queue's
   sender before the control lock. A `connect()` of another thread in between leaves a new sender in
   place, and the dispatcher that `disconnect()` joins waits for it.

Each is a run with `expect: violation`, whose trace shows the order of steps.

Met on the way and contained in the models, without a run of their own:

* A `connect()` during the refresh of a refused guest identity shares a bootstrap that checks the
  refused generation; its success is thrown away and the caller is told it was cancelled
  (`client.ts:270`).
* A refused room is cleared from the cache only; a request that joins the flight still in the map is
  given it again (`service/connect.rs:304`).
* `connect()` of the C client joins the dispatcher under the control lock when the worker cannot be
  started; a callback on that dispatcher that disconnects then waits for the lock (`Cornered`).
* An overflow flagged after the dispatcher's end is reported in the next connection
  (`ffi/client.rs:394`).
* A write overflow or failed enter-room send during an automatic reconnect closes the client without
  an error event (`packages/tiktok-live/src/client.ts:427`, `packages/live-sdk/src/client.ts:493`).
* A handshake that is answered with HTTP 200 is retried by the reconnecting stream like any other failure
  (`reconnect.rs:237`, `NotOpened`), while `lib.rs:70` says of `Blocked200` "Do not retry". `LiveRun`'s
  loop stops there.
* `watch()` between the two steps of another thread's `Watch.close()` returns the watch that was just
  stopped, which never polls (`LivePresenceMonitor.java:248`, `CloseWatch` and `Remove`).
* `connect()` of a Java client that is reconnecting by itself resolves at once, with a state that is not
  connected (`TikTokLive.java:110`), where `sdk/java/README.md:81` says it resolves after the socket is
  open or with `OFFLINE`.
* `next_message()` dropped while the stream reconnects leaves it without a connection, and the next call
  answers `None` as if the stream had ended (`reconnect.rs:199`; the exception `cut` of `EndIsTold`).
* `error` and `disconnected` of a Java client that failed for good become stale when the application
  calls `connect()` before the executor has run them (`TikTokLive.java:354`; `excused` in `ToldInTurn`).
* A Java frame that cannot be decoded is reported without the second check, in whichever connection is
  current by then (`TikTokLive.java:327`).
* The heartbeat a batch asks for is armed although telling of that batch's confirmation has just overflowed
  and stopped the client (`TikTokLive.java:305`). It runs for a connection that is gone until the next
  failure or `disconnect()`; a `connect()` before that takes it for its own if the interval is the same
  (line 332), and sends no heartbeat (`stray` in `OwnedHandles`).
* With `fetchGifts`, a header that OkHttp refuses makes `GiftCatalog.load` throw inside `whenComplete`
  (`TikTokLive.java:160`), where nobody sees it: the attempt stops, the client stays active and its future
  open (`CatalogThrows`; `dropped` in `FuturesComplete`).
* The cached bundle is renamed without being synced (`signer.ts:122`), and a caller without a digest is
  given whatever the file holds (`signer.ts:106`): after an outage, half a bundle (`outage` in
  `GivenIsExpected`).
* A message beyond the limits of the Rust decoder is `Unknown` there and a typed event in Node
  (`ttl-live-events/src/lib.rs:321`).
* Ids, that of the message included, may be negative and avatars need not be URIs in the public events,
  and missing images become empty URLs, against the formats of the published schemas; `Conforms` says exactly when.

## 7. What is not modelled, and why

* Protobuf itself, and with it `packages/tiktok-live/src/gen`: some 37 000 of the repository's 52 000
  lines of TypeScript and JavaScript are generated message descriptors, tables without control.
  An event on the wire is the record of its fields, a frame the list of its events.
* The text of URLs and cookies.
* What TikTok and the signing script answer: they are inputs, and every outcome the code
  distinguishes is a choice.
* Durations: a timer fires some time after it was armed. Only the broker's retry-after is ordered
  against the timer that waits for it.
* Metrics and logs, except the delivery metrics of the Node client, which are a property's subject.
* The Android and mobile sessions and the broker's rate limiter: stateful parts that have no module.
  Known hazard: the limiter reads its clock before its lock (`limits.rs:79`).
* Of the Java client: a callback executor of the application's own, application code chained on the
  future (which a cancellation runs under the monitor), and the counter of dropped callbacks.
* `GiftStreakTracker.clear()`: it only empties the map.
* The Java decoder and Rust's dynamic messages, which publish no schema to compare with.
* User interface, build tools, laboratory, fixtures, examples: no protocol of their own.

`PROJECT.json` lists each part with its status.

## 8. What is left

Modules for the Android and mobile sessions, which share the promises of `Ownership`, and for the rate
limiter.
