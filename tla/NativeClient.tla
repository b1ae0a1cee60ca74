------------------------------ MODULE NativeClient ------------------------------
(***************************************************************************)
(* The C client, crates/ttl-live-native/src/ffi/client.rs: what its host's *)
(* threads may call at any time, the LIVE worker and the dispatcher of one *)
(* connection, and the callbacks these two run. A step is one critical     *)
(* section of a mutex, one channel operation or one wait. A callback is    *)
(* user code: it may disconnect or change registrations on the thread that *)
(* runs it. A registration is the number of its userdata; the four kinds   *)
(* of callback share one, since every rule about them is the same.         *)
(***************************************************************************)
EXTENDS Integers, FiniteSets

CONSTANTS
    Hosts,           \* the threads of the host
    Capacity,        \* the asynchronous capacity the host may choose
    MaxBatch,        \* bound: callbacks one delivery runs
    MaxDeliveries,   \* bound: deliveries of the worker in a behaviour
    MaxConnects,     \* bound: connections in a behaviour
    MaxUpdates       \* bound: registrations in a behaviour

ASSUME NativeAssumption ==
    /\ Capacity \in Nat \ {0}
    /\ MaxBatch \in Nat \ {0}
    /\ MaxDeliveries \in Nat /\ MaxConnects \in Nat
    /\ MaxUpdates \in Nat \ {0}   \* the registration the client starts with is the first

W == "worker"
D == "dispatcher"
None == "none"
Threads == {W, D}
Callers == Hosts \cup Threads

ASSUME HostsAssumption == Threads \cap Hosts = {} /\ None \notin Hosts

VARIABLES
    callback, enabled, running,   \* Callbacks: the registration, enabled, and the
                                  \* registration each thread is calling (active counts them)
    capacity, sender, queued,     \* Dispatch: capacity, sender; deliveries in the channel
    overloaded,                   \* Shared.overloaded
    stop,                         \* the connection's stop signal
    handle, stopping, control,    \* Control: join handles, stopping; who holds its mutex
    thread, left,                 \* what a thread does; callbacks its delivery has left
    call, joining,                \* the API call a caller is in; the threads it joins
    freed,                        \* destroy(): "no", "pending", "yes"
    deliveries, connects, fresh,  \* counters for the bounds; fresh numbers registrations
    old, released,                \* history: what an update replaced; what its return released
    quiet,                        \* history: disconnect() succeeded, no connect() since
    raced                         \* history: a sender was made after the call took the last one

callbackVars == <<callback, enabled, running>>
dispatchVars == <<capacity, sender, queued, overloaded, stop>>
controlVars == <<handle, stopping, control>>
countVars == <<deliveries, connects, fresh>>
historyVars == <<old, released, quiet, raced>>
vars == <<callbackVars, dispatchVars, controlVars, thread, left, call, joining, freed,
          countVars, historyVars>>

Init ==
    /\ callback = 1 /\ enabled = FALSE /\ running = [t \in Threads |-> 0]
    /\ capacity = Capacity /\ sender = FALSE /\ queued = 0
    /\ overloaded = FALSE /\ stop = FALSE
    /\ handle = {} /\ stopping = FALSE /\ control = None
    /\ thread = [t \in Threads |-> "none"] /\ left = [t \in Threads |-> 0]
    /\ call = [p \in Callers |-> "none"] /\ joining = [h \in Hosts |-> {}]
    /\ freed = "no"
    /\ deliveries = 0 /\ connects = 0 /\ fresh = 1
    /\ old = [h \in Hosts |-> 0] /\ released = 0
    /\ quiet = TRUE /\ raced = [h \in Hosts |-> FALSE]

Finished(t) == thread[t] \in {"none", "done"}
Active == \E t \in Threads : running[t] # 0

(* Where the API may be called from: a host thread, or inside a callback.  *)
(* destroy() must not race any other call.                                 *)
MayCall(p) ==
    /\ call[p] = "none"
    /\ \/ p \in Hosts /\ freed = "no"
       \/ p \in Threads /\ running[p] # 0

Goto(p, step) == call' = [call EXCEPT ![p] = step]

--------------------------------------------------------------------------------
(* Registrations: the setters of the callback! macro, and update(). *)

SetCallback(p, cb) ==
    /\ MayCall(p)
    /\ fresh < MaxUpdates
    /\ fresh' = fresh + 1
    /\ callback' = cb
    /\ \/ /\ p \in Threads
          /\ UNCHANGED <<call, old>>
       \/ /\ p \in Hosts
          /\ Goto(p, "update")
          /\ old' = [old EXCEPT ![p] = callback]
    /\ UNCHANGED <<enabled, running, dispatchVars, controlVars, thread, left, joining, freed,
                   deliveries, connects, released, quiet, raced>>

(* The wait for callbacks in flight is over: the host may free what the    *)
(* replaced registration pointed to.                                       *)
UpdateReturns(h) ==
    /\ call[h] = "update"
    /\ ~Active
    /\ Goto(h, "none")
    /\ released' = IF old[h] > released THEN old[h] ELSE released
    /\ UNCHANGED <<callbackVars, dispatchVars, controlVars, thread, left, joining, freed,
                   countVars, old, quiet, raced>>

(* set_async_delivery(), refused while a thread of a connection is alive. *)
SetAsyncDeliveryAnytime(h, n) ==
    /\ MayCall(h) /\ control = None /\ ~stopping
    /\ n # capacity
    /\ capacity' = n
    /\ UNCHANGED <<callbackVars, sender, queued, overloaded, stop, controlVars, thread, left,
                   call, joining, freed, countVars, historyVars>>
SetAsyncDelivery(h, n) ==
    /\ MayCall(h) /\ control = None
    /\ ~stopping /\ \A t \in handle : Finished(t)
    /\ n # capacity
    /\ capacity' = n
    /\ UNCHANGED <<callbackVars, sender, queued, overloaded, stop, controlVars, thread, left,
                   call, joining, freed, countVars, historyVars>>

--------------------------------------------------------------------------------
(* connect(): the control mutex is held to its end. *)

ConnectLocks(h) ==
    /\ MayCall(h) /\ control = None
    /\ ~stopping /\ \A t \in handle : Finished(t)
    /\ connects < MaxConnects
    /\ connects' = connects + 1
    /\ control' = h
    /\ handle' = {}
    /\ stop' = FALSE
    /\ quiet' = FALSE
    /\ Goto(h, "enable")
    /\ UNCHANGED <<callbackVars, capacity, sender, queued, overloaded, stopping, thread, left,
                   joining, freed, deliveries, fresh, old, released, raced>>

ConnectEnables(h) ==
    /\ call[h] = "enable"
    /\ enabled' = TRUE
    /\ Goto(h, IF capacity > 0 THEN "sender" ELSE "worker")
    /\ UNCHANGED <<callback, running, dispatchVars, controlVars, thread, left, joining, freed,
                   countVars, historyVars>>

ConnectSender(h) ==
    /\ call[h] = "sender"
    /\ sender' = TRUE /\ queued' = 0
    /\ raced' = [g \in Hosts |-> raced[g] \/ call[g] = "control"]
    /\ Goto(h, "dispatcher")
    /\ UNCHANGED <<callbackVars, capacity, overloaded, stop, controlVars, thread, left, joining,
                   freed, countVars, old, released, quiet>>

(* The threads are started, or the operating system refuses one. Nothing   *)
(* enqueues without a worker, so what a refusal undoes is one step.        *)
SpawnDispatcher(h) ==
    /\ call[h] = "dispatcher"
    /\ thread' = [thread EXCEPT ![D] = "recv"]
    /\ handle' = {D}
    /\ Goto(h, "worker")
    /\ UNCHANGED <<callbackVars, dispatchVars, stopping, control, left, joining, freed, countVars,
                   historyVars>>

DispatcherRefused(h) ==
    /\ call[h] = "dispatcher"
    /\ sender' = FALSE /\ enabled' = FALSE
    /\ control' = None
    /\ Goto(h, "none")
    /\ UNCHANGED <<callback, running, capacity, queued, overloaded, stop, handle, stopping,
                   thread, left, joining, freed, countVars, historyVars>>

SpawnWorker(h) ==
    /\ call[h] = "worker"
    /\ thread' = [thread EXCEPT ![W] = "run"]
    /\ handle' = handle \cup {W}
    /\ control' = None
    /\ Goto(h, "none")
    /\ UNCHANGED <<callbackVars, dispatchVars, stopping, left, joining, freed, countVars,
                   historyVars>>

WorkerRefused(h) ==
    /\ call[h] = "worker"
    /\ enabled' = FALSE /\ sender' = FALSE
    /\ joining' = [joining EXCEPT ![h] = handle]
    /\ handle' = {}
    /\ Goto(h, "undo")
    /\ UNCHANGED <<callback, running, capacity, queued, overloaded, stop, stopping, control,
                   thread, left, freed, countVars, historyVars>>

ConnectUndone(h) ==
    /\ call[h] = "undo"
    /\ \A t \in joining[h] : Finished(t)
    /\ joining' = [joining EXCEPT ![h] = {}]
    /\ control' = None
    /\ Goto(h, "none")
    /\ UNCHANGED <<callbackVars, dispatchVars, handle, stopping, thread, left, freed, countVars,
                   historyVars>>

--------------------------------------------------------------------------------
(* disconnect(), and destroy() *)

(* The start of both. destroy() is refused on a callback thread, and its   *)
(* caller promises that no other call races it.                            *)
Disable(p, destroy) ==
    /\ MayCall(p)
    /\ destroy => p \in Hosts /\ \A h \in Hosts : call[h] = "none"
    /\ freed' = IF destroy THEN "pending" ELSE freed
    /\ enabled' = FALSE
    /\ Goto(p, "disabled")
    /\ raced' = IF p \in Hosts THEN [raced EXCEPT ![p] = FALSE] ELSE raced
    /\ UNCHANGED <<callback, running, dispatchVars, controlVars, thread, left, joining,
                   countVars, old, released, quiet>>

(* disable() returns, on a host's thread once no callback runs. *)
SenderKept(p) ==
    /\ call[p] = "disabled"
    /\ p \in Hosts => ~Active
    /\ Goto(p, "control")
    /\ UNCHANGED <<callbackVars, dispatchVars, controlVars, thread, left, joining, freed,
                   countVars, historyVars>>
TakeSender(p) ==
    /\ call[p] = "disabled"
    /\ p \in Hosts => ~Active
    /\ sender' = FALSE
    /\ Goto(p, "control")
    /\ UNCHANGED <<callbackVars, capacity, queued, overloaded, stop, controlVars, thread, left,
                   joining, freed, countVars, historyVars>>

(* The stop is signalled. A callback returns here, and so does a second    *)
(* disconnect(); the first one takes the handles.                          *)
SignalStopUnguarded(p) ==
    /\ call[p] = "control" /\ control = None
    /\ stop' = TRUE
    /\ \/ /\ p \in Threads
          /\ Goto(p, "none")
          /\ UNCHANGED <<handle, stopping, joining>>
       \/ /\ p \in Hosts
          /\ stopping' = TRUE
          /\ joining' = [joining EXCEPT ![p] = handle]
          /\ handle' = {}
          /\ Goto(p, "join")
    /\ UNCHANGED <<callbackVars, capacity, sender, queued, overloaded, control, thread, left,
                   freed, countVars, historyVars>>
SignalStop(p) ==
    /\ call[p] = "control" /\ control = None
    /\ stop' = TRUE
    /\ \/ /\ p \in Threads \/ stopping
          /\ Goto(p, "none")
          /\ UNCHANGED <<handle, stopping, joining>>
       \/ /\ p \in Hosts /\ ~stopping
          /\ stopping' = TRUE
          /\ joining' = [joining EXCEPT ![p] = handle]
          /\ handle' = {}
          /\ Goto(p, "join")
    /\ UNCHANGED <<callbackVars, capacity, sender, queued, overloaded, control, thread, left,
                   freed, countVars, historyVars>>

(* Both threads are joined. *)
Joined(h) ==
    /\ call[h] = "join" /\ control = None
    /\ \A t \in joining[h] : Finished(t)
    /\ joining' = [joining EXCEPT ![h] = {}]
    /\ stopping' = FALSE
    /\ quiet' = TRUE
    /\ freed' = IF freed = "pending" THEN "yes" ELSE freed
    /\ Goto(h, "none")
    /\ UNCHANGED <<callbackVars, dispatchVars, handle, control, thread, left, countVars, old,
                   released, raced>>

--------------------------------------------------------------------------------
(* The worker: enqueue() for whatever the connection reports. *)

Enqueue ==
    /\ thread[W] = "run"
    /\ deliveries < MaxDeliveries
    /\ deliveries' = deliveries + 1
    /\ UNCHANGED <<callbackVars, capacity, controlVars, call, joining, freed, connects, fresh,
                   historyVars>>

DeliverInline(n) ==
    /\ Enqueue
    /\ capacity = 0
    /\ thread' = [thread EXCEPT ![W] = "deliver"]
    /\ left' = [left EXCEPT ![W] = n]
    /\ UNCHANGED <<sender, queued, overloaded, stop>>

(* Once the sender is taken a delivery is only counted as discarded. *)
EnqueueDiscarded ==
    /\ Enqueue
    /\ capacity > 0 /\ ~sender
    /\ UNCHANGED <<sender, queued, overloaded, stop, thread, left>>

Enqueued ==
    /\ Enqueue
    /\ capacity > 0 /\ sender
    /\ queued < capacity /\ ~Finished(D)
    /\ queued' = queued + 1
    /\ UNCHANGED <<sender, overloaded, stop, thread, left>>

(* The channel is full or its receiver gone, or the delivery, whose size   *)
(* is left open, exceeds what the byte budget has left.                    *)
EnqueueRejected ==
    /\ Enqueue
    /\ capacity > 0 /\ sender
    /\ overloaded' = TRUE
    /\ sender' = FALSE
    /\ stop' = TRUE
    /\ UNCHANGED <<queued, thread, left>>

(* The connection ends by itself, or since it was told to stop. *)
WorkerEnds ==
    /\ thread[W] = "run"
    /\ thread' = [thread EXCEPT ![W] = "done"]
    /\ UNCHANGED <<callbackVars, dispatchVars, controlVars, left, call, joining, freed,
                   countVars, historyVars>>

--------------------------------------------------------------------------------
(* invoke(), on whichever thread delivers *)

(* What is left to do after the callback that now runs or is skipped. *)
NextCallback(t) ==
    /\ left' = [left EXCEPT ![t] = IF thread[t] = "report" THEN 0 ELSE @ - 1]
    /\ thread' = [thread EXCEPT ![t] = IF @ = "report" THEN "reported" ELSE "events"]

(* deliver_batch() calls the batch callback and then one callback for each *)
(* event, unless the queue overflowed; states and errors are one callback. *)
Delivering(t) ==
    /\ running[t] = 0
    /\ \/ thread[t] \in {"deliver", "report"}
       \/ thread[t] = "events" /\ left[t] > 0 /\ ~overloaded

Invoke(t) ==
    /\ Delivering(t)
    /\ enabled /\ callback # 0
    /\ running' = [running EXCEPT ![t] = callback]
    /\ NextCallback(t)
    /\ UNCHANGED <<callback, enabled, dispatchVars, controlVars, call, joining, freed, countVars,
                   historyVars>>

InvokeSkipped(t) ==
    /\ Delivering(t)
    /\ ~enabled \/ callback = 0
    /\ NextCallback(t)
    /\ UNCHANGED <<callbackVars, dispatchVars, controlVars, call, joining, freed, countVars,
                   historyVars>>

CallbackReturns(t) ==
    /\ running[t] # 0 /\ call[t] = "none"
    /\ running' = [running EXCEPT ![t] = 0]
    /\ UNCHANGED <<callback, enabled, dispatchVars, controlVars, thread, left, call, joining,
                   freed, countVars, historyVars>>

Delivered(t) ==
    /\ thread[t] = "events" /\ running[t] = 0
    /\ left[t] = 0 \/ overloaded
    /\ left' = [left EXCEPT ![t] = 0]
    /\ thread' = [thread EXCEPT ![t] = IF t = W THEN "run" ELSE "recv"]
    /\ UNCHANGED <<callbackVars, dispatchVars, controlVars, call, joining, freed, countVars,
                   historyVars>>

--------------------------------------------------------------------------------
(* dispatcher() *)

DispatcherStep(step) ==
    /\ thread' = [thread EXCEPT ![D] = step]
    /\ UNCHANGED <<callback, running, capacity, sender, stop, controlVars, call, joining, freed,
                   countVars, historyVars>>

Recv ==
    /\ thread[D] = "recv" /\ queued > 0
    /\ queued' = queued - 1
    /\ DispatcherStep("check")
    /\ UNCHANGED <<enabled, overloaded, left>>

Closed ==
    /\ thread[D] = "recv" /\ queued = 0 /\ ~sender
    /\ DispatcherStep("exit")
    /\ UNCHANGED <<enabled, queued, overloaded, left>>

Accept(n) ==
    /\ thread[D] = "check" /\ ~overloaded /\ enabled
    /\ left' = [left EXCEPT ![D] = n]
    /\ DispatcherStep("deliver")
    /\ UNCHANGED <<enabled, queued, overloaded>>

Drain ==
    /\ thread[D] = "check" /\ (overloaded \/ ~enabled)
    /\ queued' = 0
    /\ DispatcherStep("exit")
    /\ UNCHANGED <<enabled, overloaded, left>>

Exit ==
    /\ thread[D] = "exit"
    /\ overloaded' = FALSE
    /\ DispatcherStep(IF overloaded THEN "report" ELSE "close")
    /\ UNCHANGED <<enabled, queued, left>>

(* The overflow has been reported: disable(), which does not wait here. *)
Reported ==
    /\ thread[D] = "reported" /\ running[D] = 0
    /\ enabled' = FALSE
    /\ DispatcherStep("close")
    /\ UNCHANGED <<queued, overloaded, left>>

(* The thread ends and drops its end of the channel. *)
Close ==
    /\ thread[D] = "close"
    /\ queued' = 0
    /\ DispatcherStep("done")
    /\ UNCHANGED <<enabled, overloaded, left>>

--------------------------------------------------------------------------------
HostStep(h) ==
    \/ UpdateReturns(h)
    \/ ConnectEnables(h) \/ ConnectSender(h)
    \/ SpawnDispatcher(h) \/ DispatcherRefused(h) \/ SpawnWorker(h) \/ WorkerRefused(h)
    \/ ConnectUndone(h)
    \/ TakeSender(h) \/ SignalStop(h) \/ Joined(h)

CallbackStep(t) ==
    \/ Invoke(t) \/ InvokeSkipped(t) \/ CallbackReturns(t) \/ Delivered(t)
    \/ TakeSender(t) \/ SignalStop(t)

Dispatcher ==
    \/ Recv \/ Closed \/ Drain \/ Exit \/ Reported \/ Close
    \/ \E n \in 1 .. MaxBatch : Accept(n)

Worker ==
    \/ \E n \in 1 .. MaxBatch : DeliverInline(n)
    \/ EnqueueDiscarded \/ Enqueued \/ EnqueueRejected
    \/ WorkerEnds

Calls ==
    \/ \E p \in Callers : \E cb \in {0, fresh + 1} : SetCallback(p, cb)
    \/ \E h \in Hosts : \E n \in {0, Capacity} : SetAsyncDelivery(h, n)
    \/ \E h \in Hosts : ConnectLocks(h)
    \/ \E p \in Callers : \E destroy \in BOOLEAN : Disable(p, destroy)

Next ==
    \/ Calls
    \/ \E h \in Hosts : HostStep(h)
    \/ \E t \in Threads : CallbackStep(t)
    \/ Dispatcher
    \/ Worker

Spec == Init /\ [][Next]_vars

(* Threads run, callbacks return however often they call the API (the      *)
(* README asks the host to keep them finite), and a worker that was told   *)
(* to stop does. Nothing makes a host call, or a connection end.           *)
FairSpec ==
    /\ Spec
    /\ \A h \in Hosts : WF_vars(HostStep(h))
    /\ \A t \in Threads : WF_vars(CallbackStep(t)) /\ SF_vars(CallbackReturns(t))
    /\ WF_vars(Dispatcher)
    /\ WF_vars(stop /\ WorkerEnds)

--------------------------------------------------------------------------------
(* Properties *)

TypeOK ==
    /\ callback \in 0 .. MaxUpdates /\ enabled \in BOOLEAN
    /\ running \in [Threads -> 0 .. MaxUpdates]
    /\ capacity \in {0, Capacity} /\ sender \in BOOLEAN /\ queued \in 0 .. Capacity
    /\ overloaded \in BOOLEAN /\ stop \in BOOLEAN
    /\ handle \subseteq Threads /\ stopping \in BOOLEAN /\ control \in Hosts \cup {None}
    /\ thread \in [Threads -> {"none", "run", "recv", "check", "deliver", "events", "exit",
                               "report", "reported", "close", "done"}]
    /\ left \in [Threads -> 0 .. MaxBatch]
    /\ call \in [Callers -> {"none", "update", "enable", "sender", "dispatcher", "worker",
                             "undo", "disabled", "control", "join"}]
    /\ joining \in [Hosts -> SUBSET Threads]
    /\ freed \in {"no", "pending", "yes"}

(* A disconnect() or destroy() that succeeded on a host's thread leaves    *)
(* nothing behind: until the next connect() no callback runs and both      *)
(* threads have ended, though two hosts may disconnect at once.            *)
QuietAfterDisconnect == quiet => ~Active /\ \A t \in Threads : Finished(t)

(* The worker and the dispatcher never both run a callback, and neither    *)
(* runs one with userdata whose update has returned.                       *)
OneAtATime == Cardinality({t \in Threads : running[t] # 0}) <= 1
ClearedUserdata == \A t \in Threads : running[t] # 0 => running[t] > released

(* "Callbacks for one client are serialized" (ttl-live-native/README.md)   *)
(* and "Clearing a callback from another thread waits for in-flight        *)
(* callbacks; afterward its old userdata is unused" (ttl_live.h), whatever *)
(* the host reconfigures, disconnects or connects meanwhile; and none runs *)
(* after a disconnect().                                                   *)
CallbackContract == TypeOK /\ OneAtATime /\ ClearedUserdata /\ QuietAfterDisconnect

(* connect() holds the control mutex while it joins the dispatcher of a    *)
(* worker that could not be started, and a callback on that dispatcher,    *)
(* the report of an overflow left over from the connection before, calls   *)
(* disconnect(), which waits for the mutex.                                *)
Cornered == \E h \in Hosts : call[h] = "undo" /\ call[D] = "control"

(* A call of a host's thread returns, whatever the callbacks and the other *)
(* host threads call meanwhile, with two exceptions: Cornered, and raced,  *)
(* a connect() that made a sender after this disconnect() took the last.   *)
CallsReturn == \A h \in Hosts : call[h] # "none" ~> call[h] = "none" \/ raced[h] \/ Cornered

(* "disconnect disables delivery, ... and joins the worker. It is safe     *)
(* repeatedly" (ttl_live.h): a disconnect() returns. It does not when the  *)
(* race above happens: it joins a dispatcher whose sender nobody drops.    *)
DisconnectReturns ==
    \A h \in Hosts : call[h] \in {"disabled", "control", "join"} ~> call[h] = "none"
================================================================================
