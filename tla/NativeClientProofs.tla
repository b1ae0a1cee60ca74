--------------------------- MODULE NativeClientProofs ---------------------------
(***************************************************************************)
(* CallbackContract of the C client for any number of host threads, any    *)
(* capacity and any bounds. ClientInv is the inductive invariant; it is    *)
(* preserved part by part, one step for every action. With it, JoinsReady  *)
(* says that who joins a thread has told it to end.                        *)
(***************************************************************************)
EXTENDS NativeClient, FiniteSetTheorems, TLAPS

(* The control mutex is held by the host that is inside connect(), by      *)
(* nobody else, and never during a stop. One host at most joins for a      *)
(* stop; while it does, nobody else has a handle. A callback's own calls   *)
(* never take a handle.                                                    *)
Connecting == {"enable", "sender", "dispatcher", "worker", "undo"}
LockInv ==
    /\ \A h \in Hosts : call[h] \in Connecting <=> control = h
    /\ control # None => ~stopping /\ ~quiet
    /\ stopping <=> \E h \in Hosts : call[h] = "join"
    /\ \A g, h \in Hosts : call[g] = "join" /\ call[h] = "join" => g = h
    /\ stopping => handle = {}
    /\ \A h \in Hosts : joining[h] # {} => call[h] \in {"join", "undo"}
    /\ \A t \in Threads : call[t] \in {"none", "disabled", "control"}

(* A thread that has not ended has its handle in the client or with a host *)
(* that joins it, so connect() starts from two ended threads; only a       *)
(* thread that is inside a delivery runs a callback, and the capacity,     *)
(* which cannot change meanwhile, says which of the two delivers.          *)
ThreadInv ==
    /\ \A t \in Threads : Finished(t) \/ t \in handle \/ \E h \in Hosts : t \in joining[h]
    /\ \A h \in Hosts : call[h] \in {"enable", "sender", "dispatcher"} =>
           handle = {} /\ \A t \in Threads : Finished(t)
    /\ \A h \in Hosts : call[h] \in {"worker", "undo"} => Finished(W) /\ handle \subseteq {D}
    /\ \A h \in Hosts : call[h] \in {"sender", "dispatcher"} => capacity > 0
    /\ thread[W] \in {"none", "run", "deliver", "events", "done"} /\ thread[D] # "run"
    /\ thread[W] \in {"deliver", "events"} => capacity = 0
    /\ ~Finished(D) => capacity > 0
    /\ \A t \in Threads : thread[t] = "deliver" => left[t] > 0
    /\ \A t \in Threads : running[t] # 0 => thread[t] \in {"events", "reported"}
    /\ quiet => \A t \in Threads : Finished(t)

(* Registrations are numbered upwards, so the one in force is later than   *)
(* every one that an update replaced.                                      *)
RegistrationInv ==
    /\ fresh \in 1 .. MaxUpdates /\ callback <= fresh
    /\ old \in [Hosts -> 0 .. fresh] /\ released \in 0 .. fresh
    /\ callback # 0 => callback > released /\ \A h \in Hosts : callback > old[h]
    /\ ClearedUserdata

ClientInv == TypeOK /\ LockInv /\ ThreadInv /\ RegistrationInv

--------------------------------------------------------------------------------
(* A part of the invariant survives a step that leaves what it speaks of. *)
LEMMA LockFrame ==
    ASSUME LockInv, UNCHANGED <<handle, stopping, control, call, joining, quiet>>
    PROVE  LockInv'
BY DEF LockInv

LEMMA ThreadFrame ==
    ASSUME ThreadInv,
           UNCHANGED <<thread, handle, joining, call, capacity, left, running, quiet>>
    PROVE  ThreadInv'
BY DEF ThreadInv, Finished

LEMMA RegistrationFrame ==
    ASSUME RegistrationInv, UNCHANGED <<callback, running, fresh, old, released>>
    PROVE  RegistrationInv'
BY DEF RegistrationInv, ClearedUserdata

LEMMA InitHolds == Init => ClientInv
<1> SUFFICES ASSUME Init PROVE ClientInv
  OBVIOUS
<1> USE NativeAssumption, HostsAssumption DEF Init
<1>1. TypeOK
  <2>1. callback \in 0 .. MaxUpdates /\ running \in [Threads -> 0 .. MaxUpdates] /\ queued \in 0 .. Capacity
    OBVIOUS
  <2>2. left \in [Threads -> 0 .. MaxBatch] /\ joining \in [Hosts -> SUBSET Threads]
    OBVIOUS
  <2> QED
    BY <2>1, <2>2 DEF TypeOK
<1>2. LockInv
  BY DEF LockInv, Connecting, Callers, Threads, W, D, None
<1>3. ThreadInv
  BY DEF ThreadInv, Finished, Callers, Threads, W, D, None
<1>4. RegistrationInv
  BY DEF RegistrationInv, ClearedUserdata, Threads, W, D
<1> QED
  BY <1>1, <1>2, <1>3, <1>4 DEF ClientInv

LEMMA SetCallbackKeeps ==
    ASSUME ClientInv, NEW p \in Callers, NEW cb \in {0, fresh + 1}, SetCallback(p, cb)
    PROVE  ClientInv'
<1>1. TypeOK'
  BY NativeAssumption DEF ClientInv, TypeOK, RegistrationInv, SetCallback, MayCall,
     Goto, dispatchVars, controlVars, Callers, Threads, W, D, None
<1>2. LockInv'
  BY HostsAssumption DEF ClientInv, TypeOK, LockInv, Connecting, SetCallback,
     MayCall, Goto, dispatchVars, controlVars, Callers, Threads, W, D, None
<1>3. ThreadInv'
  BY NativeAssumption, HostsAssumption DEF ClientInv, TypeOK, LockInv, ThreadInv,
     Finished, Connecting, SetCallback, MayCall, Goto, dispatchVars, controlVars,
     Callers, Threads, W, D, None
<1>4. RegistrationInv'
  BY NativeAssumption, HostsAssumption DEF ClientInv, TypeOK, RegistrationInv,
     ClearedUserdata, SetCallback, MayCall, Goto, dispatchVars, controlVars,
     Callers, Threads, W, D, None
<1> QED
  BY <1>1, <1>2, <1>3, <1>4 DEF ClientInv

LEMMA SetAsyncDeliveryKeeps ==
    ASSUME ClientInv, NEW h \in Hosts, NEW n \in {0, Capacity}, SetAsyncDelivery(h, n)
    PROVE  ClientInv'
<1>1. TypeOK'
  BY NativeAssumption DEF ClientInv, TypeOK, SetAsyncDelivery, MayCall,
     callbackVars, controlVars, countVars, historyVars, Callers, Threads, W, D, None
<1>2. LockInv'
  BY LockFrame DEF ClientInv, SetAsyncDelivery, MayCall, callbackVars, controlVars,
     countVars, historyVars
<1>3. ThreadInv'
  BY NativeAssumption, HostsAssumption DEF ClientInv, TypeOK, LockInv, ThreadInv,
     Finished, Connecting, SetAsyncDelivery, MayCall, callbackVars, controlVars,
     countVars, historyVars, Callers, Threads, W, D, None
<1>4. RegistrationInv'
  BY RegistrationFrame DEF ClientInv, SetAsyncDelivery, MayCall, callbackVars,
     controlVars, countVars, historyVars
<1> QED
  BY <1>1, <1>2, <1>3, <1>4 DEF ClientInv

LEMMA ConnectLocksKeeps ==
    ASSUME ClientInv, NEW h \in Hosts, ConnectLocks(h)
    PROVE  ClientInv'
<1>1. TypeOK'
  BY NativeAssumption DEF ClientInv, TypeOK, ConnectLocks, MayCall, Goto,
     callbackVars, Callers, Threads, W, D, None
<1>2. LockInv'
  BY HostsAssumption DEF ClientInv, TypeOK, LockInv, Connecting, ConnectLocks,
     MayCall, Goto, callbackVars, Callers, Threads, W, D, None
<1>3. ThreadInv'
  BY NativeAssumption, HostsAssumption DEF ClientInv, TypeOK, LockInv, ThreadInv,
     Finished, Connecting, ConnectLocks, MayCall, Goto, callbackVars, Callers,
     Threads, W, D, None
<1>4. RegistrationInv'
  BY RegistrationFrame DEF ClientInv, ConnectLocks, MayCall, Goto, callbackVars
<1> QED
  BY <1>1, <1>2, <1>3, <1>4 DEF ClientInv

LEMMA DisableKeeps ==
    ASSUME ClientInv, NEW p \in Callers, NEW destroy \in BOOLEAN, Disable(p, destroy)
    PROVE  ClientInv'
<1>1. TypeOK'
  BY NativeAssumption DEF ClientInv, TypeOK, Disable, MayCall, Goto, dispatchVars,
     controlVars, countVars, Callers, Threads, W, D, None
<1>2. LockInv'
  BY HostsAssumption DEF ClientInv, TypeOK, LockInv, Connecting, Disable, MayCall,
     Goto, dispatchVars, controlVars, countVars, Callers, Threads, W, D, None
<1>3. ThreadInv'
  BY NativeAssumption, HostsAssumption DEF ClientInv, TypeOK, LockInv, ThreadInv,
     Finished, Connecting, Disable, MayCall, Goto, dispatchVars, controlVars,
     countVars, Callers, Threads, W, D, None
<1>4. RegistrationInv'
  BY RegistrationFrame DEF ClientInv, Disable, MayCall, Goto, dispatchVars,
     controlVars, countVars
<1> QED
  BY <1>1, <1>2, <1>3, <1>4 DEF ClientInv

LEMMA UpdateReturnsKeeps ==
    ASSUME ClientInv, NEW h \in Hosts, UpdateReturns(h)
    PROVE  ClientInv'
<1>1. TypeOK'
  BY NativeAssumption DEF ClientInv, TypeOK, UpdateReturns, Goto, callbackVars,
     dispatchVars, controlVars, countVars, Callers, Threads, W, D, None
<1>2. LockInv'
  BY HostsAssumption DEF ClientInv, TypeOK, LockInv, Connecting, UpdateReturns,
     Goto, callbackVars, dispatchVars, controlVars, countVars, Callers, Threads, W,
     D, None
<1>3. ThreadInv'
  BY NativeAssumption, HostsAssumption DEF ClientInv, TypeOK, LockInv, ThreadInv,
     Finished, Connecting, UpdateReturns, Goto, callbackVars, dispatchVars,
     controlVars, countVars, Callers, Threads, W, D, None
<1>4. RegistrationInv'
  BY HostsAssumption DEF ClientInv, TypeOK, RegistrationInv, ClearedUserdata,
     Active, UpdateReturns, Goto, callbackVars, dispatchVars, controlVars,
     countVars, Callers, Threads, W, D, None
<1> QED
  BY <1>1, <1>2, <1>3, <1>4 DEF ClientInv

LEMMA ConnectEnablesKeeps ==
    ASSUME ClientInv, NEW h \in Hosts, ConnectEnables(h)
    PROVE  ClientInv'
<1>1. TypeOK'
  BY NativeAssumption DEF ClientInv, TypeOK, ConnectEnables, Goto, dispatchVars,
     controlVars, countVars, historyVars, Callers, Threads, W, D, None
<1>2. LockInv'
  BY HostsAssumption DEF ClientInv, TypeOK, LockInv, Connecting, ConnectEnables,
     Goto, dispatchVars, controlVars, countVars, historyVars, Callers, Threads, W,
     D, None
<1>3. ThreadInv'
  BY NativeAssumption, HostsAssumption DEF ClientInv, TypeOK, LockInv, ThreadInv,
     Finished, Connecting, ConnectEnables, Goto, dispatchVars, controlVars,
     countVars, historyVars, Callers, Threads, W, D, None
<1>4. RegistrationInv'
  BY RegistrationFrame DEF ClientInv, ConnectEnables, Goto, dispatchVars,
     controlVars, countVars, historyVars
<1> QED
  BY <1>1, <1>2, <1>3, <1>4 DEF ClientInv

LEMMA ConnectSenderKeeps ==
    ASSUME ClientInv, NEW h \in Hosts, ConnectSender(h)
    PROVE  ClientInv'
<1>1. TypeOK'
  BY NativeAssumption DEF ClientInv, TypeOK, ConnectSender, Goto, callbackVars,
     controlVars, countVars, Callers, Threads, W, D, None
<1>2. LockInv'
  BY HostsAssumption DEF ClientInv, TypeOK, LockInv, Connecting, ConnectSender,
     Goto, callbackVars, controlVars, countVars, Callers, Threads, W, D, None
<1>3. ThreadInv'
  BY NativeAssumption, HostsAssumption DEF ClientInv, TypeOK, LockInv, ThreadInv,
     Finished, Connecting, ConnectSender, Goto, callbackVars, controlVars,
     countVars, Callers, Threads, W, D, None
<1>4. RegistrationInv'
  BY RegistrationFrame DEF ClientInv, ConnectSender, Goto, callbackVars,
     controlVars, countVars
<1> QED
  BY <1>1, <1>2, <1>3, <1>4 DEF ClientInv

LEMMA SpawnDispatcherKeeps ==
    ASSUME ClientInv, NEW h \in Hosts, SpawnDispatcher(h)
    PROVE  ClientInv'
<1>1. TypeOK'
  BY NativeAssumption DEF ClientInv, TypeOK, SpawnDispatcher, Goto, callbackVars,
     dispatchVars, countVars, historyVars, Callers, Threads, W, D, None
<1>2. LockInv'
  BY HostsAssumption DEF ClientInv, TypeOK, LockInv, Connecting, SpawnDispatcher,
     Goto, callbackVars, dispatchVars, countVars, historyVars, Callers, Threads, W,
     D, None
<1>3. ThreadInv'
  BY NativeAssumption, HostsAssumption DEF ClientInv, TypeOK, LockInv, ThreadInv,
     Finished, Connecting, SpawnDispatcher, Goto, callbackVars, dispatchVars,
     countVars, historyVars, Callers, Threads, W, D, None
<1>4. RegistrationInv'
  BY RegistrationFrame DEF ClientInv, SpawnDispatcher, Goto, callbackVars,
     dispatchVars, countVars, historyVars
<1> QED
  BY <1>1, <1>2, <1>3, <1>4 DEF ClientInv

LEMMA DispatcherRefusedKeeps ==
    ASSUME ClientInv, NEW h \in Hosts, DispatcherRefused(h)
    PROVE  ClientInv'
<1>1. TypeOK'
  BY NativeAssumption DEF ClientInv, TypeOK, DispatcherRefused, Goto, countVars,
     historyVars, Callers, Threads, W, D, None
<1>2. LockInv'
  BY HostsAssumption DEF ClientInv, TypeOK, LockInv, Connecting, DispatcherRefused,
     Goto, countVars, historyVars, Callers, Threads, W, D, None
<1>3. ThreadInv'
  BY NativeAssumption, HostsAssumption DEF ClientInv, TypeOK, LockInv, ThreadInv,
     Finished, Connecting, DispatcherRefused, Goto, countVars, historyVars, Callers,
     Threads, W, D, None
<1>4. RegistrationInv'
  BY RegistrationFrame DEF ClientInv, DispatcherRefused, Goto, countVars,
     historyVars
<1> QED
  BY <1>1, <1>2, <1>3, <1>4 DEF ClientInv

LEMMA SpawnWorkerKeeps ==
    ASSUME ClientInv, NEW h \in Hosts, SpawnWorker(h)
    PROVE  ClientInv'
<1>1. TypeOK'
  BY NativeAssumption DEF ClientInv, TypeOK, SpawnWorker, Goto, callbackVars,
     dispatchVars, countVars, historyVars, Callers, Threads, W, D, None
<1>2. LockInv'
  BY HostsAssumption DEF ClientInv, TypeOK, LockInv, Connecting, SpawnWorker, Goto,
     callbackVars, dispatchVars, countVars, historyVars, Callers, Threads, W, D,
     None
<1>3. ThreadInv'
  BY NativeAssumption, HostsAssumption DEF ClientInv, TypeOK, LockInv, ThreadInv,
     Finished, Connecting, SpawnWorker, Goto, callbackVars, dispatchVars, countVars,
     historyVars, Callers, Threads, W, D, None
<1>4. RegistrationInv'
  BY RegistrationFrame DEF ClientInv, SpawnWorker, Goto, callbackVars, dispatchVars,
     countVars, historyVars
<1> QED
  BY <1>1, <1>2, <1>3, <1>4 DEF ClientInv

LEMMA WorkerRefusedKeeps ==
    ASSUME ClientInv, NEW h \in Hosts, WorkerRefused(h)
    PROVE  ClientInv'
<1>1. TypeOK'
  BY NativeAssumption DEF ClientInv, TypeOK, WorkerRefused, Goto, countVars,
     historyVars, Callers, Threads, W, D, None
<1>2. LockInv'
  BY HostsAssumption DEF ClientInv, TypeOK, LockInv, Connecting, WorkerRefused,
     Goto, countVars, historyVars, Callers, Threads, W, D, None
<1>3. ThreadInv'
  BY NativeAssumption, HostsAssumption DEF ClientInv, TypeOK, LockInv, ThreadInv,
     Finished, Connecting, WorkerRefused, Goto, countVars, historyVars, Callers,
     Threads, W, D, None
<1>4. RegistrationInv'
  BY RegistrationFrame DEF ClientInv, WorkerRefused, Goto, countVars, historyVars
<1> QED
  BY <1>1, <1>2, <1>3, <1>4 DEF ClientInv

LEMMA ConnectUndoneKeeps ==
    ASSUME ClientInv, NEW h \in Hosts, ConnectUndone(h)
    PROVE  ClientInv'
<1>1. TypeOK'
  BY NativeAssumption DEF ClientInv, TypeOK, ConnectUndone, Goto, callbackVars,
     dispatchVars, countVars, historyVars, Callers, Threads, W, D, None
<1>2. LockInv'
  BY HostsAssumption DEF ClientInv, TypeOK, LockInv, Connecting, ConnectUndone,
     Goto, callbackVars, dispatchVars, countVars, historyVars, Callers, Threads, W,
     D, None
<1>3. ThreadInv'
  BY NativeAssumption, HostsAssumption DEF ClientInv, TypeOK, LockInv, ThreadInv,
     Finished, Connecting, ConnectUndone, Goto, callbackVars, dispatchVars,
     countVars, historyVars, Callers, Threads, W, D, None
<1>4. RegistrationInv'
  BY RegistrationFrame DEF ClientInv, ConnectUndone, Goto, callbackVars,
     dispatchVars, countVars, historyVars
<1> QED
  BY <1>1, <1>2, <1>3, <1>4 DEF ClientInv

LEMMA JoinedKeeps ==
    ASSUME ClientInv, NEW h \in Hosts, Joined(h)
    PROVE  ClientInv'
<1>1. TypeOK'
  BY NativeAssumption DEF ClientInv, TypeOK, Joined, Goto, callbackVars,
     dispatchVars, countVars, Callers, Threads, W, D, None
<1>2. LockInv'
  BY HostsAssumption DEF ClientInv, TypeOK, LockInv, Connecting, Joined, Goto,
     callbackVars, dispatchVars, countVars, Callers, Threads, W, D, None
<1>3. ThreadInv'
  BY NativeAssumption, HostsAssumption DEF ClientInv, TypeOK, LockInv, ThreadInv,
     Finished, Connecting, Joined, Goto, callbackVars, dispatchVars, countVars,
     Callers, Threads, W, D, None
<1>4. RegistrationInv'
  BY RegistrationFrame DEF ClientInv, Joined, Goto, callbackVars, dispatchVars,
     countVars
<1> QED
  BY <1>1, <1>2, <1>3, <1>4 DEF ClientInv

LEMMA TakeSenderKeeps ==
    ASSUME ClientInv, NEW p \in Callers, TakeSender(p)
    PROVE  ClientInv'
<1>1. TypeOK'
  BY NativeAssumption DEF ClientInv, TypeOK, TakeSender, Goto, callbackVars,
     controlVars, countVars, historyVars, Callers, Threads, W, D, None
<1>2. LockInv'
  BY HostsAssumption DEF ClientInv, TypeOK, LockInv, Connecting, TakeSender, Goto,
     callbackVars, controlVars, countVars, historyVars, Callers, Threads, W, D, None
<1>3. ThreadInv'
  BY NativeAssumption, HostsAssumption DEF ClientInv, TypeOK, LockInv, ThreadInv,
     Finished, Connecting, TakeSender, Goto, callbackVars, controlVars, countVars,
     historyVars, Callers, Threads, W, D, None
<1>4. RegistrationInv'
  BY RegistrationFrame DEF ClientInv, TakeSender, Goto, callbackVars, controlVars,
     countVars, historyVars
<1> QED
  BY <1>1, <1>2, <1>3, <1>4 DEF ClientInv

LEMMA SignalStopKeeps ==
    ASSUME ClientInv, NEW p \in Callers, SignalStop(p)
    PROVE  ClientInv'
<1>1. TypeOK'
  BY NativeAssumption DEF ClientInv, TypeOK, SignalStop, Goto, callbackVars,
     countVars, historyVars, Callers, Threads, W, D, None
<1>2. LockInv'
  <2>1. CASE call' = [call EXCEPT ![p] = "none"] /\ UNCHANGED <<handle, stopping, joining>>
    BY <2>1, HostsAssumption DEF ClientInv, TypeOK, LockInv, Connecting, SignalStop,
       Goto, callbackVars, countVars, historyVars, Callers, Threads, W, D, None
  <2>2. CASE p \in Hosts /\ ~stopping /\ stopping' /\ handle' = {}
             /\ joining' = [joining EXCEPT ![p] = handle] /\ call' = [call EXCEPT ![p] = "join"]
    BY <2>2, HostsAssumption DEF ClientInv, TypeOK, LockInv, Connecting, SignalStop,
       Goto, callbackVars, countVars, historyVars, Callers, Threads, W, D, None
  <2> QED
    BY <2>1, <2>2 DEF SignalStop, Goto
<1>3. ThreadInv'
  BY NativeAssumption, HostsAssumption DEF ClientInv, TypeOK, LockInv, ThreadInv,
     Finished, Connecting, SignalStop, Goto, callbackVars, countVars, historyVars,
     Callers, Threads, W, D, None
<1>4. RegistrationInv'
  BY RegistrationFrame DEF ClientInv, SignalStop, Goto, callbackVars, countVars,
     historyVars
<1> QED
  BY <1>1, <1>2, <1>3, <1>4 DEF ClientInv

LEMMA InvokeKeeps ==
    ASSUME ClientInv, NEW t \in Threads, Invoke(t)
    PROVE  ClientInv'
<1>1. TypeOK'
  BY NativeAssumption DEF ClientInv, TypeOK, ThreadInv, Invoke, Delivering,
     NextCallback, dispatchVars, controlVars, countVars, historyVars, Callers,
     Threads, W, D, None
<1>2. LockInv'
  BY LockFrame DEF ClientInv, Invoke, Delivering, NextCallback, dispatchVars,
     controlVars, countVars, historyVars
<1>3. ThreadInv'
  BY NativeAssumption, HostsAssumption DEF ClientInv, TypeOK, LockInv, ThreadInv,
     Finished, Connecting, Invoke, Delivering, NextCallback, dispatchVars,
     controlVars, countVars, historyVars, Callers, Threads, W, D, None
<1>4. RegistrationInv'
  BY HostsAssumption DEF ClientInv, TypeOK, RegistrationInv, ClearedUserdata,
     Invoke, Delivering, NextCallback, dispatchVars, controlVars, countVars,
     historyVars, Callers, Threads, W, D, None
<1> QED
  BY <1>1, <1>2, <1>3, <1>4 DEF ClientInv

LEMMA InvokeSkippedKeeps ==
    ASSUME ClientInv, NEW t \in Threads, InvokeSkipped(t)
    PROVE  ClientInv'
<1>1. TypeOK'
  BY NativeAssumption DEF ClientInv, TypeOK, ThreadInv, InvokeSkipped, Delivering,
     NextCallback, callbackVars, dispatchVars, controlVars, countVars, historyVars,
     Callers, Threads, W, D, None
<1>2. LockInv'
  BY LockFrame DEF ClientInv, InvokeSkipped, Delivering, NextCallback, callbackVars,
     dispatchVars, controlVars, countVars, historyVars
<1>3. ThreadInv'
  BY NativeAssumption, HostsAssumption DEF ClientInv, TypeOK, LockInv, ThreadInv,
     Finished, Connecting, InvokeSkipped, Delivering, NextCallback, callbackVars,
     dispatchVars, controlVars, countVars, historyVars, Callers, Threads, W, D, None
<1>4. RegistrationInv'
  BY RegistrationFrame DEF ClientInv, InvokeSkipped, Delivering, NextCallback,
     callbackVars, dispatchVars, controlVars, countVars, historyVars
<1> QED
  BY <1>1, <1>2, <1>3, <1>4 DEF ClientInv

LEMMA CallbackReturnsKeeps ==
    ASSUME ClientInv, NEW t \in Threads, CallbackReturns(t)
    PROVE  ClientInv'
<1>1. TypeOK'
  BY NativeAssumption DEF ClientInv, TypeOK, CallbackReturns, dispatchVars,
     controlVars, countVars, historyVars, Callers, Threads, W, D, None
<1>2. LockInv'
  BY LockFrame DEF ClientInv, CallbackReturns, dispatchVars, controlVars, countVars,
     historyVars
<1>3. ThreadInv'
  BY NativeAssumption, HostsAssumption DEF ClientInv, TypeOK, LockInv, ThreadInv,
     Finished, Connecting, CallbackReturns, dispatchVars, controlVars, countVars,
     historyVars, Callers, Threads, W, D, None
<1>4. RegistrationInv'
  BY HostsAssumption DEF ClientInv, TypeOK, RegistrationInv, ClearedUserdata,
     CallbackReturns, dispatchVars, controlVars, countVars, historyVars, Callers,
     Threads, W, D, None
<1> QED
  BY <1>1, <1>2, <1>3, <1>4 DEF ClientInv

LEMMA DeliveredKeeps ==
    ASSUME ClientInv, NEW t \in Threads, Delivered(t)
    PROVE  ClientInv'
<1>1. TypeOK'
  BY NativeAssumption DEF ClientInv, TypeOK, Delivered, callbackVars, dispatchVars,
     controlVars, countVars, historyVars, Callers, Threads, W, D, None
<1>2. LockInv'
  BY LockFrame DEF ClientInv, Delivered, callbackVars, dispatchVars, controlVars,
     countVars, historyVars
<1>3. ThreadInv'
  BY NativeAssumption, HostsAssumption DEF ClientInv, TypeOK, LockInv, ThreadInv,
     Finished, Connecting, Delivered, callbackVars, dispatchVars, controlVars,
     countVars, historyVars, Callers, Threads, W, D, None
<1>4. RegistrationInv'
  BY RegistrationFrame DEF ClientInv, Delivered, callbackVars, dispatchVars,
     controlVars, countVars, historyVars
<1> QED
  BY <1>1, <1>2, <1>3, <1>4 DEF ClientInv

LEMMA RecvKeeps ==
    ASSUME ClientInv, Recv
    PROVE  ClientInv'
<1>1. TypeOK'
  BY NativeAssumption DEF ClientInv, TypeOK, Recv, DispatcherStep, controlVars,
     countVars, historyVars, Callers, Threads, W, D, None
<1>2. LockInv'
  BY LockFrame DEF ClientInv, Recv, DispatcherStep, controlVars, countVars,
     historyVars
<1>3. ThreadInv'
  BY NativeAssumption, HostsAssumption DEF ClientInv, TypeOK, LockInv, ThreadInv,
     Finished, Connecting, Recv, DispatcherStep, controlVars, countVars,
     historyVars, Callers, Threads, W, D, None
<1>4. RegistrationInv'
  BY RegistrationFrame DEF ClientInv, Recv, DispatcherStep, controlVars, countVars,
     historyVars
<1> QED
  BY <1>1, <1>2, <1>3, <1>4 DEF ClientInv

LEMMA ClosedKeeps ==
    ASSUME ClientInv, Closed
    PROVE  ClientInv'
<1>1. TypeOK'
  BY NativeAssumption DEF ClientInv, TypeOK, Closed, DispatcherStep, controlVars,
     countVars, historyVars, Callers, Threads, W, D, None
<1>2. LockInv'
  BY LockFrame DEF ClientInv, Closed, DispatcherStep, controlVars, countVars,
     historyVars
<1>3. ThreadInv'
  BY NativeAssumption, HostsAssumption DEF ClientInv, TypeOK, LockInv, ThreadInv,
     Finished, Connecting, Closed, DispatcherStep, controlVars, countVars,
     historyVars, Callers, Threads, W, D, None
<1>4. RegistrationInv'
  BY RegistrationFrame DEF ClientInv, Closed, DispatcherStep, controlVars,
     countVars, historyVars
<1> QED
  BY <1>1, <1>2, <1>3, <1>4 DEF ClientInv

LEMMA AcceptKeeps ==
    ASSUME ClientInv, NEW n \in 1 .. MaxBatch, Accept(n)
    PROVE  ClientInv'
<1>1. TypeOK'
  BY NativeAssumption DEF ClientInv, TypeOK, Accept, DispatcherStep, controlVars,
     countVars, historyVars, Callers, Threads, W, D, None
<1>2. LockInv'
  BY LockFrame DEF ClientInv, Accept, DispatcherStep, controlVars, countVars,
     historyVars
<1>3. ThreadInv'
  BY NativeAssumption, HostsAssumption DEF ClientInv, TypeOK, LockInv, ThreadInv,
     Finished, Connecting, Accept, DispatcherStep, controlVars, countVars,
     historyVars, Callers, Threads, W, D, None
<1>4. RegistrationInv'
  BY RegistrationFrame DEF ClientInv, Accept, DispatcherStep, controlVars,
     countVars, historyVars
<1> QED
  BY <1>1, <1>2, <1>3, <1>4 DEF ClientInv

LEMMA DrainKeeps ==
    ASSUME ClientInv, Drain
    PROVE  ClientInv'
<1>1. TypeOK'
  BY NativeAssumption DEF ClientInv, TypeOK, Drain, DispatcherStep, controlVars,
     countVars, historyVars, Callers, Threads, W, D, None
<1>2. LockInv'
  BY LockFrame DEF ClientInv, Drain, DispatcherStep, controlVars, countVars,
     historyVars
<1>3. ThreadInv'
  BY NativeAssumption, HostsAssumption DEF ClientInv, TypeOK, LockInv, ThreadInv,
     Finished, Connecting, Drain, DispatcherStep, controlVars, countVars,
     historyVars, Callers, Threads, W, D, None
<1>4. RegistrationInv'
  BY RegistrationFrame DEF ClientInv, Drain, DispatcherStep, controlVars, countVars,
     historyVars
<1> QED
  BY <1>1, <1>2, <1>3, <1>4 DEF ClientInv

LEMMA ExitKeeps ==
    ASSUME ClientInv, Exit
    PROVE  ClientInv'
<1>1. TypeOK'
  BY NativeAssumption DEF ClientInv, TypeOK, Exit, DispatcherStep, controlVars,
     countVars, historyVars, Callers, Threads, W, D, None
<1>2. LockInv'
  BY LockFrame DEF ClientInv, Exit, DispatcherStep, controlVars, countVars,
     historyVars
<1>3. ThreadInv'
  BY NativeAssumption, HostsAssumption DEF ClientInv, TypeOK, LockInv, ThreadInv,
     Finished, Connecting, Exit, DispatcherStep, controlVars, countVars,
     historyVars, Callers, Threads, W, D, None
<1>4. RegistrationInv'
  BY RegistrationFrame DEF ClientInv, Exit, DispatcherStep, controlVars, countVars,
     historyVars
<1> QED
  BY <1>1, <1>2, <1>3, <1>4 DEF ClientInv

LEMMA ReportedKeeps ==
    ASSUME ClientInv, Reported
    PROVE  ClientInv'
<1>1. TypeOK'
  BY NativeAssumption DEF ClientInv, TypeOK, Reported, DispatcherStep, controlVars,
     countVars, historyVars, Callers, Threads, W, D, None
<1>2. LockInv'
  BY LockFrame DEF ClientInv, Reported, DispatcherStep, controlVars, countVars,
     historyVars
<1>3. ThreadInv'
  BY NativeAssumption, HostsAssumption DEF ClientInv, TypeOK, LockInv, ThreadInv,
     Finished, Connecting, Reported, DispatcherStep, controlVars, countVars,
     historyVars, Callers, Threads, W, D, None
<1>4. RegistrationInv'
  BY RegistrationFrame DEF ClientInv, Reported, DispatcherStep, controlVars,
     countVars, historyVars
<1> QED
  BY <1>1, <1>2, <1>3, <1>4 DEF ClientInv

LEMMA CloseKeeps ==
    ASSUME ClientInv, Close
    PROVE  ClientInv'
<1>1. TypeOK'
  BY NativeAssumption DEF ClientInv, TypeOK, Close, DispatcherStep, controlVars,
     countVars, historyVars, Callers, Threads, W, D, None
<1>2. LockInv'
  BY LockFrame DEF ClientInv, Close, DispatcherStep, controlVars, countVars,
     historyVars
<1>3. ThreadInv'
  BY NativeAssumption, HostsAssumption DEF ClientInv, TypeOK, LockInv, ThreadInv,
     Finished, Connecting, Close, DispatcherStep, controlVars, countVars,
     historyVars, Callers, Threads, W, D, None
<1>4. RegistrationInv'
  BY RegistrationFrame DEF ClientInv, Close, DispatcherStep, controlVars, countVars,
     historyVars
<1> QED
  BY <1>1, <1>2, <1>3, <1>4 DEF ClientInv

LEMMA DeliverInlineKeeps ==
    ASSUME ClientInv, NEW n \in 1 .. MaxBatch, DeliverInline(n)
    PROVE  ClientInv'
<1>1. TypeOK'
  BY NativeAssumption DEF ClientInv, TypeOK, DeliverInline, Enqueue, callbackVars,
     controlVars, historyVars, Callers, Threads, W, D, None
<1>2. LockInv'
  BY LockFrame DEF ClientInv, DeliverInline, Enqueue, callbackVars, controlVars,
     historyVars
<1>3. ThreadInv'
  BY NativeAssumption, HostsAssumption DEF ClientInv, TypeOK, LockInv, ThreadInv,
     Finished, Connecting, DeliverInline, Enqueue, callbackVars, controlVars,
     historyVars, Callers, Threads, W, D, None
<1>4. RegistrationInv'
  BY RegistrationFrame DEF ClientInv, DeliverInline, Enqueue, callbackVars,
     controlVars, historyVars
<1> QED
  BY <1>1, <1>2, <1>3, <1>4 DEF ClientInv

LEMMA EnqueueDiscardedKeeps ==
    ASSUME ClientInv, EnqueueDiscarded
    PROVE  ClientInv'
<1>1. TypeOK'
  BY NativeAssumption DEF ClientInv, TypeOK, EnqueueDiscarded, Enqueue,
     callbackVars, controlVars, historyVars, Callers, Threads, W, D, None
<1>2. LockInv'
  BY LockFrame DEF ClientInv, EnqueueDiscarded, Enqueue, callbackVars, controlVars,
     historyVars
<1>3. ThreadInv'
  BY ThreadFrame DEF ClientInv, EnqueueDiscarded, Enqueue, callbackVars,
     controlVars, historyVars
<1>4. RegistrationInv'
  BY RegistrationFrame DEF ClientInv, EnqueueDiscarded, Enqueue, callbackVars,
     controlVars, historyVars
<1> QED
  BY <1>1, <1>2, <1>3, <1>4 DEF ClientInv

LEMMA EnqueuedKeeps ==
    ASSUME ClientInv, Enqueued
    PROVE  ClientInv'
<1>1. TypeOK'
  BY NativeAssumption DEF ClientInv, TypeOK, Enqueued, Enqueue, callbackVars,
     controlVars, historyVars, Callers, Threads, W, D, None
<1>2. LockInv'
  BY LockFrame DEF ClientInv, Enqueued, Enqueue, callbackVars, controlVars,
     historyVars
<1>3. ThreadInv'
  BY ThreadFrame DEF ClientInv, Enqueued, Enqueue, callbackVars, controlVars,
     historyVars
<1>4. RegistrationInv'
  BY RegistrationFrame DEF ClientInv, Enqueued, Enqueue, callbackVars, controlVars,
     historyVars
<1> QED
  BY <1>1, <1>2, <1>3, <1>4 DEF ClientInv

LEMMA EnqueueRejectedKeeps ==
    ASSUME ClientInv, EnqueueRejected
    PROVE  ClientInv'
<1>1. TypeOK'
  BY NativeAssumption DEF ClientInv, TypeOK, EnqueueRejected, Enqueue, callbackVars,
     controlVars, historyVars, Callers, Threads, W, D, None
<1>2. LockInv'
  BY LockFrame DEF ClientInv, EnqueueRejected, Enqueue, callbackVars, controlVars,
     historyVars
<1>3. ThreadInv'
  BY ThreadFrame DEF ClientInv, EnqueueRejected, Enqueue, callbackVars, controlVars,
     historyVars
<1>4. RegistrationInv'
  BY RegistrationFrame DEF ClientInv, EnqueueRejected, Enqueue, callbackVars,
     controlVars, historyVars
<1> QED
  BY <1>1, <1>2, <1>3, <1>4 DEF ClientInv

LEMMA WorkerEndsKeeps ==
    ASSUME ClientInv, WorkerEnds
    PROVE  ClientInv'
<1>1. TypeOK'
  BY NativeAssumption DEF ClientInv, TypeOK, WorkerEnds, callbackVars, dispatchVars,
     controlVars, countVars, historyVars, Callers, Threads, W, D, None
<1>2. LockInv'
  BY LockFrame DEF ClientInv, WorkerEnds, callbackVars, dispatchVars, controlVars,
     countVars, historyVars
<1>3. ThreadInv'
  BY NativeAssumption, HostsAssumption DEF ClientInv, TypeOK, LockInv, ThreadInv,
     Finished, Connecting, WorkerEnds, callbackVars, dispatchVars, controlVars,
     countVars, historyVars, Callers, Threads, W, D, None
<1>4. RegistrationInv'
  BY RegistrationFrame DEF ClientInv, WorkerEnds, callbackVars, dispatchVars,
     controlVars, countVars, historyVars
<1> QED
  BY <1>1, <1>2, <1>3, <1>4 DEF ClientInv

LEMMA NextKeeps ==
    ASSUME ClientInv, Next
    PROVE  ClientInv'
<1>1. CASE Calls
  BY <1>1, SetCallbackKeeps, SetAsyncDeliveryKeeps, ConnectLocksKeeps, DisableKeeps
     DEF Calls
<1>2. ASSUME NEW h \in Hosts, HostStep(h) PROVE ClientInv'
  <2> h \in Callers
    BY DEF Callers
  <2> QED
    BY <1>2, UpdateReturnsKeeps, ConnectEnablesKeeps, ConnectSenderKeeps,
       SpawnDispatcherKeeps, DispatcherRefusedKeeps, SpawnWorkerKeeps,
       WorkerRefusedKeeps, ConnectUndoneKeeps, JoinedKeeps, TakeSenderKeeps,
       SignalStopKeeps DEF HostStep
<1>3. ASSUME NEW t \in Threads, CallbackStep(t) PROVE ClientInv'
  <2> t \in Callers
    BY DEF Callers
  <2> QED
    BY <1>3, TakeSenderKeeps, SignalStopKeeps, InvokeKeeps, InvokeSkippedKeeps,
       CallbackReturnsKeeps, DeliveredKeeps DEF CallbackStep
<1>4. CASE Dispatcher
  BY <1>4, RecvKeeps, ClosedKeeps, AcceptKeeps, DrainKeeps, ExitKeeps,
     ReportedKeeps, CloseKeeps DEF Dispatcher
<1>5. CASE Worker
  BY <1>5, DeliverInlineKeeps, EnqueueDiscardedKeeps, EnqueuedKeeps,
     EnqueueRejectedKeeps, WorkerEndsKeeps DEF Worker
<1> QED
  BY <1>1, <1>2, <1>3, <1>4, <1>5 DEF Next

LEMMA ContractFollows == ClientInv => CallbackContract
<1> SUFFICES ASSUME ClientInv PROVE CallbackContract
  OBVIOUS
<1>1. OneAtATime
  <2> DEFINE busy == {t \in Threads : running[t] # 0}
  <2>1. busy = {} \/ \E t \in Threads : busy = {t}
    BY NativeAssumption DEF ClientInv, TypeOK, ThreadInv, Finished, Threads, W, D
  <2>2. Cardinality(busy) <= 1
    BY <2>1, FS_EmptySet, FS_Singleton
  <2> QED
    BY <2>2 DEF OneAtATime
<1>2. QuietAfterDisconnect
  BY DEF ClientInv, ThreadInv, Finished, QuietAfterDisconnect, Active
<1> QED
  BY <1>1, <1>2 DEF ClientInv, RegistrationInv, CallbackContract

(* ClientInv, the ownership of the control mutex, of the join handles and  *)
(* of the registrations in client.rs, is an invariant of the C client.     *)
THEOREM ClientInvHolds == Spec => []ClientInv
<1>1. ClientInv /\ [Next]_vars => ClientInv'
  <2>1. ASSUME ClientInv, UNCHANGED vars PROVE ClientInv'
    <3>1. TypeOK'
      BY <2>1 DEF ClientInv, TypeOK, vars, callbackVars, dispatchVars, controlVars, historyVars
    <3> QED
      BY <2>1, <3>1, LockFrame, ThreadFrame, RegistrationFrame
         DEF ClientInv, vars, callbackVars, dispatchVars, controlVars, countVars, historyVars
  <2> QED
    BY <2>1, NextKeeps
<1> QED
  BY <1>1, InitHolds, PTL DEF Spec

(* Callbacks of one client are serialized, userdata whose update returned  *)
(* is never passed again, and after a disconnect() that succeeded no       *)
(* callback runs and both threads have ended: for any number of host       *)
(* threads that connect, disconnect and register at once.                  *)
THEOREM CallbackContractHolds == Spec => []CallbackContract
BY ClientInvHolds, ContractFollows, PTL

--------------------------------------------------------------------------------
(* What CallsReturn rests on *)

(* Who joins a thread has ended its work before: a disconnect() has told   *)
(* the worker to stop and left the mutex, and dropped the sender, so that  *)
(* the dispatcher finds its channel closed, unless a connect() made a new  *)
(* sender in between (raced); a connect() that undoes itself has dropped   *)
(* its sender and has no worker.                                           *)
JoinsEnd ==
    \A h \in Hosts :
        /\ call[h] \in {"control", "join"} => ~sender \/ raced[h]
        /\ call[h] = "join" => stop /\ control = None
        /\ call[h] = "undo" => ~sender /\ Finished(W)

(* The same without what LockInv and ThreadInv say of it. *)
JoinsReady ==
    \A h \in Hosts :
        /\ call[h] \in {"control", "join"} => ~sender \/ raced[h]
        /\ call[h] = "join" => stop
        /\ call[h] = "undo" => ~sender

(* A step that starts no join and leaves the sender and the stop alone.    *)
LEMMA ReadyFrame ==
    ASSUME JoinsReady, sender' => sender, stop => stop',
           \A h \in Hosts : raced[h] => raced'[h] \/ call'[h] \notin {"control", "join"},
           \A h \in Hosts : call'[h] \in {"control", "join", "undo"} => call'[h] = call[h]
    PROVE  JoinsReady'
BY DEF JoinsReady

LEMMA CallsReady ==
    ASSUME ClientInv, JoinsReady, Calls
    PROVE  JoinsReady'
<1>1. TypeOK /\ LockInv /\ Hosts \subseteq Callers
  BY DEF ClientInv, Callers
<1>2. CASE \E p \in Callers : \E cb \in {0, fresh + 1} : SetCallback(p, cb)
  <2>1. UNCHANGED <<sender, stop, raced>>
    BY <1>2 DEF SetCallback, dispatchVars
  <2>2. \A h \in Hosts : call'[h] \in {"control", "join", "undo"} => call'[h] = call[h]
    BY <1>1, <1>2 DEF SetCallback, Goto, TypeOK
  <2> QED
    BY <2>1, <2>2, ReadyFrame
<1>3. CASE \E h \in Hosts : \E n \in {0, Capacity} : SetAsyncDelivery(h, n)
  BY <1>3, ReadyFrame DEF SetAsyncDelivery, historyVars
<1>4. ASSUME NEW g \in Hosts, ConnectLocks(g) PROVE JoinsReady'
  <2>1. UNCHANGED <<sender, raced>> /\ ~stopping
    BY <1>4 DEF ConnectLocks
  <2>2. \A h \in Hosts : call[h] # "join"
    BY <1>1, <2>1 DEF LockInv
  <2>3. \A h \in Hosts : call'[h] \in {"control", "join", "undo"} => call'[h] = call[h]
    BY <1>1, <1>4 DEF ConnectLocks, Goto, TypeOK
  <2> QED
    BY <2>1, <2>2, <2>3 DEF JoinsReady
<1>5. ASSUME NEW p \in Callers, NEW destroy \in BOOLEAN, Disable(p, destroy) PROVE JoinsReady'
  <2>1. UNCHANGED <<sender, stop>>
    BY <1>5 DEF Disable, dispatchVars
  <2>2. \A h \in Hosts : call'[h] = IF h = p THEN "disabled" ELSE call[h]
    BY <1>1, <1>5 DEF Disable, Goto, TypeOK
  <2>3. \A h \in Hosts : h # p => (raced[h] => raced'[h])
    BY <1>5 DEF Disable
  <2> QED
    BY <2>1, <2>2, <2>3, ReadyFrame
<1> QED
  BY <1>2, <1>3, <1>4, <1>5 DEF Calls

(* connect() makes a sender while nobody joins, and marks the disconnect() *)
(* that waits for the mutex; disconnect() drops it before it joins.        *)
LEMMA HostReady ==
    ASSUME ClientInv, JoinsReady, NEW g \in Hosts, HostStep(g)
    PROVE  JoinsReady'
<1>1. TypeOK /\ LockInv /\ Hosts \subseteq Callers
  BY DEF ClientInv, Callers
<1>2. CASE ConnectSender(g)
  <2>1. control = g /\ control # None
    BY <1>1, <1>2, HostsAssumption DEF ConnectSender, LockInv, Connecting
  <2>2. \A h \in Hosts : call[h] # "join" /\ (call[h] = "undo" => h = g)
    BY <1>1, <2>1 DEF LockInv, Connecting
  <2>3. \A h \in Hosts : call'[h] = IF h = g THEN "dispatcher" ELSE call[h]
    BY <1>1, <1>2 DEF ConnectSender, Goto, TypeOK
  <2>4. \A h \in Hosts : call[h] = "control" => raced'[h]
    BY <1>2 DEF ConnectSender
  <2> QED
    BY <2>2, <2>3, <2>4 DEF JoinsReady
<1>3. CASE TakeSender(g)
  <2>1. \A h \in Hosts : call'[h] = IF h = g THEN "control" ELSE call[h]
    BY <1>1, <1>3 DEF TakeSender, Goto, TypeOK
  <2> QED
    BY <1>3, <2>1 DEF TakeSender, historyVars, JoinsReady
<1>4. CASE SignalStop(g)
  <2>1. stop' /\ UNCHANGED <<sender, raced>> /\ call[g] = "control"
    BY <1>4 DEF SignalStop, historyVars
  <2>2. \A h \in Hosts : call'[h] = call[h] \/ (h = g /\ call'[h] \in {"none", "join"})
    BY <1>1, <1>4 DEF SignalStop, Goto, TypeOK
  <2> QED
    BY <2>1, <2>2 DEF JoinsReady
<1>5. CASE WorkerRefused(g)
  <2>1. ~sender' /\ UNCHANGED <<stop, raced>>
    BY <1>5 DEF WorkerRefused, historyVars
  <2>2. \A h \in Hosts : call'[h] = IF h = g THEN "undo" ELSE call[h]
    BY <1>1, <1>5 DEF WorkerRefused, Goto, TypeOK
  <2> QED
    BY <2>1, <2>2 DEF JoinsReady
<1>6. CASE \/ UpdateReturns(g) \/ ConnectEnables(g) \/ SpawnDispatcher(g) \/ DispatcherRefused(g)
           \/ SpawnWorker(g) \/ ConnectUndone(g) \/ Joined(g)
  <2>1. (sender' => sender) /\ UNCHANGED <<stop, raced>>
    BY <1>6 DEF UpdateReturns, ConnectEnables, SpawnDispatcher, DispatcherRefused, SpawnWorker,
       ConnectUndone, Joined, dispatchVars, historyVars
  <2>2. \A h \in Hosts : call'[h] \in {"control", "join", "undo"} => call'[h] = call[h]
    BY <1>1, <1>6 DEF UpdateReturns, ConnectEnables, SpawnDispatcher, DispatcherRefused, SpawnWorker,
       ConnectUndone, Joined, Goto, TypeOK
  <2> QED
    BY <2>1, <2>2, ReadyFrame
<1> QED
  BY <1>2, <1>3, <1>4, <1>5, <1>6 DEF HostStep

LEMMA ThreadsReady ==
    ASSUME ClientInv, JoinsReady,
           Dispatcher \/ Worker \/ (\E t \in Threads : CallbackStep(t)) \/ UNCHANGED vars
    PROVE  JoinsReady'
<1>1. TypeOK /\ Hosts \subseteq Callers /\ \A t \in Threads : t \in Callers /\ t \notin Hosts
  BY HostsAssumption DEF ClientInv, Callers
<1>2. CASE \/ Dispatcher \/ Worker \/ UNCHANGED vars
           \/ \E t \in Threads : Invoke(t) \/ InvokeSkipped(t) \/ CallbackReturns(t) \/ Delivered(t)
  <2>1. UNCHANGED <<call, raced>>
    BY <1>2 DEF Dispatcher, Recv, Closed, Drain, Exit, Reported, Close, Accept, DispatcherStep, Worker,
       DeliverInline, EnqueueDiscarded, Enqueued, EnqueueRejected, Enqueue, WorkerEnds, Invoke,
       InvokeSkipped, CallbackReturns, Delivered, vars, historyVars
  <2>2. (sender' => sender) /\ (stop => stop')
    BY <1>2 DEF Dispatcher, Recv, Closed, Drain, Exit, Reported, Close, Accept, DispatcherStep, Worker,
       DeliverInline, EnqueueDiscarded, Enqueued, EnqueueRejected, Enqueue, WorkerEnds, Invoke,
       InvokeSkipped, CallbackReturns, Delivered, vars, dispatchVars
  <2> QED
    BY <2>1, <2>2, ReadyFrame
<1>3. ASSUME NEW t \in Threads, TakeSender(t) \/ SignalStop(t) PROVE JoinsReady'
  <2>1. raced' = raced /\ (sender' => sender) /\ (stop => stop')
    BY <1>3 DEF TakeSender, SignalStop, historyVars
  <2>2. \A h \in Hosts : call'[h] = call[h]
    BY <1>1, <1>3 DEF TakeSender, SignalStop, Goto, TypeOK
  <2> QED
    BY <2>1, <2>2, ReadyFrame
<1> QED
  BY <1>2, <1>3 DEF CallbackStep

(* No call of a host's thread joins a thread that was not told to end: the *)
(* safety half of CallsReturn, and the only way around it is the race that *)
(* DisconnectReturns is refuted by; for any number of host threads.        *)
THEOREM JoinsEndHolds == Spec => []JoinsEnd
<1>1. Init => JoinsReady
  BY DEF Init, JoinsReady, Callers
<1>2. ClientInv /\ JoinsReady /\ [Next]_vars => JoinsReady'
  BY CallsReady, HostReady, ThreadsReady DEF Next
<1>3. ClientInv /\ JoinsReady => JoinsEnd
  BY DEF ClientInv, LockInv, ThreadInv, JoinsReady, JoinsEnd
<1> QED
  BY <1>1, <1>2, <1>3, ClientInvHolds, PTL DEF Spec
================================================================================
