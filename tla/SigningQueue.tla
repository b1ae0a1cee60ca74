----------------------------- MODULE SigningQueue -----------------------------
(***************************************************************************)
(* The warm signer of crates/ttl-sign-embedded/src/lib.rs: an engine on a  *)
(* thread of its own, fed by a bounded channel and answering each request  *)
(* over a oneshot.                                                         *)
(*                                                                         *)
(* Callers come and go: a future may be dropped, its deadline may pass,    *)
(* the engine may fail, hang or panic, and the signer may be dropped. The  *)
(* signer can only be dropped when no call of sign_with borrows it.        *)
(***************************************************************************)
EXTENDS Naturals, Sequences, SequencesExt

CONSTANTS
    Requests,       \* the calls of sign_with (each happens once: a bound)
    Capacity,       \* queue_capacity
    None            \* no request

ASSUME SignerAssumption == Capacity \in Nat \ {0} /\ None \notin Requests

VARIABLES
    signer,         \* the handle: "new", "up", "stopping", "closed", "gone"
    stopping,       \* Counters.stopping
    failures,       \* Counters.failures
    rejections,     \* Counters.rejections
    worker,         \* where the thread is
    queue, job,     \* the channel, and the request the worker has taken out
    call,           \* call[r]: what became of the caller
    expired,        \* expired[r]: r's deadline has passed
    reply           \* reply[r]: what r's oneshot holds

workerVars == <<worker, queue, job, reply>>
callVars == <<call, expired>>
vars == <<signer, stopping, failures, rejections, workerVars, callVars>>

Answers == {"signed", "refused", "dropped"}
Outcomes == Answers \cup {"full", "stopped", "timed out", "cancelled"}

Waiting(r) == call[r] = "waiting"

(* Receiver: it lives until the thread leaves its loop.                    *)
ReceiverOpen == worker \in {"recv", "taken", "live", "signing"}

Init ==
    /\ signer = "new" /\ stopping = FALSE /\ failures = 0 /\ rejections = 0
    /\ worker = "starting" /\ queue = <<>> /\ job = None
    /\ call = [r \in Requests |-> "idle"]
    /\ expired = [r \in Requests |-> FALSE]
    /\ reply = [r \in Requests |-> "none"]

--------------------------------------------------------------------------------
(* with_config: the caller blocks until the engine is ready or has failed.  *)

EngineReady ==
    /\ worker = "starting"
    /\ worker' = "recv" /\ signer' = "up"
    /\ UNCHANGED <<stopping, failures, rejections, queue, job, reply, callVars>>

(* An error is passed on and the thread joined; no signer is made.         *)
EngineFails ==
    /\ worker = "starting"
    /\ worker' = "done" /\ signer' = "gone"
    /\ UNCHANGED <<stopping, failures, rejections, queue, job, reply, callVars>>

--------------------------------------------------------------------------------
(* sign_with *)

Submit(r) ==
    /\ signer = "up" /\ call[r] = "idle"
    /\ \/ /\ ~ReceiverOpen
          /\ call' = [call EXCEPT ![r] = "stopped"]
          /\ UNCHANGED <<queue, rejections>>
       \/ /\ ReceiverOpen /\ Len(queue) = Capacity
          /\ call' = [call EXCEPT ![r] = "full"]
          /\ rejections' = rejections + 1
          /\ UNCHANGED queue
       \/ /\ ReceiverOpen /\ Len(queue) < Capacity
          /\ call' = [call EXCEPT ![r] = "waiting"]
          /\ queue' = Append(queue, r)
          /\ UNCHANGED rejections
    /\ UNCHANGED <<signer, stopping, failures, worker, job, reply, expired>>

Expire(r) ==
    /\ Waiting(r) /\ ~expired[r]
    /\ expired' = [expired EXCEPT ![r] = TRUE]
    /\ UNCHANGED <<signer, stopping, failures, rejections, workerVars, call>>

(* The answer is looked at before the timer.                               *)
Receive(r) ==
    /\ Waiting(r) /\ reply[r] # "none"
    /\ call' = [call EXCEPT ![r] = reply[r]]
    /\ UNCHANGED <<signer, stopping, failures, rejections, workerVars, expired>>

(* The caller's timer starts after the deadline was computed.              *)
TimeOut(r) ==
    /\ Waiting(r) /\ reply[r] = "none" /\ expired[r]
    /\ call' = [call EXCEPT ![r] = "timed out"]
    /\ UNCHANGED <<signer, stopping, failures, rejections, workerVars, expired>>

Cancel(r) ==
    /\ Waiting(r)
    /\ call' = [call EXCEPT ![r] = "cancelled"]
    /\ UNCHANGED <<signer, stopping, failures, rejections, workerVars, expired>>

--------------------------------------------------------------------------------
(* The worker *)

(* The thread leaves its loop: the request it holds and the ones that are  *)
(* queued go with the receiver, and their senders with them.               *)
ReleaseJobOnly(place) ==
    /\ worker' = place
    /\ reply' = [r \in Requests |-> IF r = job THEN "dropped" ELSE reply[r]]
    /\ queue' = <<>> /\ job' = None
Release(place) ==
    /\ worker' = place
    /\ reply' = [r \in Requests |-> IF r = job \/ r \in ToSet(queue) THEN "dropped" ELSE reply[r]]
    /\ queue' = <<>> /\ job' = None

TakeNext ==
    /\ worker = "recv" /\ queue # <<>>
    /\ job' = Head(queue) /\ queue' = Tail(queue)
    /\ worker' = "taken"
    /\ UNCHANGED <<signer, stopping, failures, rejections, reply, callVars>>

(* The channel is closed and empty.                                        *)
Closed ==
    /\ worker = "recv" /\ queue = <<>> /\ signer = "closed"
    /\ worker' = "done"
    /\ UNCHANGED <<signer, stopping, failures, rejections, queue, job, reply, callVars>>

CheckStopping ==
    /\ worker = "taken"
    /\ IF stopping THEN Release("done")
       ELSE worker' = "live" /\ UNCHANGED <<queue, job, reply>>
    /\ UNCHANGED <<signer, stopping, failures, rejections, callVars>>

(* Work nobody waits for any more, or whose deadline has passed, is skipped. *)
CheckDeadlineOnly ==
    /\ worker = "live"
    /\ IF expired[job]
       THEN worker' = "recv" /\ job' = None /\ reply' = [reply EXCEPT ![job] = "dropped"]
       ELSE worker' = "signing" /\ UNCHANGED <<job, reply>>
    /\ UNCHANGED <<signer, stopping, failures, rejections, queue, callVars>>
CheckRequestSilently ==
    /\ worker = "live"
    /\ IF ~Waiting(job) \/ expired[job]
       THEN worker' = "recv" /\ job' = None /\ UNCHANGED reply
       ELSE worker' = "signing" /\ UNCHANGED <<job, reply>>
    /\ UNCHANGED <<signer, stopping, failures, rejections, queue, callVars>>
CheckRequest ==
    /\ worker = "live"
    /\ IF ~Waiting(job) \/ expired[job]
       THEN worker' = "recv" /\ job' = None /\ reply' = [reply EXCEPT ![job] = "dropped"]
       ELSE worker' = "signing" /\ UNCHANGED <<job, reply>>
    /\ UNCHANGED <<signer, stopping, failures, rejections, queue, callVars>>

EngineAnswers ==
    /\ worker = "signing"
    /\ \E answer \in {"signed", "refused"} : reply' = [reply EXCEPT ![job] = answer]
    /\ worker' = "recv" /\ job' = None
    /\ UNCHANGED <<signer, stopping, failures, rejections, queue, callVars>>

(* The engine panics, while it starts or while it signs; the loop is       *)
(* unwound before the failure is counted.                                  *)
EnginePanics ==
    /\ worker \in {"starting", "signing"}
    /\ Release("unwound")
    /\ UNCHANGED <<signer, stopping, failures, rejections, callVars>>

(* A thread that died before it was ready leaves no signer.                *)
CountFailure ==
    /\ worker = "unwound"
    /\ failures' = failures + 1
    /\ worker' = "done"
    /\ signer' = IF signer = "new" THEN "gone" ELSE signer
    /\ UNCHANGED <<stopping, rejections, queue, job, reply, callVars>>

--------------------------------------------------------------------------------
(* drop: no call borrows the signer. Its three steps interleave with the   *)
(* worker's.                                                               *)

DropStarts ==
    /\ signer = "up"
    /\ \A r \in Requests : ~Waiting(r)
    /\ stopping' = TRUE /\ signer' = "stopping"
    /\ UNCHANGED <<failures, rejections, workerVars, callVars>>

DropSenderLate ==
    /\ signer = "stopping" /\ worker = "done"
    /\ signer' = "closed"
    /\ UNCHANGED <<stopping, failures, rejections, workerVars, callVars>>
DropSender ==
    /\ signer = "stopping"
    /\ signer' = "closed"
    /\ UNCHANGED <<stopping, failures, rejections, workerVars, callVars>>

Join ==
    /\ signer = "closed" /\ worker = "done"
    /\ signer' = "gone"
    /\ UNCHANGED <<stopping, failures, rejections, workerVars, callVars>>

Caller(r) == Submit(r) \/ Expire(r) \/ Receive(r) \/ TimeOut(r) \/ Cancel(r)
Worker == TakeNext \/ Closed \/ CheckStopping \/ CheckRequest \/ CountFailure
Engine == EngineReady \/ EngineFails \/ EngineAnswers \/ EnginePanics
Drop == DropSender \/ Join

Next ==
    \/ \E r \in Requests : Caller(r)
    \/ Worker \/ Engine
    \/ DropStarts \/ Drop

Spec == Init /\ [][Next]_vars

(* The threads run, and a caller is woken for its answer.                  *)
FairSpec ==
    /\ Spec
    /\ WF_vars(Worker) /\ WF_vars(Drop)
    /\ \A r \in Requests : WF_vars(Receive(r))

(* What the code relies on besides: every engine call returns, or, if one  *)
(* hangs, the callers' timers run.                                         *)
EngineReturns == WF_vars(Engine)
TimersRun == \A r \in Requests : WF_vars(Expire(r)) /\ WF_vars(TimeOut(r))

--------------------------------------------------------------------------------
(* Properties *)

TypeOK ==
    /\ signer \in {"new", "up", "stopping", "closed", "gone"}
    /\ stopping \in BOOLEAN /\ failures \in Nat /\ rejections \in Nat
    /\ worker \in {"starting", "recv", "taken", "live", "signing", "unwound", "done"}
    /\ queue \in Seq(Requests) /\ Len(queue) <= Capacity
    /\ job \in Requests \cup {None}
    /\ job # None <=> worker \in {"taken", "live", "signing"}
    /\ call \in [Requests -> Outcomes \cup {"idle", "waiting"}]
    /\ expired \in [Requests -> BOOLEAN]
    /\ reply \in [Requests -> Answers \cup {"none"}]

(* Calls wait only while the signer is up, and the flag is raised only     *)
(* when it no longer is: what the borrow rules make of drop.               *)
Borrowed ==
    /\ signer # "up" => \A r \in Requests : ~Waiting(r)
    /\ stopping => signer \in {"stopping", "closed", "gone"}
    /\ worker = "starting" => signer = "new"

(* A caller that still waits is known to the worker: its request is queued *)
(* or in hand, or its answer is there. A panic, a skipped request and a    *)
(* shutdown leave nobody to wait for a timer.                              *)
NobodyForgotten ==
    \A r \in Requests :
        Waiting(r) /\ reply[r] = "none" => r = job \/ \E i \in DOMAIN queue : queue[i] = r

(* Once the signer is being dropped the engine is given no more work,      *)
(* whatever is still queued and wherever the worker was between its checks. *)
NothingSignedAfterDrop == [][stopping => ~(worker # "signing" /\ worker' = "signing")]_vars

(* Every caller is answered: without help of its timer when the engine     *)
(* returns, and by its timer when the engine hangs.                        *)
Answered == EngineReturns \/ TimersRun => \A r \in Requests : Waiting(r) ~> ~Waiting(r)

(* Dropping the signer ends its thread, if the engine returns.             *)
DropJoins == EngineReturns => (stopping ~> signer = "gone" /\ worker = "done")

(* Neither a caller nor the owner that drops the signer waits for ever. *)
NobodyWaitsForever == Answered /\ DropJoins
================================================================================
