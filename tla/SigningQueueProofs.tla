-------------------------- MODULE SigningQueueProofs --------------------------
(***************************************************************************)
(* For any number of calls and any capacity: a waiting caller is never     *)
(* forgotten by the worker, and a signer that is being dropped gives its   *)
(* engine no more work. The second needs Borrowed: the flag is checked     *)
(* before the request is, so between the two only the fact that nobody     *)
(* waits any more keeps the engine idle. A thread that has ended leaves    *)
(* nothing behind (NothingLeft). BundleLoader: LoaderInv.                  *)
(***************************************************************************)
EXTENDS SigningQueue, BundleLoader, TLAPS

(* What GivenIsExpected needs: the cache file holds a whole text, though   *)
(* not one that every URL may use, unless an outage cut it short; a flight *)
(* past its download holds a text that it has already compared with its    *)
(* digest; and the file it is about to rename holds all of that text.      *)
Stages == {"none", "stat", "read", "fetch", "write", "writing", "rename"}
LoaderType ==
    /\ cache \in Texts \cup {"none", "torn"}
    /\ flight \in [Processes -> [Urls -> Stages]]
    /\ source \in [Processes -> [Urls -> Texts \cup {"none"}]]
    /\ temporary \in [Processes -> [Urls -> Texts \cup {"none", "torn"}]]
    /\ outage \in BOOLEAN
CacheWhole == cache = "torn" => outage
SourceChecked ==
    \A p \in Processes : \A r \in Urls :
       flight[p][r] \in {"write", "writing", "rename"}
       => source[p][r] \in Texts /\ MatchesDigest(r, source[p][r])
WrittenWhole ==
    \A p \in Processes : \A r \in Urls :
       flight[p][r] = "rename" => temporary[p][r] = source[p][r]
LoaderInv == LoaderType /\ CacheWhole /\ SourceChecked /\ WrittenWhole /\ GivenIsExpected

--------------------------------------------------------------------------------
(* The variables other than the Boolean ones. *)
Data ==
    /\ signer \in {"new", "up", "stopping", "closed", "gone"}
    /\ failures \in Nat /\ rejections \in Nat
    /\ worker \in {"starting", "recv", "taken", "live", "signing", "unwound", "done"}
    /\ queue \in Seq(Requests) /\ Len(queue) <= Capacity
    /\ job \in Requests \cup {None}
    /\ job # None <=> worker \in {"taken", "live", "signing"}
    /\ call \in [Requests -> Outcomes \cup {"idle", "waiting"}]
    /\ reply \in [Requests -> Answers \cup {"none"}]

Flags == stopping \in BOOLEAN /\ expired \in [Requests -> BOOLEAN]

LEMMA TypeHalves == TypeOK <=> Flags /\ Data
BY Zenon DEF TypeOK, Flags, Data

(* What the queue holds after a request is put in or taken out. *)
LEMMA AppendHolds ==
    ASSUME NEW S, NEW s \in Seq(S), NEW e \in S
    PROVE  /\ Append(s, e) \in Seq(S) /\ Len(Append(s, e)) = Len(s) + 1
           /\ \E i \in DOMAIN Append(s, e) : Append(s, e)[i] = e
           /\ \A x : (\E i \in DOMAIN s : s[i] = x)
                     => \E i \in DOMAIN Append(s, e) : Append(s, e)[i] = x
<1>1. Append(s, e) \in Seq(S) /\ Len(Append(s, e)) = Len(s) + 1 /\ Append(s, e)[Len(s) + 1] = e
  OBVIOUS
<1>2. DOMAIN Append(s, e) = 1 .. Len(s) + 1 /\ DOMAIN s = 1 .. Len(s) /\ Len(s) \in Nat
  OBVIOUS
<1>3. \A i \in DOMAIN s : i \in DOMAIN Append(s, e) /\ Append(s, e)[i] = s[i]
  BY <1>2
<1> QED
  BY <1>1, <1>2, <1>3

LEMMA TailHolds ==
    ASSUME NEW S, NEW s \in Seq(S), s # <<>>
    PROVE  /\ Head(s) \in S /\ Tail(s) \in Seq(S) /\ Len(Tail(s)) = Len(s) - 1
           /\ \A x : (\E i \in DOMAIN s : s[i] = x)
                     => x = Head(s) \/ \E i \in DOMAIN Tail(s) : Tail(s)[i] = x
<1>1. Head(s) \in S /\ Tail(s) \in Seq(S) /\ Len(Tail(s)) = Len(s) - 1 /\ Head(s) = s[1]
  OBVIOUS
<1>2. \A i \in DOMAIN s : i # 1 => i - 1 \in DOMAIN Tail(s) /\ Tail(s)[i - 1] = s[i]
  OBVIOUS
<1> QED
  BY <1>1, <1>2

(* The thread leaves its loop. *)
LEMMA ReleaseData ==
    ASSUME Data, NEW place \in {"unwound", "done"}, Release(place),
           UNCHANGED <<signer, failures, rejections, call>>
    PROVE  Data'
<1>1. reply' \in [Requests -> Answers \cup {"none"}]
  BY DEF Data, Release, Answers
<1>2. worker' = place /\ queue' = <<>> /\ job' = None
  BY DEF Release
<1>3. <<>> \in Seq(Requests) /\ Len(<<>>) <= Capacity
  BY SignerAssumption
<1> QED
  BY <1>1, <1>2, <1>3 DEF Data

--------------------------------------------------------------------------------

LEMMA DataStep ==
    ASSUME Data, Next
    PROVE  Data'
<1> USE SignerAssumption
<1>1. ASSUME NEW r \in Requests, Submit(r) PROVE Data'
  <2>1. UNCHANGED <<signer, failures, worker, job, reply>>
    BY <1>1 DEF Submit
  <2>2. call' \in [Requests -> Outcomes \cup {"idle", "waiting"}]
    BY <1>1 DEF Submit, Data, Outcomes
  <2>3. rejections' \in Nat
    BY <1>1 DEF Submit, Data
  <2>4. queue' \in Seq(Requests) /\ Len(queue') <= Capacity
    <3>1. queue \in Seq(Requests) /\ Len(queue) <= Capacity /\ Len(queue) \in Nat
      BY DEF Data
    <3>2. CASE queue' = queue
      BY <3>1, <3>2
    <3>3. CASE Len(queue) < Capacity /\ queue' = Append(queue, r)
      <4>1. queue' \in Seq(Requests) /\ Len(queue') = Len(queue) + 1
        BY <3>1, <3>3, AppendHolds
      <4> QED
        BY <3>1, <3>3, <4>1
    <3> QED
      BY <1>1, <3>2, <3>3, Zenon DEF Submit
  <2> QED
    BY <2>1, <2>2, <2>3, <2>4 DEF Data
<1>2. ASSUME NEW r \in Requests, Expire(r) PROVE Data'
  BY <1>2 DEF Expire, Data, workerVars
<1>3. ASSUME NEW r \in Requests, Receive(r) PROVE Data'
  BY <1>3 DEF Receive, Data, workerVars, Outcomes
<1>4. ASSUME NEW r \in Requests, TimeOut(r) \/ Cancel(r) PROVE Data'
  BY <1>4 DEF TimeOut, Cancel, Data, workerVars, Outcomes
<1>5. CASE TakeNext
  <2>1. Head(queue) \in Requests /\ Tail(queue) \in Seq(Requests) /\ Len(Tail(queue)) <= Capacity
    BY <1>5, TailHolds DEF TakeNext, Data
  <2> QED
    BY <1>5, <2>1 DEF TakeNext, Data, callVars
<1>6. CASE Closed
  BY <1>6 DEF Closed, Data, callVars
<1>7. CASE CheckStopping
  <2>1. CASE Release("done")
    BY <1>7, <2>1, ReleaseData DEF CheckStopping, callVars
  <2>2. CASE worker' = "live" /\ UNCHANGED <<queue, job, reply>>
    BY <1>7, <2>2 DEF CheckStopping, Data, callVars
  <2> QED
    BY <1>7, <2>1, <2>2, Zenon DEF CheckStopping
<1>8. CASE CheckRequest
  <2>1. CASE worker' = "recv" /\ job' = None /\ reply' = [reply EXCEPT ![job] = "dropped"]
    BY <1>8, <2>1 DEF CheckRequest, Data, callVars, Answers
  <2>2. CASE worker' = "signing" /\ UNCHANGED <<job, reply>>
    BY <1>8, <2>2 DEF CheckRequest, Data, callVars
  <2> QED
    BY <1>8, <2>1, <2>2, Zenon DEF CheckRequest
<1>9. CASE CountFailure
  BY <1>9 DEF CountFailure, Data, callVars
<1>10. CASE EngineReady \/ EngineFails
  BY <1>10 DEF EngineReady, EngineFails, Data, callVars
<1>11. CASE EngineAnswers
  BY <1>11 DEF EngineAnswers, Data, callVars, Answers
<1>12. CASE EnginePanics
  BY <1>12, ReleaseData DEF EnginePanics, callVars
<1>13. CASE DropStarts \/ DropSender \/ Join
  BY <1>13 DEF DropStarts, DropSender, Join, Data, callVars, workerVars
<1> QED
  BY <1>1, <1>2, <1>3, <1>4, <1>5, <1>6, <1>7, <1>8, <1>9, <1>10, <1>11, <1>12, <1>13
     DEF Next, Caller, Worker, Engine, Drop

LEMMA FlagsStep ==
    ASSUME Flags, Next
    PROVE  Flags'
<1>1. stopping' \in BOOLEAN
  BY Zenon DEF Flags, Next, Caller, Worker, Engine, Drop, Submit, Expire, Receive, TimeOut,
     Cancel, TakeNext, Closed, CheckStopping, CheckRequest, CountFailure, EngineReady,
     EngineFails, EngineAnswers, EnginePanics, DropStarts, DropSender, Join
<1>2. expired' = expired \/ \E r \in Requests : expired' = [expired EXCEPT ![r] = TRUE]
  BY Zenon DEF Next, Caller, Worker, Engine, Drop, Submit, Expire, Receive, TimeOut,
     Cancel, TakeNext, Closed, CheckStopping, CheckRequest, CountFailure, EngineReady,
     EngineFails, EngineAnswers, EnginePanics, DropStarts, DropSender, Join, callVars
<1>3. expired' \in [Requests -> BOOLEAN]
  BY <1>2 DEF Flags
<1> QED
  BY <1>1, <1>3 DEF Flags

LEMMA TypeInit == Init => TypeOK
<1> SUFFICES ASSUME Init PROVE TypeOK
  OBVIOUS
<1>1. Flags
  BY Zenon DEF Init, Flags
<1>2. Data
  BY SignerAssumption DEF Init, Data, Answers
<1> QED
  BY <1>1, <1>2, TypeHalves

LEMMA TypeStep == TypeOK /\ [Next]_vars => TypeOK'
<1> SUFFICES ASSUME Flags, Data, [Next]_vars PROVE Flags' /\ Data'
  BY TypeHalves, Zenon DEF TypeOK, Flags, Data
<1>1. CASE UNCHANGED vars
  <2>1. Flags'
    BY <1>1, Zenon DEF vars, Flags, callVars
  <2>2. Data'
    BY <1>1 DEF vars, Data, workerVars, callVars
  <2> QED
    BY <2>1, <2>2
<1>2. CASE Next
  BY <1>2, FlagsStep, DataStep
<1> QED
  BY <1>1, <1>2

(* The queue never passes its capacity, the worker holds a request exactly *)
(* when it is looking at one, and every variable keeps its type.           *)
THEOREM TypeCorrect == Spec => []TypeOK
BY TypeInit, TypeStep, PTL DEF Spec

--------------------------------------------------------------------------------
(* Nobody is forgotten *)

LEMMA ForgottenStep ==
    ASSUME Data, NobodyForgotten, [Next]_vars
    PROVE  NobodyForgotten'
<1> SUFFICES ASSUME NEW q \in Requests, call'[q] = "waiting", reply'[q] = "none"
             PROVE  q = job' \/ \E i \in DOMAIN queue' : queue'[i] = q
  BY DEF NobodyForgotten, Waiting
<1> DEFINE Known == q = job \/ \E i \in DOMAIN queue : queue[i] = q
<1>1. Waiting(q) /\ reply[q] = "none" => Known
  BY DEF NobodyForgotten
<1>2. ASSUME NEW r \in Requests, Submit(r)
      PROVE  q = job' \/ \E i \in DOMAIN queue' : queue'[i] = q
  <2>1. job' = job /\ reply' = reply /\ queue \in Seq(Requests)
    BY <1>2 DEF Submit, Data
  <2>2. CASE q = r
    <3>1. queue' = Append(queue, r)
      BY <1>2, <2>2 DEF Submit, Data
    <3> QED
      BY <2>1, <2>2, <3>1, AppendHolds
  <2>3. CASE q # r
    <3>1. Known
      BY <1>1, <1>2, <2>1, <2>3 DEF Submit, Waiting, Data
    <3>2. queue' = queue \/ queue' = Append(queue, r)
      BY <1>2, Zenon DEF Submit
    <3> QED
      BY <2>1, <3>1, <3>2, AppendHolds
  <2> QED
    BY <2>2, <2>3
<1>3. CASE TakeNext
  <2>1. /\ queue \in Seq(Requests) /\ queue # <<>> /\ job = None
        /\ job' = Head(queue) /\ queue' = Tail(queue) /\ UNCHANGED <<call, reply>>
    BY <1>3 DEF TakeNext, Data, callVars
  <2>2. \E i \in DOMAIN queue : queue[i] = q
    BY <1>1, <2>1, SignerAssumption DEF Waiting
  <2> QED
    BY <2>1, <2>2, TailHolds
<1>4. CASE UNCHANGED <<queue, job>> /\ (Waiting(q) /\ reply[q] = "none")
  BY <1>1, <1>4
<1>5. ASSUME NEW place, Release(place), UNCHANGED call
      PROVE  FALSE
  <2>1. Known
    BY <1>1, <1>5 DEF Release, Waiting
  <2>2. reply'[q] = "dropped"
    BY <1>5, <2>1 DEF Release, ToSet
  <2> QED
    BY <2>2
<1>6. ASSUME UNCHANGED <<queue, call>>, job \in Requests,
             NEW a \in Answers, reply' = [reply EXCEPT ![job] = a]
      PROVE  q = job' \/ \E i \in DOMAIN queue' : queue'[i] = q
  <2>1. q # job /\ reply'[q] = reply[q]
    BY <1>6 DEF Data, Answers
  <2> QED
    BY <1>1, <1>6, <2>1 DEF Waiting
<1>7. ASSUME NEW r \in Requests, Expire(r) \/ Receive(r) \/ TimeOut(r) \/ Cancel(r)
      PROVE  UNCHANGED <<queue, job>> /\ (Waiting(q) /\ reply[q] = "none")
  <2>1. UNCHANGED <<queue, job, reply>>
    BY <1>7 DEF Expire, Receive, TimeOut, Cancel, workerVars
  <2>2. CASE call' = call
    BY <2>1, <2>2 DEF Waiting
  <2>3. CASE \E o : o # "waiting" /\ call' = [call EXCEPT ![r] = o]
    BY <2>1, <2>3 DEF Waiting, Data
  <2>4. reply[r] # "waiting"
    BY DEF Data, Answers
  <2> QED
    BY <1>7, <2>2, <2>3, <2>4 DEF Expire, Receive, TimeOut, Cancel
<1>8. CASE CheckStopping
  BY <1>1, <1>4, <1>5, <1>8, Zenon DEF CheckStopping, callVars, Waiting
<1>9. CASE CheckRequest
  <2>1. job \in Requests /\ UNCHANGED <<queue, call>>
    BY <1>9 DEF CheckRequest, Data, callVars
  <2>2. CASE reply' = [reply EXCEPT ![job] = "dropped"]
    BY <1>6, <2>1, <2>2 DEF Answers
  <2>3. CASE UNCHANGED <<job, reply>>
    BY <1>1, <2>1, <2>3 DEF Waiting
  <2> QED
    BY <1>9, <2>2, <2>3, Zenon DEF CheckRequest
<1>10. CASE EngineAnswers
  <2>1. job \in Requests /\ UNCHANGED <<queue, call>>
    BY <1>10 DEF EngineAnswers, Data, callVars
  <2>2. PICK a \in {"signed", "refused"} : reply' = [reply EXCEPT ![job] = a]
    BY <1>10 DEF EngineAnswers
  <2> QED
    BY <1>6, <2>1, <2>2 DEF Answers
<1>11. CASE EnginePanics
  BY <1>5, <1>11 DEF EnginePanics, callVars
<1>12. CASE \/ Closed \/ CountFailure \/ EngineReady \/ EngineFails
            \/ DropStarts \/ DropSender \/ Join \/ UNCHANGED vars
  <2>1. UNCHANGED <<queue, job, call, reply>>
    BY <1>12 DEF Closed, CountFailure, EngineReady, EngineFails, DropStarts, DropSender, Join,
       vars, workerVars, callVars
  <2> QED
    BY <1>1, <2>1 DEF Waiting
<1> QED
  BY <1>2, <1>3, <1>4, <1>7, <1>8, <1>9, <1>10, <1>11, <1>12
     DEF Next, Caller, Worker, Engine, Drop

(* Whatever panics, is skipped or shuts down, a caller that still waits is *)
(* queued, in hand or answered, for any number of calls and any capacity.  *)
THEOREM NobodyForgottenHolds == Spec => []NobodyForgotten
<1>1. Init => NobodyForgotten
  BY DEF Init, NobodyForgotten, Waiting
<1>2. TypeOK /\ NobodyForgotten /\ [Next]_vars => NobodyForgotten'
  BY ForgottenStep, TypeHalves
<1> QED
  BY <1>1, <1>2, TypeCorrect, PTL DEF Spec

--------------------------------------------------------------------------------
(* Nothing is signed after the drop *)

LEMMA BorrowedInit == Init => Borrowed
BY Zenon DEF Init, Borrowed, Waiting

LEMMA BorrowedStep ==
    ASSUME Data, Borrowed, [Next]_vars
    PROVE  Borrowed'
<1>1. ASSUME NEW r \in Requests, Submit(r) PROVE Borrowed'
  BY <1>1, Zenon DEF Submit, Borrowed, Waiting
<1>2. ASSUME NEW r \in Requests, Expire(r) \/ Receive(r) \/ TimeOut(r) \/ Cancel(r)
      PROVE  Borrowed'
  <2>1. Waiting(r) /\ signer = "up"
    BY <1>2, Zenon DEF Expire, Receive, TimeOut, Cancel, Borrowed
  <2>2. UNCHANGED <<signer, stopping, worker>>
    BY <1>2 DEF Expire, Receive, TimeOut, Cancel, workerVars
  <2> QED
    BY <2>1, <2>2, Zenon DEF Borrowed
<1>3. CASE \/ TakeNext \/ Closed \/ CheckStopping \/ CheckRequest
           \/ EngineAnswers \/ EnginePanics
  <2>1. worker' # "starting" /\ UNCHANGED <<signer, stopping, call>>
    BY <1>3 DEF TakeNext, Closed, CheckStopping, CheckRequest, EngineAnswers, EnginePanics,
       Release, callVars
  <2> QED
    BY <2>1, Zenon DEF Borrowed, Waiting
<1>4. CASE EngineReady \/ EngineFails
  <2>1. /\ signer = "new" /\ worker' # "starting" /\ signer' \in {"up", "gone"}
        /\ UNCHANGED <<stopping, call>>
    BY <1>4 DEF EngineReady, EngineFails, callVars, Borrowed
  <2>2. ~stopping /\ \A r \in Requests : ~Waiting(r)
    BY <2>1 DEF Borrowed
  <2> QED
    BY <2>1, <2>2, Zenon DEF Borrowed, Waiting
<1>5. CASE CountFailure
  <2>1. worker' # "starting" /\ UNCHANGED <<stopping, call>>
    BY <1>5 DEF CountFailure, callVars
  <2>2. signer' = signer \/ (signer = "new" /\ signer' = "gone")
    BY <1>5 DEF CountFailure
  <2>3. CASE signer' = signer
    BY <2>1, <2>3, Zenon DEF Borrowed, Waiting
  <2>4. CASE signer = "new" /\ signer' = "gone"
    <3>1. ~stopping /\ \A r \in Requests : ~Waiting(r)
      BY <2>4 DEF Borrowed
    <3> QED
      BY <2>1, <2>4, <3>1, Zenon DEF Borrowed, Waiting
  <2> QED
    BY <2>2, <2>3, <2>4
<1>6. CASE DropStarts \/ DropSender \/ Join
  <2>1. /\ \A r \in Requests : ~Waiting(r)
        /\ signer # "new" /\ signer' \in {"stopping", "closed", "gone"}
        /\ UNCHANGED <<call, worker>>
    BY <1>6, Zenon DEF DropStarts, DropSender, Join, Borrowed, callVars, workerVars
  <2> QED
    BY <2>1, Zenon DEF Borrowed, Waiting
<1>7. CASE UNCHANGED vars
  BY <1>7, Zenon DEF vars, workerVars, callVars, Borrowed, Waiting
<1> QED
  BY <1>1, <1>2, <1>3, <1>4, <1>5, <1>6, <1>7 DEF Next, Caller, Worker, Engine, Drop

(* A signer that is being dropped gives its engine no more work, wherever  *)
(* the worker was between its two checks.                                  *)
THEOREM NothingSignedAfterDropHolds == Spec => NothingSignedAfterDrop
<1>1. Data /\ Borrowed /\ [Next]_vars => Borrowed'
  BY BorrowedStep
<1>2. TypeOK /\ Borrowed /\ [Next]_vars
        => [stopping => ~(worker # "signing" /\ worker' = "signing")]_vars
  <2> SUFFICES ASSUME TypeOK, Borrowed, Next, stopping, worker # "signing", worker' = "signing"
               PROVE  FALSE
    BY DEF vars
  <2>1. CheckRequest
    BY Zenon DEF Next, Caller, Worker, Engine, Drop, Submit, Expire, Receive, TimeOut, Cancel,
       TakeNext, Closed, CheckStopping, CountFailure, EngineReady, EngineFails,
       EngineAnswers, EnginePanics, Release, DropStarts, DropSender, Join, workerVars
  <2>2. Waiting(job) /\ worker = "live"
    BY <2>1, Zenon DEF CheckRequest
  <2>3. job \in Requests /\ signer # "up"
    BY <2>2, SignerAssumption DEF TypeOK, Borrowed
  <2> QED
    BY <2>2, <2>3 DEF Borrowed
<1> QED
  BY <1>1, <1>2, BorrowedInit, TypeCorrect, TypeHalves, PTL DEF Spec, NothingSignedAfterDrop

--------------------------------------------------------------------------------
(* What Answered and DropJoins come to without fairness: a thread that has *)
(* left its loop leaves no request behind, so every caller that still      *)
(* waits finds its answer; and the owner goes on from its join only when   *)
(* the thread has ended.                                                   *)
LeftEmpty == worker \in {"starting", "unwound", "done"} => queue = <<>>
GoneIsJoined == signer = "gone" => worker = "done"
LeftAnswered == worker \in {"unwound", "done"} => \A r \in Requests : Waiting(r) => reply[r] # "none"
NothingLeft == LeftEmpty /\ GoneIsJoined /\ LeftAnswered

LEMMA LeftEmptyStep ==
    ASSUME LeftEmpty, [Next]_vars
    PROVE  LeftEmpty'
<1>1. ASSUME NEW r \in Requests, Submit(r) PROVE LeftEmpty'
  <2>1. worker' = worker /\ (queue' = queue \/ ReceiverOpen)
    BY <1>1, Zenon DEF Submit
  <2> QED
    BY <2>1 DEF LeftEmpty, ReceiverOpen
<1>2. ASSUME NEW place, Release(place) PROVE LeftEmpty'
  BY <1>2 DEF Release, LeftEmpty
<1>3. CASE \/ TakeNext \/ Closed \/ CheckRequest \/ EngineAnswers \/ EngineReady
           \/ EngineFails \/ CountFailure
  BY <1>3 DEF TakeNext, Closed, CheckRequest, EngineAnswers, EngineReady, EngineFails,
     CountFailure, LeftEmpty
<1>4. CASE CheckStopping
  <2>1. CASE Release("done")
    BY <1>2, <2>1
  <2>2. CASE worker' = "live"
    BY <2>2 DEF LeftEmpty
  <2> QED
    BY <1>4, <2>1, <2>2, Zenon DEF CheckStopping
<1>5. CASE EnginePanics
  BY <1>2, <1>5 DEF EnginePanics
<1>6. CASE UNCHANGED <<worker, queue>>
  BY <1>6 DEF LeftEmpty
<1>7. ASSUME NEW r \in Requests, Expire(r) \/ Receive(r) \/ TimeOut(r) \/ Cancel(r)
      PROVE  UNCHANGED <<worker, queue>>
  BY <1>7, Zenon DEF Expire, Receive, TimeOut, Cancel, workerVars
<1>8. CASE DropStarts \/ DropSender \/ Join \/ UNCHANGED vars
  BY <1>6, <1>8 DEF DropStarts, DropSender, Join, vars, workerVars
<1> QED
  BY <1>1, <1>3, <1>4, <1>5, <1>6, <1>7, <1>8 DEF Next, Caller, Worker, Engine, Drop

LEMMA GoneIsJoinedStep ==
    ASSUME Borrowed, GoneIsJoined, [Next]_vars
    PROVE  GoneIsJoined'
<1>1. ASSUME NEW r \in Requests, Caller(r) PROVE UNCHANGED <<signer, worker>>
  BY <1>1, Zenon DEF Caller, Submit, Expire, Receive, TimeOut, Cancel, workerVars
<1>2. CASE \/ TakeNext \/ Closed \/ CheckStopping \/ CheckRequest \/ EngineAnswers
           \/ EnginePanics
  <2>1. signer' = signer /\ worker # "done"
    BY <1>2 DEF TakeNext, Closed, CheckStopping, CheckRequest, EngineAnswers, EnginePanics
  <2> QED
    BY <2>1, Zenon DEF GoneIsJoined
<1>3. CASE EngineReady \/ EngineFails \/ CountFailure
  <2>1. worker' = "done" \/ signer' = "up"
    BY <1>3 DEF EngineReady, EngineFails, CountFailure
  <2> QED
    BY <2>1 DEF GoneIsJoined
<1>4. CASE DropStarts \/ DropSender \/ Join
  <2>1. worker' = worker /\ (worker = "done" \/ signer' \in {"stopping", "closed"})
    BY <1>4 DEF DropStarts, DropSender, Join, workerVars
  <2> QED
    BY <2>1 DEF GoneIsJoined
<1>5. CASE UNCHANGED vars
  BY <1>5 DEF vars, workerVars, GoneIsJoined
<1> QED
  BY <1>1, <1>2, <1>3, <1>4, <1>5 DEF Next, Worker, Engine, Drop, GoneIsJoined

(* However the thread ends (the engine failed or panicked, the signer was  *)
(* dropped), it has answered or dropped every request it was given, and a  *)
(* signer that is gone has no thread. The timers have nothing to add.      *)
THEOREM NothingLeftHolds == Spec => []NothingLeft
<1>1. Init => LeftEmpty /\ GoneIsJoined
  BY DEF Init, LeftEmpty, GoneIsJoined
<1>2. LeftEmpty /\ [Next]_vars => LeftEmpty'
  BY LeftEmptyStep
<1>3. Borrowed /\ GoneIsJoined /\ [Next]_vars => GoneIsJoined'
  BY GoneIsJoinedStep
<1>4. TypeOK /\ Borrowed /\ [Next]_vars => Borrowed'
  BY BorrowedStep, TypeHalves
<1>5. TypeOK /\ NobodyForgotten /\ LeftEmpty => LeftAnswered
  <2> SUFFICES ASSUME TypeOK, NobodyForgotten, LeftEmpty, worker \in {"unwound", "done"},
                      NEW r \in Requests, Waiting(r), reply[r] = "none"
               PROVE  FALSE
    BY DEF LeftAnswered
  <2>1. queue = <<>> /\ job = None
    BY DEF TypeOK, LeftEmpty
  <2> QED
    BY <2>1, SignerAssumption DEF NobodyForgotten
<1> QED
  BY <1>1, <1>2, <1>3, <1>4, <1>5, BorrowedInit, TypeCorrect, NobodyForgottenHolds, PTL
     DEF Spec, NothingLeft

--------------------------------------------------------------------------------
(* The bundle loader *)

(* One element of a table with two indices is replaced. *)
LEMMA TableEntry ==
    ASSUME NEW S, NEW f \in [Processes -> [Urls -> S]], NEW p \in Processes, NEW r \in Urls,
           NEW e \in S, NEW g, g = [f EXCEPT ![p][r] = e]
    PROVE  /\ g \in [Processes -> [Urls -> S]]
           /\ g[p][r] = e
           /\ \A q \in Processes : \A u \in Urls : q # p \/ u # r => g[q][u] = f[q][u]
OBVIOUS

(* The tables of a flight that moves on, or whose file is written. *)
Tables(p, r, stage, text, file) ==
    /\ flight' = [flight EXCEPT ![p][r] = stage]
    /\ source' = [source EXCEPT ![p][r] = text]
    /\ temporary' = [temporary EXCEPT ![p][r] = file]

(* A flight of the right kind of entries keeps what the tables promise. *)
LEMMA TablesKeep ==
    ASSUME LoaderInv, NEW p \in Processes, NEW r \in Urls, NEW stage \in Stages,
           NEW text \in Texts \cup {"none"}, NEW file \in Texts \cup {"none", "torn"},
           Tables(p, r, stage, text, file),
           stage \in {"write", "writing", "rename"} => text \in Texts /\ MatchesDigest(r, text),
           stage = "rename" => file = text,
           cache' \in Texts \cup {"none", "torn"}, outage' = outage
    PROVE  LoaderType' /\ SourceChecked' /\ WrittenWhole'
<1>1. /\ flight' \in [Processes -> [Urls -> Stages]]
      /\ flight'[p][r] = stage
      /\ \A q \in Processes : \A u \in Urls : q # p \/ u # r => flight'[q][u] = flight[q][u]
  BY TableEntry DEF LoaderInv, LoaderType, Tables
<1>2. /\ source' \in [Processes -> [Urls -> Texts \cup {"none"}]]
      /\ source'[p][r] = text
      /\ \A q \in Processes : \A u \in Urls : q # p \/ u # r => source'[q][u] = source[q][u]
  BY TableEntry DEF LoaderInv, LoaderType, Tables
<1>3. /\ temporary' \in [Processes -> [Urls -> Texts \cup {"none", "torn"}]]
      /\ temporary'[p][r] = file
      /\ \A q \in Processes : \A u \in Urls : q # p \/ u # r => temporary'[q][u] = temporary[q][u]
  BY TableEntry DEF LoaderInv, LoaderType, Tables
<1>4. LoaderType'
  BY <1>1, <1>2, <1>3 DEF LoaderInv, LoaderType
<1>5. SourceChecked'
  BY <1>1, <1>2 DEF LoaderInv, SourceChecked, MatchesDigest
<1>6. WrittenWhole'
  BY <1>1, <1>2, <1>3, SMTT(30) DEF LoaderInv, WrittenWhole
<1> QED
  BY <1>4, <1>5, <1>6

(* An entry that is left alone is replaced by itself. *)
LEMMA SameEntry ==
    ASSUME NEW S, NEW f \in [Processes -> [Urls -> S]], NEW p \in Processes, NEW r \in Urls
    PROVE  f[p][r] \in S /\ f = [f EXCEPT ![p][r] = f[p][r]]
OBVIOUS

(* A flight that settles with a text it may give leaves the invariant as it is. *)
LEMMA GiveKeeps ==
    ASSUME LoaderInv, NEW p \in Processes, NEW r \in Urls, NEW text,
           text \in (IF outage THEN Texts \cup {"torn"} ELSE Texts),
           MatchesDigest(r, text), GiveTo(p, r, text), outage' = outage,
           cache' \in Texts \/ cache' = cache
    PROVE  LoaderInv'
<1>1. LoaderType' /\ SourceChecked' /\ WrittenWhole'
  BY TablesKeep DEF LoaderInv, LoaderType, GiveTo, Settle, Goto, Tables, Stages
<1>2. CacheWhole'
  BY DEF LoaderInv, CacheWhole, Texts
<1>3. GivenIsExpected'
  <2>1. given' = given \cup {<<r, text>>}
    BY DEF GiveTo
  <2> QED
    BY <2>1 DEF LoaderInv, GivenIsExpected, MatchesDigest
<1> QED
  BY <1>1, <1>2, <1>3 DEF LoaderInv

(* A flight that goes on without giving or caching anything. *)
LEMMA MoveKeeps ==
    ASSUME LoaderInv, NEW p \in Processes, NEW r \in Urls, NEW stage \in Stages,
           NEW text \in Texts \cup {"none"}, NEW file \in Texts \cup {"none", "torn"},
           Tables(p, r, stage, text, file),
           stage \in {"write", "writing", "rename"} => text \in Texts /\ MatchesDigest(r, text),
           stage = "rename" => file = text,
           UNCHANGED <<cache, given, outage>>
    PROVE  LoaderInv'
<1>1. LoaderType' /\ SourceChecked' /\ WrittenWhole'
  BY TablesKeep DEF LoaderInv, LoaderType
<1>2. CacheWhole' /\ GivenIsExpected'
  BY DEF LoaderInv, CacheWhole, GivenIsExpected
<1> QED
  BY <1>1, <1>2 DEF LoaderInv

LEMMA LoaderKeeps ==
    ASSUME LoaderInv, LoaderNext
    PROVE  LoaderInv'
<1>1. ASSUME NEW p \in Processes, NEW r \in Urls
      PROVE  /\ source[p][r] \in Texts \cup {"none"}
             /\ temporary[p][r] \in Texts \cup {"none", "torn"}
             /\ UNCHANGED source => source' = [source EXCEPT ![p][r] = source[p][r]]
             /\ UNCHANGED temporary => temporary' = [temporary EXCEPT ![p][r] = temporary[p][r]]
  BY SameEntry DEF LoaderInv, LoaderType
<1>2. ASSUME NEW p \in Processes, NEW r \in Urls, LoadBundle(p, r) \/ Stat(p, r)
      PROVE  LoaderInv'
  <2>1. PICK stage \in {"stat", "read", "fetch"} : Goto(p, r, stage)
    BY <1>2 DEF LoadBundle, Stat
  <2>2. UNCHANGED <<cache, source, temporary, given, outage>>
    BY <1>2 DEF LoadBundle, Stat
  <2>3. Tables(p, r, stage, source[p][r], temporary[p][r])
    BY <2>1, <2>2, <1>1 DEF Goto, Tables
  <2>4. stage \in Stages /\ stage \notin {"write", "writing", "rename"}
    BY DEF Stages
  <2>5. source[p][r] \in Texts \cup {"none"} /\ temporary[p][r] \in Texts \cup {"none", "torn"}
    BY <1>1
  <2> QED
    BY <2>2, <2>3, <2>4, <2>5, MoveKeeps
<1>3. ASSUME NEW p \in Processes, NEW r \in Urls, ReadCache(p, r) PROVE LoaderInv'
  <2>1. CASE cache # "none" /\ MatchesDigest(r, cache) /\ GiveTo(p, r, cache)
    <3>1. cache \in (IF outage THEN Texts \cup {"torn"} ELSE Texts)
      BY <2>1 DEF LoaderInv, LoaderType, CacheWhole
    <3> QED
      BY <1>3, <2>1, <3>1, GiveKeeps DEF ReadCache
  <2>2. CASE Goto(p, r, "fetch") /\ UNCHANGED <<source, temporary, given>>
    <3>1. Tables(p, r, "fetch", source[p][r], temporary[p][r])
      BY <2>2, <1>1 DEF Goto, Tables
    <3> QED
      BY <1>3, <2>2, <3>1, <1>1, MoveKeeps DEF ReadCache, Stages
  <2> QED
    BY <1>3, <2>1, <2>2 DEF ReadCache
<1>4. ASSUME NEW p \in Processes, NEW r \in Urls, FetchFails(p, r) PROVE LoaderInv'
  <2>1. Tables(p, r, "none", "none", "none")
    BY <1>4 DEF FetchFails, Reject, Settle, Goto, Tables
  <2> QED
    BY <1>4, <2>1, MoveKeeps DEF FetchFails, Reject, Stages
<1>5. ASSUME NEW p \in Processes, NEW r \in Urls, Fetched(p, r) PROVE LoaderInv'
  <2>1. PICK text \in Served[r] :
           MatchesDigest(r, text) /\ source' = [source EXCEPT ![p][r] = text]
    BY <1>5 DEF Fetched
  <2>2. text \in Texts
    BY DEF Served, Texts, Urls
  <2>3. Tables(p, r, "write", text, temporary[p][r])
    BY <1>5, <2>1, <1>1 DEF Fetched, Goto, Tables
  <2> QED
    BY <1>5, <2>1, <2>2, <2>3, <1>1, MoveKeeps DEF Fetched, Stages
<1>6. ASSUME NEW p \in Processes, NEW r \in Urls, WriteTemporary(p, r) \/ Written(p, r)
      PROVE  LoaderInv'
  <2>1. source[p][r] \in Texts /\ MatchesDigest(r, source[p][r])
    BY <1>6 DEF WriteTemporary, Written, At, LoaderInv, SourceChecked
  <2>2. \/ Tables(p, r, "writing", source[p][r], "torn")
        \/ Tables(p, r, "rename", source[p][r], source[p][r])
    BY <1>6, <1>1 DEF WriteTemporary, Written, Goto, Tables
  <2>3. UNCHANGED <<cache, given, outage>>
    BY <1>6 DEF WriteTemporary, Written
  <2>4. CASE Tables(p, r, "writing", source[p][r], "torn")
    BY <2>1, <2>3, <2>4, MoveKeeps DEF Stages
  <2>5. CASE Tables(p, r, "rename", source[p][r], source[p][r])
    BY <2>1, <2>3, <2>5, MoveKeeps DEF Stages
  <2> QED
    BY <2>2, <2>4, <2>5
<1>7. ASSUME NEW p \in Processes, NEW r \in Urls, Rename(p, r) \/ CacheFails(p, r)
      PROVE  LoaderInv'
  <2>1. source[p][r] \in Texts /\ MatchesDigest(r, source[p][r])
    BY <1>7 DEF Rename, CacheFails, At, LoaderInv, SourceChecked
  <2>2. cache' \in Texts \/ cache' = cache
    BY <1>7, <2>1 DEF Rename, CacheFails, At, LoaderInv, WrittenWhole
  <2>3. GiveTo(p, r, source[p][r]) /\ outage' = outage
    BY <1>7 DEF Rename, CacheFails
  <2> QED
    BY <2>1, <2>2, <2>3, GiveKeeps
<1>8. ASSUME NEW p \in Processes, Dies(p) PROVE LoaderInv'
  <2>1. LoaderType'
    BY <1>8 DEF Dies, LoaderInv, LoaderType, Stages
  <2>2. SourceChecked' /\ WrittenWhole'
    BY <1>8 DEF Dies, LoaderInv, LoaderType, SourceChecked, WrittenWhole, MatchesDigest
  <2> QED
    BY <1>8, <2>1, <2>2 DEF Dies, LoaderInv, CacheWhole, GivenIsExpected
<1>9. CASE SystemDies
  <2>1. LoaderType'
    BY <1>9 DEF SystemDies, LoaderType, Stages
  <2>2. CacheWhole' /\ SourceChecked' /\ WrittenWhole'
    BY <1>9 DEF SystemDies, CacheWhole, SourceChecked, WrittenWhole
  <2>3. GivenIsExpected'
    BY <1>9 DEF SystemDies, LoaderInv, GivenIsExpected
  <2> QED
    BY <2>1, <2>2, <2>3 DEF LoaderInv
<1>10. CASE CacheVanishes
  BY <1>10 DEF CacheVanishes, LoaderInv, LoaderType, CacheWhole, SourceChecked, WrittenWhole,
     GivenIsExpected, MatchesDigest
<1> QED
  BY <1>2, <1>3, <1>4, <1>5, <1>6, <1>7, <1>8, <1>9, <1>10 DEF LoaderNext, FlightStep

(* signer.ts: whatever other flights and processes put into the cache file *)
(* between the look, the read and the rename, and wherever a process dies, *)
(* half way through a write included, a caller of loadBundle() that        *)
(* expects a digest is given nothing else, and one that expects none is    *)
(* given a whole text, unless the system went down and cut the file short. *)
THEOREM GivenIsExpectedHolds == LoaderSpec => []GivenIsExpected
<1>1. LoaderInit => LoaderInv
  <2>1. ASSUME LoaderInit PROVE LoaderType
    <3>1. /\ flight \in [Processes -> [Urls -> Stages]]
          /\ cache \in Texts \cup {"none", "torn"}
      BY <2>1 DEF LoaderInit, Stages
    <3>2. source \in [Processes -> [Urls -> Texts \cup {"none"}]]
      BY <2>1 DEF LoaderInit
    <3>3. temporary \in [Processes -> [Urls -> Texts \cup {"none", "torn"}]]
      BY <2>1 DEF LoaderInit
    <3>4. outage \in BOOLEAN
      BY <2>1 DEF LoaderInit
    <3> QED
      BY <3>1, <3>2, <3>3, <3>4 DEF LoaderType
  <2>2. LoaderInit => CacheWhole /\ SourceChecked /\ WrittenWhole /\ GivenIsExpected
    BY DEF LoaderInit, CacheWhole, SourceChecked, WrittenWhole, GivenIsExpected
  <2> QED
    BY <2>1, <2>2 DEF LoaderInv
<1>2. LoaderInv /\ [LoaderNext]_loaderVars => LoaderInv'
  <2>1. CASE UNCHANGED loaderVars
    BY <2>1 DEF loaderVars, LoaderInv, LoaderType, CacheWhole, SourceChecked, WrittenWhole,
       GivenIsExpected, MatchesDigest
  <2> QED
    BY <2>1, LoaderKeeps
<1>3. LoaderInv => GivenIsExpected
  BY DEF LoaderInv
<1> QED
  BY <1>1, <1>2, <1>3, PTL DEF LoaderSpec
================================================================================
