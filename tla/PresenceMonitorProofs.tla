------------------------- MODULE PresenceMonitorProofs -------------------------
(***************************************************************************)
(* PollsNeverOverlap and TransitionsHonest of the Java presence monitor,   *)
(* for any creators, host threads, capacities and number of confirmations. *)
(* PresenceInv is the inductive invariant: what it says of a watch's polls *)
(* (PollsInv), of its candidate (CandidateInv) and of the transitions that *)
(* wait to be heard (HeardInv). Last, that no watch falls silent.          *)
(***************************************************************************)
EXTENDS PresenceMonitor, SequenceTheorems, FiniteSetTheorems, TLAPS

WatchState ==
    [id : Creators, stopped : BOOLEAN, timer : {"armed", "fired", "no"},
     asking : {"no", "yes", "cancelled"}, confirmed : Statuses, candidate : Statuses, count : Nat]
PresenceType ==
    /\ closed \in BOOLEAN /\ shutting \in BOOLEAN /\ (shutting => closed)
    /\ watches \in [Creators -> Nat] /\ removing \in [Hosts -> Nat]
    /\ watch \in Seq(WatchState)
    /\ queue \in Seq([watch : Nat, status : Statuses])
    /\ \A i \in DOMAIN queue : queue[i].watch \in DOMAIN watch
    /\ seen \in Seq([status : Statuses, times : Nat]) /\ Len(seen) = Len(watch)
    /\ heard \in Seq({"none"} \cup Statuses) /\ Len(heard) = Len(watch)
    /\ missed \in Seq(BOOLEAN) /\ Len(missed) = Len(watch)

(* Why polls do not overlap: a watch that was not stopped is the one its   *)
(* creator has on the map, and only such a watch asks.                     *)
PollsInv ==
    /\ \A w \in DOMAIN watch :
           /\ ~watch[w].stopped => watches[watch[w].id] = w
           /\ watch[w].asking = "yes" => ~watch[w].stopped /\ watch[w].timer = "no"
    /\ \A h \in Hosts :
           removing[h] # NoWatch => removing[h] \in DOMAIN watch /\ watch[removing[h]].stopped

(* Why Debounced holds: the candidate of a watch that has not ended is     *)
(* what it saw last, unless that is nothing new, and was seen as often in  *)
(* a row.                                                                  *)
CandidateInv ==
    \A w \in DOMAIN watch : ~Ended(w) =>
        IF seen[w].status \in {"UNKNOWN", watch[w].confirmed}
        THEN watch[w].candidate = "UNKNOWN" /\ watch[w].count = 0
        ELSE /\ watch[w].candidate = seen[w].status
             /\ watch[w].count = seen[w].times /\ watch[w].count < Confirmations

(* Why HeardInTurn holds: while no transition of a watch is missed, what   *)
(* it has heard, the transitions that wait for it and what it has          *)
(* confirmed follow each other in turn.                                    *)
Waiting(w) == {i \in DOMAIN queue : queue[i].watch = w}
Started(status) == status = "LIVE"
InTurn(w) ==
    /\ \A i \in Waiting(w) : queue[i].status \in {"LIVE", "OFFLINE"}
    /\ Waiting(w) = {} => (Started(heard[w]) <=> Started(watch[w].confirmed))
    /\ \A i \in Waiting(w) : (\A j \in Waiting(w) : i <= j)
           => (Started(queue[i].status) <=> ~Started(heard[w]))
    /\ \A i \in Waiting(w) : (\A j \in Waiting(w) : j <= i)
           => (Started(queue[i].status) <=> Started(watch[w].confirmed))
    /\ \A i, j \in Waiting(w) : i < j /\ (\A k \in Waiting(w) : k <= i \/ j <= k)
           => (Started(queue[i].status) <=> ~Started(queue[j].status))
HeardInv == \A w \in DOMAIN watch : ~Ended(w) /\ ~missed[w] => InTurn(w)

PresenceInv == PresenceType /\ PollsInv /\ CandidateInv /\ HeardInv

--------------------------------------------------------------------------------
(* Sequences and watches *)

LEMMA WatchSet ==
    ASSUME PresenceType, NEW w \in DOMAIN watch, NEW v \in WatchState,
           watch' = [watch EXCEPT ![w] = v]
    PROVE  /\ watch' \in Seq(WatchState) /\ Len(watch') = Len(watch)
           /\ DOMAIN watch' = DOMAIN watch
           /\ watch'[w] = v /\ \A x \in DOMAIN watch : x # w => watch'[x] = watch[x]
<1>1. DOMAIN watch = 1 .. Len(watch) /\ watch \in Seq(WatchState)
  BY LenProperties DEF PresenceType
<1>2. w \in 1 .. Len(watch)
  BY <1>1
<1>3. watch' \in Seq(WatchState) /\ Len(watch') = Len(watch)
  BY <1>1, <1>2, ExceptSeq, Zenon
<1> QED
  BY <1>1, <1>3, LenProperties

LEMMA WatchIs ==
    ASSUME PresenceType, NEW w \in DOMAIN watch
    PROVE  watch[w] \in WatchState
BY LenProperties, ElementOfSeq DEF PresenceType

(* A step that changes one watch, and does not start or un-stop it wrongly. *)
LEMMA OneChanges ==
    ASSUME PresenceType, PollsInv, NEW w \in DOMAIN watch, NEW v \in WatchState,
           watch' = [watch EXCEPT ![w] = v], watches' = watches,
           v.id = watch[w].id, watch[w].stopped => v.stopped,
           v.asking = "yes" => ~v.stopped /\ v.timer = "no",
           \A h \in Hosts : removing'[h] # NoWatch =>
               removing'[h] = removing[h] \/ (removing'[h] = w /\ v.stopped)
    PROVE  PollsInv'
<1>1. /\ DOMAIN watch' = DOMAIN watch
      /\ watch'[w] = v /\ \A x \in DOMAIN watch : x # w => watch'[x] = watch[x]
  BY WatchSet, Zenon
<1> QED
  BY <1>1 DEF PollsInv

LEMMA StaysInTurn ==
    ASSUME NEW w, InTurn(w), Waiting(w)' = Waiting(w),
           \A i \in Waiting(w) : queue'[i] = queue[i], heard'[w] = heard[w],
           Started(watch'[w].confirmed) <=> Started(watch[w].confirmed)
    PROVE  InTurn(w)'
BY DEF InTurn, Started

(* A step that leaves every watch that goes on, and the queue, as they were. *)
LEMMA NothingLearned ==
    ASSUME CandidateInv, HeardInv, DOMAIN watch' = DOMAIN watch, queue' = queue,
           \A w \in DOMAIN watch : ~Ended(w)' =>
               /\ ~Ended(w)
               /\ watch'[w].confirmed = watch[w].confirmed /\ watch'[w].candidate = watch[w].candidate
               /\ watch'[w].count = watch[w].count
               /\ seen'[w] = seen[w] /\ heard'[w] = heard[w] /\ missed'[w] = missed[w]
    PROVE  CandidateInv' /\ HeardInv'
<1>1. CandidateInv'
  BY DEF CandidateInv
<1>2. HeardInv'
  BY StaysInTurn DEF HeardInv, Waiting
<1> QED
  BY <1>1, <1>2

LEMMA MapIsSeq ==
    ASSUME NEW S, NEW s \in Seq(S), NEW f \in [DOMAIN s -> S]
    PROVE  f \in Seq(S) /\ Len(f) = Len(s)
<1>1. Len(s) \in Nat /\ DOMAIN s = 1 .. Len(s)
  BY LenProperties
<1>2. f \in Seq(S)
  BY <1>1, SeqDef
<1>3. DOMAIN f = 1 .. Len(f) /\ Len(f) \in Nat
  BY <1>2, LenProperties
<1> QED
  BY <1>1, <1>2, <1>3

LEMMA AppendIs ==
    ASSUME NEW S, NEW s \in Seq(S), NEW e \in S, NEW t, t = Append(s, e), NEW n, n = Len(s) + 1
    PROVE  /\ t \in Seq(S) /\ Len(t) = n /\ t[n] = e
           /\ DOMAIN t = DOMAIN s \cup {n} /\ \A x \in DOMAIN s : t[x] = s[x]
<1>1. /\ t \in Seq(S) /\ Len(t) = Len(s) + 1 /\ t[Len(s) + 1] = e
      /\ \A x \in 1 .. Len(s) : t[x] = s[x]
  BY AppendProperties
<1>2. DOMAIN s = 1 .. Len(s) /\ Len(s) \in Nat /\ DOMAIN t = 1 .. Len(t)
  BY <1>1, LenProperties
<1> QED
  BY <1>1, <1>2

LEMMA AppendFlag ==
    ASSUME NEW s \in Seq(BOOLEAN), NEW e \in BOOLEAN, NEW t, t = Append(s, e),
           NEW n, n = Len(s) + 1
    PROVE  /\ t \in Seq(BOOLEAN) /\ Len(t) = n
           /\ \A x \in DOMAIN s : t[x] = s[x]
<1>1. ASSUME NEW B, s \in Seq(B), e \in B
      PROVE  t \in Seq(B) /\ Len(t) = n /\ \A x \in DOMAIN s : t[x] = s[x]
  BY <1>1, AppendIs
<1> QED
  BY <1>1, Zenon

LEMMA Domains ==
    ASSUME PresenceType
    PROVE  /\ Len(watch) \in Nat /\ DOMAIN watch = 1 .. Len(watch)
           /\ DOMAIN seen = DOMAIN watch /\ DOMAIN heard = DOMAIN watch
           /\ DOMAIN missed = DOMAIN watch
BY LenProperties DEF PresenceType

LEMMA Forgotten ==
    ASSUME PresenceType, NEW E, Forget(E)
    PROVE  /\ seen' \in Seq([status : Statuses, times : Nat]) /\ Len(seen') = Len(watch)
           /\ heard' \in Seq({"none"} \cup Statuses) /\ Len(heard') = Len(watch)
           /\ missed' \in Seq(BOOLEAN) /\ Len(missed') = Len(watch)
           /\ \A w \in DOMAIN watch : w \notin E =>
                  seen'[w] = seen[w] /\ heard'[w] = heard[w] /\ missed'[w] = missed[w]
<1>1. seen' \in [DOMAIN seen -> [status : Statuses, times : Nat]]
  BY ElementOfSeq, LenProperties DEF Forget, PresenceType, NothingSeen, Statuses
<1>2. heard' \in [DOMAIN heard -> {"none"} \cup Statuses]
  BY ElementOfSeq, LenProperties DEF Forget, PresenceType
<1>3. missed' \in [DOMAIN missed -> BOOLEAN]
  BY ElementOfSeq, LenProperties DEF Forget, PresenceType
<1>4. \A w \in DOMAIN watch : w \notin E =>
          seen'[w] = seen[w] /\ heard'[w] = heard[w] /\ missed'[w] = missed[w]
  BY Domains DEF Forget
<1>5. seen' \in Seq([status : Statuses, times : Nat]) /\ Len(seen') = Len(seen)
  BY <1>1, MapIsSeq DEF PresenceType
<1>6. heard' \in Seq({"none"} \cup Statuses) /\ Len(heard') = Len(heard)
  BY <1>2, MapIsSeq DEF PresenceType
<1>7. missed' \in Seq(BOOLEAN) /\ Len(missed') = Len(missed)
  BY <1>3, MapIsSeq DEF PresenceType
<1> QED
  BY <1>4, <1>5, <1>6, <1>7 DEF PresenceType

--------------------------------------------------------------------------------
(* One lemma for each action *)

LEMMA StopIs ==
    ASSUME NEW r \in WatchState
    PROVE  /\ Stop(r) \in WatchState /\ Stop(r).id = r.id /\ Stop(r).stopped
           /\ Stop(r).asking # "yes"
BY DEF WatchState, Stop

LEMMA CloseWatchKeeps ==
    ASSUME PresenceInv, NEW h \in Hosts, NEW w \in DOMAIN watch, CloseWatch(h, w)
    PROVE  PresenceInv'
<1> DEFINE v == Stop(watch[w])
<1>1. v \in WatchState /\ v.id = watch[w].id /\ v.stopped /\ v.asking # "yes"
  BY WatchIs, StopIs DEF PresenceInv
<1>2. /\ watch' = [watch EXCEPT ![w] = v] /\ watches' = watches /\ queue' = queue
      /\ removing' = [removing EXCEPT ![h] = w] /\ closed' = closed /\ shutting' = shutting
  BY DEF CloseWatch
<1> HIDE DEF v
<1>3. /\ watch' \in Seq(WatchState) /\ Len(watch') = Len(watch) /\ DOMAIN watch' = DOMAIN watch
      /\ watch'[w] = v /\ \A x \in DOMAIN watch : x # w => watch'[x] = watch[x]
  BY <1>1, <1>2, WatchSet DEF PresenceInv
<1>4. PollsInv'
  BY <1>1, <1>2, OneChanges DEF PresenceInv, PresenceType
<1>5. PresenceType'
  <2>1. w \in Nat
    BY Domains DEF PresenceInv
  <2> QED
    BY <1>2, <1>3, <2>1, Forgotten DEF PresenceInv, PresenceType, CloseWatch
<1>6. \A x \in DOMAIN watch : ~Ended(x)' => x # w /\ ~Ended(x)
  BY <1>1, <1>2, <1>3 DEF Ended
<1>7. CandidateInv' /\ HeardInv'
  <2>1. \A x \in DOMAIN watch : x # w =>
           seen'[x] = seen[x] /\ heard'[x] = heard[x] /\ missed'[x] = missed[x]
    BY Forgotten DEF PresenceInv, CloseWatch
  <2>2. \A x \in DOMAIN watch : ~Ended(x)' =>
           /\ ~Ended(x) /\ watch'[x] = watch[x]
           /\ seen'[x] = seen[x] /\ heard'[x] = heard[x] /\ missed'[x] = missed[x]
    BY <1>3, <1>6, <2>1
  <2> QED
    BY <1>2, <1>3, <2>2, NothingLearned DEF PresenceInv
<1> QED
  BY <1>4, <1>5, <1>7 DEF PresenceInv

LEMMA RemoveKeeps ==
    ASSUME PresenceInv, NEW h \in Hosts, Remove(h)
    PROVE  PresenceInv'
<1> DEFINE c == watch[removing[h]].id
<1>1. removing[h] # NoWatch /\ removing[h] \in DOMAIN watch /\ watch[removing[h]].stopped /\ c \in Creators
  BY WatchIs DEF PresenceInv, PollsInv, Remove, WatchState
<1>2. /\ watches' = [watches EXCEPT ![c] = IF watches[c] = removing[h] THEN NoWatch ELSE watches[c]]
      /\ removing' = [removing EXCEPT ![h] = NoWatch]
      /\ UNCHANGED <<closed, shutting, watch, queue, seen, heard, missed>>
  BY DEF Remove
<1>3. PresenceType'
  BY <1>1, <1>2 DEF PresenceInv, PresenceType, NoWatch
<1>4. PollsInv'
  <2> HIDE DEF c
  <2>1. \A d \in Creators : watches'[d] = watches[d] \/ (watches[d] = removing[h] /\ watches'[d] = NoWatch)
    BY <1>1, <1>2 DEF PresenceInv, PresenceType
  <2>2. \A w \in DOMAIN watch : watch[w].id \in Creators
    BY WatchIs DEF PresenceInv, WatchState
  <2>3. \A w \in DOMAIN watch : ~watch[w].stopped => watches'[watch[w].id] = w
    BY <1>1, <2>1, <2>2 DEF PresenceInv, PollsInv
  <2>4. \A g \in Hosts : removing'[g] # NoWatch => removing'[g] = removing[g]
    BY <1>2 DEF PresenceInv, PresenceType
  <2> QED
    BY <1>2, <2>3, <2>4 DEF PresenceInv, PollsInv
<1>5. CandidateInv' /\ HeardInv'
  BY <1>2, NothingLearned DEF PresenceInv, Ended
<1> QED
  BY <1>3, <1>4, <1>5 DEF PresenceInv

LEMMA CloseKeeps ==
    ASSUME PresenceInv, Close
    PROVE  PresenceInv'
<1>1. closed' = TRUE /\ shutting' = TRUE /\ UNCHANGED <<watches, removing, watch, queue, seen, heard, missed>>
  BY DEF Close
<1>2. CandidateInv' /\ HeardInv'
  BY <1>1 DEF CandidateInv, HeardInv, Ended
<1> QED
  BY <1>1, <1>2 DEF PresenceInv, PresenceType, PollsInv

LEMMA CloseEndsKeeps ==
    ASSUME PresenceInv, CloseEnds
    PROVE  PresenceInv'
<1>1. closed /\ closed' = closed /\ shutting' = FALSE /\ removing' = removing /\ queue' = <<>>
      /\ watches' = [c \in Creators |-> NoWatch]
  BY DEF CloseEnds, PresenceInv, PresenceType
<1>2. watch' \in [DOMAIN watch -> WatchState]
  BY WatchIs, StopIs DEF CloseEnds, PresenceInv
<1>3. watch' \in Seq(WatchState) /\ Len(watch') = Len(watch)
  BY <1>2, MapIsSeq DEF PresenceInv, PresenceType
<1>4. \A w \in DOMAIN watch : watch'[w].stopped /\ watch'[w].asking # "yes"
  <2> SUFFICES ASSUME NEW w \in DOMAIN watch PROVE watch'[w].stopped /\ watch'[w].asking # "yes"
    OBVIOUS
  <2>1. watch'[w] = IF watches[watch[w].id] = w THEN Stop(watch[w]) ELSE watch[w]
    BY DEF CloseEnds
  <2> QED
    BY <2>1, WatchIs, StopIs DEF PresenceInv, PollsInv
<1>5. PresenceType'
  <2>1. queue' \in Seq([watch : Nat, status : Statuses]) /\ DOMAIN queue' = {}
    BY <1>1, EmptySeq
  <2>2. watches' \in [Creators -> Nat]
    BY <1>1 DEF NoWatch
  <2>3. Forget(DOMAIN watch)
    BY DEF CloseEnds
  <2> QED
    BY <1>1, <1>3, <2>1, <2>2, <2>3, Forgotten DEF PresenceInv, PresenceType
<1>6. PollsInv'
  BY <1>1, <1>2, <1>4 DEF PresenceInv, PollsInv
<1>7. CandidateInv' /\ HeardInv'
  BY <1>1 DEF CandidateInv, HeardInv, Ended
<1> QED
  BY <1>5, <1>6, <1>7 DEF PresenceInv

LEMMA DelayPassesKeeps ==
    ASSUME PresenceInv, NEW w \in DOMAIN watch, DelayPasses(w)
    PROVE  PresenceInv'
<1> DEFINE v == [watch[w] EXCEPT !.timer = "fired"]
<1>1. /\ v \in WatchState /\ v.id = watch[w].id /\ v.stopped = watch[w].stopped
      /\ v.timer = "fired" /\ v.asking = watch[w].asking /\ v.confirmed = watch[w].confirmed
      /\ v.candidate = watch[w].candidate /\ v.count = watch[w].count
  BY WatchIs DEF WatchState, PresenceInv
<1>2. watch' = [watch EXCEPT ![w] = v] /\ UNCHANGED <<hostVars, queue, seen, heard, missed>>
  BY DEF DelayPasses
<1>3. v.asking # "yes"
  BY <1>1 DEF PresenceInv, PollsInv, DelayPasses
<1> HIDE DEF v
<1>4. /\ watch' \in Seq(WatchState) /\ Len(watch') = Len(watch) /\ DOMAIN watch' = DOMAIN watch
      /\ watch'[w] = v /\ \A x \in DOMAIN watch : x # w => watch'[x] = watch[x]
  BY <1>1, <1>2, WatchSet DEF PresenceInv
<1>5. PollsInv'
  BY <1>1, <1>2, <1>3, OneChanges DEF PresenceInv, hostVars
<1>6. PresenceType'
  BY <1>2, <1>4 DEF PresenceInv, PresenceType, hostVars
<1>7. CandidateInv' /\ HeardInv'
  BY <1>1, <1>2, <1>4, NothingLearned DEF PresenceInv, Ended, hostVars
<1> QED
  BY <1>5, <1>6, <1>7 DEF PresenceInv

LEMMA PollKeeps ==
    ASSUME PresenceInv, NEW w \in DOMAIN watch, Poll(w)
    PROVE  PresenceInv'
<1> DEFINE v == [watch[w] EXCEPT !.timer = "no",
                                 !.asking = IF Ended(w) THEN watch[w].asking ELSE "yes"]
<1>1. /\ v \in WatchState /\ v.id = watch[w].id /\ v.stopped = watch[w].stopped
      /\ v.timer = "no" /\ v.asking = (IF Ended(w) THEN watch[w].asking ELSE "yes")
      /\ v.confirmed = watch[w].confirmed
      /\ v.candidate = watch[w].candidate /\ v.count = watch[w].count
  BY WatchIs DEF WatchState, PresenceInv
<1>2. watch' = [watch EXCEPT ![w] = v] /\ UNCHANGED <<hostVars, queue, seen, heard, missed>>
  BY DEF Poll
<1>3. v.asking = "yes" => ~v.stopped
  BY <1>1 DEF PresenceInv, PollsInv, Poll, Ended
<1> HIDE DEF v
<1>4. /\ watch' \in Seq(WatchState) /\ Len(watch') = Len(watch) /\ DOMAIN watch' = DOMAIN watch
      /\ watch'[w] = v /\ \A x \in DOMAIN watch : x # w => watch'[x] = watch[x]
  BY <1>1, <1>2, WatchSet DEF PresenceInv
<1>5. PollsInv'
  BY <1>1, <1>2, <1>3, OneChanges DEF PresenceInv, hostVars
<1>6. PresenceType'
  BY <1>2, <1>4 DEF PresenceInv, PresenceType, hostVars
<1>7. CandidateInv' /\ HeardInv'
  BY <1>1, <1>2, <1>4, NothingLearned DEF PresenceInv, Ended, hostVars
<1> QED
  BY <1>5, <1>6, <1>7 DEF PresenceInv

LEMMA AnswerIgnoredKeeps ==
    ASSUME PresenceInv, NEW w \in DOMAIN watch, AnswerIgnored(w)
    PROVE  PresenceInv'
<1> DEFINE v == [watch[w] EXCEPT !.asking = "no"]
<1>1. /\ v \in WatchState /\ v.id = watch[w].id /\ v.stopped = watch[w].stopped
      /\ v.asking = "no" /\ v.confirmed = watch[w].confirmed
      /\ v.candidate = watch[w].candidate /\ v.count = watch[w].count
  BY WatchIs DEF WatchState, PresenceInv
<1>2. watch' = [watch EXCEPT ![w] = v] /\ UNCHANGED <<hostVars, queue, seen, heard, missed>>
  BY DEF AnswerIgnored
<1> HIDE DEF v
<1>4. /\ watch' \in Seq(WatchState) /\ Len(watch') = Len(watch) /\ DOMAIN watch' = DOMAIN watch
      /\ watch'[w] = v /\ \A x \in DOMAIN watch : x # w => watch'[x] = watch[x]
  BY <1>1, <1>2, WatchSet DEF PresenceInv
<1>5. PollsInv'
  BY <1>1, <1>2, OneChanges DEF PresenceInv, hostVars
<1>6. PresenceType'
  BY <1>2, <1>4 DEF PresenceInv, PresenceType, hostVars
<1>7. CandidateInv' /\ HeardInv'
  BY <1>1, <1>2, <1>4, NothingLearned DEF PresenceInv, Ended, hostVars
<1> QED
  BY <1>5, <1>6, <1>7 DEF PresenceInv

LEMMA WatchNewKeeps ==
    ASSUME PresenceInv, NEW c \in Creators, WatchNew(c)
    PROVE  PresenceInv'
<1> DEFINE v == [id |-> c, stopped |-> FALSE, timer |-> "armed", asking |-> "no",
                 confirmed |-> "UNKNOWN", candidate |-> "UNKNOWN", count |-> 0]
<1>0. PICK n : n = Len(watch) + 1
  OBVIOUS
<1>1. /\ v \in WatchState /\ v.id = c /\ ~v.stopped /\ v.asking = "no"
      /\ v.confirmed = "UNKNOWN" /\ v.candidate = "UNKNOWN" /\ v.count = 0
  BY DEF WatchState, Statuses
<1>2. /\ watches[c] = NoWatch /\ watches' = [watches EXCEPT ![c] = n]
      /\ watch' = Append(watch, v) /\ seen' = Append(seen, NothingSeen)
      /\ heard' = Append(heard, "none") /\ missed' = Append(missed, FALSE)
      /\ UNCHANGED <<closed, shutting, removing, queue>>
  BY <1>0 DEF WatchNew
<1> HIDE DEF v
<1>3. n \in Nat /\ n # 0 /\ n \notin DOMAIN watch
  BY <1>0, Domains DEF PresenceInv
<1>4. /\ watch' \in Seq(WatchState) /\ Len(watch') = n /\ DOMAIN watch' = DOMAIN watch \cup {n}
      /\ watch'[n] = v /\ \A x \in DOMAIN watch : watch'[x] = watch[x]
  <2>1. watch \in Seq(WatchState)
    BY DEF PresenceInv, PresenceType
  <2> QED
    BY <1>0, <1>1, <1>2, <2>1, AppendIs
<1>5. /\ seen' \in Seq([status : Statuses, times : Nat]) /\ Len(seen') = n
      /\ seen'[n] = NothingSeen /\ \A x \in DOMAIN watch : seen'[x] = seen[x]
  <2>1. NothingSeen \in [status : Statuses, times : Nat]
    BY DEF NothingSeen, Statuses
  <2>2. /\ seen \in Seq([status : Statuses, times : Nat]) /\ DOMAIN seen = DOMAIN watch
        /\ n = Len(seen) + 1
    BY <1>0, Domains DEF PresenceInv, PresenceType
  <2> QED
    BY <1>2, <2>1, <2>2, AppendIs
<1>6. /\ heard' \in Seq({"none"} \cup Statuses) /\ Len(heard') = n
      /\ heard'[n] = "none" /\ \A x \in DOMAIN watch : heard'[x] = heard[x]
  <2>1. /\ heard \in Seq({"none"} \cup Statuses) /\ DOMAIN heard = DOMAIN watch
        /\ n = Len(heard) + 1 /\ "none" \in {"none"} \cup Statuses
    BY <1>0, Domains DEF PresenceInv, PresenceType
  <2> QED
    BY <1>2, <2>1, AppendIs
<1>7. /\ missed' \in Seq(BOOLEAN) /\ Len(missed') = n
      /\ \A x \in DOMAIN watch : missed'[x] = missed[x]
  <2>1. /\ missed \in Seq(BOOLEAN) /\ DOMAIN missed = DOMAIN watch
        /\ n = Len(missed) + 1 /\ FALSE \in BOOLEAN
    BY <1>0, Domains DEF PresenceInv, PresenceType
  <2> QED
    BY <1>2, <2>1, AppendFlag, Zenon
<1>8. PresenceType'
  BY <1>2, <1>3, <1>4, <1>5, <1>6, <1>7 DEF PresenceInv, PresenceType
<1>9. PollsInv'
  <2>1. \A w \in DOMAIN watch : watch[w].id \in Creators /\ w # NoWatch
    BY WatchIs, Domains DEF PresenceInv, WatchState, NoWatch
  <2>2. \A w \in DOMAIN watch : ~watch[w].stopped => watches'[watch[w].id] = w
    BY <1>2, <2>1 DEF PresenceInv, PresenceType, PollsInv
  <2>3. watches'[v.id] = n
    BY <1>1, <1>2 DEF PresenceInv, PresenceType
  <2> QED
    BY <1>1, <1>2, <1>4, <2>2, <2>3 DEF PresenceInv, PollsInv
<1>10. \A x \in DOMAIN watch : Ended(x)' = Ended(x)
  BY <1>2, <1>4 DEF Ended
<1>11. CandidateInv'
  BY <1>1, <1>4, <1>5, <1>10 DEF PresenceInv, CandidateInv, NothingSeen
<1>12. HeardInv'
  <2>1. ASSUME NEW x \in DOMAIN watch, ~Ended(x)', ~missed'[x] PROVE InTurn(x)'
    <3>1. InTurn(x)
      BY <1>7, <1>10, <2>1 DEF PresenceInv, HeardInv
    <3> QED
      BY <1>2, <1>4, <1>6, <3>1, StaysInTurn DEF Waiting
  <2>2. InTurn(n)'
    <3>1. Waiting(n)' = {}
      BY <1>2, <1>3 DEF Waiting, PresenceInv, PresenceType
    <3>2. Started(heard'[n]) <=> Started(watch'[n].confirmed)
      BY <1>1, <1>4, <1>6 DEF Started
    <3> QED
      BY <3>1, <3>2 DEF InTurn
  <2> QED
    BY <1>4, <2>1, <2>2 DEF HeardInv
<1> QED
  BY <1>8, <1>9, <1>11, <1>12 DEF PresenceInv

LEMMA AcceptIs ==
    ASSUME NEW r \in WatchState, NEW s \in Statuses, NEW a, a = Accept(r, s)
    PROVE  /\ a \in WatchState /\ a.id = r.id /\ a.stopped = r.stopped
           /\ s \in {"UNKNOWN", r.confirmed} =>
                  a.confirmed = r.confirmed /\ a.candidate = "UNKNOWN" /\ a.count = 0
           /\ s \notin {"UNKNOWN", r.confirmed} /\ Counted(r, s) < Confirmations =>
                  a.confirmed = r.confirmed /\ a.candidate = s /\ a.count = Counted(r, s)
           /\ s \notin {"UNKNOWN", r.confirmed} /\ ~(Counted(r, s) < Confirmations) =>
                  a.confirmed = s /\ a.candidate = "UNKNOWN" /\ a.count = 0
<1>1. Counted(r, s) \in Nat
  BY DEF Counted, WatchState
<1>2. CASE s \in {"UNKNOWN", r.confirmed}
  BY <1>2 DEF Accept, WatchState, Statuses
<1>3. CASE s \notin {"UNKNOWN", r.confirmed} /\ Counted(r, s) < Confirmations
  BY <1>1, <1>3 DEF Accept, WatchState
<1>4. CASE s \notin {"UNKNOWN", r.confirmed} /\ ~(Counted(r, s) < Confirmations)
  BY <1>4 DEF Accept, WatchState, Statuses
<1> QED
  BY <1>2, <1>3, <1>4

(* What an answer does to its watch, and what it may announce. *)
AnswerEffect(w, v, e) ==
    /\ watch' = [watch EXCEPT ![w] = v] /\ seen' = [seen EXCEPT ![w] = e]
    /\ v.id = watch[w].id /\ v.stopped = watch[w].stopped /\ v.asking = "no"
    /\ IF e.status \in {"UNKNOWN", v.confirmed}
       THEN v.candidate = "UNKNOWN" /\ v.count = 0
       ELSE v.candidate = e.status /\ v.count = e.times /\ v.count < Confirmations
    /\ v.confirmed # watch[w].confirmed =>
           /\ v.confirmed # "UNKNOWN"
           /\ e = [status |-> v.confirmed, times |-> Confirmations]
    /\ \/ /\ Started(v.confirmed) <=> Started(watch[w].confirmed)
          /\ queue' = queue /\ missed' = [missed EXCEPT ![w] = missed[w] \/ FALSE]
       \/ /\ Started(v.confirmed) <=> ~Started(watch[w].confirmed)
          /\ v.confirmed \in {"LIVE", "OFFLINE"}
          /\ queue' = Append(queue, [watch |-> w, status |-> v.confirmed])
          /\ missed' = [missed EXCEPT ![w] = missed[w] \/ FALSE]
       \/ queue' = queue /\ missed' = [missed EXCEPT ![w] = missed[w] \/ TRUE]

LEMMA Answered ==
    ASSUME PresenceInv, NEW w \in DOMAIN watch, NEW status \in Statuses, Answer(w, status)
    PROVE  \E v \in WatchState : \E e \in [status : Statuses, times : Nat] :
             AnswerEffect(w, v, e)
<1> DEFINE r == watch[w]
           old == seen[w]
<1>1. r \in WatchState /\ ~Ended(w) /\ r.confirmed \in Statuses /\ r.count \in Nat
  BY WatchIs DEF PresenceInv, Answer, WatchState
<1>2. old \in [status : Statuses, times : Nat]
  BY Domains, ElementOfSeq DEF PresenceInv, PresenceType
<1>3. IF old.status \in {"UNKNOWN", r.confirmed}
      THEN r.candidate = "UNKNOWN" /\ r.count = 0
      ELSE r.candidate = old.status /\ r.count = old.times /\ r.count < Confirmations
  BY <1>1 DEF PresenceInv, CandidateInv
<1>4. PICK a : a = Accept(r, status)
  OBVIOUS
<1>5. PICK v : v = [Schedule(a, status) EXCEPT !.asking = "no"]
  OBVIOUS
<1>6. PICK e : e = [status |-> status,
                    times |-> IF old.status = status /\ old.times < Confirmations THEN old.times + 1
                              ELSE IF old.status = status THEN old.times ELSE 1]
  OBVIOUS
<1>7. /\ a \in WatchState /\ a.id = r.id /\ a.stopped = r.stopped
      /\ status \in {"UNKNOWN", r.confirmed} =>
             a.confirmed = r.confirmed /\ a.candidate = "UNKNOWN" /\ a.count = 0
      /\ status \notin {"UNKNOWN", r.confirmed} /\ Counted(r, status) < Confirmations =>
             a.confirmed = r.confirmed /\ a.candidate = status /\ a.count = Counted(r, status)
      /\ status \notin {"UNKNOWN", r.confirmed} /\ ~(Counted(r, status) < Confirmations) =>
             a.confirmed = status /\ a.candidate = "UNKNOWN" /\ a.count = 0
  BY <1>1, <1>4, AcceptIs
<1>8. /\ v \in WatchState /\ v.id = a.id /\ v.stopped = a.stopped /\ v.asking = "no"
      /\ v.confirmed = a.confirmed /\ v.candidate = a.candidate /\ v.count = a.count
  BY <1>5, <1>7 DEF Schedule, WatchState
<1>9. /\ e \in [status : Statuses, times : Nat] /\ e.status = status
      /\ e.times = IF old.status = status /\ old.times < Confirmations THEN old.times + 1
                   ELSE IF old.status = status THEN old.times ELSE 1
  BY <1>2, <1>6
<1>10. watch' = [watch EXCEPT ![w] = v] /\ seen' = [seen EXCEPT ![w] = e]
  BY <1>4, <1>5, <1>6 DEF Answer
<1>11. \/ /\ ~Announces(r, a)
          /\ queue' = queue /\ missed' = [missed EXCEPT ![w] = missed[w] \/ FALSE]
       \/ /\ Announces(r, a)
          /\ queue' = Append(queue, [watch |-> w, status |-> a.confirmed])
          /\ missed' = [missed EXCEPT ![w] = missed[w] \/ FALSE]
       \/ queue' = queue /\ missed' = [missed EXCEPT ![w] = missed[w] \/ TRUE]
  BY <1>4 DEF Answer
<1> HIDE DEF r, old
<1>12. status \notin {"UNKNOWN", r.confirmed} => Counted(r, status) = e.times
  BY <1>1, <1>2, <1>3, <1>9, PresenceAssumption DEF Counted
<1>13. /\ IF e.status \in {"UNKNOWN", v.confirmed}
          THEN v.candidate = "UNKNOWN" /\ v.count = 0
          ELSE v.candidate = e.status /\ v.count = e.times /\ v.count < Confirmations
  BY <1>7, <1>8, <1>9, <1>12
<1>14. v.confirmed # r.confirmed => v.confirmed # "UNKNOWN" /\ e.status = v.confirmed /\ e.times = Confirmations
  <2> SUFFICES ASSUME v.confirmed # r.confirmed
               PROVE  v.confirmed # "UNKNOWN" /\ e.status = v.confirmed /\ e.times = Confirmations
    OBVIOUS
  <2>1. status \notin {"UNKNOWN", r.confirmed} /\ ~(Counted(r, status) < Confirmations) /\ v.confirmed = status
    BY <1>7, <1>8
  <2>2. Counted(r, status) \in Nat /\ Counted(r, status) <= Confirmations
    BY <1>1, <1>3, PresenceAssumption DEF Counted
  <2> QED
    BY <1>9, <1>12, <2>1, <2>2, PresenceAssumption
<1>15. v.confirmed # r.confirmed => e = [status |-> v.confirmed, times |-> Confirmations]
  BY <1>9, <1>14
<1>16. /\ Announces(r, a) => (Started(v.confirmed) <=> ~Started(r.confirmed))
       /\ ~Announces(r, a) => (Started(v.confirmed) <=> Started(r.confirmed))
       /\ Announces(r, a) => v.confirmed \in {"LIVE", "OFFLINE"}
  BY <1>1, <1>7, <1>8, <1>14 DEF Announces, Started, Statuses
<1> QED
  BY <1>7, <1>8, <1>9, <1>10, <1>11, <1>13, <1>14, <1>15, <1>16 DEF r, AnswerEffect

LEMMA ExceptIs ==
    ASSUME NEW S, NEW s \in Seq(S), NEW w \in DOMAIN s, NEW e \in S, NEW t, t = [s EXCEPT ![w] = e]
    PROVE  /\ t \in Seq(S) /\ Len(t) = Len(s)
           /\ t[w] = e /\ \A x \in DOMAIN s : x # w => t[x] = s[x]
<1>1. DOMAIN s = 1 .. Len(s) /\ w \in 1 .. Len(s)
  BY LenProperties
<1> QED
  BY <1>1, ExceptSeq

LEMMA FlagSet ==
    ASSUME NEW s \in Seq(BOOLEAN), NEW w \in DOMAIN s, NEW e \in BOOLEAN, NEW t,
           t = [s EXCEPT ![w] = e]
    PROVE  /\ t \in Seq(BOOLEAN) /\ Len(t) = Len(s)
           /\ t[w] = e /\ \A x \in DOMAIN s : x # w => t[x] = s[x]
<1>1. ASSUME NEW B, s \in Seq(B), e \in B
      PROVE  /\ t \in Seq(B) /\ Len(t) = Len(s)
             /\ t[w] = e /\ \A x \in DOMAIN s : x # w => t[x] = s[x]
  BY <1>1, ExceptIs
<1> QED
  BY <1>1, Zenon

LEMMA QueueAppended ==
    ASSUME PresenceType, NEW w \in DOMAIN watch, NEW s \in Statuses,
           queue' = Append(queue, [watch |-> w, status |-> s]), NEW n, n = Len(queue) + 1
    PROVE  /\ queue' \in Seq([watch : Nat, status : Statuses])
           /\ DOMAIN queue' = DOMAIN queue \cup {n} /\ n \notin DOMAIN queue
           /\ \A i \in DOMAIN queue : i < n /\ i \in Nat
           /\ queue'[n].watch = w /\ queue'[n].status = s
           /\ \A i \in DOMAIN queue : queue'[i] = queue[i]
<1>1. [watch |-> w, status |-> s] \in [watch : Nat, status : Statuses]
  BY Domains
<1>2. queue \in Seq([watch : Nat, status : Statuses]) /\ DOMAIN queue = 1 .. Len(queue) /\ Len(queue) \in Nat
  BY LenProperties DEF PresenceType
<1>3. /\ queue' \in Seq([watch : Nat, status : Statuses])
      /\ DOMAIN queue' = DOMAIN queue \cup {n} /\ queue'[n] = [watch |-> w, status |-> s]
      /\ \A i \in DOMAIN queue : queue'[i] = queue[i]
  BY <1>1, <1>2, AppendIs
<1> QED
  BY <1>2, <1>3

LEMMA AppendedInTurn ==
    ASSUME PresenceType, NEW w \in DOMAIN watch, NEW s \in {"LIVE", "OFFLINE"}, InTurn(w),
           queue' = Append(queue, [watch |-> w, status |-> s]), heard'[w] = heard[w],
           watch'[w].confirmed = s, Started(s) <=> ~Started(watch[w].confirmed)
    PROVE  InTurn(w)'
<1>1. PICK n : n = Len(queue) + 1
  OBVIOUS
<1>2. /\ DOMAIN queue' = DOMAIN queue \cup {n} /\ n \notin DOMAIN queue
      /\ \A i \in DOMAIN queue : i < n /\ i \in Nat
      /\ queue'[n].watch = w /\ queue'[n].status = s
      /\ \A i \in DOMAIN queue : queue'[i] = queue[i]
  <2>1. s \in Statuses
    BY DEF Statuses
  <2> QED
    BY <1>1, <2>1, QueueAppended
<1>3. Waiting(w)' = Waiting(w) \cup {n} /\ Waiting(w) \subseteq DOMAIN queue
  BY <1>2 DEF Waiting
<1>4. n \in Nat
  BY <1>1, LenProperties DEF PresenceType
<1>5. \A i \in Waiting(w)' : queue'[i].status \in {"LIVE", "OFFLINE"}
  BY <1>2, <1>3 DEF InTurn
<1>6. ASSUME NEW i \in Waiting(w)', \A j \in Waiting(w)' : i <= j
      PROVE  Started(queue'[i].status) <=> ~Started(heard'[w])
  <2>1. CASE i = n
    <3>1. Waiting(w) = {}
      BY <1>2, <1>3, <1>4, <1>6, <2>1
    <3> QED
      BY <1>2, <2>1, <3>1 DEF InTurn
  <2>2. CASE i \in Waiting(w)
    BY <1>2, <1>3, <1>6, <2>2 DEF InTurn
  <2> QED
    BY <1>3, <2>1, <2>2
<1>7. ASSUME NEW i \in Waiting(w)', \A j \in Waiting(w)' : j <= i
      PROVE  Started(queue'[i].status) <=> Started(watch'[w].confirmed)
  <2>1. i = n
    BY <1>2, <1>3, <1>4, <1>7
  <2> QED
    BY <1>2, <2>1
<1>8. ASSUME NEW i \in Waiting(w)', NEW j \in Waiting(w)', i < j,
             \A k \in Waiting(w)' : k <= i \/ j <= k
      PROVE  Started(queue'[i].status) <=> ~Started(queue'[j].status)
  <2>1. i \in Waiting(w)
    BY <1>2, <1>3, <1>4, <1>8
  <2>2. CASE j = n
    <3>1. \A k \in Waiting(w) : k <= i
      BY <1>2, <1>3, <1>4, <1>8, <2>2
    <3>2. Started(queue[i].status) <=> Started(watch[w].confirmed)
      BY <2>1, <3>1 DEF InTurn
    <3> QED
      BY <1>2, <1>3, <2>1, <2>2, <3>2
  <2>3. CASE j \in Waiting(w)
    BY <1>2, <1>3, <1>8, <2>1, <2>3 DEF InTurn
  <2> QED
    BY <1>3, <2>2, <2>3
<1>9. Waiting(w)' # {}
  BY <1>3
<1> QED
  BY <1>5, <1>6, <1>7, <1>8, <1>9 DEF InTurn

LEMMA AnswerKeeps ==
    ASSUME PresenceInv, NEW w \in DOMAIN watch, NEW status \in Statuses, Answer(w, status)
    PROVE  PresenceInv'
<1>1. PICK v \in WatchState, e \in [status : Statuses, times : Nat] : AnswerEffect(w, v, e)
  BY Answered
<1> USE DEF AnswerEffect
<1>2. UNCHANGED <<closed, shutting, watches, removing, heard>> /\ ~Ended(w)
  BY DEF Answer, hostVars
<1>3. /\ watch' \in Seq(WatchState) /\ Len(watch') = Len(watch) /\ DOMAIN watch' = DOMAIN watch
      /\ watch'[w] = v /\ \A x \in DOMAIN watch : x # w => watch'[x] = watch[x]
  BY <1>1, WatchSet DEF PresenceInv
<1>4. /\ seen' \in Seq([status : Statuses, times : Nat]) /\ Len(seen') = Len(seen)
      /\ seen'[w] = e /\ \A x \in DOMAIN watch : x # w => seen'[x] = seen[x]
  <2>1. seen \in Seq([status : Statuses, times : Nat]) /\ DOMAIN seen = DOMAIN watch
    BY Domains DEF PresenceInv, PresenceType
  <2> QED
    BY <1>1, <2>1, ExceptIs
<1>5. /\ missed' \in Seq(BOOLEAN) /\ Len(missed') = Len(missed)
      /\ \A x \in DOMAIN watch : x # w => missed'[x] = missed[x]
      /\ missed'[w] \/ (queue' = queue /\ (Started(v.confirmed) <=> Started(watch[w].confirmed)) /\ ~missed[w])
         \/ (queue' = Append(queue, [watch |-> w, status |-> v.confirmed]) /\ v.confirmed \in {"LIVE", "OFFLINE"}
             /\ (Started(v.confirmed) <=> ~Started(watch[w].confirmed)) /\ ~missed[w])
  <2>1. missed \in Seq(BOOLEAN) /\ DOMAIN missed = DOMAIN watch
    BY Domains DEF PresenceInv, PresenceType
  <2>2. PICK m \in BOOLEAN :
           /\ missed' = [missed EXCEPT ![w] = m] /\ (missed[w] => m)
           /\ \/ m
              \/ queue' = queue /\ (Started(v.confirmed) <=> Started(watch[w].confirmed))
              \/ queue' = Append(queue, [watch |-> w, status |-> v.confirmed]) /\ v.confirmed \in {"LIVE", "OFFLINE"}
                 /\ (Started(v.confirmed) <=> ~Started(watch[w].confirmed))
    BY <1>1, Zenon
  <2>3. /\ missed' \in Seq(BOOLEAN) /\ Len(missed') = Len(missed)
        /\ missed'[w] = m /\ \A x \in DOMAIN missed : x # w => missed'[x] = missed[x]
    BY <2>1, <2>2, FlagSet, Zenon
  <2> QED
    BY <2>1, <2>2, <2>3, Zenon
<1>6. PollsInv'
  BY <1>1, <1>2, OneChanges DEF PresenceInv
<1>7. \A x \in DOMAIN watch : ~Ended(x)' => ~Ended(x)
  BY <1>1, <1>2, <1>3 DEF Ended
<1>8. CandidateInv'
  BY <1>1, <1>3, <1>4, <1>7 DEF PresenceInv, CandidateInv
<1>9. queue' = queue \/ (queue' = Append(queue, [watch |-> w, status |-> v.confirmed]) /\ v.confirmed \in Statuses)
  BY <1>1, Zenon DEF Statuses
<1>10. PresenceType'
  <2>1. queue' \in Seq([watch : Nat, status : Statuses]) /\ \A i \in DOMAIN queue' : queue'[i].watch \in DOMAIN watch
    <3>1. CASE queue' = queue
      BY <3>1 DEF PresenceInv, PresenceType
    <3>2. CASE queue' = Append(queue, [watch |-> w, status |-> v.confirmed]) /\ v.confirmed \in Statuses
      <4>1. PICK n : n = Len(queue) + 1
        OBVIOUS
      <4>2. /\ queue' \in Seq([watch : Nat, status : Statuses])
            /\ DOMAIN queue' = DOMAIN queue \cup {n} /\ queue'[n].watch = w
            /\ \A i \in DOMAIN queue : queue'[i] = queue[i]
        BY <3>2, <4>1, QueueAppended DEF PresenceInv
      <4> QED
        BY <4>2 DEF PresenceInv, PresenceType
    <3> QED
      BY <1>9, <3>1, <3>2
  <2> QED
    BY <1>2, <1>3, <1>4, <1>5, <2>1 DEF PresenceInv, PresenceType
<1>11. HeardInv'
  <2>1. ASSUME NEW x \in DOMAIN watch, x # w, ~Ended(x)', ~missed'[x] PROVE InTurn(x)'
    <3>1. InTurn(x)
      BY <1>5, <1>7, <2>1 DEF PresenceInv, HeardInv
    <3>2. Waiting(x)' = Waiting(x) /\ \A i \in Waiting(x) : queue'[i] = queue[i]
      BY <1>9, <2>1, QueueAppended, SMTT(30) DEF PresenceInv, Waiting
    <3> QED
      BY <1>2, <1>3, <2>1, <3>1, <3>2, StaysInTurn
  <2>2. ASSUME ~missed'[w] PROVE InTurn(w)'
    <3>1. ~missed[w] /\ InTurn(w)
      BY <1>2, <1>5, <2>2 DEF PresenceInv, HeardInv
    <3>2. CASE queue' = queue /\ (Started(v.confirmed) <=> Started(watch[w].confirmed))
      BY <1>2, <1>3, <3>1, <3>2, StaysInTurn DEF Waiting
    <3>3. CASE queue' = Append(queue, [watch |-> w, status |-> v.confirmed]) /\ v.confirmed \in {"LIVE", "OFFLINE"}
               /\ (Started(v.confirmed) <=> ~Started(watch[w].confirmed))
      BY <1>2, <1>3, <3>1, <3>3, AppendedInTurn DEF PresenceInv
    <3> QED
      BY <1>5, <2>2, <3>2, <3>3
  <2> QED
    BY <1>3, <2>1, <2>2 DEF HeardInv
<1> QED
  BY <1>6, <1>8, <1>10, <1>11 DEF PresenceInv

(* The transition at the head of the queue is taken off it. *)
LEMMA QueueTail ==
    ASSUME PresenceType, queue # <<>>, queue' = Tail(queue)
    PROVE  /\ queue' \in Seq([watch : Nat, status : Statuses])
           /\ Head(queue) = queue[1] /\ 1 \in DOMAIN queue
           /\ \A i \in DOMAIN queue : i \in Nat /\ i # 0
           /\ \A i \in Nat : i \in DOMAIN queue' <=> i # 0 /\ i + 1 \in DOMAIN queue
           /\ \A i \in DOMAIN queue' : i \in Nat /\ queue'[i] = queue[i + 1]
<1>1. /\ queue \in Seq([watch : Nat, status : Statuses]) /\ Len(queue) \in Nat \ {0}
      /\ DOMAIN queue = 1 .. Len(queue)
  BY LenProperties, EmptySeq DEF PresenceType
<1>2. /\ queue' \in Seq([watch : Nat, status : Statuses]) /\ Len(queue') = Len(queue) - 1
      /\ DOMAIN queue' = 1 .. Len(queue') /\ \A i \in 1 .. Len(queue') : queue'[i] = queue[i + 1]
  BY <1>1, HeadTailProperties, LenProperties
<1>3. Head(queue) = queue[1]
  BY <1>1
<1> QED
  BY <1>1, <1>2, <1>3

LEMMA TakenInTurn ==
    ASSUME PresenceType, queue # <<>>, queue' = Tail(queue), NEW w, InTurn(w),
           watch'[w].confirmed = watch[w].confirmed,
           IF Head(queue).watch = w THEN heard'[w] = Head(queue).status ELSE heard'[w] = heard[w]
    PROVE  InTurn(w)'
<1>1. /\ Head(queue) = queue[1] /\ 1 \in DOMAIN queue
      /\ \A i \in DOMAIN queue : i \in Nat /\ i # 0
      /\ \A i \in Nat : i \in DOMAIN queue' <=> i # 0 /\ i + 1 \in DOMAIN queue
      /\ \A i \in DOMAIN queue' : i \in Nat /\ queue'[i] = queue[i + 1]
  BY QueueTail
<1>2. /\ \A i \in Waiting(w)' : i \in Nat /\ i # 0 /\ i + 1 \in Waiting(w) /\ queue'[i] = queue[i + 1]
      /\ \A k \in Waiting(w) : k \in Nat /\ k # 0 /\ (k = 1 \/ k - 1 \in Waiting(w)')
      /\ 1 \in Waiting(w) <=> Head(queue).watch = w
  <2>1. ASSUME NEW k \in Waiting(w), k # 1 PROVE k - 1 \in Waiting(w)'
    <3>1. k \in DOMAIN queue /\ k \in Nat /\ k # 0 /\ queue[k].watch = w
      BY <1>1 DEF Waiting
    <3>2. k - 1 \in Nat /\ k - 1 # 0 /\ k - 1 + 1 = k
      BY <2>1, <3>1
    <3>3. k - 1 \in DOMAIN queue' /\ queue'[k - 1] = queue[k]
      BY <1>1, <3>1, <3>2
    <3> QED
      BY <3>1, <3>3 DEF Waiting
  <2>2. \A i \in Waiting(w)' : i \in Nat /\ i # 0 /\ i + 1 \in Waiting(w) /\ queue'[i] = queue[i + 1]
    BY <1>1 DEF Waiting
  <2> QED
    BY <1>1, <2>1, <2>2 DEF Waiting
<1>3. \A i \in Waiting(w)' : queue'[i].status \in {"LIVE", "OFFLINE"}
  BY <1>2 DEF InTurn
<1>4. ASSUME NEW i \in Waiting(w)', \A j \in Waiting(w)' : j <= i
      PROVE  Started(queue'[i].status) <=> Started(watch'[w].confirmed)
  <2>1. \A k \in Waiting(w) : k <= i + 1
    BY <1>2, <1>4
  <2> QED
    BY <1>2, <2>1 DEF InTurn
<1>5. ASSUME NEW i \in Waiting(w)', NEW j \in Waiting(w)', i < j,
             \A k \in Waiting(w)' : k <= i \/ j <= k
      PROVE  Started(queue'[i].status) <=> ~Started(queue'[j].status)
  <2>1. ASSUME NEW k \in Waiting(w) PROVE k <= i + 1 \/ j + 1 <= k
    <3>1. CASE k = 1
      BY <1>2, <3>1
    <3>2. CASE k - 1 \in Waiting(w)'
      <4>1. k - 1 <= i \/ j <= k - 1
        BY <1>5, <3>2
      <4> QED
        BY <1>2, <4>1
    <3> QED
      BY <1>2, <3>1, <3>2
  <2>2. i + 1 < j + 1
    BY <1>2, <1>5
  <2> QED
    BY <1>2, <2>1, <2>2 DEF InTurn
<1>6. CASE Head(queue).watch = w
  <2>1. 1 \in Waiting(w) /\ heard'[w] = queue[1].status
    BY <1>1, <1>2, <1>6
  <2>2. ASSUME Waiting(w)' = {} PROVE Started(heard'[w]) <=> Started(watch'[w].confirmed)
    <3>1. \A k \in Waiting(w) : k <= 1
      BY <1>2, <2>2
    <3> QED
      BY <2>1, <3>1 DEF InTurn
  <2>3. ASSUME NEW i \in Waiting(w)', \A j \in Waiting(w)' : i <= j
        PROVE  Started(queue'[i].status) <=> ~Started(heard'[w])
    <3>1. \A k \in Waiting(w) : k <= 1 \/ i + 1 <= k
      BY <1>2, <2>3
    <3>2. 1 < i + 1
      BY <1>2
    <3>3. Started(queue[1].status) <=> ~Started(queue[i + 1].status)
      BY <1>2, <2>1, <3>1, <3>2 DEF InTurn
    <3> QED
      BY <1>2, <2>1, <3>3
  <2> QED
    BY <1>3, <1>4, <1>5, <2>2, <2>3 DEF InTurn
<1>7. CASE Head(queue).watch # w
  <2>1. 1 \notin Waiting(w) /\ heard'[w] = heard[w]
    BY <1>2, <1>7
  <2>2. Waiting(w)' = {} => Waiting(w) = {}
    BY <1>2, <2>1
  <2>3. ASSUME NEW i \in Waiting(w)', \A j \in Waiting(w)' : i <= j
        PROVE  Started(queue'[i].status) <=> ~Started(heard'[w])
    <3>1. \A k \in Waiting(w) : i + 1 <= k
      BY <1>2, <2>1, <2>3
    <3> QED
      BY <1>2, <2>1, <3>1 DEF InTurn
  <2> QED
    BY <1>3, <1>4, <1>5, <2>1, <2>2, <2>3 DEF InTurn
<1> QED
  BY <1>6, <1>7

LEMMA InvokeKeeps ==
    ASSUME PresenceInv, Invoke
    PROVE  PresenceInv'
<1> DEFINE u == Head(queue).watch
<1>1. queue # <<>> /\ queue' = Tail(queue) /\ UNCHANGED <<hostVars, watch, seen, missed>>
  BY DEF Invoke
<1>2. /\ queue' \in Seq([watch : Nat, status : Statuses])
      /\ Head(queue) = queue[1] /\ 1 \in DOMAIN queue
      /\ \A i \in Nat : i \in DOMAIN queue' <=> i # 0 /\ i + 1 \in DOMAIN queue
      /\ \A i \in DOMAIN queue' : i \in Nat /\ queue'[i] = queue[i + 1]
  BY <1>1, QueueTail DEF PresenceInv
<1>3. u \in DOMAIN watch /\ Head(queue).status \in Statuses
  <2>1. queue \in Seq([watch : Nat, status : Statuses]) /\ 1 \in 1 .. Len(queue)
    BY <1>2, LenProperties DEF PresenceInv, PresenceType
  <2>2. queue[1] \in [watch : Nat, status : Statuses]
    BY <2>1, ElementOfSeq
  <2> QED
    BY <1>2, <2>2 DEF PresenceInv, PresenceType
<1>4. \/ Ended(u) /\ heard' = heard
      \/ heard' = [heard EXCEPT ![u] = Head(queue).status]
  BY DEF Invoke
<1>5. /\ heard' \in Seq({"none"} \cup Statuses) /\ Len(heard') = Len(heard)
      /\ \A x \in DOMAIN watch : x # u => heard'[x] = heard[x]
      /\ Ended(u) \/ heard'[u] = Head(queue).status
  <2>1. heard \in Seq({"none"} \cup Statuses) /\ DOMAIN heard = DOMAIN watch
    BY Domains DEF PresenceInv, PresenceType
  <2>2. CASE heard' = heard /\ Ended(u)
    BY <2>1, <2>2
  <2>3. CASE heard' = [heard EXCEPT ![u] = Head(queue).status]
    <3>1. Head(queue).status \in {"none"} \cup Statuses
      BY <1>3
    <3> HIDE DEF u
    <3> QED
      BY <1>3, <2>1, <2>3, <3>1, ExceptIs
  <2> QED
    BY <1>4, <2>2, <2>3
<1>6. PresenceType'
  BY <1>1, <1>2, <1>5, SMTT(30) DEF PresenceInv, PresenceType, hostVars
<1>7. PollsInv' /\ CandidateInv'
  BY <1>1 DEF PresenceInv, PollsInv, CandidateInv, Ended, hostVars
<1>8. HeardInv'
  <2> SUFFICES ASSUME NEW w \in DOMAIN watch, ~Ended(w)', ~missed'[w] PROVE InTurn(w)'
    BY <1>1 DEF HeardInv
  <2>1. ~Ended(w) /\ InTurn(w)
    BY <1>1 DEF PresenceInv, HeardInv, Ended, hostVars
  <2> QED
    BY <1>1, <1>5, <2>1, TakenInTurn DEF PresenceInv
<1> QED
  BY <1>6, <1>7, <1>8 DEF PresenceInv

--------------------------------------------------------------------------------
LEMMA PresenceInitHolds == PresenceInit => PresenceInv
<1> SUFFICES ASSUME PresenceInit PROVE PresenceInv
  OBVIOUS
<1>1. watch = <<>> /\ DOMAIN watch = {} /\ queue = <<>> /\ DOMAIN queue = {}
  BY DEF PresenceInit
<1>2. PresenceType
  BY <1>1, EmptySeq DEF PresenceInit, PresenceType, NoWatch
<1> QED
  BY <1>1, <1>2 DEF PresenceInit, PresenceInv, PollsInv, CandidateInv, HeardInv

LEMMA PresenceStep ==
    ASSUME PresenceInv, [PresenceNext]_presenceVars
    PROVE  PresenceInv'
<1>1. CASE \E w \in DOMAIN watch : WatchStep(w)
  BY <1>1, DelayPassesKeeps, PollKeeps, AnswerIgnoredKeeps, AnswerKeeps DEF WatchStep
<1>2. CASE CallbackReturns \/ UNCHANGED presenceVars
  <2>1. UNCHANGED <<hostVars, watch, queue, seen, heard, missed>>
    BY <1>2 DEF CallbackReturns, presenceVars
  <2>2. PresenceType' /\ PollsInv'
    BY <2>1 DEF PresenceInv, PresenceType, PollsInv, hostVars
  <2>3. CandidateInv' /\ HeardInv'
    BY <2>1, NothingLearned DEF PresenceInv, Ended, hostVars
  <2> QED
    BY <2>2, <2>3 DEF PresenceInv
<1> QED
  BY <1>1, <1>2, WatchNewKeeps, RemoveKeeps, CloseWatchKeeps, CloseKeeps, CloseEndsKeeps,
     InvokeKeeps DEF PresenceNext

(* What LivePresenceMonitor.java keeps of its watches, their confirmations *)
(* and the queue of its callback thread is consistent in every state.      *)
THEOREM PresenceInvHolds == PresenceSpec => []PresenceInv
BY PresenceInitHolds, PresenceStep, PTL DEF PresenceSpec

LEMMA OneAsks == PresenceInv => PollsNeverOverlap
<1> SUFFICES ASSUME PresenceInv PROVE PollsNeverOverlap
  OBVIOUS
<1>1. ASSUME NEW c \in Creators
      PROVE  Cardinality({w \in DOMAIN watch : watch[w].id = c /\ watch[w].asking = "yes"}) <= 1
  <2> DEFINE asking == {w \in DOMAIN watch : watch[w].id = c /\ watch[w].asking = "yes"}
  <2>1. asking = {} \/ asking = {watches[c]}
    BY DEF PresenceInv, PollsInv
  <2>2. Cardinality(asking) = 0 \/ Cardinality(asking) = 1
    BY <2>1, FS_EmptySet, FS_Singleton, Zenon
  <2> QED
    BY <2>2
<1> QED
  BY <1>1 DEF PollsNeverOverlap, PresenceInv, PollsInv

(* However watches are closed and made again, a creator is never polled    *)
(* twice at once, and a watch that polls has no timer armed.               *)
THEOREM PollsNeverOverlapHolds == PresenceSpec => []PollsNeverOverlap
BY PresenceInvHolds, OneAsks, PTL

--------------------------------------------------------------------------------
(* The action properties *)

LEMMA ConfirmedKept ==
    ASSUME NEW r \in WatchState
    PROVE  Stop(r).confirmed = r.confirmed
BY DEF WatchState, Stop

LEMMA StepDebounced ==
    ASSUME PresenceInv, [PresenceNext]_presenceVars, NEW w \in DOMAIN watch,
           watch'[w].confirmed # watch[w].confirmed
    PROVE  seen'[w] = [status |-> watch'[w].confirmed, times |-> Confirmations]
<1>1. watch[w] \in WatchState
  BY WatchIs DEF PresenceInv
<1>2. CASE watch' = watch
  BY <1>2
<1>3. ASSUME NEW c \in Creators, WatchNew(c) PROVE FALSE
  <2>1. PICK v : watch' = Append(watch, v)
    BY <1>3 DEF WatchNew
  <2>2. watch'[w] = watch[w]
    BY <2>1, Domains DEF PresenceInv, PresenceType
  <2> QED
    BY <2>2
<1>4. ASSUME NEW h \in Hosts, NEW x \in DOMAIN watch, CloseWatch(h, x) PROVE FALSE
  <2>1. watch'[w] = IF x = w THEN Stop(watch[w]) ELSE watch[w]
    BY <1>4 DEF CloseWatch
  <2> QED
    BY <1>1, <2>1, ConfirmedKept
<1>5. CASE CloseEnds
  <2>1. watch'[w] = Stop(watch[w]) \/ watch'[w] = watch[w]
    BY <1>5 DEF CloseEnds
  <2> QED
    BY <1>1, <2>1, ConfirmedKept
<1>6. ASSUME NEW x \in DOMAIN watch, DelayPasses(x) \/ AnswerIgnored(x) PROVE FALSE
  <2>1. watch'[w].confirmed = watch[w].confirmed
    BY <1>1, <1>6 DEF DelayPasses, AnswerIgnored, WatchState
  <2> QED
    BY <2>1
<1>7. ASSUME NEW x \in DOMAIN watch, Poll(x) PROVE FALSE
  <2>1. watch'[w] = watch[w] \/ watch'[w].confirmed = watch[w].confirmed
    BY <1>1, <1>7 DEF Poll, WatchState
  <2> QED
    BY <2>1
<1>8. ASSUME NEW x \in DOMAIN watch, NEW status \in Statuses, Answer(x, status)
      PROVE  seen'[w] = [status |-> watch'[w].confirmed, times |-> Confirmations]
  <2>1. PICK v \in WatchState, e \in [status : Statuses, times : Nat] : AnswerEffect(x, v, e)
    BY <1>8, Answered
  <2>2. x = w
    BY <2>1 DEF AnswerEffect
  <2>3. watch'[w] = v /\ seen'[w] = e
    BY <2>1, <2>2, Domains DEF PresenceInv, AnswerEffect
  <2> QED
    BY <2>1, <2>2, <2>3 DEF AnswerEffect
<1>9. PresenceNext \/ watch' = watch
  BY DEF presenceVars
<1> QED
  BY <1>2, <1>3, <1>4, <1>5, <1>6, <1>7, <1>8, <1>9
     DEF PresenceNext, Remove, Close, WatchStep, Invoke, CallbackReturns

LEMMA StepInTurn ==
    ASSUME PresenceInv, [PresenceNext]_presenceVars, NEW w \in DOMAIN watch,
           calling = Idle, calling'.watch = w
    PROVE  \/ missed[w]
           \/ calling'.status = (IF heard[w] = "LIVE" THEN "OFFLINE" ELSE "LIVE")
<1>1. calling' # Idle
  BY Domains DEF PresenceInv, Idle, NoWatch
<1>2. Invoke
  BY <1>1 DEF PresenceNext, presenceVars, WatchNew, CloseWatch, Remove, Close, CloseEnds, WatchStep,
     DelayPasses, Poll, Answer, AnswerIgnored, CallbackReturns
<1>3. queue # <<>> /\ calling' = Head(queue) /\ ~Ended(w)
  BY <1>1, <1>2 DEF Invoke
<1>4. Head(queue) = queue[1] /\ 1 \in DOMAIN queue /\ \A i \in DOMAIN queue : i \in Nat /\ i # 0
  BY <1>2, <1>3, QueueTail DEF PresenceInv, Invoke
<1>5. 1 \in Waiting(w) /\ \A j \in Waiting(w) : 1 <= j
  BY <1>3, <1>4 DEF Waiting
<1>6. CASE ~missed[w]
  BY <1>3, <1>4, <1>5, <1>6 DEF PresenceInv, HeardInv, InTurn, Started
<1> QED
  BY <1>6

(* A change is confirmed only by that many equal observations in a row,    *)
(* and a listener hears started and ended in turn unless the queue had no  *)
(* room for one: PresenceConfirmation.accept() and the callback thread.    *)
THEOREM TransitionsHonestHolds == PresenceSpec => TransitionsHonest
<1>1. PresenceInv /\ [PresenceNext]_presenceVars =>
          [\A w \in DOMAIN watch :
              watch'[w].confirmed # watch[w].confirmed
                  => seen'[w] = [status |-> watch'[w].confirmed, times |-> Confirmations]]_presenceVars
  BY StepDebounced
<1>2. PresenceInv /\ [PresenceNext]_presenceVars =>
          [\A w \in DOMAIN watch :
              calling = Idle /\ calling'.watch = w
                  => \/ missed[w]
                     \/ calling'.status = (IF heard[w] = "LIVE" THEN "OFFLINE" ELSE "LIVE")]_presenceVars
  BY StepInTurn
<1> QED
  BY <1>1, <1>2, PresenceInvHolds, PTL DEF PresenceSpec, TransitionsHonest, Debounced, HeardInTurn

--------------------------------------------------------------------------------
(* What WatchesPoll rests on *)

(* A watch that has not ended has a poll on its way or a timer that leads  *)
(* to the next one, and never both: no answer, failure or close() of       *)
(* another watch makes it fall silent.                                     *)
Polling == \A w \in DOMAIN watch : ~Ended(w) => (watch[w].timer # "no") # (watch[w].asking = "yes")

NotSilent == \A w \in DOMAIN watch : ~Ended(w) => watch[w].timer # "no" \/ watch[w].asking = "yes"

(* A step that changes one watch only needs to be right about that one.    *)
LEMMA OneNotSilent ==
    ASSUME PresenceType, NotSilent, NEW w \in DOMAIN watch, NEW v \in WatchState,
           watch' = [watch EXCEPT ![w] = v], closed' = closed,
           watch[w].stopped => v.stopped,
           ~Ended(w) => v.stopped \/ v.timer # "no" \/ v.asking = "yes"
    PROVE  NotSilent'
<1>1. /\ DOMAIN watch' = DOMAIN watch
      /\ watch'[w] = v /\ \A x \in DOMAIN watch : x # w => watch'[x] = watch[x]
  BY WatchSet, Zenon
<1> QED
  BY <1>1 DEF NotSilent, Ended

LEMMA StepNotSilent ==
    ASSUME PresenceInv, NotSilent, [PresenceNext]_presenceVars
    PROVE  NotSilent'
<1>1. PresenceType /\ \A w \in DOMAIN watch : watch[w] \in WatchState
  BY WatchIs DEF PresenceInv
<1>2. CASE watch' = watch /\ (closed' = closed \/ closed' = TRUE)
  BY <1>2 DEF NotSilent, Ended
<1>3. ASSUME NEW c \in Creators, WatchNew(c) PROVE NotSilent'
  <2> DEFINE v == [id |-> c, stopped |-> FALSE, timer |-> "armed", asking |-> "no",
                   confirmed |-> "UNKNOWN", candidate |-> "UNKNOWN", count |-> 0]
  <2>1. v \in WatchState /\ v.timer = "armed"
    BY DEF WatchState, Statuses
  <2>2. watch' = Append(watch, v) /\ closed' = closed /\ watch \in Seq(WatchState)
    BY <1>1, <1>3 DEF WatchNew, PresenceType
  <2> HIDE DEF v
  <2>3. PICK n : n = Len(watch) + 1
    OBVIOUS
  <2>4. /\ DOMAIN watch' = DOMAIN watch \cup {n} /\ watch'[n] = v
        /\ \A x \in DOMAIN watch : watch'[x] = watch[x]
    BY <2>1, <2>2, <2>3, AppendIs
  <2> QED
    BY <2>1, <2>2, <2>4 DEF NotSilent, Ended
<1>4. ASSUME NEW h \in Hosts, NEW w \in DOMAIN watch, CloseWatch(h, w) PROVE NotSilent'
  <2>1. Stop(watch[w]) \in WatchState /\ Stop(watch[w]).stopped
    BY <1>1, StopIs
  <2>2. watch' = [watch EXCEPT ![w] = Stop(watch[w])] /\ closed' = closed
    BY <1>4 DEF CloseWatch
  <2> QED
    BY <1>1, <2>1, <2>2, OneNotSilent
<1>5. CASE CloseEnds
  <2>1. closed'
    BY <1>5 DEF CloseEnds, PresenceInv, PresenceType
  <2> QED
    BY <2>1 DEF NotSilent, Ended
<1>6. ASSUME NEW w \in DOMAIN watch, DelayPasses(w) PROVE NotSilent'
  <2> DEFINE v == [watch[w] EXCEPT !.timer = "fired"]
  <2>1. v \in WatchState /\ v.stopped = watch[w].stopped /\ v.timer = "fired"
    BY <1>1 DEF WatchState
  <2>2. watch' = [watch EXCEPT ![w] = v] /\ closed' = closed
    BY <1>6 DEF DelayPasses, hostVars
  <2> HIDE DEF v
  <2> QED
    BY <1>1, <2>1, <2>2, OneNotSilent
<1>7. ASSUME NEW w \in DOMAIN watch, Poll(w) PROVE NotSilent'
  <2> DEFINE v == [watch[w] EXCEPT !.timer = "no",
                                   !.asking = IF Ended(w) THEN watch[w].asking ELSE "yes"]
  <2>1. /\ v \in WatchState /\ v.stopped = watch[w].stopped
        /\ v.asking = (IF Ended(w) THEN watch[w].asking ELSE "yes")
    BY <1>1 DEF WatchState
  <2>2. watch' = [watch EXCEPT ![w] = v] /\ closed' = closed
    BY <1>7 DEF Poll, hostVars
  <2> HIDE DEF v
  <2> QED
    BY <1>1, <2>1, <2>2, OneNotSilent
<1>8. ASSUME NEW w \in DOMAIN watch, AnswerIgnored(w) PROVE NotSilent'
  <2> DEFINE v == [watch[w] EXCEPT !.asking = "no"]
  <2>1. v \in WatchState /\ v.stopped = watch[w].stopped
    BY <1>1 DEF WatchState
  <2>2. watch' = [watch EXCEPT ![w] = v] /\ closed' = closed /\ Ended(w)
    BY <1>8 DEF AnswerIgnored, hostVars
  <2> HIDE DEF v
  <2> QED
    BY <1>1, <2>1, <2>2, OneNotSilent
<1>9. ASSUME NEW w \in DOMAIN watch, NEW status \in Statuses, Answer(w, status) PROVE NotSilent'
  <2>1. PICK a : a = Accept(watch[w], status)
    OBVIOUS
  <2> DEFINE armed == [a EXCEPT !.timer = "armed"]
             v == [armed EXCEPT !.asking = "no"]
  <2>2. a \in WatchState /\ a.stopped = watch[w].stopped
    BY <1>1, <2>1, AcceptIs
  <2>3. armed \in WatchState /\ armed.stopped = a.stopped /\ armed.timer = "armed"
    BY <2>2 DEF WatchState
  <2>4. watch' = [watch EXCEPT ![w] = v] /\ closed' = closed
    BY <1>9, <2>1 DEF Answer, Schedule, hostVars
  <2> HIDE DEF armed
  <2>5. v \in WatchState /\ v.stopped = a.stopped /\ v.timer = "armed"
    BY <2>3 DEF WatchState
  <2> HIDE DEF v
  <2> QED
    BY <1>1, <2>2, <2>4, <2>5, OneNotSilent
<1>10. \/ watch' = watch /\ (closed' = closed \/ closed' = TRUE)
       \/ CloseEnds
       \/ \E c \in Creators : WatchNew(c)
       \/ \E h \in Hosts : \E w \in DOMAIN watch : CloseWatch(h, w)
       \/ \E w \in DOMAIN watch : \/ DelayPasses(w) \/ Poll(w) \/ AnswerIgnored(w)
                                  \/ \E status \in Statuses : Answer(w, status)
  BY Zenon DEF PresenceNext, presenceVars, hostVars, WatchStep, Remove, Close, Invoke, CallbackReturns
<1> QED
  BY <1>2, <1>3, <1>4, <1>5, <1>6, <1>7, <1>8, <1>9, <1>10, Zenon

(* No watch of LivePresenceMonitor.java falls silent: the safety half of   *)
(* WatchesPoll, for any creators, capacities and number of confirmations.  *)
THEOREM PollingHolds == PresenceSpec => []Polling
<1>1. PresenceInit => NotSilent
  BY DEF PresenceInit, NotSilent
<1>2. PresenceSpec => []NotSilent
  BY <1>1, PresenceInvHolds, StepNotSilent, PTL DEF PresenceSpec
<1>3. PresenceInv /\ NotSilent => Polling
  BY DEF PresenceInv, PollsInv, NotSilent, Polling
<1> QED
  BY <1>2, <1>3, PresenceInvHolds, PTL
================================================================================
