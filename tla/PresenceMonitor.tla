----------------------------- MODULE PresenceMonitor -----------------------------
(***************************************************************************)
(* The Java presence monitor, LivePresenceMonitor.java: a watch per creator *)
(* polls, debounces what it learns (PresenceConfirmation.java) and queues  *)
(* the transitions for one callback thread. A step is a critical section   *)
(* of the monitor or of one watch, or an operation of the concurrent map.  *)
(* The delay before a poll is a timer that fires some time.                *)
(***************************************************************************)
EXTENDS Integers, Sequences, FiniteSets

CONSTANTS
    Creators,        \* the creators that may be watched
    Hosts,           \* threads that close watches
    Confirmations,   \* observations that confirm a change
    MaxWatches,      \* the monitor's capacity
    QueueCapacity,   \* transitions that may wait for the callback thread
    MaxMade          \* bound: watches made in a behaviour

ASSUME PresenceAssumption ==
    /\ Confirmations \in Nat \ {0, 1}
    /\ MaxWatches \in Nat \ {0} /\ QueueCapacity \in Nat \ {0} /\ MaxMade \in Nat

NoWatch == 0
Idle == [watch |-> NoWatch, status |-> "UNKNOWN"]
Statuses == {"LIVE", "OFFLINE", "UNKNOWN"}

VARIABLES
    closed, shutting,   \* LivePresenceMonitor.closed; close() holds the monitor
    watches,           \* the map: the watch of a creator, or NoWatch
    watch,             \* the watches made so far, with their confirmation state
    removing,          \* the watch a thread has stopped and not yet taken off the map
    queue, calling,    \* waiting transitions; the one whose listener is called
    seen,              \* history: last observation of each watch, and how often in a row
    heard, missed      \* history: last transition called back; one did not fit the queue

hostVars == <<closed, shutting, watches, removing>>
presenceVars == <<hostVars, watch, queue, calling, seen, heard, missed>>

PresenceInit ==
    /\ closed = FALSE /\ shutting = FALSE
    /\ watches = [c \in Creators |-> NoWatch]
    /\ watch = <<>>
    /\ removing = [h \in Hosts |-> NoWatch]
    /\ queue = <<>> /\ calling = Idle
    /\ seen = <<>> /\ heard = <<>> /\ missed = <<>>

Ended(w) == watch[w].stopped \/ closed

NothingSeen == [status |-> "UNKNOWN", times |-> 0]

(* The histories of a watch that ends have no reader. *)
Forget(ended) ==
    /\ seen' = [w \in DOMAIN seen |-> IF w \in ended THEN NothingSeen ELSE seen[w]]
    /\ heard' = [w \in DOMAIN heard |-> IF w \in ended THEN "none" ELSE heard[w]]
    /\ missed' = [w \in DOMAIN missed |-> IF w \in ended THEN FALSE ELSE missed[w]]

--------------------------------------------------------------------------------
(* watch(), under the monitor. Of a creator that has a watch it returns    *)
(* that one, also if another thread has stopped it and not yet removed it. *)

WatchNew(c) ==
    /\ ~closed /\ watches[c] = NoWatch
    /\ Cardinality({d \in Creators : watches[d] # NoWatch}) < MaxWatches
    /\ Len(watch) < MaxMade
    /\ watches' = [watches EXCEPT ![c] = Len(watch) + 1]
    /\ watch' = Append(watch, [id |-> c, stopped |-> FALSE, timer |-> "armed", asking |-> "no",
                               confirmed |-> "UNKNOWN", candidate |-> "UNKNOWN", count |-> 0])
    /\ seen' = Append(seen, NothingSeen)
    /\ heard' = Append(heard, "none") /\ missed' = Append(missed, FALSE)
    /\ UNCHANGED <<closed, shutting, removing, queue, calling>>

(* Watch.close() and unwatch(): stop it, then take it off the map. *)
StopKeepsRequest(w) == [w EXCEPT !.stopped = TRUE, !.timer = IF @ = "armed" THEN "no" ELSE @]
Stop(w) ==
    [w EXCEPT !.stopped = TRUE,
              !.timer = IF @ = "armed" THEN "no" ELSE @,
              !.asking = IF @ = "yes" THEN "cancelled" ELSE @]

CloseWatch(h, w) ==
    /\ removing[h] = NoWatch /\ ~watch[w].stopped
    /\ watch' = [watch EXCEPT ![w] = Stop(@)]
    /\ removing' = [removing EXCEPT ![h] = w]
    /\ Forget({w})
    /\ UNCHANGED <<closed, shutting, watches, queue, calling>>

Remove(h) ==
    /\ removing[h] # NoWatch
    /\ LET c == watch[removing[h]].id
       IN  watches' = [watches EXCEPT ![c] = IF @ = removing[h] THEN NoWatch ELSE @]
    /\ removing' = [removing EXCEPT ![h] = NoWatch]
    /\ UNCHANGED <<closed, shutting, watch, queue, calling, seen, heard, missed>>

(* close() raises the flag, then stops every watch and the threads. *)
Close ==
    /\ ~closed
    /\ closed' = TRUE /\ shutting' = TRUE
    /\ UNCHANGED <<watches, removing, watch, queue, calling, seen, heard, missed>>

CloseEnds ==
    /\ shutting
    /\ shutting' = FALSE
    /\ watch' = [w \in DOMAIN watch |->
                    IF watches[watch[w].id] = w THEN Stop(watch[w]) ELSE watch[w]]
    /\ watches' = [c \in Creators |-> NoWatch]
    /\ queue' = <<>>
    /\ Forget(DOMAIN watch)
    /\ UNCHANGED <<closed, removing, calling>>

--------------------------------------------------------------------------------
(* A watch: the timer fires, the poll asks, the answer is taken. *)

DelayPasses(w) ==
    /\ watch[w].timer = "armed"
    /\ watch' = [watch EXCEPT ![w].timer = "fired"]
    /\ UNCHANGED <<hostVars, queue, calling, seen, heard, missed>>

Poll(w) ==
    /\ watch[w].timer = "fired"
    /\ watch' = [watch EXCEPT ![w].timer = "no",
                              ![w].asking = IF Ended(w) THEN @ ELSE "yes"]
    /\ UNCHANGED <<hostVars, queue, calling, seen, heard, missed>>

(* PresenceConfirmation.accept(): the new state, and what it announces. *)
Counted(w, status) == IF status = w.candidate THEN w.count + 1 ELSE 1

AcceptLenient(w, status) ==
    IF status = "UNKNOWN" THEN w
    ELSE IF status = w.confirmed THEN [w EXCEPT !.candidate = "UNKNOWN", !.count = 0]
    ELSE IF Counted(w, status) < Confirmations
    THEN [w EXCEPT !.candidate = status, !.count = Counted(w, status)]
    ELSE [w EXCEPT !.confirmed = status, !.candidate = "UNKNOWN", !.count = 0]
Accept(w, status) ==
    IF status \in {"UNKNOWN", w.confirmed} THEN [w EXCEPT !.candidate = "UNKNOWN", !.count = 0]
    ELSE IF Counted(w, status) < Confirmations
    THEN [w EXCEPT !.candidate = status, !.count = Counted(w, status)]
    ELSE [w EXCEPT !.confirmed = status, !.candidate = "UNKNOWN", !.count = 0]

AnnouncesBaseline(w, accepted) == accepted.confirmed # w.confirmed
Announces(w, accepted) ==
    /\ accepted.confirmed # w.confirmed
    /\ "LIVE" \in {accepted.confirmed, w.confirmed}

(* schedule() after an answer: every outcome polls again, after its delay. *)
ScheduleKnown(w, status) == IF status = "UNKNOWN" THEN w ELSE [w EXCEPT !.timer = "armed"]
Schedule(w, status) == [w EXCEPT !.timer = "armed"]

Answer(w, status) ==
    /\ watch[w].asking = "yes" /\ ~Ended(w)
    /\ LET accepted == Accept(watch[w], status)
           told == Announces(watch[w], accepted)
           room == Len(queue) < QueueCapacity
       IN  /\ watch' = [watch EXCEPT ![w] = [Schedule(accepted, status) EXCEPT !.asking = "no"]]
           /\ queue' = IF told /\ room
                       THEN Append(queue, [watch |-> w, status |-> accepted.confirmed])
                       ELSE queue
           /\ missed' = [missed EXCEPT ![w] = @ \/ (told /\ ~room)]
    /\ seen' = [seen EXCEPT ![w] =
                   [status |-> status,
                    times |-> IF @.status = status /\ @.times < Confirmations THEN @.times + 1
                              ELSE IF @.status = status THEN @.times ELSE 1]]
    /\ UNCHANGED <<hostVars, calling, heard>>

(* An answer, or a cancellation, that comes after the end. *)
AnswerIgnored(w) ==
    /\ watch[w].asking # "no" /\ Ended(w)
    /\ watch' = [watch EXCEPT ![w].asking = "no"]
    /\ UNCHANGED <<hostVars, queue, calling, seen, heard, missed>>

--------------------------------------------------------------------------------
(* The callback thread. *)

Invoke ==
    /\ calling = Idle /\ queue # <<>>
    /\ queue' = Tail(queue)
    /\ LET w == Head(queue).watch
       IN  IF Ended(w) THEN UNCHANGED <<calling, heard>>
           ELSE /\ calling' = Head(queue)
                /\ heard' = [heard EXCEPT ![w] = Head(queue).status]
    /\ UNCHANGED <<hostVars, watch, seen, missed>>

CallbackReturns ==
    /\ calling # Idle
    /\ calling' = Idle
    /\ UNCHANGED <<hostVars, watch, queue, seen, heard, missed>>

--------------------------------------------------------------------------------
WatchStep(w) ==
    \/ DelayPasses(w) \/ Poll(w) \/ AnswerIgnored(w)
    \/ \E status \in Statuses : Answer(w, status)

PresenceNext ==
    \/ \E c \in Creators : WatchNew(c)
    \/ \E h \in Hosts : Remove(h) \/ \E w \in DOMAIN watch : CloseWatch(h, w)
    \/ Close \/ CloseEnds
    \/ \E w \in DOMAIN watch : WatchStep(w)
    \/ Invoke \/ CallbackReturns

PresenceSpec == PresenceInit /\ [][PresenceNext]_presenceVars

(* Timers fire and lookups end (the probe's call timeout, and every        *)
(* failure is an UNKNOWN).                                                 *)
PresenceFairness ==
    \A w \in 1 .. MaxMade : WF_presenceVars(w \in DOMAIN watch /\ WatchStep(w))

--------------------------------------------------------------------------------
(* Properties *)

(* "Polls never overlap for a creator" (sdk/java/README.md), also when a   *)
(* watch is closed while it polls and the creator is watched again, and no *)
(* watch has two polls on their way.                                       *)
PollsNeverOverlap ==
    /\ \A c \in Creators :
           Cardinality({w \in DOMAIN watch : watch[w].id = c /\ watch[w].asking = "yes"}) <= 1
    /\ \A w \in DOMAIN watch : watch[w].asking = "yes" => watch[w].timer = "no"

(* "Two consecutive successful observations confirm a change" and "UNKNOWN *)
(* resets an unconfirmed candidate" (sdk/java/README.md): what is          *)
(* confirmed was just seen that often in a row.                            *)
Debounced ==
    [][\A w \in DOMAIN watch :
           watch'[w].confirmed # watch[w].confirmed
               => seen'[w] = [status |-> watch'[w].confirmed, times |-> Confirmations]]_presenceVars

(* A listener hears started first, then ended and started in turn, unless  *)
(* a transition did not fit the queue ("overloaded consumers may drop      *)
(* notifications").                                                        *)
HeardInTurn ==
    [][\A w \in DOMAIN watch :
           calling = Idle /\ calling'.watch = w
               => \/ missed[w]
                  \/ calling'.status = (IF heard[w] = "LIVE" THEN "OFFLINE" ELSE "LIVE")]_presenceVars

(* What listeners hear is what happened. *)
TransitionsHonest == Debounced /\ HeardInTurn

(* A watch that nobody closes polls again and again, whatever it learns    *)
(* and whoever closes other watches.                                       *)
WatchesPoll ==
    \A w \in 1 .. MaxMade :
        w \in DOMAIN watch ~> w \in DOMAIN watch /\ (watch[w].asking = "yes" \/ Ended(w))
================================================================================
