------------------------------ MODULE GiftStreaks ------------------------------
(***************************************************************************)
(* The two trackers that turn a burst of gift messages into one gift:      *)
(* GiftStreaks of crates/ttl-sign-core/src/gift_streak.rs, keyed by sender *)
(* and gift, and GiftStreakTracker.java, keyed by the streak's group too.  *)
(* Both are fed the same messages of one gift in one room. A streak's      *)
(* counts rise; a message may be repeated while its streak is open, with a *)
(* count that is by then too low, the last message may carry such a count  *)
(* as well, and a message of a finished streak may come late.              *)
(***************************************************************************)
EXTENDS Integers, Sequences, FiniteSets

CONSTANTS
    Senders,          \* who sends the gift
    MaxCount,         \* bound: gifts in a streak
    MaxMessages,      \* bound: messages in a behaviour
    StreakMemory      \* streaks GiftStreakTracker remembers (4096)

VARIABLES
    group,            \* the streak each sender is in, by number
    high,             \* the highest count of that streak so far; 0 before its first message
    owed,             \* what each sender sent in streaks and gifts that are complete
    finals,           \* the final count of every complete streak
    wire, messages,   \* messages sent so far, and how many were delivered
    late,             \* a message of a finished streak was delivered
    roomOpen,
    open, counted,    \* Rust: running counts by sender; the sum of what observe() reported
    streaks, told,    \* Java: the remembered streaks; what accept() emitted, by streak
    forgot            \* history: Java dropped a streak to stay within its memory

streakVars == <<group, high, owed, finals, wire, messages, late, roomOpen, open, counted,
                streaks, told, forgot>>

StreakInit ==
    /\ group = [s \in Senders |-> 1] /\ high = [s \in Senders |-> 0]
    /\ owed = [s \in Senders |-> 0] /\ finals = {}
    /\ wire = {} /\ messages = 0 /\ late = FALSE /\ roomOpen = TRUE
    /\ open = [s \in Senders |-> 0] /\ counted = [s \in Senders |-> 0]
    /\ streaks = <<>> /\ told = {} /\ forgot = FALSE

AtLeastOne(n) == IF n = 0 THEN 1 ELSE n
Higher(m, n) == IF m > n THEN m ELSE n

--------------------------------------------------------------------------------
(* GiftStreaks::observe. *)
ObserveKeepsEntry(m) ==
    LET count == AtLeastOne(m.count)
        running == Higher(open[m.sender], count)
    IN  IF ~m.streakable
        THEN counted' = [counted EXCEPT ![m.sender] = @ + count] /\ UNCHANGED open
        ELSE /\ open' = [open EXCEPT ![m.sender] = running]
             /\ counted' = IF m.end THEN [counted EXCEPT ![m.sender] = @ + running] ELSE counted
Observe(m) ==
    LET count == AtLeastOne(m.count)
        running == Higher(open[m.sender], count)
    IN  IF ~m.streakable
        THEN counted' = [counted EXCEPT ![m.sender] = @ + count] /\ UNCHANGED open
        ELSE /\ open' = [open EXCEPT ![m.sender] = IF m.end THEN 0 ELSE running]
             /\ counted' = IF m.end THEN [counted EXCEPT ![m.sender] = @ + running] ELSE counted

(* GiftStreakTracker.accept: a streak that was emitted is remembered, the  *)
(* one that was first seen longest ago is dropped beyond the limit.        *)
Known(id) == {i \in 1 .. Len(streaks) : streaks[i].id = id}

AcceptForgetsCompleted(m) ==
    LET id == <<m.sender, m.group>>
        previous == IF Known(id) = {} THEN 0 ELSE streaks[CHOOSE i \in Known(id) : TRUE].count
        count == Higher(m.count, previous)
        entry == [id |-> id, count |-> count, completed |-> m.end]
        kept == SelectSeq(streaks, LAMBDA e : e.id # id)
    IN  /\ told' = IF m.end THEN told \cup {[id |-> id, count |-> count, at |-> messages]} ELSE told
        /\ streaks' = IF m.end THEN kept
                      ELSE IF Known(id) = {} THEN Append(streaks, entry)
                      ELSE [i \in 1 .. Len(streaks) |-> IF i \in Known(id) THEN entry ELSE streaks[i]]
        /\ UNCHANGED forgot
Accept(m) ==
    LET id == <<m.sender, m.group>>
        completed == \E i \in Known(id) : streaks[i].completed
        previous == IF Known(id) = {} THEN 0 ELSE streaks[CHOOSE i \in Known(id) : TRUE].count
        count == Higher(m.count, previous)
        entry == [id |-> id, count |-> count, completed |-> m.end]
        next == IF Known(id) = {} THEN Append(streaks, entry)
                ELSE [i \in 1 .. Len(streaks) |-> IF i \in Known(id) THEN entry ELSE streaks[i]]
        full == Len(next) > StreakMemory
    IN  IF ~m.streakable \/ completed
        THEN UNCHANGED <<streaks, told, forgot>>
        ELSE /\ streaks' = IF full THEN Tail(next) ELSE next
             /\ forgot' = (forgot \/ full)
             /\ told' = IF m.end THEN told \cup {[id |-> id, count |-> count, at |-> messages]}
                        ELSE told

(* A message reaches both trackers. *)
Deliver(m) ==
    /\ roomOpen /\ messages < MaxMessages
    /\ messages' = messages + 1
    /\ Observe(m)
    /\ Accept(m)
    /\ UNCHANGED roomOpen

--------------------------------------------------------------------------------
(* The room *)

Message(s, c, end) ==
    [sender |-> s, group |-> group[s], count |-> c, end |-> end, streakable |-> TRUE]

SendMore(s) ==
    \E c \in high[s] + 1 .. MaxCount :
        /\ Deliver(Message(s, c, FALSE))
        /\ high' = [high EXCEPT ![s] = c]
        /\ wire' = wire \cup {Message(s, c, FALSE)}
        /\ UNCHANGED <<group, owed, finals, late>>

SendLast(s) ==
    \E c \in 0 .. MaxCount :
        LET total == Higher(high[s], AtLeastOne(c))
        IN  /\ Deliver(Message(s, c, TRUE))
            /\ wire' = wire \cup {Message(s, c, TRUE)}
            /\ group' = [group EXCEPT ![s] = @ + 1]
            /\ high' = [high EXCEPT ![s] = 0]
            /\ owed' = [owed EXCEPT ![s] = @ + total]
            /\ finals' = finals \cup {[id |-> <<s, group[s]>>, count |-> total]}
            /\ UNCHANGED late

(* A gift that cannot streak: a message of its own. *)
SendPlain(s, c) ==
    /\ Deliver([Message(s, c, FALSE) EXCEPT !.streakable = FALSE])
    /\ owed' = [owed EXCEPT ![s] = @ + AtLeastOne(c)]
    /\ UNCHANGED <<group, high, finals, wire, late>>

Repeat(m) ==
    /\ Deliver(m)
    /\ late' = (late \/ m.group < group[m.sender])
    /\ UNCHANGED <<group, high, owed, finals, wire>>

(* The room closes: take_open() hands over what was in flight. *)
TakeOpen ==
    /\ roomOpen
    /\ roomOpen' = FALSE
    /\ open' = [s \in Senders |-> 0]
    /\ counted' = [s \in Senders |-> counted[s] + open[s]]
    /\ UNCHANGED <<group, high, owed, finals, wire, messages, late, streaks, told, forgot>>

StreakNext ==
    \/ \E s \in Senders : SendMore(s) \/ SendLast(s) \/ \E c \in 0 .. 1 : SendPlain(s, c)
    \/ \E m \in wire : Repeat(m)
    \/ TakeOpen

StreakSpec == StreakInit /\ [][StreakNext]_streakVars

--------------------------------------------------------------------------------
(* Properties *)

(* "emits exactly one CompletedGift" per streak, with its true total: what *)
(* observe() has reported is what was sent in complete streaks, whatever   *)
(* was repeated inside a streak, and take_open() adds exactly the rest. A  *)
(* message that comes after its streak's end is the one case left out: the *)
(* key has no group, so it opens a streak of its own.                      *)
StreakTotals ==
    ~late => \A s \in Senders : counted[s] = owed[s] + (IF roomOpen THEN 0 ELSE high[s])

(* "Emits a streak's final total once": the Java tracker also when         *)
(* messages of a finished streak come late, as long as its memory lasts. A *)
(* streak whose only count was zero is emitted with that count.            *)
FinalOnce ==
    ~forgot =>
        /\ Cardinality(told) = Cardinality(finals)
        /\ \A f \in finals : \E t \in told :
             t.id = f.id /\ (t.count = f.count \/ (t.count = 0 /\ f.count = 1))

(* Each gift is counted once, by either tracker. *)
EachGiftOnce == StreakTotals /\ FinalOnce
================================================================================
