------------------------------ MODULE EventStream ------------------------------
(***************************************************************************)
(* What the delivery queue of packages/tiktok-live promises its user,      *)
(* whatever its buffer looks like: events are numbered in the order the    *)
(* socket yields them, a listener sees them in that order, each at most    *)
(* once, and an event that was dropped is never seen later.                *)
(***************************************************************************)
EXTENDS Naturals, Sequences

VARIABLES
    accepted,   \* how many events the socket has yielded so far
    pending,    \* the events waiting for a listener, oldest first
    last        \* the event a listener saw last; 0 before the first

vars == <<accepted, pending, last>>

Init ==
    /\ accepted = 0
    /\ pending = <<>>
    /\ last = 0

(* An event arrives and waits. *)
Accept ==
    /\ accepted' = accepted + 1
    /\ pending' = Append(pending, accepted + 1)
    /\ UNCHANGED last

(* An event arrives and goes straight to the listener. *)
Pass ==
    /\ pending = <<>>
    /\ accepted' = accepted + 1
    /\ last' = accepted + 1
    /\ UNCHANGED pending

(* An event arrives and is dropped, either alone, when nothing waits, or *)
(* with everything that waits.                                           *)
Refuse ==
    /\ accepted' = accepted + 1
    /\ pending' = <<>>
    /\ UNCHANGED last

(* The oldest waiting event reaches the listener. *)
Deliver ==
    /\ pending # <<>>
    /\ last' = Head(pending)
    /\ pending' = Tail(pending)
    /\ UNCHANGED accepted

(* The oldest waiting event is dropped. *)
Skip ==
    /\ pending # <<>>
    /\ pending' = Tail(pending)
    /\ UNCHANGED <<accepted, last>>

(* Everything that waits is dropped. *)
Abandon ==
    /\ pending' = <<>>
    /\ UNCHANGED <<accepted, last>>

Next == Accept \/ Pass \/ Refuse \/ Deliver \/ Skip \/ Abandon

Spec == Init /\ [][Next]_vars
================================================================================
