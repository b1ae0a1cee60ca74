----------------------------- MODULE MCTicketClient -----------------------------
(***************************************************************************)
(* The ticket client, and the monitor that watches for a creator to go     *)
(* live, on small instances. They share no state; a behaviour belongs to   *)
(* the one part that it names.                                             *)
(***************************************************************************)
EXTENDS TicketClient, PresenceMonitor

VARIABLE part

partVars == <<part, vars, presenceVars>>

PartInit ==
    /\ part \in {"ticket", "presence"}
    /\ Init /\ PresenceInit
    /\ part = "presence" => ~listenersConnect

PartNext ==
    \/ part = "ticket" /\ Next /\ UNCHANGED <<part, presenceVars>>
    \/ part = "presence" /\ PresenceNext /\ UNCHANGED <<part, vars>>

PartSpec ==
    /\ PartInit /\ [][PartNext]_partVars
    /\ WF_vars(part = "ticket" /\ Progress)
    /\ PresenceFairness
================================================================================
