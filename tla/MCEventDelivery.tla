---------------------------- MODULE MCEventDelivery ----------------------------
(***************************************************************************)
(* How events reach the application, on small instances: the ring of the   *)
(* Node client, the main-thread handoff of the Android client and the gift *)
(* streak trackers. They share no state; a behaviour belongs to the one    *)
(* path that it names.                                                     *)
(***************************************************************************)
EXTENDS EventDelivery, AndroidHandoff, GiftStreaks

VARIABLE path

pathVars == <<path, vars, handoffVars, streakVars>>

PathInit ==
    /\ path \in {"ring", "handoff", "streaks"}
    /\ Init /\ HandoffInit /\ StreakInit
    /\ path # "ring" => mode = "sync"

PathNext ==
    \/ path = "ring" /\ Next /\ UNCHANGED <<path, handoffVars, streakVars>>
    \/ path = "handoff" /\ HandoffNext /\ UNCHANGED <<path, vars, streakVars>>
    \/ path = "streaks" /\ StreakNext /\ UNCHANGED <<path, vars, handoffVars>>

PathSpec ==
    /\ PathInit /\ [][PathNext]_pathVars
    /\ path = "ring" => WF_vars(Internal) /\ SF_vars(Immediate)
    /\ path = "handoff" => HandoffFairness
================================================================================
