------------------------------- MODULE MCLiveRun -------------------------------
(***************************************************************************)
(* The two ways in which the crates keep a stream up, on small instances:  *)
(* the transport loop of ttl-live-core and the reconnecting stream of      *)
(* ttl-live-ws. They share no state; a behaviour belongs to the one part   *)
(* that it names.                                                          *)
(***************************************************************************)
EXTENDS LiveRun, ReconnectingStream

VARIABLE part

partVars == <<part, vars, streamVars>>

PartInit ==
    /\ part \in {"run", "stream"}
    /\ Init /\ StreamInit
    /\ part = "run" => attempts = 0

PartNext ==
    \/ part = "run" /\ Next /\ UNCHANGED <<part, streamVars>>
    \/ part = "stream" /\ StreamNext /\ UNCHANGED <<part, vars>>

PartSpec ==
    /\ PartInit /\ [][PartNext]_partVars
    /\ part = "run" => /\ WF_vars(Transport) /\ WF_vars(Send) /\ WF_vars(Dispatcher)
                       /\ WF_vars(Forward) /\ WF_vars(Return)
    /\ part = "stream" => StreamFairness
================================================================================
