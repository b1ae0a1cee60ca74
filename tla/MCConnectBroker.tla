----------------------------- MODULE MCConnectBroker -----------------------------
(***************************************************************************)
(* The broker, and the Java client that opens the tickets of a broker, on  *)
(* small instances: see MCConnectBroker*.cfg. They share no state; a       *)
(* behaviour belongs to the one part that it names.                        *)
(***************************************************************************)
EXTENDS ConnectBroker, JavaClient, TLC

VARIABLE part

partVars == <<part, vars, javaVars>>

PartInit ==
    /\ part \in {"broker", "java"}
    /\ Init /\ JavaInit
    /\ part = "broker" => setup.gifts
    /\ part = "java" => req = CHOOSE q \in [Requests -> [creator : Creators, customer : Customers,
                                                        live : {FALSE}]] : TRUE

PartNext ==
    \/ part = "broker" /\ Next /\ UNCHANGED <<part, javaVars>>
    \/ part = "java" /\ JavaNext /\ UNCHANGED <<part, vars>>

PartSpec == PartInit /\ [][PartNext]_partVars

PartFairSpec ==
    /\ PartSpec
    /\ \A r \in Requests : WF_vars(part = "broker" /\ Serve(r))
    /\ WF_javaVars(part = "java" /\ Internal)

(* Requests that have not arrived are alike: safety runs may swap them,    *)
(* with their creators and customers.                                      *)
Symmetry == Permutations(Requests) \cup Permutations(Creators) \cup Permutations(Customers)

(* A broker that gifts are fetched beside, and a signer of the process'    *)
(* own, whose room has to answer.                                          *)
BrokerAndEmbedded ==
    {[confirm |-> FALSE, gifts |-> TRUE], [confirm |-> TRUE, gifts |-> FALSE]}
================================================================================
