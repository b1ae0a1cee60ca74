---------------------------- MODULE MCSigningQueue ----------------------------
(***************************************************************************)
(* The embedded signer and the loader of the bundle that the Node client's *)
(* signer runs, on small instances. They share no state; a behaviour       *)
(* belongs to the one part that it names.                                  *)
(***************************************************************************)
EXTENDS SigningQueue, BundleLoader

VARIABLE part

partVars == <<part, vars, loaderVars>>

PartInit == part \in {"queue", "loader"} /\ Init /\ LoaderInit

PartNext ==
    \/ part = "queue" /\ Next /\ UNCHANGED <<part, loaderVars>>
    \/ part = "loader" /\ LoaderNext /\ UNCHANGED <<part, vars>>

PartSpec ==
    /\ PartInit /\ [][PartNext]_partVars
    /\ part = "queue" =>
         /\ WF_vars(Worker) /\ WF_vars(Drop)
         /\ \A r \in Requests : WF_vars(Receive(r))
    /\ part = "loader" => LoaderFairness
================================================================================
