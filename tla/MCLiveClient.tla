------------------------------ MODULE MCLiveClient ------------------------------
(* LiveClient on small instances: see MCLiveClient*.cfg. *)
EXTENDS LiveClient
================================================================================
