----------------------------- MODULE MCNativeClient -----------------------------
(* NativeClient on small instances: see MCNativeClient*.cfg. *)
EXTENDS NativeClient
================================================================================
