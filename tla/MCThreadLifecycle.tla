-------------------------- MODULE MCThreadLifecycle --------------------------
(* Instances of ThreadLifecycle for TLC.                                   *)
EXTENDS ThreadLifecycle
=============================================================================
