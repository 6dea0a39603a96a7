---------------------------- MODULE MCLifecycle ----------------------------
(* Lifecycle with a few managers that come and go. *)
EXTENDS Lifecycle
=============================================================================
