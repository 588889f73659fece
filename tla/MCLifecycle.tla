---------------------------- MODULE MCLifecycle ----------------------------
(* Two tries of each kind, and faults enough for all of them to fail. *)
EXTENDS Lifecycle
=============================================================================
