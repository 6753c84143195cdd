---------------------------- MODULE MCLifecycle ----------------------------
(* Instance of Lifecycle for TLC: two start() calls and one other ESME. *)
EXTENDS Lifecycle

MCStrangers == {9}
=============================================================================
