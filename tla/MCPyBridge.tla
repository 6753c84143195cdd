---------------------------- MODULE MCPyBridge ----------------------------
(* Instances of PyBridge for TLC. *)
EXTENDS PyBridge, TLC

CONSTANTS c1, s1, d1

MCClientOf == s1 :> c1 @@ d1 :> c1
=============================================================================
