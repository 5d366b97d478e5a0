--------------------------- MODULE MCPolicyObserver ---------------------------
(* PolicyObserver on small instances. *)
EXTENDS PolicyObserver, PolicyInstances
=============================================================================
