---------------------------- MODULE MCPolicyEngine ----------------------------
(* PolicyEngine on small instances. *)
EXTENDS PolicyEngine, PolicyInstances
=============================================================================
