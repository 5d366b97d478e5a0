----------------------------- MODULE MCSimulator -----------------------------
(* Simulator on small instances. *)
EXTENDS Simulator, TLC

\* The keys are only told apart.
SimulatorSymmetry == Permutations(Keys)
=============================================================================
