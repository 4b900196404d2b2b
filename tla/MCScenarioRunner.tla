-------------------------- MODULE MCScenarioRunner --------------------------
(* Instances of ScenarioRunner for TLC.  The searches of all runs begin at  *)
(* the same port, where they get into each other's way most.               *)
EXTENDS ScenarioRunner

SamePort == [r \in 1 .. N |-> 1]
=============================================================================
