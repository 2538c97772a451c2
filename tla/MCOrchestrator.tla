--------------------------- MODULE MCOrchestrator ---------------------------
(***************************************************************************)
(* Instances of Orchestrator for TLC. The state space is finite as it      *)
(* stands: the only bound is that each kind of failure happens at most     *)
(* once, so a run meets up to four failures.                               *)
(***************************************************************************)
EXTENDS OrchestratorRefinement

EveryFault == {"refused", "lost", "delete", "io"}
NoFault    == {}
RefusedOnly == {"refused"}
DeleteOnly  == {"delete"}
=============================================================================
