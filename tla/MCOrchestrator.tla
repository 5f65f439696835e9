--------------------------- MODULE MCOrchestrator ---------------------------
(***************************************************************************)
(* Orchestrator on all 543 dependency relations over four steps, with the  *)
(* last step's agent type unknown to the dispatcher in one configuration.  *)
(***************************************************************************)
EXTENDS Orchestrator

AllRoutable == Steps
LastUnroutable == Steps \ {N}
=============================================================================
