--------------------------- MODULE MCOrchestrator ---------------------------
(* Instances of the orchestrator for TLC.                                   *)
EXTENDS OrchestratorProps

CONSTANTS r1, r2, r3, u1

\* r1 and r2 are requests of one user; r3 is anonymous.
MCUserOf == [r \in Runs |-> IF r = r3 THEN Anonymous ELSE u1]
=============================================================================
