--------------------------- MODULE MCDeployQueue ---------------------------
(* Instances of DeployQueue for TLC. *)
EXTENDS DeployQueueProps, FiniteSetsExt, TLC

CONSTANTS
  MaxClaims,    \* claims made in all, of the rows whose attempts are still exact
  MaxMishaps    \* disputed jobs, and jobs with a container that left _RUNNING

MCUserOf == [j \in Jobs |-> CHOOSE u \in Users : TRUE]

\* Worker nodes are interchangeable: safety run only.
MCWorkerSymmetry == Permutations(Workers)

\* The bounds of the safety run.
MCBounds ==
  /\ MapThenSumSet(LAMBDA j : attempts[j], Jobs) <= MaxClaims
  /\ Cardinality(UNION {orphans[w] \cup exited[w] : w \in Workers}) + Cardinality(disputed)
       <= MaxMishaps
=============================================================================
