----------------------------- MODULE MCHosting -----------------------------
(* Instances of the hosting service for TLC.                               *)
EXTENDS HostingProps, TLC

CONSTANTS p1, p2, k1, u1

\* Both projects are one user's, who may use a token for both.
MCOwnerOf == [p \in Projects |-> u1]

\* Requests, instances and projects of one owner are interchangeable.
Symmetry == Permutations(Threads) \cup Permutations(Ids) \cup Permutations(Projects)

\* At most one container exits or is missed by its stop.
MCBounds == Cardinality(exited) + Cardinality(missed) <= 1
=============================================================================
