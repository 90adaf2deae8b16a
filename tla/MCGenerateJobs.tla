-------------------------- MODULE MCGenerateJobs ---------------------------
(* GenerateJobs on small instances for TLC.                                 *)
EXTENDS GenerateJobsProps

CONSTANTS r1, r2, r3, t1, t2, p1, p2

\* r3 is of another tenant, and r1 is served by another process.
TwoTenants == [r \in Requests |-> IF r = r3 THEN t2 ELSE t1]
TwoProcs == [r \in Requests |-> IF r = r1 THEN p1 ELSE p2]
OneTenant == [r \in Requests |-> t1]

NoQuota == [t \in Tenants |-> 0]
\* Bounds of the run: at most one count of a full queue fails, and RQ forgets at
\* most one failed job.
MCBounds == Cardinality(blind) <= 1 /\ Cardinality(forgotten) <= 1

WorkersAlike == Permutations(Workers)

QuotaTwo == [t \in Tenants |-> 2]
=============================================================================
