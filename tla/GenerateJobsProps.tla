------------------------- MODULE GenerateJobsProps -------------------------
(* What the generation path promises: its caps, its accounting of quota and  *)
(* of queue slots, and what becomes of an accepted job.                      *)
EXTENDS GenerateJobs

ReservedBy(t) == {r \in Requests : TenantOf[r] = t /\ pc[r] \notin {"new", "over_quota"}}
OpenJobs(t) == {r \in Requests : TenantOf[r] = t /\ status[r] \in Unfinished}
LockHolders == {r \in Requests : pc[r] \in Locked}

\* Every variable holds a value of its type; a worker has a job unless idle.
TypeOK ==
  /\ used \in [Tenants -> Nat]
  /\ pc \in [Requests -> {"new"} \cup InFlight \cup Answered]
  /\ status \in [Requests -> {"none"} \cup Unfinished \cup TERMINAL]
  /\ active \subseteq Requests
  /\ recent \in [Tenants -> Seq(Requests)]
  /\ rq \in Seq(Requests)
  /\ blind \subseteq Requests /\ failedJobs \subseteq Requests /\ forgotten \subseteq Requests
  /\ wpc \in [Workers -> Busy \cup {"idle"}]
  /\ wjob \in [Workers -> Requests \cup {NoJob}]
  /\ \A w \in Workers : wpc[w] = "idle" <=> wjob[w] = NoJob

\* A job runs at most once: it is in the RQ list at most once, not while a
\* worker has it, never with two workers, and not again once RQ or the store
\* has its outcome.
RunsOnce ==
  /\ IsInjective(rq)
  /\ \A r \in Range(rq) : ~Held(r) /\ r \notin GaveUp /\ status[r] \in {"none", "queued"}
  /\ \A v, w \in Workers : wjob[v] = wjob[w] /\ v # w => wjob[v] = NoJob

\* The month's counter is the number of requests that reserved a unit, however
\* they ended (nothing is given back), and never passes the plan's quota.
UsageIsReservations ==
  \A t \in Tenants :
    /\ used[t] = Cardinality(ReservedBy(t))
    /\ Quota[t] > 0 => used[t] <= Quota[t]

\* The global count misses no queued or running job.
OpenIsActive == \A r \in Requests : status[r] \in Unfinished => r \in active

\* A finished job keeps its slot only while its worker is between the two
\* writes of update(), or because that worker died there.
SlotLeaksOnlyByFailure ==
  \A r \in active : status[r] \in TERMINAL => Held(r) \/ r \in GaveUp

\* The active set, which the global cap counts, has every queued or running job
\* and no finished one that a failure did not leave there.  (An id whose record
\* has expired may stay in it for good.)
SlotsFollowJobs == OpenIsActive /\ SlotLeaksOnlyByFailure

\* The lock is per process, so as many jobs as there are processes beside the
\* first can pass the global cap, and no more: any further one in the active set
\* was let in by a count that had failed while the set was full.
GlobalOvershoot ==
  Cardinality(active \ blind) + Cardinality(LockHolders \ blind)
    < MaxGlobal + Cardinality(Procs)

\* A job whose client was told "queued" and that has no outcome yet is in one of
\* the three places from which somebody can still take it (RQ's list, the hands
\* of a worker, RQ's failed registry), unless RQ recorded its failure and that
\* record has expired: only then does the store alone have it.
AcceptedIsSomewhere ==
  \A r \in Requests :
    pc[r] = "accepted" /\ status[r] \in Unfinished =>
      r \in Range(rq) \/ Held(r) \/ r \in failedJobs \/ r \in forgotten

\* A client that has read "failed" never reads another status of the job, and
\* "succeeded" turns into "failed" only by the worker that had stored it.
FinalOnlyWorsens ==
  [][\A r \in Requests :
       status[r] \in TERMINAL /\ status'[r] \notin {status[r], "none"} =>
         status[r] = "succeeded" /\ status'[r] = "failed" /\ Held(r)]_vars

\* Every accepted job comes to an end: a final status, an expired hash, or RQ's
\* failed registry, which only RQ's own tools look at and which forgets it after
\* a day.
AcceptedSettles ==
  \A r \in Requests :
    pc[r] = "accepted" ~> status[r] \in TERMINAL \cup {"none"} \/ r \in GaveUp

=============================================================================
