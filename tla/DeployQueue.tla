---------------------------- MODULE DeployQueue ----------------------------
(***************************************************************************)
(* The commercial hosting fleet: API processes put deploy jobs in one      *)
(* Postgres table (services/hosting/pg_deploy_queue.py), worker nodes      *)
(* claim them, build and start a container for each, and record how it     *)
(* went (services/hosting/worker.py).  Every database call is its own      *)
(* transaction and so its own action; whatever can happen between two of   *)
(* them - another worker's call, a crash, the passing of the stale-job     *)
(* timeout - happens between two actions here.                             *)
(*                                                                         *)
(* A job is known before its row exists: request[j] is the enqueue() call  *)
(* that creates it.  Job numbers are the created_at order.                 *)
(***************************************************************************)
EXTENDS Naturals, FiniteSets

CONSTANTS
  Jobs,          \* job ids, numbered in created_at order
  Users,         \* tenants
  UserOf,        \* [Jobs -> Users], the user_id of each job
  Workers,       \* worker nodes: one worker process, one node_id each
  NoNode,        \* the empty node_id
  NoJob,         \* no job object in a worker's process_one()
  MaxQueued,     \* TBE_MAX_QUEUED_PER_USER
  MaxAttempts,   \* tbe_deploy_jobs.max_attempts
  MaxBots,       \* free slots of an empty node (NodeCapacity.free_slots)
  Enqueuers      \* how many enqueue() calls run at the same time

ASSUME JobsAssumption == Jobs \subseteq Nat /\ IsFiniteSet(Jobs) /\ NoJob \notin Jobs
ASSUME UserOfAssumption == UserOf \in [Jobs -> Users]
ASSUME WorkersAssumption == IsFiniteSet(Workers) /\ NoNode \notin Workers
ASSUME LimitsAssumption ==
  /\ MaxQueued \in Nat /\ MaxAttempts \in Nat /\ MaxBots \in Nat
  /\ Enqueuers \in Nat \ {0}

VARIABLES
  request,   \* enqueue(): "idle", "counted" (COUNT done, INSERT not), "done", "refused"
  status,    \* the row's status column; "none" while there is no row
  node,      \* the row's node_id
  attempts,  \* the row's attempts, exact up to MaxAttempts, then MaxAttempts + 1
  sealed,    \* does the row still hold a sealed_token?
  stale,     \* jobs whose heartbeat_at is older than TBE_JOB_STALE_SECONDS
  pc,        \* where each worker is in process_one()
  job,       \* the job each worker's process_one() works on
  token,     \* did the job object read by claim_next() carry a token?
  lastTry,   \* mark_failed() read attempts >= max_attempts
  tracked,   \* per node: jobs with a live container listed in the driver's _RUNNING
  orphans,   \* per node: jobs with a live container _RUNNING does not list
  exited,    \* history, per node: jobs whose last container ended by itself
  disputed   \* history: jobs that went stale in a live worker's hands, or were
             \* written by a worker that was told the write had failed

row == <<status, node, attempts, sealed, stale, disputed>>
proc == <<pc, job, token, lastTry>>
docker == <<tracked, orphans, exited>>
vars == <<request, row, proc, docker>>

RowStatus == {"none", "queued", "claimed", "building", "running", "failed"}
\* Mutated: running rows count as in hand.
InHandRunning == {"claimed", "building", "running"}
InHand == {"claimed", "building"}           \* the statuses claim_next() reclaims
Open == InHand \cup {"queued"}              \* the statuses enqueue() counts
Settled == {"running", "failed"}

\* mark_failed() inside process_one()'s try, between its read and its write ...
Trying == {"failing", "giving_up"}
\* ... and outside it: in the except clause, or before the try for want of a token.
Excepting == {"caught", "closing"}
GivingUp == {"giving_up", "closing"}

\* Between the commit of claim_next() and the return of process_one() a worker
\* has a job in its hands.
Holding == {"claimed", "read", "marked", "building", "deploying", "deployed"}
             \cup Trying \cup Excepting
PC == Holding \cup {"down", "idle", "ready"}

Up(w) == pc[w] # "down"
Held(j) == \E w \in Workers : job[w] = j

RunningOn(w) == {j \in Jobs : status[j] = "running" /\ node[j] = w}
OpenOf(u) == {j \in Jobs : UserOf[j] = u /\ status[j] \in Open}
CountedOf(u) == {j \in Jobs : UserOf[j] = u /\ request[j] = "counted"}
Counted == {j \in Jobs : request[j] = "counted"}

Init ==
  /\ request = [j \in Jobs |-> "idle"]
  /\ status = [j \in Jobs |-> "none"]
  /\ node = [j \in Jobs |-> NoNode]
  /\ attempts = [j \in Jobs |-> 0]
  /\ sealed = [j \in Jobs |-> FALSE]
  /\ stale = {}
  /\ pc = [w \in Workers |-> "idle"]
  /\ job = [w \in Workers |-> NoJob]
  /\ token = [w \in Workers |-> FALSE]
  /\ lastTry = [w \in Workers |-> FALSE]
  /\ tracked = [w \in Workers |-> {}]
  /\ orphans = [w \in Workers |-> {}]
  /\ exited = [w \in Workers |-> {}]
  /\ disputed = {}

\* process_one() returns, by return or by an exception: its locals are gone.
Leave(w, where) ==
  /\ pc' = [pc EXCEPT ![w] = where]
  /\ job' = [job EXCEPT ![w] = NoJob]
  /\ token' = [token EXCEPT ![w] = FALSE]
  /\ lastTry' = [lastTry EXCEPT ![w] = FALSE]

-----------------------------------------------------------------------------
(* enqueue(): a COUNT and an INSERT in one READ COMMITTED transaction, so    *)
(* the count may be stale when the row becomes visible.                      *)

\* Mutated: an off-by-one in the cap.
CountQueuedOneMore(j) ==
  /\ request[j] = "idle"
  /\ Cardinality(Counted) < Enqueuers
  /\ request' = [request EXCEPT ![j] =
       IF Cardinality(OpenOf(UserOf[j])) > MaxQueued THEN "refused" ELSE "counted"]
  /\ UNCHANGED <<row, proc, docker>>

CountQueued(j) ==
  /\ request[j] = "idle"
  /\ Cardinality(Counted) < Enqueuers
  /\ request' = [request EXCEPT ![j] =
       IF Cardinality(OpenOf(UserOf[j])) >= MaxQueued THEN "refused" ELSE "counted"]
  /\ UNCHANGED <<row, proc, docker>>

InsertJob(j) ==
  /\ request[j] = "counted"
  /\ request' = [request EXCEPT ![j] = "done"]
  /\ status' = [status EXCEPT ![j] = "queued"]
  /\ sealed' = [sealed EXCEPT ![j] = TRUE]
  /\ UNCHANGED <<node, attempts, stale, disputed, proc, docker>>

\* The API process dies or loses the database before the commit.
EnqueueLost(j) ==
  /\ request[j] = "counted"
  /\ request' = [request EXCEPT ![j] = "refused"]
  /\ UNCHANGED <<row, proc, docker>>

-----------------------------------------------------------------------------
(* process_one() up to the claim.                                            *)

\* Mutated: a node accepts a job when it is exactly full.
CheckCapacityFull(w) ==
  /\ pc[w] = "idle"
  /\ Cardinality(RunningOn(w)) <= MaxBots
  /\ pc' = [pc EXCEPT ![w] = "ready"]
  /\ UNCHANGED <<request, row, job, token, lastTry, docker>>

\* count_running_on_node() and the can_accept test; a full node stays idle.
CheckCapacity(w) ==
  /\ pc[w] = "idle"
  /\ Cardinality(RunningOn(w)) < MaxBots
  /\ pc' = [pc EXCEPT ![w] = "ready"]
  /\ UNCHANGED <<request, row, job, token, lastTry, docker>>

\* Mutated: the heartbeat_at test dropped.
ReclaimedAtOnce == {j \in Jobs : status[j] \in InHand}
\* Mutated: no reclaim, as in the SQLite queue.
ReclaimedNever == {}
Reclaimed == {j \in stale : status[j] \in InHand}
Claimable == {j \in Jobs : status[j] = "queued"} \cup Reclaimed

\* ORDER BY created_at ... FOR UPDATE SKIP LOCKED: the oldest queued row, but
\* each other worker inside claim_next() may have one older row locked.
Oldest(j, w) ==
  Cardinality({i \in Claimable : i < j})
    <= Cardinality({v \in Workers \ {w} : pc[v] = "ready"})

ClaimNext(w) ==
  /\ pc[w] = "ready"
  /\ \E j \in Claimable :
       /\ Oldest(j, w)
       /\ status' = [i \in Jobs |-> IF i = j THEN "claimed"
                                    ELSE IF i \in Reclaimed THEN "queued" ELSE status[i]]
       /\ node' = [i \in Jobs |-> IF i = j THEN w
                                  ELSE IF i \in Reclaimed THEN NoNode ELSE node[i]]
       /\ attempts' = [attempts EXCEPT ![j] =
                         IF attempts[j] > MaxAttempts THEN @ ELSE @ + 1]
       /\ stale' = stale \ {j}
       /\ job' = [job EXCEPT ![w] = j]
  /\ pc' = [pc EXCEPT ![w] = "claimed"]
  /\ UNCHANGED <<request, sealed, disputed, token, lastTry, docker>>

ClaimNothing(w) ==
  /\ pc[w] = "ready"
  /\ Claimable = {}
  /\ pc' = [pc EXCEPT ![w] = "idle"]
  /\ UNCHANGED <<request, row, job, token, lastTry, docker>>

-----------------------------------------------------------------------------
(* process_one() with a job in its hands.  Writes go to the row by job_id    *)
(* alone: nothing asks whether the row is still this worker's.               *)

\* claim_next() ends with get(): the job object every later step uses.
ReadJob(w) ==
  /\ pc[w] = "claimed"
  /\ token' = [token EXCEPT ![w] = sealed[job[w]]]
  /\ pc' = [pc EXCEPT ![w] = "read"]
  /\ UNCHANGED <<request, row, job, lastTry, docker>>

MarkBuilding(w) ==
  /\ pc[w] = "read"
  /\ status' = [status EXCEPT ![job[w]] = "building"]
  /\ pc' = [pc EXCEPT ![w] = "marked"]
  /\ UNCHANGED <<request, node, attempts, sealed, stale, disputed, job, token, lastTry, docker>>

\* heartbeat(job_id), then unseal_token(): an empty token ends in mark_failed().
Heartbeat(w) ==
  /\ pc[w] = "marked"
  /\ stale' = stale \ {job[w]}
  /\ pc' = [pc EXCEPT ![w] = IF token[w] THEN "building" ELSE "caught"]
  /\ UNCHANGED <<request, status, node, attempts, sealed, disputed, job, token, lastTry, docker>>

\* No artifact, no docker: mark_failed().  A failed download, a rejected zip or
\* any other exception: mark_failed() from the except clause.
PrepareFails(w) ==
  /\ pc[w] = "building"
  /\ \E next \in {"failing", "caught"} : pc' = [pc EXCEPT ![w] = next]
  /\ UNCHANGED <<request, row, job, token, lastTry, docker>>

\* driver.deploy() first stops what _RUNNING lists for the project path; the
\* clean-up by label finds nothing, as docker run sets no tbe.project label.
StopByProject(w) ==
  /\ pc[w] = "building"
  /\ tracked' = [tracked EXCEPT ![w] = @ \ {job[w]}]
  /\ exited' = [exited EXCEPT ![w] = @ \ {job[w]}]
  /\ pc' = [pc EXCEPT ![w] = "deploying"]
  /\ UNCHANGED <<request, row, job, token, lastTry, orphans>>

DeploySucceeds(w) ==
  /\ pc[w] = "deploying"
  /\ tracked' = [tracked EXCEPT ![w] = @ \cup {job[w]}]
  /\ pc' = [pc EXCEPT ![w] = "deployed"]
  /\ UNCHANGED <<request, row, job, token, lastTry, orphans, exited>>

\* Mutated: the deployment status is not looked at.
DeployFailsUnseen(w) ==
  /\ pc[w] = "deploying"
  /\ pc' = [pc EXCEPT ![w] = "deployed"]
  /\ UNCHANGED <<request, row, job, token, lastTry, docker>>

\* The image build or docker run fails, or deploy() raises, and no container is left.
DeployFails(w) ==
  /\ pc[w] = "deploying"
  /\ \E next \in {"failing", "caught"} : pc' = [pc EXCEPT ![w] = next]
  /\ UNCHANGED <<request, row, job, token, lastTry, docker>>

\* "docker run timed out" is reported although the daemon started the container.
DeployTimesOut(w) ==
  /\ pc[w] = "deploying"
  /\ orphans' = [orphans EXCEPT ![w] = @ \cup {job[w]}]
  /\ pc' = [pc EXCEPT ![w] = "failing"]
  /\ UNCHANGED <<request, row, job, token, lastTry, tracked, exited>>

\* Mutated: sealed_token="" forgotten.
WriteRunningKeepsToken(w) ==
  /\ status' = [status EXCEPT ![job[w]] = "running"]
  /\ stale' = stale \ {job[w]}
  /\ UNCHANGED <<node, attempts, sealed>>

\* mark_running(): one UPDATE by job_id.
WriteRunning(w) ==
  /\ status' = [status EXCEPT ![job[w]] = "running"]
  /\ sealed' = [sealed EXCEPT ![job[w]] = FALSE]
  /\ stale' = stale \ {job[w]}
  /\ UNCHANGED <<node, attempts>>

MarkRunning(w) ==
  /\ pc[w] = "deployed"
  /\ WriteRunning(w)
  /\ Leave(w, "idle")
  /\ UNCHANGED <<request, disputed, docker>>

\* Mutated: the attempt that just failed is counted twice.
ReadAttemptsEarly(w) ==
  /\ pc[w] \in {"failing", "caught"}
  /\ lastTry' = [lastTry EXCEPT ![w] = attempts[job[w]] + 1 >= MaxAttempts]
  /\ pc' = [pc EXCEPT ![w] = IF pc[w] = "failing" THEN "giving_up" ELSE "closing"]
  /\ UNCHANGED <<request, row, job, token, docker>>

\* mark_failed(): get() ...
ReadAttempts(w) ==
  /\ pc[w] \in {"failing", "caught"}
  /\ lastTry' = [lastTry EXCEPT ![w] = attempts[job[w]] >= MaxAttempts]
  /\ pc' = [pc EXCEPT ![w] = IF pc[w] = "failing" THEN "giving_up" ELSE "closing"]
  /\ UNCHANGED <<request, row, job, token, docker>>

\* Mutated: the token is dropped when the job is queued again, too.
WriteFailedDropsToken(w) ==
  /\ status' = [status EXCEPT ![job[w]] = IF lastTry[w] THEN "failed" ELSE "queued"]
  /\ sealed' = [sealed EXCEPT ![job[w]] = FALSE]
  /\ node' = [node EXCEPT ![job[w]] = IF lastTry[w] THEN @ ELSE NoNode]
  /\ UNCHANGED <<attempts, stale>>

\* Mutated: a job given up is marked with a status no reader knows.
WriteFailedCancels(w) ==
  /\ status' = [status EXCEPT ![job[w]] = IF lastTry[w] THEN "cancelled" ELSE "queued"]
  /\ sealed' = [sealed EXCEPT ![job[w]] = @ /\ ~lastTry[w]]
  /\ node' = [node EXCEPT ![job[w]] = IF lastTry[w] THEN @ ELSE NoNode]
  /\ UNCHANGED <<attempts, stale>>

\* ... then update(), which keeps node_id when it fails the job for good and
\* keeps the token when it queues the job again.
WriteFailed(w) ==
  /\ IF lastTry[w]
       THEN /\ status' = [status EXCEPT ![job[w]] = "failed"]
            /\ sealed' = [sealed EXCEPT ![job[w]] = FALSE]
            /\ UNCHANGED node
       ELSE /\ status' = [status EXCEPT ![job[w]] = "queued"]
            /\ node' = [node EXCEPT ![job[w]] = NoNode]
            /\ UNCHANGED sealed
  /\ UNCHANGED <<attempts, stale>>

MarkFailed(w) ==
  /\ pc[w] \in GivingUp
  /\ WriteFailed(w)
  /\ Leave(w, "idle")
  /\ UNCHANGED <<request, disputed, docker>>

-----------------------------------------------------------------------------
(* Faults and time.                                                          *)

\* A database call raises outside process_one()'s try, or inside its except
\* clause: run_forever() logs it and goes on.  Where the call had committed, the
\* row is as if the worker had gone on one step and then lost the next call.
CallRaises(w) ==
  /\ pc[w] \in {"ready", "claimed", "read", "marked"} \cup Excepting
  /\ Leave(w, "idle")
  /\ UNCHANGED <<request, row, docker>>

\* The heartbeat has its effect, and it or unseal_token() raises.
HeartbeatUnheard(w) ==
  /\ pc[w] = "marked"
  /\ stale' = stale \ {job[w]}
  /\ Leave(w, "idle")
  /\ UNCHANGED <<request, status, node, attempts, sealed, disputed, docker>>

\* mark_running() or the mark_failed() inside the try raises without effect: the
\* except clause calls mark_failed() (once more).
RaisesInTry(w) ==
  /\ pc[w] \in {"deployed"} \cup Trying
  /\ pc' = [pc EXCEPT ![w] = "caught"]
  /\ UNCHANGED <<request, row, job, token, lastTry, docker>>

\* It commits and the answer is lost: the except clause does the same, about a
\* row that is settled, or that any worker may have claimed by then.
UnheardInTry(w) ==
  /\ \/ pc[w] = "deployed" /\ WriteRunning(w)
     \/ pc[w] = "giving_up" /\ WriteFailed(w)
  /\ pc' = [pc EXCEPT ![w] = "caught"]
  /\ disputed' = disputed \cup {job[w]}
  /\ UNCHANGED <<request, job, token, lastTry, docker>>

\* docker run sets no restart policy: a bot that ends leaves its row running.
ContainerExits(w) ==
  \E j \in tracked[w] \cup orphans[w] :
    /\ exited' = [exited EXCEPT ![w] = @ \cup {j}]
    /\ \/ /\ j \in tracked[w]
          /\ tracked' = [tracked EXCEPT ![w] = @ \ {j}]
          /\ UNCHANGED orphans
       \/ /\ j \in orphans[w]
          /\ orphans' = [orphans EXCEPT ![w] = @ \ {j}]
          /\ UNCHANGED tracked
    /\ UNCHANGED <<request, row, proc>>

\* The worker process dies; its containers outlive it and leave _RUNNING.
Crash(w) ==
  /\ Up(w)
  /\ Leave(w, "down")
  /\ orphans' = [orphans EXCEPT ![w] = @ \cup tracked[w]]
  /\ tracked' = [tracked EXCEPT ![w] = {}]
  /\ UNCHANGED <<request, row, exited>>

Restart(w) ==
  /\ pc[w] = "down"
  /\ pc' = [pc EXCEPT ![w] = "idle"]
  /\ UNCHANGED <<request, row, job, token, lastTry, docker>>

\* TBE_JOB_STALE_SECONDS pass since the row's heartbeat_at, in nobody's hands or
\* in those of a worker whose build is slow.
Age(j) ==
  /\ status[j] \in InHand
  /\ j \notin stale
  /\ stale' = stale \cup {j}
  /\ disputed' = IF Held(j) THEN disputed \cup {j} ELSE disputed
  /\ UNCHANGED <<request, status, node, attempts, sealed, proc, docker>>

-----------------------------------------------------------------------------
Enqueue(j) == CountQueued(j) \/ InsertJob(j) \/ EnqueueLost(j)

ProcessOne(w) ==
  \/ CheckCapacity(w) \/ ClaimNext(w) \/ ClaimNothing(w)
  \/ ReadJob(w) \/ MarkBuilding(w) \/ Heartbeat(w)
  \/ PrepareFails(w) \/ StopByProject(w)
  \/ DeploySucceeds(w) \/ DeployFails(w) \/ DeployTimesOut(w)
  \/ MarkRunning(w) \/ ReadAttempts(w) \/ MarkFailed(w)

Fault(w) ==
  \/ CallRaises(w) \/ HeartbeatUnheard(w) \/ RaisesInTry(w) \/ UnheardInTry(w)
  \/ Crash(w)

Next ==
  \/ \E j \in Jobs : Enqueue(j) \/ Age(j)
  \/ \E w \in Workers : ProcessOne(w) \/ Fault(w) \/ Restart(w) \/ ContainerExits(w)

Spec == Init /\ [][Next]_vars

\* run_forever() never stops polling, a supervisor restarts a dead worker, and
\* the clock moves.  Enqueueing is the users' choice, faults are nobody's duty.
FairSpec ==
  /\ Spec
  /\ \A w \in Workers : WF_vars(ProcessOne(w)) /\ WF_vars(Restart(w))
  /\ \A j \in Jobs : WF_vars(Age(j)) /\ WF_vars(InsertJob(j))
=============================================================================
