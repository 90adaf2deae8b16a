-------------------------- MODULE DeployQueueProps --------------------------
(***************************************************************************)
(* What the deploy queue promises, and what the repository says of it.     *)
(***************************************************************************)
EXTENDS DeployQueue

TypeOK ==
  /\ request \in [Jobs -> {"idle", "counted", "done", "refused"}]
  /\ status \in [Jobs -> RowStatus]
  /\ node \in [Jobs -> Workers \cup {NoNode}]
  /\ attempts \in [Jobs -> 0 .. MaxAttempts + 1]
  /\ sealed \in [Jobs -> BOOLEAN]
  /\ stale \subseteq Jobs
  /\ pc \in [Workers -> PC]
  /\ job \in [Workers -> Jobs \cup {NoJob}]
  /\ token \in [Workers -> BOOLEAN]
  /\ lastTry \in [Workers -> BOOLEAN]
  /\ tracked \in [Workers -> SUBSET Jobs]
  /\ orphans \in [Workers -> SUBSET Jobs]
  /\ exited \in [Workers -> SUBSET Jobs]
  /\ disputed \subseteq Jobs

-----------------------------------------------------------------------------
(* Whatever the workers do, zombies included.                                *)

\* mark_running() and mark_failed() "reduce secret retention": a settled row
\* holds no sealed token, also after a zombie settled it a second time.
SettledDropsToken ==
  \A j \in Jobs : status[j] \in Settled => ~sealed[j]

\* A job is given up only when max_attempts claims have been made, however old
\* the attempts mark_failed() read are when it writes.
FailedOnlyExhausted ==
  \A j \in Jobs : status[j] = "failed" => attempts[j] >= MaxAttempts

-----------------------------------------------------------------------------
(* What a slow build or a lost answer can spoil, it spoils for its own job:  *)
(* each property is about the jobs that are not disputed.                    *)

Undisputed == Jobs \ disputed

\* Two live workers never work on the same job, and the row of a held job is
\* claimed or building and names its holder.  A reclaim takes a job from a live
\* worker, and a write hits another worker's row, only where the stale timeout
\* passed in a worker's hands or a committed write was reported lost before.
OneHolder ==
  \A w \in Workers : job[w] \in Undisputed =>
    /\ \A v \in Workers : job[v] = job[w] => v = w
    /\ status[job[w]] \in InHand /\ node[job[w]] = w

\* can_accept was tested before the claim: when the job starts to run the node
\* still has room for it, so no node runs more undisputed rows than its slots.
NodeWithinCapacity ==
  \A w \in Workers : Cardinality(RunningOn(w) \ disputed) <= MaxBots

\* The node the row names has a container for the job, or the last one it had
\* ended by itself.
HasContainer(j) ==
  status[j] = "running" =>
    \E w \in Workers : node[j] = w /\ j \in tracked[w] \cup orphans[w] \cup exited[w]

\* A row says "running" only if a container was started for it on the node it
\* names, and no worker, crash or restart took that container away since.
RunningHasContainer == \A j \in Undisputed : HasContainer(j)

\* The job still has its token while it is open.
KeepsToken(j) == status[j] \in Open => sealed[j]

\* A job that waits or is being worked on can still be deployed: its token is
\* dropped with the last write to its row, never before.
OpenKeepsToken == \A j \in Undisputed : KeepsToken(j)

\* enqueue()'s cap is exceeded by at most the other enqueue() calls that were
\* between COUNT and INSERT at the same time, and by the jobs that were settled
\* and came back.
QueueOvershoot ==
  \A u \in Users :
    Cardinality(OpenOf(u) \ disputed) + Cardinality(CountedOf(u)) <= MaxQueued + Enqueuers - 1

\* The step leaves the job settled if it was.
StaysSettled(j) == status[j] \in Settled => status'[j] = status[j]

\* A settled job stays as it is.
SettledIsFinal == [][\A j \in Undisputed : j \in disputed' \/ StaysSettled(j)]_vars

\* The queue implements JobBoard: what a reader of the table and of the
\* workers' hands sees is a board from which one worker at a time takes a job.
Phase(s) ==
  CASE s = "none" -> "absent"
    [] s = "queued" -> "waiting"
    [] s \in InHand -> "taken"
    [] OTHER -> s

Board == INSTANCE JobBoard WITH
  Nobody <- NoJob,
  phase <- [j \in Jobs |-> Phase(status[j])],
  hand <- job,
  takes <- attempts

ImplementsJobBoard == Board!Spec

-----------------------------------------------------------------------------
(* The inductive invariant behind the properties above.                      *)

\* A worker has a job object exactly while it is inside the claimed part of
\* process_one(), and there is no row before enqueue() has inserted it.
LocalsInv ==
  /\ \A w \in Workers : job[w] \in Jobs <=> pc[w] \in Holding
  /\ \A w \in Workers : job[w] \in Jobs => status[job[w]] # "none"
  /\ \A j \in Jobs : request[j] # "done" => status[j] = "none"

\* mark_failed() decided "for good" only on attempts that have been made.
ExhaustedInv ==
  \A w \in Workers : lastTry[w] =>
    job[w] \in Jobs /\ attempts[job[w]] >= MaxAttempts

\* The row of a held job is its holder's, and claim_next() cannot reclaim it.
Owned(j) ==
  j \in disputed \/ \A w \in Workers : job[w] = j =>
    status[j] \in InHand /\ node[j] = w /\ j \notin stale

OwnershipInv == \A j \in Jobs : Owned(j)

\* The worker about to queue the job again has read attempts that still count:
\* nobody claims the job between mark_failed()'s read and its write.
TriesLeft(j) ==
  j \in disputed \/ \A w \in Workers :
    job[w] = j /\ pc[w] \in GivingUp /\ ~lastTry[w] => attempts[j] < MaxAttempts

RetryInv == \A j \in Jobs : TriesLeft(j)

\* The slot a worker saw free is still free when its job starts to run.
SlotInv ==
  \A w \in Workers :
    /\ Cardinality(RunningOn(w) \ disputed) <= MaxBots
    /\ pc[w] \in Holding \cup {"ready"} => Cardinality(RunningOn(w) \ disputed) < MaxBots

\* The container of a deployment about to be recorded was started.
Contained(j) ==
  j \in disputed \/
    /\ \A w \in Workers : job[w] = j /\ pc[w] = "deployed" => j \in tracked[w] \cup exited[w]
    /\ HasContainer(j)

ContainerInv == \A j \in Jobs : Contained(j)

\* What is inductive for every job, and what only for the undisputed ones.
ZombieInv == TypeOK /\ LocalsInv /\ ExhaustedInv /\ SettledDropsToken /\ FailedOnlyExhausted
IInv == ZombieInv /\ OwnershipInv /\ RetryInv /\ OpenKeepsToken /\ SlotInv /\ ContainerInv

-----------------------------------------------------------------------------
(* Liveness, once the faults stop.                                           *)

\* From some point on nothing fails and no build outlasts the stale timeout (a
\* claim that finds nothing changes as little as one whose call raises).
Quiet ==
  <>[][/\ \A w \in Workers : Fault(w) => ClaimNothing(w)
       /\ \A j \in Jobs : Age(j) => ~Held(j)]_vars

AllFull == \A w \in Workers : Cardinality(RunningOn(w)) >= MaxBots

\* Every enqueued job is settled, unless every node has filled up: neither a
\* crash in mid-build nor an exception leaves a row nobody will take again.
EveryJobSettles ==
  Quiet => \A j \in Jobs :
    (request[j] = "done") ~> (status[j] \in Settled \/ AllFull)

=============================================================================
