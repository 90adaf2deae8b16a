# Verification of the Maestro bot platform

The repository is a Telegram-bot generation and hosting platform: users describe
a bot in a chat or through a B2B API, engines plan and emit its code, and the
result is run and hosted. About 119K lines of Python, most of which turn text
into text. The parts with behaviour over time, where processes, workers, queues
and leases interact, are the subject of this directory.

Files: one TLA+ module per component, a module of properties beside it, an MC
module and `.cfg` files for TLC, and modules of proofs for TLAPS. `PROJECT.json`
maps every definition to the lines it models.

    tlc -workers 2 -config MCDeployQueue_fleet.cfg MCDeployQueue
    tlapm DeployQueueProofs.tla

## 1. Inventory

### 1.1 Parts with behaviour over time

| Part | Code | State | Operations | What is hard | What makes it correct |
|---|---|---|---|---|---|
| Deploy queue and hosting workers | `services/hosting/pg_deploy_queue.py`, `worker.py` | table `tbe_deploy_jobs`; each worker's call of `process_one()`; the driver's `_RUNNING` and the docker daemon's containers | `enqueue`, `claim_next`, `update`, `heartbeat`, `mark_running`, `mark_failed`, the worker loop | every database call is a transaction of its own; stale reclaim against slow builds; crashes; calls that raise before or after their commit | one live worker per job, a running row has a container, node caps, tokens kept until used and dropped after, every job settles |
| B2B generation jobs and quota | `api/routes/generate.py`, `b2b_platform/{jobs,task_queue,pg_store}.py` | month counter in Postgres; job hashes, active set and per-tenant lists in Redis; RQ list and failed registry | `generate`, `enqueue`, `create`, `update`, `_run` | counts and create under a per-process lock but shared by processes; `update()` is two calls; RQ never retries; hashes expire, sets do not | a job runs at most once, quota never passed, slots accounted for, an accepted job ends |
| Polling singleton | `bot_interface/singleton.py` | lock file, flock, PID text; or one Mongo lease document | `acquire_bot_singleton`, `_break_stale_lock`, `_release`; `_try_acquire_mongo_lock`, its renewer, `_release_mongo` | unlink against open and flock; stale PID reads; rolling deploys; lost leases | at most one poller, and a start that is alone polls |
| Human confirmation and tool gate | `services/multi_agent/{hitl,tools,blackboard}.py` | pending action, grant and status of an `AgentState`; consumed tokens; memory and file boards | `request_confirmation`, `confirm_action`, `reject_action`, `consume_execute_grant`, `execute_tool_gated` | decide, change and mirror in separate steps; files that fail or tear; an answer resolved to another state; restarts that lose the consumed codes | a sensitive tool runs at most once per approval, only by its own code, never after a rejection |
| Orchestration slots and circuit breakers | `services/multi_agent/{concurrency,circuit}.py` | semaphore, per-user counts, breaker state | `orchestration_slot`, `allow`, `record_*` | a lock held across a yield; half-open trials; late results | every way out gives back what it took, limits kept, no caller stuck |
| Multi-agent orchestrator | `services/multi_agent/{orchestrator,state,repair,gates}.py` | `AgentState.status` | run, resume, repair loop | forced transitions; attempts counted in one agent and tested elsewhere; results of earlier attempts | an unmarked success is the last build, accepted by the critic, the repair budget holds, every run ends |
| Hosting service | `services/hosting/{service,state_lock,state_store}.py` | instance registry, its cache, `_RUNNING`, containers | `start`, `stop`, `diagnose` | decisions under the lock, deploy outside it; a cache replaced while others hold its objects; a restart that forgets `_RUNNING` | a stopped bot has no container and stays stopped, no more containers of a project than starts of it overlapped, rows and containers agree |
| Billing | `b2b_platform/{billing,plans,stripe_client}.py` | invoices, plan of a tenant | `start_checkout`, `handle_stripe_event`, `complete_checkout_session` | events late, repeated, out of order | the plan follows the subscription |
| Rate limiter | `b2b_platform/rate_limit.py` | sliding windows in Redis, SQLite, memory | `allow`, `remaining`, `seconds_until_allow` | check and record | at most `limit` hits in a window, in all three |
| SQLite queue, fleet | `services/hosting/{deploy_queue,fleet,capacity}.py` | job rows, worker rows | claim, heartbeat, sweep | no reclaim; a sweep against a heartbeat | no job lost, online means alive |
| Engine manager and pipeline | `manager/`, `pipeline/` | engine life cycle | register, initialise, execute | dependency order | an engine runs after what it depends on |
| Dependency resolver | `engines/generators/dependency_resolver/` | none (pure) | resolve, order, conflicts | algorithms | order respects edges, cycles found |
| Live runner, live deployment | `services/live_runner/`, `engines/generators/live_deployment/` | child processes, containers | start, stop, health | time-outs, orphans | what is reported running runs |

### 1.2 How the parts interact

* The bot and the API call the hosting service. With `TBE_SCALE_MODE` it only
  puts a job into the deploy queue; workers on other nodes claim it, and drive the
  docker driver of the live deployment engine.
* The API's generate route calls the metering store (Postgres), then
  `JobRunner.enqueue`; RQ workers call `execute_stored_job`, which runs the
  generation engines and writes the job's status into Redis, where the client
  polls it.
* Exactly one platform process polls Telegram: before the bot starts it takes the
  Mongo lease if Mongo is configured, else the lock file.
* The orchestrator takes a slot, consults breakers, runs roles, and calls the
  tool gate, which asks a person before a sensitive tool. The run ends parked;
  the person's answer arrives later, in a chat message of its own.

### 1.3 Parts without behaviour over time

Generators, the specification core (`spec_core`, 36K lines), static analysis,
language-model clients, capability detection, repository understanding, schemas,
configuration, message wording. Each call reads text and returns text or files;
no state outlives the call in a way another call could disturb. They are listed,
with the reason, as not modelled in `PROJECT.json`.

## 2. Deploy queue (`DeployQueue`, `DeployQueueProps`, `JobBoard`)

**State.** `status`, `node`, `attempts`, `sealed` are the columns of a row;
`stale` stands for `heartbeat_at` older than `TBE_JOB_STALE_SECONDS`. `request` is
the `enqueue()` call that makes the row. `pc`, `job`, `token` and `lastTry` are a
worker's position in `process_one()` and its locals. `tracked` is the driver's
`_RUNNING`, `orphans` the containers that live without being listed there. `exited`
and `disputed` are history variables, in no guard: containers that ended by
themselves, and the jobs described below.

**Actions.** One per database call or docker call, in the order of the code:
`CheckCapacity`, `ClaimNext` (reclaim, oldest first, SKIP LOCKED), `ReadJob`,
`MarkBuilding`, `Heartbeat`, `PrepareFails`, `StopByProject`, the three outcomes
of the deploy, `MarkRunning`, `ReadAttempts` and `MarkFailed` (the two halves of
`mark_failed()`). `enqueue()` is `CountQueued` and `InsertJob`, since a
COUNT and an INSERT under READ COMMITTED are not one step. `Age` is time.

**Faults.** A worker may crash at every step (`Crash`, its containers survive)
and restart. A call may raise with or without having had its effect. Inside the
`try` the worker goes on to the `except` clause (`RaisesInTry`), and where the
UPDATE was committed and only its answer lost (`UnheardInTry`), that clause writes a
row that is settled or that another worker may have claimed. Outside the `try`
the worker gives the job up (`CallRaises`, `HeartbeatUnheard`). A container may end at any time (`ContainerExits`):
`docker run` sets no restart policy, and nobody tells the row.

**Disputed jobs.** Writes find a row by its id alone, so the code does let two workers
write one row: when the stale timeout (600 s, as long as one image build may take)
passes in a live worker's hands, and when a committed write is reported lost. Both
are steps of the model, unrestricted. `disputed` remembers the jobs it happened to, and the
claims about one holder, the token, the row's container and a settled row being final
are about the other jobs: what these two events spoil, they spoil for that
job, and not for its neighbours, their node or their user's cap. What holds
for disputed jobs too has no such exemption: no token in a settled row, no job
given up early, and the refinement.

**Abstraction.** `JobBoard` is what the platform may assume: a posted job is
taken by one worker at a time, only that worker puts it back or settles it; a worker
that fails puts it back while it has takes left and gives it up when it has none
(`mark_failed()` reads the attempts in one transaction and writes in the next, so
the refinement must know that nobody claims the job in between). A taker may `Dispute`
its job, and then whoever has had it may still write to it (`Rework`), never to
another. What the board promises (`OneHand`, `GivenUpIsExhausted`, `SettledStays`) is
stated in `JobBoard` over the board alone. `ImplementsJobBoard` is the refinement,
with the table's statuses mapped to phases and the worker's local `job` to its hand.

| Run | Instance | What it shows |
|---|---|---|
| `queue_fleet` | 3 jobs of a user, 2 workers, 2 attempts, cap 1, two `enqueue()` calls at a time, every fault | types; one holder per undisputed job, whom the row names; node capacity; a running row's container is taken away by nobody; tokens kept; settled is final; the cap is exceeded by at most the other concurrent calls. Of every job, with a zombie and a holder too: settled rows hold no token, a job is failed only when its attempts are used up; refinement of `JobBoard` |
| `queue_live` | 2 jobs, 1 worker, 2 attempts, cap 1 | once the faults stop every job is settled or every node is full |

Bounds. Two workers are enough for every pairwise conflict over a row or a slot
(`MaxBots = 1` makes a slot contended): a zombie and the new holder of its job, a
holder and one with another job. Three jobs are one disputed and two beside it, and what
a cap of one with two calls at a time can let in and one more. The safety run bounds the
claims made in all (`MaxClaims = 2`: a first and a second claim of one job, or one of
two) and the disputes and lost containers together (`MaxMishaps = 2`: two disputed jobs,
or one and the container it lost). The theorems of section 8 have none of these bounds, and
so cover chains of zombies. Symmetry of the workers is used in the safety run only.
`attempts` is exact up to `MaxAttempts + 1`, as nothing tells larger values apart.

Fairness (`FairSpec`). `run_forever()` never stops calling `process_one()`, a
supervisor restarts a dead worker, the clock moves, and an `enqueue()` that has
counted commits or is lost. Faults are not fair: `EveryJobSettles` assumes that
from some point on there are none and that builds stay within the timeout (`Quiet`),
from whatever rows they left.

**Seen while modelling**, without a run of its own:

* `_stop_by_project()` looks for containers by the label `tbe.project`, which the
  `docker run` command never sets; after a worker's restart the old container keeps
  polling with the same token beside the new one. The model has it so: the
  clean-up removes what `_RUNNING` lists and nothing else.
* The capacity test counts rows, not containers, so orphans come on top of a
  node's hard cap.
* `claim_next()` does not look at `attempts`: a job whose build kills its worker is
  claimed again without end, as `max_attempts` is tested in `mark_failed()` only.
  `JobBoard` lets an abandoned job be taken any number of times.
* A `mark_running()` that commits and raises leaves a job in the queue whose token is
  gone: every later claim ends in `mark_failed()` until its attempts are used up,
  while its bot runs.
* A late `mark_failed()` puts a running job back into the queue, past the cap of its
  user, and takes its row from the count of its node: `QueueOvershoot` and
  `NodeWithinCapacity` do not count disputed jobs.
* The row of a bot that has ended says `running` for good and keeps its slot.

## 3. Generation jobs (`GenerateJobs`, `GenerateJobsProps`)

**State.** `used` is the month's counter; `status`, `active` and `recent` are the
Redis keys; `rq` and `failedJobs` are RQ's; `pc` is a request's position in
`generate()` and `wpc`, `wjob` a worker's in `execute_stored_job()`. A request and
its job share a name.

**Actions.** `Reserve` is the conditional upsert, before the body is read
(`RejectBody`). `CountGlobal` takes the process's lock, `CountTenant` and `Create`
follow under it, `RqEnqueue` after it, with its three outcomes (done, failed, failed
after RQ has the job). A worker's `Fetch`, `Load`, `MarkRunning`/`AddActive`,
`HandlerReturns`/`DropActive`, and the `except` branch `HandlerRaises`/`StoreFailure`.
`update()` is two actions because HSET and SREM/SADD are two calls.

**Faults.** `CountGlobalFails`: `_count_active()` turns an exception of the SCARD into
a count of 0, so a full queue lets the request in; `blind` is the history of those
it let in. `RequestRaises` is any other call before the create. `ApiCrash`, `Abandon` (a worker dies, or a call outside the `try`
raises; RQ records the failure and runs nothing again), `Expire` (the hash's time
to live), `RqForgets` (an entry of the failed registry lives one day, the hash
seven; `forgotten` is where those jobs have gone).

**Abstractions.** Writes of progress and messages only are left out; EXISTS and HSET
of `update()` are one step; the scan of a tenant's list is one step; one
month (the counter starts at zero); rate limiting and body parsing are one refusal;
the development fallbacks (SQLite store, thread pool) are another program.
RQ itself is external: at most one delivery per job, since `enqueue()` asks for no
retry.

| Run | Instance | What it shows |
|---|---|---|
| `jobs_safe` | 3 requests, 2 tenants, 2 processes, 2 workers, global cap 1 | at most one run per job; the active set has every open job, and a finished one only by a failure (`SlotsFollowJobs`); the global cap is exceeded by at most the number of other processes and the requests that failing counts let in; a status read as failed is the last |
| `jobs_live` | 3 requests of one tenant, quota 2 | the counter is the number of reservations and never passes the quota; every accepted job ends in a final status, an expired record, or, for a day, RQ's failed registry |

Bounds. Two processes are the smallest number for which the per-process lock does
not cover the shared counters; two of the three requests share a process, so the lock
matters too. Two workers are enough for a job to be run twice if it could be, and
interchangeable in the safety run, which has at most one blind count and one forgotten
failure (`MCBounds`): both sets are only excluded from what the properties count, and
the theorems of section 8 have no bound. The clients send three requests and no more, so a behaviour may end
(`CHECK_DEADLOCK FALSE`); in every other run deadlock is checked.

Fairness. The event loop serves its requests and RQ's loop its jobs; crashes,
expiry and lost answers are not fair.

**Seen while modelling**

* A job whose worker dies stays `queued` or `running` for good: the failure is in
  RQ's registry, which nothing copies to the job store, while the route tells the
  client to poll until the status is terminal. `AcceptedSettles` names the registry
  as one of the three ends. After a day the registry has forgotten it too, and for
  the six days left the store alone says that it is on its way (`LostOnlyByExpiry`).
* The id of an expired unfinished job stays in the active set, which the global
  cap counts.
* `update(succeeded)` is inside the `try`, so a failing SREM turns a job a client has
  read as succeeded into failed (`FinalOnlyWorsens` says that nothing else can
  happen to a final status).
* A tenant is counted over its 100 newest jobs.
* A unit reserved for a request that is then refused is not given back
  (`UsageIsReservations` says so exactly).

## 4. Polling singleton (`PollLock`, `PollLease`)

`PollLock` is the lock file. `path` is the inode the path leads to, `text` the PID in
each inode, `fh` the inode a process has open and `locked` who holds its flock.
Checking, reading the PID, unlinking, opening, locking, writing the PID, and the
two halves of the exit are each a step. A process may die at every step, and the write
of the PID may fail: the process unlocks, and tries again or, past the deadline, gives up. A process
stands for its PID, so the reuse of a PID by another program is not modelled; nor is
the branch for systems without `fcntl`.

Starts and exits overlap freely. `crossed` is a history variable: a start or an exit
began inside another one and some process has been alive ever since. It has no part
in any guard; `OnePoller` says that crossing is the only way to a second poller.
`NewInode` takes any inode nobody has open, and the assumption that there are more
inodes than processes makes sure there is one.

`PollLease` is the Mongo lease: owner, expiry, the waiting and forced attempts, the
renewer, the TTL index, exit and death. The clock is two facts: the lease has
expired, and the wait is over. A process that ends leaves a document with an owner id
nobody has any more (`Gone`), since a restart draws a new one. A start that cannot reach
Mongo polls on the lock file of its own host (`StartWithoutMongo`, place `local`), unless
`TBE_MULTI_REPLICA` says that there are others (`MultiReplica`). `Take` and
`TakeUnheard` are the upsert whose answer arrives and the one whose answer is lost:
the replica goes on waiting and meets its own lease. `dropped` is a history
variable: pollers that were taken over by force or whose lease ran out.

| Run | Instance | What it shows |
|---|---|---|
| `lock_one` | 3 processes, all overlaps of starts, exits and deaths | one poller unless starts or exits crossed; a start that is alone polls, whatever file a death or a crossing left behind |
| `lease` | 4 replicas, forced takeovers, lapses, lost answers, deaths, starts without Mongo | two poll only after a takeover, a lapse or a start without Mongo; the lease moves only by a take, its owner stopping or expiry; every start ends |
| `lease_fallback` | 2 replicas, without `TBE_MULTI_REPLICA` | **violated** (`OwnerPollsAlone`): a replica that cannot reach Mongo polls beside the owner of an unexpired lease |

Bounds. The file scenario needs three processes (the exiting holder, the waiting
one, the next); four inodes are one more than can be open at once. The lease
is one document, so pairs of replicas decide; four leave two to interfere.

Fairness. A starting process keeps running its own loop: in the file module every
step of it, in the lease module the attempt or the deadline. A process that tries to write
its PID again and again at last writes it or gives up at the deadline (strong
fairness: between two tries it is elsewhere in the loop). No one is obliged to
exit, and the lease is not obliged to expire.

**Finding** (`lease_fallback`). `singleton.py:201` promises an "Exclusive lock so two
platform processes cannot both call getUpdates", `main.py:150` a "Single poller only". A
start whose ping of Mongo fails returns `None` (`singleton.py:94`), and its caller goes on to
the lock file, which other hosts do not see; the owner's lease stays unexpired and
renewed.

**Seen while modelling**

* The exit unlocks and closes before it unlinks. A process that waits takes the lock
  in between, the exit unlinks the file it has just locked, the next start makes a
  new file, and both poll.
* Two overlapping starts also break the file lock: the file is empty between open
  and the write of the PID, and an empty file is taken for stale.
* A live, renewing owner is taken over by force after 45 s, half of its lease, and
  is not told (`singleton.py:58` does not look at how many documents the renewal
  matched).

## 5. Orchestrator, slots and breakers (`Orchestrator`, `OrchestratorProps`)

**State.** `sem`, `active`, `userActive` and `lock` are `_SEM`, `_ACTIVE`,
`_USER_ACTIVE` and `_ACTIVE_LOCK` of `concurrency.py`; `lock` names the run that is
suspended inside `with _ACTIVE_LOCK`, the other uses of that lock being single
steps. `breaker` and `failures` are one `CircuitBreaker` per agent, shared by all
threads. `status`, `attempts`, `built`, `path`, `qa` are the fields of each thread's
`AgentState`, `result` the attempt whose `generate_bot()` result is kept for the
caller, `success` the flag of that result, and `accepted` a history variable: the attempt whose build the critic
accepted last. A path and a result are named by the attempt that made them, so a
stale one shows.

**What the caller is told.** `success` is the builder's: `orchestrate_generate()` returns
the result as it is, and for a build the critic has rejected only adds
`qa_failed_after_retries` to its metadata (`Marked`). The chat handlers
(`message_router.py:601`, `message_router.py:2091`) read `success` (`ToldSuccess`) and not the
mark. `SuccessIsVerified` says what can be relied on: success without the mark, and
a run that calls itself passed, is the result of the last build, accepted by the critic.
What happens when `run()` raises is the caller's: it calls the engine directly
(`bot_interface/helpers.py:206`), with no critic at all.

**Actions.** The slot: `Refuse` (the user's limit; `yield False` inside the lock),
`Admit`, `AcquireSlot`, `SlotTimeout`/`GiveUpSlot`, `Begin`, `Leave`, `ReleaseSlot`.
The pipeline: an agent's start (`StartAgent`, where the breaker's `allow()` may turn
open into half open) and its end are two steps, as a build takes minutes and other
threads move the breakers meanwhile. Then the outcomes: blocked by the
breaker, an exception (`CrashAgent`, for the agents in `Fragile` and for a
builder found outside PLANNING), the router's routes, the architect's gate, the
builder's three results, the critic's two, and the loop's decision (`Finish`,
`Repair`). `Raise` is an exception between the agents, which passes through the
slot's `finally`.

| Run | Instance | What it shows |
|---|---|---|
| `orchestrator` | 3 threads, two of one user and one anonymous, 1 slot, 1 run per user, 2 attempts, breaker threshold 2, an architect that may raise | no permit or count leaks on any way out; an unmarked success is the last build, accepted by the critic; the budget of builds; runs end |
| `orchestrator_ends` | 1 thread, a request whose specification stays vague | **violated** (`LoopEnds`): the repair loop goes round for ever |

Bounds. One slot and one run per user make every refusal, wait and timeout happen
with three threads. Two attempts are the smallest number with a repair; a threshold
of two lets a breaker open within a run and be found open by another. The threads
start again after each run, so the counters see any number of runs.

Fairness. A thread that has entered goes on: its agent returns or raises, and its
wait for a permit ends by having it or by its timeout. No thread is obliged to
start. `RunsEndWhenBuilt` assumes that from some point on no builder is blocked and
nobody is refused inside the lock (`Quiet`): with refusals for ever a thread could
find the lock taken each time it looks, and with the builder blocked the loop does
not end at all, which is the finding.

**Finding** (`orchestrator_ends`). The loop ends by attempts, which only
`BuilderAgent.run()` counts. When `architect_gate()` blocks the builder, the builder's
breaker is open or its first transition raises, nothing is counted and
`while True` goes on with its slot held, although `orchestrator.py:4` promises an end at
`max_attempts`.

**Seen while modelling**

* `half_open` lets every caller through, although `circuit.py:41` says one trial.
* When the router raises or its breaker is open the request falls through to the
  build loop, since no tool was selected.
* A build that the critic rejected on the last attempt is returned with
  `success=True`, and its readers do not look at the mark: the user is told that
  the bot is ready.
* The kept result may be that of an earlier attempt when a later build raises; it is
  then returned with the mark (`SuccessIsVerified`).
* A refused caller holds `_ACTIVE_LOCK` until its body has run: every other start
  and end waits for it.

## 6. Hosting service (`HostingService`, `HostingProps`)

**State.** `cache` is `_instances`, `store` the rows; `live` the containers docker
runs, `known` the driver's `_RUNNING`; `made` says which project and token each
deployment has. `pc`, `want`, `todo`, `held` are a thread's position in `start()` or
`stop()` and its locals. `_load()` replaces the dict, so the object a thread holds
may no longer be in it: `detached` names those threads, whose changes nobody saves.
The rest is history: `stray`, containers docker kept or an earlier process left
behind; `missed`, instances whose stop found docker not answering; `exited`,
containers that ended by themselves; `peak`, the most starts of a project
that were under way at one time; `disturbed`, that a reload, a fault or a restart cut an
unsaved change off.

**Actions.** `ReadConflicts` is the block under the lock (load, then decide what is in
the way); everything after it is outside. Per conflicting instance: `Lookup` in the dict,
`docker info` (a subprocess of up to eight seconds, in which other threads replace the
dict), then `TakeDown`, or `TakeDownMisses` when docker did not answer and the driver for
local processes is asked, which knows nothing of the container; `MarkStopped` on the object
looked up before, `SaveStopped`. Then `StopByProject`, `RunContainer` or `DeployFails`,
`Remember`, `SaveNew`. `Diagnose` saves the whole dict. A save writes every cached
entry, or fails part of the way (`SaveFails`); loads, removals and `docker run` fail
too. `Restart` may come at any step; the containers run on, `_RUNNING` is empty.

Starts of one project overlap freely: `main.py:305` lets updates run concurrently, the
chat handler starts bots in threads (`token_handler.py:45`) and so does the API route. `Exits`
is a bot that ends; nothing changes its row, as `status(instance_id)`, which would
look, has no caller.

| Run | Instance | What it shows |
|---|---|---|
| `hosting` | 2 threads, 2 projects with one token of one user, 2 instances, overlapping starts, restarts, every fault | a stopped bot has no container the driver could remove, unless docker did not answer its stop; stopped stays stopped within a process; no more containers of a project than starts of it overlapped; rows and containers of a project whose starts did not overlap agree whenever nothing unsaved was cut off |
| `hosting_race` | 2 threads, 1 project, no fault | **violated** (`OneInstance`): both decide before either has deployed, and two containers poll with one token |

Bounds. Two threads are enough for every pairwise race over the dict and the rows. Two
instances give an old and a new one of a project, or one of each of two projects that
share a token. Threads, instances and the two projects are interchangeable (symmetry; the
run has no liveness). At most one container exits or is missed by its stop
(`MCBounds`): both are only left out of what the properties say of that instance, and two at once are
both instances of the run. Instance ids are never used twice, so both starts of the bound are soon
spent; stops, diagnoses and restarts go on for ever.

Nothing is said to be fair: the requests are users' choices and each ends by
returning or raising.

**Finding** (`hosting_race`). The comment at `service.py:291` says the stop happens under
an exclusive lock and closes the race between concurrent starts. Only the decision
is under the lock.

**Seen while modelling**

* In scale mode `start()` builds its answer with `instance_id`, a field `HostResult`
  does not have (`service.py:286`): the `TypeError` is answered as a failure of a job that
  is in the queue.
* `DockerProcessDriver.stop()` looks only in `_RUNNING` (line 540), which a restart
  empties, and reports success: the row says stopped, the container runs (`stray`).
* A failing load empties the dict (`service.py:126`), and the next start finds nothing
  to stop.
* Several processes over one store write back each other's rows (`service.py:138`);
  the model has one process.
* The quota of hosted bots (`api/routes/hosts.py:52`, `billing.py:108`) counts every
  instance ever recorded, stopped and failed ones too, and is read before the start.
* An invalid token is found out only after the old bot was stopped.
* `status(instance_id)` has no caller, so a bot that has ended is listed as running.
* `docker_available()` false during a stop, for whatever reason, and the user is told
  that the bot was stopped (`service.py:456`).

## 7. Confirmation gate (`ToolGate`, `ToolGateProps`)

**State.** `memory` is the phase of each state's pending action on the memory board,
an object all threads share; `file` and `index` are what `FileBlackboard` has
written; `newest` is what `latest_for_user()` finds. `sticky` is the state id
`user_data` keeps. `chat` is the one message the event loop handles: where its handler
is, what it said, and the state it was resolved to. `run` is each orchestration, up to
the point where its code can be known. The history variables record whose code was
sent in time (`entered`), for whom `execute_tool()` was called and called again (`ran`,
`reran`), whose refusal was answered (`refused`), which files said confirmed at a
restart (`orphans`), and whose last write failed, before a restart too (`failed`,
`lost`).

**Actions.** An orchestration's `Open`, `Ask`, `Return`. A message is `Receive` (the
bridge resolves it to the sticky state or the newest one, and loads it from its file
if need be), one of the verdicts (`NotFound`, `Already`, `Expire`, `BadCode`,
`Confirm`, `Reject`), then `Save`, `Execute` (the grant is consumed in memory and the
tool is called), `Save` twice more, `Finish`. Each changes the shared object first and
mirrors it to its file in a second step. `Lapse` is the expiry of a code.

**Faults.** `Crash` at every step, perhaps in the middle of a write; writes of a state
or of the index that fail or tear, and whose exceptions `LayeredBlackboard.put()`
swallows.

**Abstractions.** One chat user; a code is right or wrong; no state is asked about
twice; the tools themselves are not there, only the call. The codes are known to the
user once the run has returned: how they reach the user is not in the code. The set
of consumed tokens is left out: the pending action's status is looked at before it
and tells the same.

| Run | Instance | What it shows |
|---|---|---|
| `gate` | 2 orchestrations, every answer to every state with right and wrong codes, restarts and disk faults at any step | a tool is called at most once, only by its own code, never after an answered refusal, unless the write of its state failed before a restart; a grant is used by the message that gave it or was left behind by a restart |

Bounds. Two states are what it takes for an answer to be resolved to the wrong one,
for the index to name another, and for one orchestration to move the newest state
under the other's answer. Messages are unbounded, restarts too. Symmetric in the
states, safety only.

**Seen while modelling**

* The state id of a confirmation stays in `user_data` (`multi_agent_bridge.py:86`), and
  without one the newest state is taken: a right code for another action then fails
  with `action_mismatch` (`multi_agent_bridge.py:48` against `hitl.py:189`).
* An approved tool may be refused again by the policy, as `tools.py:138` passes no
  `confirmed` (`policy.py:52`), though its grant is spent.
* An `_index.json` torn in the middle is never repaired; one torn at its start is
  empty, reads as `{}` and is written anew without the states it had (`blackboard.py:86`).
* Refusing an executed action answers that it was refused (`hitl.py:307`).
* Of the consumed tokens an arbitrary half is forgotten at 2000 (`hitl.py:213`), which
  does no harm as the status is checked first; the branches for a used token and for
  a missing grant cannot be reached.
* `remember_hitl_pending()` and `resume_after_confirm()` have no caller.

## 8. What is proved

TLAPS checks these for every value of the constants, under the named assumptions of
the modules (finite sets of workers and jobs, natural limits, null values that are
not members); the runs above evaluate the same assumptions. Every invariant and
every action property of a passing run is a theorem. Beside them stand theorems no
run states: what remains true when a hypothesis is given up, or sharper when one is
added, and the part of each liveness property that is a matter of single steps.

* **Deploy queue** (`DeployQueueProofs`, `DeployQueueRefinement`). `ZombieInv` is inductive
  and says of every job: types, `LocalsInv` (a worker has a job object exactly in
  the claimed part of `process_one()`), `ExhaustedInv` (a decision to give up rests
  on attempts made, and attempts never decrease, so a stale read stays
  true), and with them `TokenDropped` and `NeverGivenUpEarly`.
  `IInv` adds what is true of the jobs nobody has disputed, and of the rest of the
  fleet beside those that someone has. Its core is `OwnershipInv`: the row of a held job is in
  hand, names its holder and is not stale. It is needed because writes go to a row by
  id alone; it makes every write one by the owner. From it: `Exclusive`, `TokenKept`,
  `SettledForGood`, `RunningIsReal` (with `ContainerInv`), `CapacityKept` (with
  `SlotInv`: a slot seen free stays free, as only the node's own worker fills it),
  and `OvershootBounded`: a step counts a call for a user below the cap, turns a
  counted call into a row, or adds neither (`EnqueueMoves`), and no worker puts a
  settled undisputed row back. `QueueIsJobBoard` is the refinement, of all behaviours
  (with `RetryInv`: the attempts `mark_failed()` has read still count when it writes).
  The parts are proved job by job (`OwnedStep`, `RetryStep`, `TokenStep`, `SettledStep`,
  `ContainedStep`); that a job once disputed stays so (`DisputedForGood`) makes each of
  them a matter of that job alone. `BoardIsSound` is about the abstract board alone:
  its promises follow from its own actions.
* **Generation jobs** (`GenerateJobsProofs`). `JobInv` is inductive: a job in the list, in a
  worker's hand or in the failed registry belongs to a request that RQ has
  (`PlacedInv`, with no hash stored before the request's create), how far a worker
  is says what is stored of its job (`ProgressInv`), and the properties proved as
  `AtMostOnce` and `SlotsFollow`. The proof reduces the actions to six kinds of move
  (`EveryStepMoves`) and proves each part once per kind. `FinalWorsensOnly` follows
  from `JobInv` step by step. `LostOnlyByExpiry` is the half of `AcceptedSettles` that is
  about steps: an accepted job without an outcome is in RQ's list, in a worker's hands or in
  the failed registry, and only the expiry of its entry there leaves it in the store
  alone. `UsageCounts` needs no `JobInv`: each counted reservation
  adds one member to `ReservedBy(t)`, so the counter and the cardinality grow
  together. `OvershootBounded` adds `CapInv`: one request of a process holds its lock, so
  its holders are at most the processes, and the create moves a request from the
  lock to the active set. Requests that a failed SCARD let into a full queue (`blind`)
  are the only ones not counted.
* **Lock file** (`PollLockProofs`). `LockInv` is inductive: `HandleInv` (who has the
  file open and locked), and `SoloInv`: while nothing has crossed, one process at a
  time starts or exits, and a poller's file is the one the path leads to and names
  it. From it `UncrossedExclude`. That there is an inode for a new file is a pigeonhole
  argument (`FreeInode`). `LonelyNeverBlocked` is the part of `LonelyStartPolls` that is
  about steps: a start that is alone never finds the file busy, waits or gives up, and
  is at most six of its own steps from polling.
* **Lease** (`PollLeaseProofs`). `LeaseInv`: a replica that polls on the lease and was neither
  taken over nor let it lapse owns the document, unexpired. From it
  `OnlyTakeoversOverlap`; `LeaseKept` is the action property. `PunctualExclude` says it
  without history: with `TBE_MULTI_REPLICA` set, so that a start without Mongo exits, and in a
  behaviour where no lease runs out under a poller and none is taken from one by
  force, two replicas never poll at once. `lease_fallback` is what it is without the first.
* **Orchestrator** (`OrchestratorProofs`). `IInv` is inductive: types, `SlotsAccounted` itself
  (`NothingLeaks`: one lemma says how the number of runs at some places changes when
  one run moves, and each way out is an instance), and `LoopInv`, what the loop knows
  of its build at each place: outside and while planning nothing is built, at the
  critic there is a path, a path and a result are those of the last attempt, and a build that
  succeeded has a result that says so. From it `NoUnverifiedSuccess` (the flag the caller reads, unless
  marked, is that of the accepted last build) and `BudgetKept`. `EveryRunDescends` gives the loop a measure
  (`Rank`: attempts left, then the place in the round): every step lowers it, unless the
  gate or the breaker blocks the builder or it raises before it counts. So these
  three are the only ways to loop for ever, and the finding is one of them.
* **Hosting** (`HostingProofs`). `IInv` is inductive: `DriverKnows` (what this process
  started and did not lose is in `_RUNNING`), `Fresh` (a deployment in hand is in no
  dict and in one thread's hands), `Stops` (what is called stopped, or is about to be, is
  gone, out of reach, or was missed by a docker that did not answer), and `Counted`: a start about to
  run a container has removed those of its project, so its containers and the
  starts that are about to add one are together at most the starts that ever overlapped. From
  it `StoppedHasNoContainer`, `StoppedForGood`, `ContainersAreStarts`, with no assumption
  about who waits for whom. `RowsAreTrue` (`RegistryTruth`, for the projects whose starts
  have not overlapped, whatever others do) needs `TruthInv` beside it: until an unsaved change
  is cut off, the dict is the store but for what is about to be saved (`Mirrored`), what
  is recorded as running runs or is being stopped, what runs is recorded or about to
  be, and a start has in hand whatever is recorded of its project (`InTheWay`).
  `ApartOneInstance` is the other side of the finding: while no two starts are under way
  at once, no load or save fails and docker answers, the containers this process
  started and docker did not keep are one per project and per token, whatever stops and
  diagnoses run beside the starts. It says nothing of what an earlier process left running.
* **Gate** (`ToolGateProofs`). `IInv` is inductive: `Runs` and `Answering` (what the board
  and the file say at each step of an orchestration and of an answer), `Coded` (a
  code in hand was sent in time), `Grants` (a grant outside its message was found in
  a file), `Once` (what the board may still say of a state that ran). From it
  `CalledAtMostOnce`, `CalledByItsCode`, `GrantsAreUsed`, and, with the same argument for
  refused states, `RefusalIsFinal`. `SoundDiskCallsOnce` needs no history of failed writes:
  without them no tool is called twice and no refused one is called, however often
  the process stops, in the middle of a write too.

Each module also has `TypeCorrect`. Only model-checked: what needs fairness
(`EveryJobSettles`, `AcceptedSettles`, `LonelyStartPolls`, `StartEnds`,
`RunsEndWhenBuilt`). WF and ENABLED are out of the prover's reach; for
three of the five a theorem above proves what is a matter of single steps
(`LostOnlyByExpiry`, `LonelyNeverBlocked`, `EveryRunDescends`).

## 9. Not modelled

* **Billing.** The handlers run to completion one after another. What interleaves are
  the provider's events, late or replayed (`billing.py:311`, `billing.py:326`), and
  nothing in the repository says which of two must win.
* **Rate limiter, dependency resolver, engine manager.** One function or one sequential
  loop each; listed in the plan.
* **SQLite queue, thread-pool jobs, file and memory variants of the stores.** The development
  fallbacks of parts whose production variant is modelled. The SQLite queue has no
  reclaim: a crash loses its job (`deploy_queue.py:162`).
* **Fleet.** The sweep that marks silent workers offline (`fleet.py:132`) changes what a
  page shows; no claim depends on it.
* **Scale mode of the hosting service.** Its start is `enqueue()`, which `DeployQueue`
  has; the rest of it cannot run (see 6).
* **Live runner, live deployment engine.** Child processes and their health checks; the
  docker driver's deploy and stop are inside `DeployQueue` and `HostingService`.
* **Generators, `spec_core`, language-model clients, static analysis** (more than three
  quarters of the code): text in, text out. There is no state for two calls to
  disturb, and no specification of the text but the code itself.

## 10. Plan

1. `RateWindow`: the abstract window, implemented by the Redis, SQLite and memory
   variants.
2. Several hosting processes over one store, with the quota, composed with `JobBoard`
   for scale mode once it works.
3. `Fleet`: heartbeats against the sweep.
4. The dependency resolver's algorithms against reference definitions.
