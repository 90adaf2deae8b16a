---------------------------- MODULE GenerateJobs ----------------------------
(***************************************************************************)
(* The B2B generation path: POST /v1/generate reserves one unit of the     *)
(* tenant's monthly quota (Postgres), passes the caps of JobRunner.enqueue *)
(* and creates a job in the Redis store and in the RQ queue; RQ workers    *)
(* run the stored job (api/routes/generate.py, b2b_platform/jobs.py,       *)
(* task_queue.py, pg_store.py).                                            *)
(*                                                                         *)
(* A request and the job it creates share one name.  Each database or      *)
(* Redis call is an action.  RQ takes a job off its list before it runs it *)
(* and never runs it again (enqueue() asks for no retry): a job whose      *)
(* worker dies, or whose function raises, ends in RQ's failed registry.    *)
(* The writes that touch only progress and message are left out.           *)
(***************************************************************************)
EXTENDS Naturals, FiniteSets, SequencesExt

CONSTANTS
  Requests,   \* calls of generate(), each with the job it may create
  Tenants,
  TenantOf,   \* [Requests -> Tenants]
  Procs,      \* API processes, each with its own JobRunner and _lock
  ProcOf,     \* [Requests -> Procs]
  Workers,    \* RQ workers
  NoJob,      \* an idle worker's job
  Quota,      \* [Tenants -> Nat], generations_per_month of the plan; 0: no limit
  MaxGlobal,  \* JOB_MAX_QUEUED_GLOBAL
  MaxTenant,  \* JOB_MAX_QUEUED_PER_TENANT
  ListCap,    \* length the tenant's list of recent jobs is trimmed to (100)
  Expiry      \* may JOB_REDIS_TTL_SEC (7 days) and RQ_FAILURE_TTL (1 day) pass?

ASSUME PartiesAssumption ==
  /\ TenantOf \in [Requests -> Tenants] /\ ProcOf \in [Requests -> Procs]
  /\ IsFiniteSet(Requests) /\ IsFiniteSet(Procs) /\ NoJob \notin Requests
ASSUME LimitsAssumption ==
  /\ Quota \in [Tenants -> Nat]
  /\ {MaxGlobal, MaxTenant, ListCap} \subseteq Nat \ {0}
  /\ Expiry \in BOOLEAN

VARIABLES
  used,       \* metering.generations of this month, per tenant
  pc,         \* where each request is in generate() and enqueue()
  status,     \* status field of the job's hash; "none" while there is no hash
  active,     \* the set <prefix>active
  recent,     \* the lists <prefix>tenant:<id>, newest first
  rq,         \* the RQ list, oldest first
  blind,      \* requests a failing SCARD let through a full queue
  failedJobs, \* RQ's failed registry
  forgotten,  \* the jobs whose entry there has expired
  wpc,        \* where each worker is in execute_stored_job()
  wjob        \* the job it runs

store == <<status, active, recent>>
tally == <<used, blind>>
given == <<failedJobs, forgotten>>
workers == <<given, wpc, wjob>>
vars == <<tally, pc, store, rq, workers>>

Unfinished == {"queued", "running"}
TERMINAL == {"succeeded", "failed"}    \* nothing ever writes "cancelled"
\* inside "with self._lock"
Locked == {"global_ok", "tenant_ok"}
InFlight == Locked \cup {"reserved", "created"}
Refused == {"over_quota", "bad_body", "global_full", "tenant_full"}
Answered == Refused \cup {"accepted", "rq_failed", "aborted"}

Busy == {"fetched", "loaded", "starting", "working", "stored", "failing", "stored_failed"}
Held(j) == \E w \in Workers : wjob[w] = j
GaveUp == failedJobs \cup forgotten     \* jobs RQ will not run
CountActive(t) == Cardinality({j \in Range(recent[t]) : status[j] \in Unfinished})

Init ==
  /\ used = [t \in Tenants |-> 0]
  /\ pc = [r \in Requests |-> "new"]
  /\ status = [r \in Requests |-> "none"]
  /\ active = {}
  /\ recent = [t \in Tenants |-> <<>>]
  /\ rq = <<>>
  /\ blind = {} /\ failedJobs = {} /\ forgotten = {}
  /\ wpc = [w \in Workers |-> "idle"]
  /\ wjob = [w \in Workers |-> NoJob]

-----------------------------------------------------------------------------
(* generate() and JobRunner.enqueue()                                       *)

Goto(r, where) == pc' = [pc EXCEPT ![r] = where]

\* Mutated: an off-by-one in the WHERE of the upsert.
ReserveOneMore(r) ==
  LET t == TenantOf[r] IN
  /\ pc[r] = "new"
  /\ IF Quota[t] = 0 \/ used[t] <= Quota[t]
     THEN Goto(r, "reserved") /\ used' = [used EXCEPT ![t] = @ + 1]
     ELSE Goto(r, "over_quota") /\ UNCHANGED used
  /\ UNCHANGED <<blind, store, rq, workers>>

\* enforce_generation(): one atomic upsert WHERE generations < limit.
Reserve(r) ==
  LET t == TenantOf[r] IN
  /\ pc[r] = "new"
  /\ IF Quota[t] = 0 \/ used[t] < Quota[t]
     THEN Goto(r, "reserved") /\ used' = [used EXCEPT ![t] = @ + 1]
     ELSE Goto(r, "over_quota") /\ UNCHANGED used
  /\ UNCHANGED <<blind, store, rq, workers>>

\* The body is read and validated after the unit is reserved.
RejectBody(r) ==
  /\ pc[r] = "reserved"
  /\ Goto(r, "bad_body")
  /\ UNCHANGED <<tally, store, rq, workers>>

\* Mutated: no lock around the counts and the create.
CountGlobalUnlocked(r) ==
  /\ pc[r] = "reserved"
  /\ Goto(r, IF Cardinality(active) >= MaxGlobal THEN "global_full" ELSE "global_ok")
  /\ UNCHANGED <<tally, store, rq, workers>>

\* No other request of the process is inside "with self._lock".
LockFree(r) == \A s \in Requests : ProcOf[s] = ProcOf[r] => pc[s] \notin Locked

\* Takes the lock of the request's own process and counts the active set.
CountGlobal(r) ==
  /\ pc[r] = "reserved" /\ LockFree(r)
  /\ Goto(r, IF Cardinality(active) >= MaxGlobal THEN "global_full" ELSE "global_ok")
  /\ UNCHANGED <<tally, store, rq, workers>>

\* _count_active() turns an exception of the SCARD into a count of 0.
CountGlobalFails(r) ==
  /\ pc[r] = "reserved" /\ LockFree(r)
  /\ Goto(r, "global_ok")
  /\ blind' = IF Cardinality(active) >= MaxGlobal THEN blind \cup {r} ELSE blind
  /\ UNCHANGED <<used, store, rq, workers>>

\* For a tenant the fallback lists its jobs and comes to the same count.
CountTenant(r) ==
  /\ pc[r] = "global_ok"
  /\ Goto(r, IF CountActive(TenantOf[r]) >= MaxTenant THEN "tenant_full" ELSE "tenant_ok")
  /\ UNCHANGED <<tally, store, rq, workers>>

\* RedisJobStore.create(): one MULTI.
Create(r) ==
  LET t == TenantOf[r]
      pushed == <<r>> \o recent[t]
  IN
  /\ pc[r] = "tenant_ok"
  /\ Goto(r, "created")
  /\ status' = [status EXCEPT ![r] = "queued"]
  /\ active' = active \cup {r}
  /\ recent' = [recent EXCEPT ![t] =
       IF Len(pushed) > ListCap THEN SubSeq(pushed, 1, ListCap) ELSE pushed]
  /\ UNCHANGED <<tally, rq, workers>>

\* Mutated: a failed enqueue is tried a second time.
RqEnqueueTwice(r) ==
  /\ pc[r] = "created"
  /\ \/ Goto(r, "accepted") /\ rq' = Append(rq, r)
     \/ Goto(r, "accepted") /\ rq' = rq \o <<r, r>>
  /\ UNCHANGED <<tally, store, workers>>

\* Queue.enqueue() succeeds, fails, or fails after RQ has the job; a failure
\* is a 500 to the client and leaves the stored job as it is.
RqEnqueue(r) ==
  /\ pc[r] = "created"
  /\ \/ Goto(r, "accepted") /\ rq' = Append(rq, r)
     \/ Goto(r, "rq_failed") /\ rq' \in {rq, Append(rq, r)}
  /\ UNCHANGED <<tally, store, workers>>

\* A call on the way to the create raises: a 500, and nothing is stored.
RequestRaises(r) ==
  /\ pc[r] \in Locked \cup {"reserved"}
  /\ Goto(r, "aborted")
  /\ UNCHANGED <<tally, store, rq, workers>>

\* The API process dies: its requests in flight get no answer.
ApiCrash(p) ==
  LET lost == {r \in Requests : ProcOf[r] = p /\ pc[r] \in InFlight} IN
  /\ lost # {}
  /\ pc' = [r \in Requests |-> IF r \in lost THEN "aborted" ELSE pc[r]]
  /\ UNCHANGED <<tally, store, rq, workers>>

Generate(r) ==
  \/ Reserve(r) \/ RejectBody(r) \/ CountGlobal(r) \/ CountGlobalFails(r)
  \/ CountTenant(r) \/ Create(r) \/ RqEnqueue(r) \/ RequestRaises(r)

-----------------------------------------------------------------------------
(* execute_stored_job() -> JobRunner._run()                                 *)

Step(w, where) ==
  /\ wpc' = [wpc EXCEPT ![w] = where]
  /\ wjob' = IF where = "idle" THEN [wjob EXCEPT ![w] = NoJob] ELSE wjob

Fetch(w) ==
  /\ wpc[w] = "idle" /\ rq # <<>>
  /\ wpc' = [wpc EXCEPT ![w] = "fetched"]
  /\ wjob' = [wjob EXCEPT ![w] = Head(rq)]
  /\ rq' = Tail(rq)
  /\ UNCHANGED <<tally, pc, store, given>>

\* store.get(): a job whose hash has expired is not run.
Load(w) ==
  /\ wpc[w] = "fetched"
  /\ Step(w, IF status[wjob[w]] = "none" THEN "idle" ELSE "loaded")
  /\ UNCHANGED <<tally, pc, store, rq, given>>

\* store.update() does nothing when the hash is gone; otherwise it writes the
\* hash and then, in another call, the active set.
StoreStatus(w, new, next, gone) ==
  IF status[wjob[w]] = "none"
  THEN Step(w, gone) /\ UNCHANGED status
  ELSE Step(w, next) /\ status' = [status EXCEPT ![wjob[w]] = new]

MarkRunning(w) ==
  /\ wpc[w] = "loaded"
  /\ StoreStatus(w, "running", "starting", "working")
  /\ UNCHANGED <<tally, pc, active, recent, rq, given>>

\* Mutated: the slot is freed when the job starts, not when it ends.
AddActiveDrops(w) ==
  /\ wpc[w] = "starting"
  /\ active' = active \ {wjob[w]}
  /\ Step(w, "working")
  /\ UNCHANGED <<tally, pc, status, recent, rq, given>>

AddActive(w) ==
  /\ wpc[w] = "starting"
  /\ active' = active \cup {wjob[w]}
  /\ Step(w, "working")
  /\ UNCHANGED <<tally, pc, status, recent, rq, given>>

\* Mutated: a failed handler is stored as cancelled.
HandlerReturnsCancelled(w) ==
  /\ wpc[w] = "working"
  /\ \E verdict \in {"succeeded", "cancelled"} : StoreStatus(w, verdict, "stored", "idle")
  /\ UNCHANGED <<tally, pc, active, recent, rq, given>>

\* The handler returns: ok is stored as succeeded, not ok as failed.
HandlerReturns(w) ==
  /\ wpc[w] = "working"
  /\ \E verdict \in TERMINAL : StoreStatus(w, verdict, "stored", "idle")
  /\ UNCHANGED <<tally, pc, active, recent, rq, given>>

\* An exception of the handler (RQ's job timeout included) or of a call that
\* stores its result: the except branch.  The failing SREM may have been done.
HandlerRaises(w) ==
  /\ \/ wpc[w] = "working" /\ UNCHANGED active
     \/ wpc[w] = "stored" /\ active' \in {active, active \ {wjob[w]}}
  /\ Step(w, "failing")
  /\ UNCHANGED <<tally, pc, status, recent, rq, given>>

\* Mutated: the except branch only logs.
StoreFailureLogs(w) ==
  /\ wpc[w] = "failing"
  /\ Step(w, "idle")
  /\ UNCHANGED <<tally, pc, store, rq, given>>

StoreFailure(w) ==
  /\ wpc[w] = "failing"
  /\ StoreStatus(w, "failed", "stored_failed", "idle")
  /\ UNCHANGED <<tally, pc, active, recent, rq, given>>

\* Mutated: the id stays in the active set after a failure.
DropActiveOnSuccess(w) ==
  /\ wpc[w] \in {"stored", "stored_failed"}
  /\ active' = IF status[wjob[w]] = "failed" THEN active ELSE active \ {wjob[w]}
  /\ Step(w, "idle")
  /\ UNCHANGED <<tally, pc, status, recent, rq, given>>

DropActive(w) ==
  /\ wpc[w] \in {"stored", "stored_failed"}
  /\ active' = active \ {wjob[w]}
  /\ Step(w, "idle")
  /\ UNCHANGED <<tally, pc, status, recent, rq, given>>

\* The worker dies, or a call outside the try raises: RQ records a failure.
Abandon(w) ==
  /\ wpc[w] # "idle"
  /\ failedJobs' = failedJobs \cup {wjob[w]}
  /\ Step(w, "idle")
  /\ UNCHANGED <<tally, pc, store, rq, forgotten>>

\* The entry of the failed registry reaches its failure_ttl.
RqForgets(r) ==
  /\ Expiry /\ r \in failedJobs
  /\ failedJobs' = failedJobs \ {r} /\ forgotten' = forgotten \cup {r}
  /\ UNCHANGED <<tally, pc, store, rq, wpc, wjob>>

\* The job's hash reaches its time to live.
Expire(r) ==
  /\ Expiry /\ status[r] # "none"
  /\ status' = [status EXCEPT ![r] = "none"]
  /\ UNCHANGED <<tally, pc, active, recent, rq, workers>>

Execute(w) ==
  \/ Fetch(w) \/ Load(w) \/ MarkRunning(w) \/ AddActive(w) \/ HandlerReturns(w)
  \/ HandlerRaises(w) \/ StoreFailure(w) \/ DropActive(w)

Next ==
  \/ \E r \in Requests : Generate(r) \/ Expire(r) \/ RqForgets(r)
  \/ \E p \in Procs : ApiCrash(p)
  \/ \E w \in Workers : Execute(w) \/ Abandon(w)

Spec == Init /\ [][Next]_vars

\* The event loop serves its requests and rq's work loop its jobs.
Fairness ==
  /\ \A r \in Requests : WF_vars(Generate(r))
  /\ \A w \in Workers : WF_vars(Execute(w))

FairSpec == Spec /\ Fairness
=============================================================================
