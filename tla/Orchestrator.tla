---------------------------- MODULE Orchestrator ----------------------------
(***************************************************************************)
(* The multi-agent orchestrator (services/multi_agent): every generation   *)
(* request runs Orchestrator.run() in a thread of its own.  The threads of *)
(* one process share the orchestration slots (concurrency.py) and one      *)
(* circuit breaker per agent (circuit.py); each has its own AgentState,    *)
(* which its agents - router, architect, builder, critic - change in turn  *)
(* (orchestrator.py, roles/).  An agent's start and its end are two steps: *)
(* a build takes minutes, and the breakers move meanwhile.                 *)
(***************************************************************************)
EXTENDS Naturals, FiniteSets

CONSTANTS
  Runs,        \* threads that call orchestrate_generate(), again and again
  Users,       \* callers
  Anonymous,   \* user_id 0, which has no limit of its own
  UserOf,      \* [Runs -> Users \cup {Anonymous}]
  NoRun,       \* nobody holds _ACTIVE_LOCK across steps
  Limit,       \* MULTI_AGENT_MAX_CONCURRENT
  UserLimit,   \* MULTI_AGENT_MAX_PER_USER
  MaxAttempts, \* _max_attempts()
  Threshold,   \* failure_threshold of a breaker
  Fragile,     \* agents that may raise
  Vague        \* requests whose specification never becomes buildable

ASSUME RunsAssumption ==
  /\ IsFiniteSet(Runs) /\ NoRun \notin Runs /\ Vague \subseteq Runs
  /\ Anonymous \notin Users /\ UserOf \in [Runs -> Users \cup {Anonymous}]
ASSUME BoundsAssumption ==
  /\ Limit \in Nat \ {0} /\ UserLimit \in Nat \ {0}
  /\ MaxAttempts \in Nat \ {0} /\ Threshold \in Nat \ {0}

Agents == {"router", "architect", "builder", "critic"}

VARIABLES
  pc,          \* where each run is
  agent,       \* the agent it calls or runs
  lock,        \* who is suspended inside `with _ACTIVE_LOCK`, a refused run or NoRun
  sem,         \* the free permits of _SEM
  active,      \* _ACTIVE
  userActive,  \* _USER_ACTIVE
  breaker,     \* [Agents -> "closed", "open" or "half_open"]
  failures,    \* [Agents -> failures since the last success, exact up to Threshold]
  status,      \* AgentState.status
  attempts,    \* AgentState.attempts
  built,       \* AgentState.build_success
  path,        \* the attempt that made AgentState.generated_path, 0 if empty
  qa,          \* AgentState.qa_passed
  result,      \* the attempt whose generate_bot() result is kept, 0 if none
  success,     \* `success` of that result, which is what the caller reads
  accepted     \* history: the attempt whose build the critic accepted last

kept == <<result, success>>
slots == <<lock, sem, active, userActive>>
breakers == <<breaker, failures>>
state == <<status, attempts, built, path, qa, kept, accepted>>
vars == <<pc, agent, slots, breakers, state>>

Inside == {"call", "running", "gate", "judge", "decide", "deliver", "leaving"}
PC == Inside \cup {"new", "refused", "waiting", "granted", "timed_out", "busy",
                   "releasing"}
Status == {"PENDING", "ROUTING", "PLANNING", "BUILDING", "PASSED", "FAILED",
           "AWAITING_CONFIRMATION", "DELIVERED"}

User(r) == UserOf[r]
Goto(r, where) == pc' = [pc EXCEPT ![r] = where]
Call(r, a) == Goto(r, "call") /\ agent' = [agent EXCEPT ![r] = a]
Enter(r, s) == status' = [status EXCEPT ![r] = s]

\* The call returns; the thread's next one has an AgentState of its own.
Return(r) ==
  /\ Goto(r, "new")
  /\ agent' = [agent EXCEPT ![r] = "router"]
  /\ Enter(r, "PENDING")
  /\ attempts' = [attempts EXCEPT ![r] = 0]
  /\ built' = [built EXCEPT ![r] = FALSE]
  /\ path' = [path EXCEPT ![r] = 0]
  /\ qa' = [qa EXCEPT ![r] = FALSE]
  /\ result' = [result EXCEPT ![r] = 0]
  /\ success' = [success EXCEPT ![r] = FALSE]
  /\ accepted' = [accepted EXCEPT ![r] = 0]

Init ==
  /\ pc = [r \in Runs |-> "new"]
  /\ agent = [r \in Runs |-> "router"]
  /\ lock = NoRun
  /\ sem = Limit
  /\ active = 0
  /\ userActive = [u \in Users |-> 0]
  /\ breaker = [a \in Agents |-> "closed"]
  /\ failures = [a \in Agents |-> 0]
  /\ status = [r \in Runs |-> "PENDING"]
  /\ attempts = [r \in Runs |-> 0]
  /\ built = [r \in Runs |-> FALSE]
  /\ path = [r \in Runs |-> 0]
  /\ qa = [r \in Runs |-> FALSE]
  /\ result = [r \in Runs |-> 0]
  /\ success = [r \in Runs |-> FALSE]
  /\ accepted = [r \in Runs |-> 0]

-----------------------------------------------------------------------------
(* orchestration_slot()                                                      *)

CountUser(r) ==
  userActive' = [u \in Users |-> userActive[u] + (IF User(r) = u THEN 1 ELSE 0)]

\* max(0, count - 1)
UncountUser(r) ==
  userActive' = [u \in Users |->
    IF User(r) = u /\ userActive[u] > 0 THEN userActive[u] - 1 ELSE userActive[u]]

\* The user has as many runs as one user may have.
HasShare(r) == User(r) \in Users /\ userActive[User(r)] >= UserLimit

\* A run too many of its user: `yield False` inside the lock.
Refuse(r) ==
  /\ pc[r] = "new" /\ lock = NoRun
  /\ HasShare(r)
  /\ Goto(r, "refused")
  /\ lock' = r
  /\ UNCHANGED <<agent, sem, active, userActive, breakers, state>>

\* Mutated: the refused run returns with the lock.
RefusedKeepsLock(r) ==
  /\ pc[r] = "refused"
  /\ Return(r)
  /\ UNCHANGED <<slots, breakers>>

\* The refused run's body puts its FAILED state on the board with the lock held.
RefusedReturns(r) ==
  /\ pc[r] = "refused"
  /\ Return(r)
  /\ lock' = NoRun
  /\ UNCHANGED <<sem, active, userActive, breakers>>

Admit(r) ==
  /\ pc[r] = "new" /\ lock = NoRun
  /\ ~HasShare(r)
  /\ Goto(r, "waiting")
  /\ CountUser(r)
  /\ UNCHANGED <<agent, lock, sem, active, breakers, state>>

AcquireSlot(r) ==
  /\ pc[r] = "waiting" /\ sem > 0
  /\ Goto(r, "granted")
  /\ sem' = sem - 1
  /\ UNCHANGED <<agent, lock, active, userActive, breakers, state>>

SlotTimeout(r) ==
  /\ pc[r] = "waiting" /\ sem = 0
  /\ Goto(r, "timed_out")
  /\ UNCHANGED <<agent, slots, breakers, state>>

\* Mutated: who times out stays counted.
GiveUpSlotCounted(r) ==
  /\ pc[r] = "timed_out" /\ lock = NoRun
  /\ Goto(r, "busy")
  /\ UNCHANGED <<agent, slots, breakers, state>>

GiveUpSlot(r) ==
  /\ pc[r] = "timed_out" /\ lock = NoRun
  /\ Goto(r, "busy")
  /\ UncountUser(r)
  /\ UNCHANGED <<agent, lock, sem, active, breakers, state>>

\* run() answers that the system is busy.
BusyReturns(r) ==
  /\ pc[r] = "busy"
  /\ Return(r)
  /\ UNCHANGED <<slots, breakers>>

\* The slot is counted and _run_inner() calls the router.
Begin(r) ==
  /\ pc[r] = "granted" /\ lock = NoRun
  /\ Call(r, "router")
  /\ active' = active + 1
  /\ UNCHANGED <<lock, sem, userActive, breakers, state>>

\* The finally clause, run by a return and by an exception of the body.
Leave(r) ==
  /\ pc[r] = "leaving" /\ lock = NoRun
  /\ Goto(r, "releasing")
  /\ active' = IF active > 0 THEN active - 1 ELSE 0
  /\ UncountUser(r)
  /\ UNCHANGED <<agent, lock, sem, breakers, state>>

ReleaseSlot(r) ==
  /\ pc[r] = "releasing"
  /\ Return(r)
  /\ sem' = sem + 1
  /\ UNCHANGED <<lock, active, userActive, breakers>>

-----------------------------------------------------------------------------
(* CircuitBreaker                                                            *)

RecordSuccess(a) ==
  /\ breaker' = [breaker EXCEPT ![a] = "closed"]
  /\ failures' = [failures EXCEPT ![a] = 0]

RecordFailure(a) ==
  LET count == IF failures[a] < Threshold THEN failures[a] + 1 ELSE Threshold IN
  /\ failures' = [failures EXCEPT ![a] = count]
  /\ breaker' = [breaker EXCEPT ![a] =
       IF count = Threshold \/ @ = "half_open" THEN "open" ELSE @]

\* allow(): an open breaker lets a call through once recovery_seconds have
\* passed, and a half-open one every call.
StartAgent(r) ==
  /\ pc[r] = "call"
  /\ Goto(r, "running")
  /\ breaker' = [breaker EXCEPT ![agent[r]] = IF @ = "open" THEN "half_open" ELSE @]
  /\ UNCHANGED <<agent, slots, failures, state>>

\* What _run_inner() does next when _run_agent(a) has returned.
AfterAgent(r) ==
  CASE agent[r] = "router" -> Call(r, "architect")
    [] agent[r] = "architect" -> Goto(r, "gate") /\ UNCHANGED agent
    [] agent[r] = "builder" -> Goto(r, "judge") /\ UNCHANGED agent
    [] OTHER -> Goto(r, "decide") /\ UNCHANGED agent

\* The status the next agent finds: before the architect the orchestrator
\* forces PLANNING, whatever the router left.
Left(r, s) == Enter(r, IF agent[r] = "router" THEN "PLANNING" ELSE s)

\* The breaker is open: the agent does not run and the state is FAILED.
BlockedAgent(r) ==
  /\ pc[r] = "call" /\ breaker[agent[r]] = "open"
  /\ AfterAgent(r)
  /\ Left(r, "FAILED")
  /\ UNCHANGED <<slots, breakers, attempts, built, path, qa, kept, accepted>>

\* builder.run() enters BUILDING, which only PLANNING allows: after a FAILED
\* architect the transition raises before the attempt is counted.
MayBuild(r) == pc[r] = "running" /\ agent[r] = "builder" /\ status[r] = "PLANNING"

\* An exception leaves the agent before it has changed anything else.
CrashAgent(r) ==
  /\ pc[r] = "running"
  /\ agent[r] \in Fragile \/ (agent[r] = "builder" /\ ~MayBuild(r))
  /\ RecordFailure(agent[r])
  /\ AfterAgent(r)
  /\ Left(r, "FAILED")
  /\ UNCHANGED <<slots, attempts, built, path, qa, kept, accepted>>

-----------------------------------------------------------------------------
(* The agents                                                                *)

\* A request to build goes on to the loop.
RouteBuild(r) ==
  /\ pc[r] = "running" /\ agent[r] = "router"
  /\ RecordSuccess("router")
  /\ AfterAgent(r)
  /\ Left(r, "ROUTING")
  /\ UNCHANGED <<slots, attempts, built, path, qa, kept, accepted>>

\* Small talk is delivered; a tool is executed and delivered, or its run ends
\* here, parked until a person confirms it (module ToolGate).
RouteElsewhere(r) ==
  /\ pc[r] = "running" /\ agent[r] = "router"
  /\ RecordSuccess("router")
  /\ \/ Goto(r, "deliver") /\ Enter(r, "DELIVERED")
     \/ Goto(r, "leaving") /\ Enter(r, "AWAITING_CONFIRMATION")
  /\ UNCHANGED <<agent, slots, attempts, built, path, qa, kept, accepted>>

WriteSpec(r) ==
  /\ pc[r] = "running" /\ agent[r] = "architect"
  /\ RecordSuccess("architect")
  /\ AfterAgent(r)
  /\ UNCHANGED <<slots, state>>

\* architect_gate() lets the builder run.
GatePasses(r) ==
  /\ pc[r] = "gate" /\ r \notin Vague
  /\ Call(r, "builder")
  /\ UNCHANGED <<slots, breakers, state>>

\* The specification is vague or needs clarification: no builder, no attempt.
GateBlocks(r) ==
  /\ pc[r] = "gate"
  /\ Goto(r, "judge")
  /\ built' = [built EXCEPT ![r] = FALSE]
  /\ Enter(r, "FAILED")
  /\ UNCHANGED <<agent, slots, breakers, attempts, path, qa, kept, accepted>>

\* generate_bot() returns a result: a success with a path or without, or a
\* failure, whose path nobody looks at.
BuildReturns(r) ==
  /\ MayBuild(r)
  /\ attempts' = [attempts EXCEPT ![r] = @ + 1]
  /\ result' = [result EXCEPT ![r] = attempts[r] + 1]
  /\ \/ /\ built' = [built EXCEPT ![r] = TRUE]
        /\ success' = [success EXCEPT ![r] = TRUE]
        /\ \E where \in {0, attempts[r] + 1} : path' = [path EXCEPT ![r] = where]
        /\ RecordSuccess("builder")
        /\ Enter(r, "BUILDING")
     \/ /\ built' = [built EXCEPT ![r] = FALSE]
        /\ success' = [success EXCEPT ![r] = FALSE]
        /\ RecordFailure("builder")
        /\ Enter(r, "FAILED")
        /\ UNCHANGED path
  /\ Goto(r, "judge")
  /\ UNCHANGED <<agent, slots, qa, accepted>>

\* Mutated: only builds that return count as attempts.
BuildFailsUncounted(r) ==
  /\ MayBuild(r)
  /\ built' = [built EXCEPT ![r] = FALSE]
  /\ RecordFailure("builder")
  /\ Enter(r, "FAILED")
  /\ Goto(r, "judge")
  /\ UNCHANGED <<agent, slots, attempts, path, qa, kept, accepted>>

\* An empty request, or generate_bot() raises: no result, and the result of an
\* earlier attempt stays.
BuildFails(r) ==
  /\ MayBuild(r)
  /\ attempts' = [attempts EXCEPT ![r] = @ + 1]
  /\ built' = [built EXCEPT ![r] = FALSE]
  /\ RecordFailure("builder")
  /\ Enter(r, "FAILED")
  /\ Goto(r, "judge")
  /\ UNCHANGED <<agent, slots, path, qa, kept, accepted>>

\* Only a successful build with a path goes to the critic.
ToCritic(r) ==
  /\ pc[r] = "judge" /\ built[r] /\ path[r] # 0
  /\ Call(r, "critic")
  /\ UNCHANGED <<slots, breakers, state>>

\* Mutated: a success without a path is taken for a pass.
NoBuildPasses(r) ==
  /\ pc[r] = "judge" /\ ~(built[r] /\ path[r] # 0)
  /\ Goto(r, "decide")
  /\ qa' = [qa EXCEPT ![r] = built[r]]
  /\ Enter(r, "FAILED")
  /\ UNCHANGED <<agent, slots, breakers, attempts, built, path, kept, accepted>>

NoBuild(r) ==
  /\ pc[r] = "judge" /\ ~(built[r] /\ path[r] # 0)
  /\ Goto(r, "decide")
  /\ qa' = [qa EXCEPT ![r] = FALSE]
  /\ Enter(r, "FAILED")
  /\ UNCHANGED <<agent, slots, breakers, attempts, built, path, kept, accepted>>

CriticAccepts(r) ==
  /\ pc[r] = "running" /\ agent[r] = "critic"
  /\ RecordSuccess("critic")
  /\ qa' = [qa EXCEPT ![r] = TRUE]
  /\ accepted' = [accepted EXCEPT ![r] = path[r]]
  /\ Enter(r, "PASSED")
  /\ Goto(r, "decide")
  /\ UNCHANGED <<agent, slots, attempts, built, path, kept>>

CriticRejects(r) ==
  /\ pc[r] = "running" /\ agent[r] = "critic"
  /\ RecordFailure("critic")
  /\ qa' = [qa EXCEPT ![r] = FALSE]
  /\ Enter(r, "FAILED")
  /\ Goto(r, "decide")
  /\ UNCHANGED <<agent, slots, attempts, built, path, kept, accepted>>

Passed(r) == status[r] = "PASSED" \/ qa[r]

\* The loop breaks: the build passed, or the attempts are used up.
Finish(r) ==
  /\ pc[r] = "decide"
  /\ Passed(r) \/ attempts[r] >= MaxAttempts
  /\ Goto(r, "deliver")
  /\ UNCHANGED <<agent, slots, breakers, state>>

\* Mutated: one repair too many.
RepairOnceMore(r) ==
  /\ pc[r] = "decide"
  /\ ~Passed(r) /\ attempts[r] <= MaxAttempts
  /\ Call(r, "architect")
  /\ Enter(r, "PLANNING")
  /\ built' = [built EXCEPT ![r] = FALSE]
  /\ path' = [path EXCEPT ![r] = 0]
  /\ qa' = [qa EXCEPT ![r] = FALSE]
  /\ UNCHANGED <<slots, breakers, attempts, kept, accepted>>

\* The next iteration, with a repair directive and nothing of the failed build.
Repair(r) ==
  /\ pc[r] = "decide"
  /\ ~Passed(r) /\ attempts[r] < MaxAttempts
  /\ Call(r, "architect")
  /\ Enter(r, "PLANNING")
  /\ built' = [built EXCEPT ![r] = FALSE]
  /\ path' = [path EXCEPT ![r] = 0]
  /\ qa' = [qa EXCEPT ![r] = FALSE]
  /\ UNCHANGED <<slots, breakers, attempts, kept, accepted>>

\* What orchestrate_generate() returns: the kept result as its build left it,
\* success and all.  That the critic has not accepted it is only a mark in its
\* metadata, `qa_failed_after_retries`.
ToldSuccess(r) == result[r] # 0 /\ success[r]
Marked(r) == ToldSuccess(r) /\ ~qa[r]

\* _deliver(), whatever the run came to.
Deliver(r) ==
  /\ pc[r] = "deliver"
  /\ Goto(r, "leaving")
  /\ Enter(r, "DELIVERED")
  /\ UNCHANGED <<agent, slots, breakers, attempts, built, path, qa, kept, accepted>>

\* The code between the agents raises: the exception passes through the slot.
Raise(r) ==
  /\ pc[r] \in {"gate", "decide"}
  /\ Goto(r, "leaving")
  /\ UNCHANGED <<agent, slots, breakers, state>>

-----------------------------------------------------------------------------
Arrive(r) == Refuse(r) \/ Admit(r)

Slot(r) ==
  \/ RefusedReturns(r) \/ AcquireSlot(r) \/ SlotTimeout(r) \/ GiveUpSlot(r)
  \/ BusyReturns(r) \/ Begin(r) \/ Leave(r) \/ ReleaseSlot(r)

Pipeline(r) ==
  \/ StartAgent(r) \/ BlockedAgent(r) \/ CrashAgent(r)
  \/ RouteBuild(r) \/ RouteElsewhere(r) \/ WriteSpec(r) \/ GatePasses(r) \/ GateBlocks(r)
  \/ BuildReturns(r) \/ BuildFails(r) \/ ToCritic(r) \/ NoBuild(r)
  \/ CriticAccepts(r) \/ CriticRejects(r)
  \/ Finish(r) \/ Repair(r) \/ Deliver(r) \/ Raise(r)

Next == \E r \in Runs : Arrive(r) \/ Slot(r) \/ Pipeline(r)

Spec == Init /\ [][Next]_vars

\* A thread that has entered goes on: an agent returns or raises, and the wait
\* for a permit ends by having it or by its timeout.
FairSpec == Spec /\ \A r \in Runs : WF_vars(Slot(r) \/ Pipeline(r))
=============================================================================
