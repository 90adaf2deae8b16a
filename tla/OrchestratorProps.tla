------------------------- MODULE OrchestratorProps -------------------------
(* What a generation request relies on: the limits of the slots, the budget  *)
(* of attempts, an answer that is never called passed without the critic,    *)
(* and an end.                                                               *)
EXTENDS Orchestrator

\* Where a run holds a permit, and where it is counted for its user.
PermittedAt == Inside \cup {"granted", "releasing"}
CountedAt == Inside \cup {"waiting", "granted", "timed_out"}

RunsAt(P) == {r \in Runs : pc[r] \in P}
RunsOf(u) == {r \in Runs : User(r) = u}

\* Every variable holds a value of its type; a refused run alone holds the lock.
TypeOK ==
  /\ pc \in [Runs -> PC]
  /\ agent \in [Runs -> Agents]
  /\ lock \in Runs \cup {NoRun}
  /\ \A r \in Runs : pc[r] = "refused" <=> lock = r
  /\ sem \in Nat /\ active \in Nat /\ userActive \in [Users -> Nat]
  /\ breaker \in [Agents -> {"closed", "open", "half_open"}]
  /\ failures \in [Agents -> 0..Threshold]
  /\ status \in [Runs -> Status]
  /\ attempts \in [Runs -> Nat]
  /\ built \in [Runs -> BOOLEAN]
  /\ path \in [Runs -> Nat]
  /\ qa \in [Runs -> BOOLEAN]
  /\ result \in [Runs -> Nat]
  /\ success \in [Runs -> BOOLEAN]
  /\ accepted \in [Runs -> Nat]

\* No way out of a run - a timeout while waiting, a refusal, a return, an
\* exception - leaks a permit or a count, or returns one twice: the counters are
\* those of the runs under way, and so the limits hold.
SlotsAccounted ==
  /\ sem + Cardinality(RunsAt(PermittedAt)) = Limit
  /\ active = Cardinality(RunsAt(Inside))
  /\ \A u \in Users :
       /\ userActive[u] = Cardinality({r \in RunsOf(u) : pc[r] \in CountedAt})
       /\ userActive[u] <= UserLimit

\* A caller is told success for a build nobody accepted, too: the flag is the
\* builder's.  But told success without the mark qa_failed_after_retries, and
\* whenever the run calls itself passed, it has the result of the last build, a
\* successful one that the critic has accepted, however many builds, failures
\* and open breakers came before: no rejected, raised or older build comes out
\* unmarked, and no accepted one is marked or kept back.
SuccessIsVerified ==
  \A r \in Runs : Passed(r) \/ (ToldSuccess(r) /\ ~Marked(r)) =>
    /\ ToldSuccess(r) /\ ~Marked(r)
    /\ accepted[r] = path[r] /\ result[r] = path[r] /\ attempts[r] = path[r]
    /\ path[r] # 0 /\ built[r]

\* The repair loop calls generate_bot() at most max_attempts times.
BuildBudget == \A r \in Runs : attempts[r] <= MaxAttempts

-----------------------------------------------------------------------------
(* The inductive invariant behind the properties above.                      *)

\* Between a new plan and the end of its build.
Planning(r) ==
  \/ pc[r] \in {"call", "running"} /\ agent[r] \in {"router", "architect", "builder"}
  \/ pc[r] = "gate"

AtCritic(r) == pc[r] \in {"call", "running"} /\ agent[r] = "critic"
Outside(r) == pc[r] \in {"new", "refused", "waiting", "granted", "timed_out", "busy"}

\* What the loop knows at each place about the build in hand.
LoopInvOf(r) ==
  /\ Outside(r) => attempts[r] = 0
  /\ Outside(r) \/ Planning(r) => attempts[r] < MaxAttempts /\ ~built[r] /\ path[r] = 0
  /\ Outside(r) \/ Planning(r) \/ pc[r] = "judge" \/ AtCritic(r) => ~Passed(r)
  /\ AtCritic(r) => built[r] /\ path[r] # 0
  /\ path[r] # 0 => path[r] = attempts[r] /\ result[r] = attempts[r]
  /\ built[r] => success[r]
  /\ attempts[r] <= MaxAttempts
  /\ Passed(r) => /\ qa[r] /\ accepted[r] = path[r] /\ result[r] = path[r]
                  /\ attempts[r] = path[r] /\ path[r] # 0 /\ built[r]

LoopInv == \A r \in Runs : LoopInvOf(r)

IInv == TypeOK /\ SlotsAccounted /\ LoopInv

-----------------------------------------------------------------------------
(* Why the repair loop ends.                                                 *)

\* How far the thread is from the end of the attempt in hand.  An attempt ends
\* where the builder counts it, so what follows a build ranks below its start.
Stage(r) ==
  LET calling == pc[r] = "call" IN
  CASE pc[r] = "judge" -> 14
    [] AtCritic(r) -> IF calling THEN 13 ELSE 12
    [] pc[r] = "decide" -> 11
    [] pc[r] \in {"call", "running"} /\ agent[r] = "router" -> IF calling THEN 11 ELSE 10
    [] pc[r] \in {"call", "running"} /\ agent[r] = "architect" -> IF calling THEN 9 ELSE 8
    [] pc[r] = "gate" -> 7
    [] pc[r] \in {"call", "running"} /\ agent[r] = "builder" -> IF calling THEN 6 ELSE 5
    [] pc[r] = "deliver" -> 2
    [] OTHER -> 1

Rank(r) == 10 * (MaxAttempts - attempts[r]) + Stage(r)

\* The only ways past the builder that count no attempt: the gate, the builder's
\* open breaker, and an exception before the builder counts.
SkipsBuild(r) ==
  \/ GateBlocks(r)
  \/ agent[r] = "builder" /\ (BlockedAgent(r) \/ CrashAgent(r))

\* Every other step of run() brings its thread nearer to its delivery, through
\* the repairs too, by a measure that starts below 10 * (max_attempts + 2).
StepsRunOut ==
  [][\A r \in Runs : Pipeline(r) /\ ~SkipsBuild(r) =>
       Rank(r) < 10 * (MaxAttempts + 2) /\ Rank(r)' \in Nat /\ Rank(r)' < Rank(r)]_vars

-----------------------------------------------------------------------------
(* Liveness                                                                  *)

\* From some point on every call gets to its builder, and nobody is refused
\* inside the lock: with refusals for ever a thread could miss the lock each
\* time it is free.
Quiet ==
  <>[][\A r \in Runs :
         ~(GateBlocks(r) \/ BlockedAgent(r) \/ CrashAgent(r) \/ Refuse(r))]_vars

\* A request that has entered comes to an end - timed out, delivered, parked or
\* raised - once its builds are no longer blocked: the attempts run out, and
\* nobody waits for a lock or a permit for ever.
RunsEndWhenBuilt == Quiet => \A r \in Runs : pc[r] # "new" ~> pc[r] = "new"

-----------------------------------------------------------------------------
(* What the docs say and the code does not keep.                             *)

\* orchestrator.py:4: the repair loop goes on "until PASSED or max_attempts".
LoopEnds == \A r \in Runs : pc[r] = "gate" ~> pc[r] \in {"deliver", "leaving"}
=============================================================================
