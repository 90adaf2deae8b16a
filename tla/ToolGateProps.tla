--------------------------- MODULE ToolGateProps ----------------------------
(* What the confirmation gate promises, stated over ToolGate.                *)
EXTENDS ToolGate

Chats == [at : {"idle", "resolved", "replying", "granted"} \cup DOMAIN After,
          verb : Verbs, action : Maybe, code : BOOLEAN, state : Maybe]

\* Every variable keeps its type; an answer that is acted on has a state of the
\* board.
TypeOK ==
  /\ run \in [States -> {"new", "open", "asked", "told", "over"}]
  /\ memory \in [States -> Phase \cup {"none"}]
  /\ file \in [States -> Phase \cup {"none", "torn"}]
  /\ newest \in Maybe /\ index \in Maybe \cup {"torn"} /\ sticky \in Maybe
  /\ chat \in Chats
  /\ \A v \in {stale, ran, reran, refused, orphans, failed, lost} :
       v \subseteq States
  /\ entered \subseteq States
  /\ chat.at \notin {"idle", "resolved"} => chat.state \in States
  /\ chat.at = "resolved" /\ chat.state # NoState => memory[chat.state] # "none"

\* One approval, one call: execute_tool() is called at most once for an action,
\* over restarts and repeated answers, unless the write of its state failed
\* before the process stopped (hitl.py, consume_execute_grant; blackboard.py,
\* LayeredBlackboard.put).
AtMostOnce == reran \subseteq lost

\* A tool is called only if the user sent that action's own code before it
\* expired: no answer to another action, no refusal and no code of a state the
\* answer was not resolved to approves it (hitl.py, confirm_action).
OnlyByItsCode == ran \subseteq entered

\* Once a refusal has been answered, no later answer, restart or late write runs
\* the tool, unless the refusal could not be written before the process stopped
\* (hitl.py, reject_action).
RefusedNeverRuns == [][\A s \in refused \ lost : s \in ran' => s \in ran]_vars

\* A grant that nobody is using was left behind by a restart: an approval the
\* running process has accepted is consumed by the same message
\* (multi_agent_bridge.py, confirm_action then continue_after_confirm).
GrantLeftByRestart ==
  \A s \in States \ orphans :
    memory[s] = "confirmed" => chat.state = s /\ chat.at \in {"confirmed", "granted"}
=============================================================================
