------------------------------ MODULE ToolGate ------------------------------
(***************************************************************************)
(* The human confirmation gate (multi_agent/hitl.py, tools.py) with the    *)
(* blackboard it keeps its states on (blackboard.py) and the chat bridge   *)
(* that reads the answers (bot_interface/multi_agent_bridge.py).           *)
(*                                                                         *)
(* Orchestrations run in threads: each puts an AgentState on the board and *)
(* may park it with a pending action.  The chat handler answers one        *)
(* message at a time on the event loop: it finds the state the answer is   *)
(* about, judges the answer, changes the state object, which the memory    *)
(* board shares at once, and mirrors it to a JSON file in a second step    *)
(* whose exceptions are swallowed.  The process may stop between any two   *)
(* steps and restart with what the files hold.  One chat user; the action  *)
(* of a state is named by the state, for no state is asked about twice.    *)
(***************************************************************************)
EXTENDS Naturals

CONSTANTS
  States,      \* the AgentStates of the user's orchestrations
  NoState,     \* an empty state_id, and an action_id that is nobody's
  DiskFaults   \* writes to the board's directory may fail

ASSUME StatesAssumption == NoState \notin States
ASSUME FaultsAssumption == DiskFaults \in BOOLEAN

\* pending_action["status"]; "plain" has no pending action.
Phase == {"plain", "pending", "confirmed", "consumed", "rejected", "expired"}
Maybe == States \cup {NoState}

VARIABLES
  run,       \* each orchestration: new, open, asked, told (its code is known) or over
  memory,    \* [States -> the phase of the shared object, or "none"]
  newest,    \* the state of the memory board with the largest updated_at
  file,      \* [States -> the phase its JSON file holds, "none" or "torn"]
  index,     \* the newest entry of _index.json, NoState (no file or an empty one), or "torn"
  stale,     \* states whose pending action has passed expires_at
  sticky,    \* user_data["multi_agent_state_id"]
  chat,      \* the message being handled: where, and what it said and resolved to
  entered,   \* history: states whose own code was given in time
  ran,       \* history: states execute_tool() was called for
  reran,     \* history: those it was called for again
  refused,   \* history: states whose refusal was answered before they ran
  orphans,   \* history: states whose file said confirmed when the process stopped
  failed,    \* history: states whose last file write failed
  lost       \* history: those among them when the process stopped

board == <<memory, newest, file, index>>
history == <<entered, ran, reran, refused, orphans>>
faults == <<failed, lost>>
vars == <<run, board, stale, sticky, chat, history, faults>>

Verbs == {"confirm", "reject"}
Idle == [at |-> "idle", verb |-> "confirm", action |-> NoState, code |-> FALSE,
         state |-> NoState]

Init ==
  /\ run = [s \in States |-> "new"]
  /\ memory = [s \in States |-> "none"]
  /\ newest = NoState
  /\ file = [s \in States |-> "none"]
  /\ index = NoState
  /\ stale = {}
  /\ sticky = NoState
  /\ chat = Idle
  /\ entered = {} /\ ran = {} /\ reran = {} /\ refused = {}
  /\ orphans = {} /\ failed = {} /\ lost = {}

-----------------------------------------------------------------------------
(* The blackboard                                                            *)

\* MemoryBlackboard.put(): touched and stored.
Put(s, phase) ==
  /\ memory' = [memory EXCEPT ![s] = phase]
  /\ newest' = s

\* An index that does not parse is never written again; an empty file parses.
WriteIndex(s) ==
  \/ index' = IF index = "torn" THEN "torn" ELSE s
  \/ DiskFaults /\ index' \in {index, "torn", NoState}

\* FileBlackboard.put() of an object in this phase.  Neither the write of the
\* state nor that of the index is atomic.
Mirror(s, phase) ==
  /\ lost' = lost
  /\ \/ /\ file' = [file EXCEPT ![s] = phase]
        /\ failed' = failed \ {s}
        /\ WriteIndex(s)
     \/ /\ DiskFaults
        /\ \E left \in {file[s], "torn"} : file' = [file EXCEPT ![s] = left]
        /\ failed' = failed \cup {s}
        /\ index' = index

\* LayeredBlackboard.latest_for_user(): the memory's, else what the index names.
Latest == IF newest # NoState THEN newest
          ELSE IF index \in States /\ file[index] \in Phase THEN index
          ELSE NoState

-----------------------------------------------------------------------------
(* Orchestrations                                                            *)

Open(s) ==
  /\ run[s] = "new"
  /\ run' = [run EXCEPT ![s] = "open"]
  /\ Put(s, "plain") /\ Mirror(s, "plain")
  /\ UNCHANGED <<stale, sticky, chat, history>>

\* request_confirmation()
Ask(s) ==
  /\ run[s] = "open"
  /\ run' = [run EXCEPT ![s] = "asked"]
  /\ Put(s, "pending") /\ Mirror(s, "pending")
  /\ UNCHANGED <<stale, sticky, chat, history>>

\* The last put of orchestrate_generate(); only now may the user learn the code.
Return(s) ==
  /\ run[s] \in {"open", "asked"}
  /\ run' = [run EXCEPT ![s] = IF @ = "asked" THEN "told" ELSE "over"]
  /\ Put(s, memory[s]) /\ Mirror(s, memory[s])
  /\ UNCHANGED <<stale, sticky, chat, history>>

Lapse(s) ==
  /\ run[s] = "told" /\ s \notin stale
  /\ stale' = stale \cup {s}
  /\ UNCHANGED <<run, board, sticky, chat, history, faults>>

-----------------------------------------------------------------------------
(* Answers                                                                   *)

Goto(where) == chat' = [chat EXCEPT !.at = where]
Reply == chat' = Idle

\* Mutated: a state read from its file is not put on the memory board.
ReceiveUnloaded(verb, a, code) ==
  /\ chat.at = "idle"
  /\ a # NoState => run[a] = "told"
  /\ code => verb = "confirm" /\ a # NoState
  /\ chat' = [at |-> "resolved", verb |-> verb, action |-> a, code |-> code,
              state |-> IF sticky # NoState THEN sticky ELSE Latest]
  /\ entered' = IF code /\ a \notin stale THEN entered \cup {a} ELSE entered
  /\ UNCHANGED <<run, board, stale, sticky, ran, reran, refused, orphans,
                 faults>>

\* try_handle_hitl_message(): which state the answer is about.  A state found
\* in its file is put on the memory board.
Receive(verb, a, code) ==
  /\ chat.at = "idle"
  /\ a # NoState => run[a] = "told"
  /\ code => verb = "confirm" /\ a # NoState
  /\ LET s == IF sticky # NoState THEN sticky ELSE Latest
     IN /\ chat' = [at |-> "resolved", verb |-> verb, action |-> a, code |-> code,
                    state |-> s]
        /\ IF s # NoState /\ memory[s] = "none" THEN Put(s, file[s])
           ELSE UNCHANGED <<memory, newest>>
  /\ entered' = IF code /\ a \notin stale THEN entered \cup {a} ELSE entered
  /\ UNCHANGED <<run, file, index, stale, sticky, ran, reran, refused,
                 orphans, faults>>

\* The answer names the pending action of the state it was resolved to.
Matches == chat.action = chat.state /\ chat.state # NoState

\* No state at all, or another one's action.  A rejection forgets the sticky id.
NotFound ==
  /\ chat.at = "resolved" /\ ~Matches
  /\ sticky' = IF chat.verb = "reject" THEN NoState ELSE sticky
  /\ Reply
  /\ UNCHANGED <<run, board, stale, history, faults>>

Asked(verb) == chat.at = "resolved" /\ Matches /\ chat.verb = verb

\* Mutated: an approval that was never executed may be given again.
PendingOrGranted == memory[chat.state] \in {"pending", "confirmed"}

Pending == memory[chat.state] = "pending"

Already ==
  /\ Asked("confirm") /\ ~Pending
  /\ Reply
  /\ UNCHANGED <<run, board, stale, sticky, history, faults>>

Expire ==
  /\ Asked("confirm") /\ Pending /\ chat.state \in stale
  /\ Put(chat.state, "expired")
  /\ Goto("closing")
  /\ UNCHANGED <<run, file, index, stale, sticky, history, faults>>

BadCode ==
  /\ Asked("confirm") /\ Pending /\ chat.state \notin stale /\ ~chat.code
  /\ Put(chat.state, "pending")
  /\ Goto("closing")
  /\ UNCHANGED <<run, file, index, stale, sticky, history, faults>>

\* Mutated: the code is not compared.
ConfirmAnyCode ==
  /\ Asked("confirm") /\ Pending /\ chat.state \notin stale
  /\ Put(chat.state, "confirmed")
  /\ Goto("confirmed")
  /\ UNCHANGED <<run, file, index, stale, sticky, history, faults>>

\* The grant is there exactly while the phase is "confirmed".
Confirm ==
  /\ Asked("confirm") /\ Pending /\ chat.state \notin stale /\ chat.code
  /\ Put(chat.state, "confirmed")
  /\ Goto("confirmed")
  /\ UNCHANGED <<run, file, index, stale, sticky, history, faults>>

\* Mutated: the status of the pending action is left as it is.
RejectKeepsStatus ==
  /\ Asked("reject")
  /\ Put(chat.state, memory[chat.state])
  /\ Goto("closing")
  /\ UNCHANGED <<run, file, index, stale, sticky, history, faults>>

\* reject_action() looks at no status.
Reject ==
  /\ Asked("reject")
  /\ Put(chat.state, "rejected")
  /\ Goto("closing")
  /\ UNCHANGED <<run, file, index, stale, sticky, history, faults>>

\* Mutated: nothing continues after the confirmation.
AfterNoResume == [closing |-> "replying", confirmed |-> "replying",
                  executed |-> "delivering", delivering |-> "replying"]

\* Where the handler goes once the file is written, or the write has failed.
After == [closing |-> "replying", confirmed |-> "granted", executed |-> "delivering",
          delivering |-> "replying"]

\* The file board touches the shared object once more, whether its write succeeds
\* or not.
Save ==
  /\ chat.at \in DOMAIN After
  /\ newest' = chat.state
  /\ Mirror(chat.state, memory[chat.state])
  /\ Goto(After[chat.at])
  /\ UNCHANGED <<run, memory, stale, sticky, history>>

\* continue_after_confirm() -> execute_tool_gated(): the grant is consumed, then
\* execute_tool() is called.
Execute ==
  /\ chat.at = "granted" /\ memory[chat.state] = "confirmed"
  /\ Put(chat.state, "consumed")
  /\ Goto("executed")
  /\ ran' = ran \cup {chat.state}
  /\ reran' = IF chat.state \in ran THEN reran \cup {chat.state} ELSE reran
  /\ UNCHANGED <<run, file, index, stale, sticky, entered, refused, orphans, faults>>

\* A confirmation keeps the state id for good, any rejection drops it.
Finish ==
  /\ chat.at = "replying"
  /\ sticky' = CASE chat.verb = "reject" -> NoState
                 [] memory[chat.state] = "consumed" -> chat.state
                 [] OTHER -> sticky
  /\ refused' = IF chat.verb = "reject" /\ chat.state \notin ran
                THEN refused \cup {chat.state} ELSE refused
  /\ Reply
  /\ UNCHANGED <<run, board, stale, entered, ran, reran, orphans, faults>>

-----------------------------------------------------------------------------
\* The states a thread or the handler may be writing.
Writing == {s \in States : \/ run[s] \in {"open", "asked"}
                           \/ chat.at \in DOMAIN After /\ s = chat.state}

\* The process stops, perhaps in the middle of a write, and starts again:
\* memory, user_data and the consumed codes are gone.
Crash ==
  /\ run' = [s \in States |-> IF run[s] \in {"open", "asked"} THEN "over" ELSE run[s]]
  /\ memory' = [s \in States |-> "none"]
  /\ newest' = NoState
  /\ \/ UNCHANGED <<file, index>>
     \/ \E s \in Writing : file' = [file EXCEPT ![s] = "torn"] /\ index' = index
     \/ \E s \in Writing : /\ file' = [file EXCEPT ![s] = memory[s]]
                          /\ index' \in {"torn", NoState}
  /\ sticky' = NoState
  /\ chat' = Idle
  /\ orphans' = orphans \cup {s \in States : file'[s] = "confirmed"}
  /\ lost' = lost \cup failed
  /\ failed' = {}
  /\ UNCHANGED <<stale, entered, ran, reran, refused>>

Orchestration(s) == Open(s) \/ Ask(s) \/ Return(s)
Handler == NotFound \/ Already \/ Expire \/ BadCode \/ Confirm \/ Reject
           \/ Save \/ Execute \/ Finish

Next ==
  \/ \E s \in States : Orchestration(s) \/ Lapse(s)
  \/ \E verb \in Verbs, a \in Maybe, code \in BOOLEAN : Receive(verb, a, code)
  \/ Handler
  \/ Crash

Spec == Init /\ [][Next]_vars
=============================================================================
