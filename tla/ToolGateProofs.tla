--------------------------- MODULE ToolGateProofs ---------------------------
(* Proofs about the confirmation gate, for any number of orchestrations and  *)
(* with every fault of the disk.                                             *)
EXTENDS ToolGateProps, TLAPS

\* What a running orchestration has put on the memory board, and what the ids
\* kept beside it point to.
Runs ==
  /\ \A s \in States :
       /\ run[s] = "new" => memory[s] = "none" /\ file[s] = "none"
       /\ run[s] = "open" => memory[s] = "plain"
       /\ run[s] = "asked" => memory[s] = "pending"
  /\ newest # NoState => memory[newest] # "none"
  /\ sticky # NoState => memory[sticky] # "none"

\* The phases in which the handler leaves a state at each of its steps.
Left(at, verb) ==
  CASE at \in {"confirmed", "granted"} -> {"confirmed"}
    [] at \in {"executed", "delivering"} -> {"consumed"}
    [] at \in {"closing", "replying"} /\ verb = "reject" -> {"rejected"}
    [] at = "closing" /\ verb = "confirm" -> {"expired", "pending"}
    [] OTHER -> {"expired", "pending", "consumed"}

\* An answer acts on a state whose code is known, and what it did to it is in
\* the file once it was saved, unless that write failed.
Answering ==
  /\ chat.action # NoState => run[chat.action] = "told"
  /\ chat.at \notin {"idle", "resolved"} =>
       /\ run[chat.state] = "told"
       /\ memory[chat.state] \in Left(chat.at, chat.verb)
       /\ chat.at \in {"confirmed", "granted", "executed", "delivering"} =>
            chat.verb = "confirm"
  /\ chat.at \in {"granted", "replying"} =>
       chat.state \in failed \/ file[chat.state] \in {"torn", memory[chat.state]}

\* A code in hand was sent in time, and so was that of a state being confirmed.
Coded ==
  /\ chat.at = "resolved" /\ chat.code /\ chat.action \notin stale =>
       chat.action \in entered
  /\ chat.at \in {"confirmed", "granted"} => chat.state \in entered
  /\ ran \subseteq entered

\* A grant outside its own message was found in a file.
Grants ==
  /\ GrantLeftByRestart
  /\ \A s \in States \ orphans : file[s] = "confirmed" => memory[s] # "none"

\* What the board may still say of a state in these phases: only a failed write
\* leaves another one in the file, and then the memory board is read first.
Ended(S, phases) ==
  \A s \in S \ lost :
    /\ run[s] = "told"
    /\ memory[s] \in phases \cup {"none"}
    /\ file[s] \notin phases \cup {"none", "torn"} =>
         s \in failed /\ memory[s] # "none"

Once ==
  /\ Ended(ran, {"confirmed", "consumed", "rejected"})
  /\ \A s \in ran \ lost : chat.at \in {"confirmed", "granted"} => chat.state # s
  /\ AtMostOnce

IInv == TypeOK /\ Runs /\ Answering /\ Coded /\ Grants /\ Once
        /\ Ended(refused, {"rejected"})

-----------------------------------------------------------------------------
\* Types, and an answer acted on has a state of the board.
LEMMA TypeStep ==
  ASSUME TypeOK, Runs, [Next]_vars
  PROVE  TypeOK'
<1> USE StatesAssumption DEF Goto, Reply, Idle, Maybe, Verbs, board, history, faults
<1>1. ASSUME NEW s \in States, Open(s) PROVE TypeOK'
  BY <1>1 DEF Open, Put, Mirror, WriteIndex, TypeOK, Phase
<1>2. ASSUME NEW s \in States, Ask(s) PROVE TypeOK'
  BY <1>2 DEF Ask, Put, Mirror, WriteIndex, TypeOK, Phase
<1>3. ASSUME NEW s \in States, Return(s) PROVE TypeOK'
  BY <1>3 DEF Return, Put, Mirror, WriteIndex, TypeOK
<1>4. ASSUME NEW s \in States, Lapse(s) PROVE TypeOK'
  BY <1>4 DEF Lapse, TypeOK
<1>5. ASSUME NEW verb \in Verbs, NEW a \in Maybe, NEW code \in BOOLEAN, Receive(verb, a, code)
      PROVE TypeOK'
  BY <1>5 DEF Receive, Put, Latest, TypeOK, Chats, Phase, Runs
<1>6. CASE NotFound
  BY <1>6 DEF NotFound, TypeOK, Chats
<1>7. CASE Already
  BY <1>7 DEF Already, TypeOK, Chats
<1>8. CASE Expire
  BY <1>8 DEF Expire, Put, TypeOK, Chats, Phase, After
<1>9. CASE BadCode
  BY <1>9 DEF BadCode, Put, Asked, Matches, Pending, TypeOK, Chats, After
<1>10. CASE Confirm
  BY <1>10 DEF Confirm, Put, Asked, Matches, TypeOK, Chats, Phase, After
<1>11. CASE Reject
  BY <1>11 DEF Reject, Put, Asked, Matches, TypeOK, Chats, Phase, After
<1>12. CASE Save
  BY <1>12 DEF Save, Mirror, WriteIndex, After, TypeOK, Chats
<1>13. CASE Execute
  BY <1>13 DEF Execute, Put, TypeOK, Chats, Phase, After
<1>14. CASE Finish
  BY <1>14 DEF Finish, TypeOK, Chats
<1>15. CASE Crash
  BY <1>15 DEF Crash, TypeOK, Chats
<1>16. CASE UNCHANGED vars
  BY <1>16 DEF vars, TypeOK
<1> QED BY <1>1, <1>2, <1>3, <1>4, <1>5, <1>6, <1>7, <1>8, <1>9, <1>10, <1>11, <1>12, <1>13, <1>14,
           <1>15, <1>16 DEF Next, Orchestration, Handler

\* The board knows what runs and what the ids point to.
LEMMA RunsStep ==
  ASSUME TypeOK, Runs, Answering, [Next]_vars
  PROVE  Runs'
<1> USE StatesAssumption DEF Goto, Reply, Idle, Maybe, Verbs, board, history, faults
<1>1. ASSUME NEW s \in States, Open(s) PROVE Runs'
  BY <1>1 DEF Open, Put, Mirror, TypeOK, Runs
<1>2. ASSUME NEW s \in States, Ask(s) PROVE Runs'
  BY <1>2 DEF Ask, Put, Mirror, TypeOK, Runs
<1>3. ASSUME NEW s \in States, Return(s) PROVE Runs'
  BY <1>3 DEF Return, Put, Mirror, TypeOK, Runs
<1>4. ASSUME NEW s \in States, Lapse(s) PROVE Runs'
  BY <1>4 DEF Lapse, Runs
<1>5. ASSUME NEW verb \in Verbs, NEW a \in Maybe, NEW code \in BOOLEAN, Receive(verb, a, code)
      PROVE Runs'
  BY <1>5 DEF Receive, Put, Latest, TypeOK, Phase, Runs
<1>6. CASE NotFound
  BY <1>6 DEF NotFound, Runs
<1>7. CASE Already
  BY <1>7 DEF Already, Runs
<1>8. CASE Expire
  BY <1>8 DEF Expire, Put, Asked, Matches, Pending, Runs, Answering
<1>9. CASE BadCode
  BY <1>9 DEF BadCode, Put, Pending, Runs
<1>10. CASE Confirm
  BY <1>10 DEF Confirm, Put, Asked, Matches, Pending, Runs, Answering
<1>11. CASE Reject
  BY <1>11 DEF Reject, Put, Asked, Matches, TypeOK, Runs, Answering
<1>12. CASE Save
  <2>1. chat.state \in States /\ run[chat.state] = "told" /\ memory[chat.state] # "none"
    BY <1>12 DEF Save, After, TypeOK, Answering, Left
  <2> QED BY <1>12, <2>1 DEF Save, Mirror, TypeOK, Runs
<1>13. CASE Execute
  BY <1>13 DEF Execute, Put, Runs
<1>14. CASE Finish
  BY <1>14 DEF Finish, Runs
<1>15. CASE Crash
  BY <1>15 DEF Crash, Writing, After, TypeOK, Runs, Answering
<1>16. CASE UNCHANGED vars
  BY <1>16 DEF vars, Runs
<1> QED BY <1>1, <1>2, <1>3, <1>4, <1>5, <1>6, <1>7, <1>8, <1>9, <1>10, <1>11, <1>12, <1>13, <1>14,
           <1>15, <1>16 DEF Next, Orchestration, Handler

\* The handler leaves a state in the phase its answer calls for.
LEMMA AnsweringStep ==
  ASSUME TypeOK, Runs, Answering, [Next]_vars
  PROVE  Answering'
<1> USE StatesAssumption DEF Goto, Reply, Idle, Maybe, Verbs, board, history, faults
<1>1. ASSUME NEW s \in States, Open(s) PROVE Answering'
  BY <1>1 DEF Open, Put, Mirror, TypeOK, Answering
<1>2. ASSUME NEW s \in States, Ask(s) PROVE Answering'
  BY <1>2 DEF Ask, Put, Mirror, TypeOK, Answering
<1>3. ASSUME NEW s \in States, Return(s) PROVE Answering'
  BY <1>3 DEF Return, Put, Mirror, TypeOK, Answering
<1>4. ASSUME NEW s \in States, Lapse(s) PROVE Answering'
  BY <1>4 DEF Lapse, Answering
<1>5. ASSUME NEW verb \in Verbs, NEW a \in Maybe, NEW code \in BOOLEAN, Receive(verb, a, code)
      PROVE Answering'
  BY <1>5 DEF Receive, Answering
<1>6. CASE NotFound
  BY <1>6 DEF NotFound, Answering
<1>7. CASE Already
  BY <1>7 DEF Already, Answering
<1>8. CASE Expire
  BY <1>8 DEF Expire, Put, Asked, Matches, Pending, Answering, Left
<1>9. CASE BadCode
  BY <1>9 DEF BadCode, Put, Asked, Matches, Pending, Answering, Left
<1>10. CASE Confirm
  BY <1>10 DEF Confirm, Put, Asked, Matches, TypeOK, Chats, Answering, Left
<1>11. CASE Reject
  BY <1>11 DEF Reject, Put, Asked, Matches, TypeOK, Chats, Answering, Left
<1>12. CASE Save
  BY <1>12 DEF Save, Mirror, After, TypeOK, Answering, Left
<1>13. CASE Execute
  BY <1>13 DEF Execute, Put, TypeOK, Answering, Left
<1>14. CASE Finish
  BY <1>14 DEF Finish, Answering
<1>15. CASE Crash
  BY <1>15 DEF Crash, Answering
<1>16. CASE UNCHANGED vars
  BY <1>16 DEF vars, Answering
<1> QED BY <1>1, <1>2, <1>3, <1>4, <1>5, <1>6, <1>7, <1>8, <1>9, <1>10, <1>11, <1>12, <1>13, <1>14,
           <1>15, <1>16 DEF Next, Orchestration, Handler

\* Only a state's own code leads to a grant.
LEMMA CodedStep ==
  ASSUME TypeOK, Answering, Coded, [Next]_vars
  PROVE  Coded'
<1> USE StatesAssumption DEF Goto, Reply, Idle, Maybe, Verbs, board, history, faults
<1>1. ASSUME NEW s \in States, Open(s) PROVE Coded'
  BY <1>1 DEF Open, Coded
<1>2. ASSUME NEW s \in States, Ask(s) PROVE Coded'
  BY <1>2 DEF Ask, Coded
<1>3. ASSUME NEW s \in States, Return(s) PROVE Coded'
  BY <1>3 DEF Return, Coded
<1>4. ASSUME NEW s \in States, Lapse(s) PROVE Coded'
  BY <1>4 DEF Lapse, Coded
<1>5. ASSUME NEW verb \in Verbs, NEW a \in Maybe, NEW code \in BOOLEAN, Receive(verb, a, code)
      PROVE Coded'
  BY <1>5 DEF Receive, Coded
<1>6. CASE NotFound
  BY <1>6 DEF NotFound, Coded
<1>7. CASE Already
  BY <1>7 DEF Already, Coded
<1>8. CASE Expire
  BY <1>8 DEF Expire, Coded
<1>9. CASE BadCode
  BY <1>9 DEF BadCode, Coded
<1>10. CASE Confirm
  BY <1>10 DEF Confirm, Asked, Matches, Coded
<1>11. CASE Reject
  BY <1>11 DEF Reject, Coded
<1>12. CASE Save
  BY <1>12 DEF Save, After, Coded
<1>13. CASE Execute
  BY <1>13 DEF Execute, Coded
<1>14. CASE Finish
  BY <1>14 DEF Finish, Coded
<1>15. CASE Crash
  BY <1>15 DEF Crash, Coded
<1>16. CASE UNCHANGED vars
  BY <1>16 DEF vars, Coded
<1> QED BY <1>1, <1>2, <1>3, <1>4, <1>5, <1>6, <1>7, <1>8, <1>9, <1>10, <1>11, <1>12, <1>13, <1>14,
           <1>15, <1>16 DEF Next, Orchestration, Handler

\* A grant is used by its message or left to a restart.
LEMMA GrantsStep ==
  ASSUME TypeOK, Runs, Answering, Grants, [Next]_vars
  PROVE  Grants'
<1> USE StatesAssumption DEF Goto, Reply, Idle, Maybe, Verbs, board, history, faults
<1>1. ASSUME NEW s \in States, Open(s) PROVE Grants'
  BY <1>1 DEF Open, Put, Mirror, TypeOK, Grants, GrantLeftByRestart
<1>2. ASSUME NEW s \in States, Ask(s) PROVE Grants'
  BY <1>2 DEF Ask, Put, Mirror, TypeOK, Grants, GrantLeftByRestart
<1>3. ASSUME NEW s \in States, Return(s) PROVE Grants'
  BY <1>3 DEF Return, Put, Mirror, TypeOK, Grants, GrantLeftByRestart
<1>4. ASSUME NEW s \in States, Lapse(s) PROVE Grants'
  BY <1>4 DEF Lapse, Grants, GrantLeftByRestart
<1>5. ASSUME NEW verb \in Verbs, NEW a \in Maybe, NEW code \in BOOLEAN, Receive(verb, a, code)
      PROVE Grants'
  BY <1>5 DEF Receive, Put, TypeOK, Grants, GrantLeftByRestart
<1>6. CASE NotFound
  BY <1>6 DEF NotFound, Grants, GrantLeftByRestart
<1>7. CASE Already
  BY <1>7 DEF Already, Asked, Grants, GrantLeftByRestart
<1>8. CASE Expire
  BY <1>8 DEF Expire, Put, Asked, Grants, GrantLeftByRestart
<1>9. CASE BadCode
  BY <1>9 DEF BadCode, Put, Asked, Grants, GrantLeftByRestart
<1>10. CASE Confirm
  BY <1>10 DEF Confirm, Put, Grants, GrantLeftByRestart
<1>11. CASE Reject
  BY <1>11 DEF Reject, Put, Asked, Grants, GrantLeftByRestart
<1>12. CASE Save
  BY <1>12 DEF Save, Mirror, After, TypeOK, Grants, GrantLeftByRestart
<1>13. CASE Execute
  BY <1>13 DEF Execute, Put, TypeOK, Grants, GrantLeftByRestart
<1>14. CASE Finish
  BY <1>14 DEF Finish, Grants, GrantLeftByRestart
<1>15. CASE Crash
  BY <1>15 DEF Crash, Grants, GrantLeftByRestart
<1>16. CASE UNCHANGED vars
  BY <1>16 DEF vars, Grants, GrantLeftByRestart
<1> QED BY <1>1, <1>2, <1>3, <1>4, <1>5, <1>6, <1>7, <1>8, <1>9, <1>10, <1>11, <1>12, <1>13, <1>14,
           <1>15, <1>16 DEF Next, Orchestration, Handler

\* No phase from which a tool could be called comes back.
LEMMA OnceStep ==
  ASSUME TypeOK, Runs, Answering, Once, [Next]_vars
  PROVE  Once'
<1> USE StatesAssumption DEF Goto, Reply, Idle, Maybe, Verbs, board, history, faults
<1>1. ASSUME NEW s \in States, Open(s) PROVE Once'
  BY <1>1 DEF Open, Put, Mirror, TypeOK, Once, AtMostOnce, Ended
<1>2. ASSUME NEW s \in States, Ask(s) PROVE Once'
  BY <1>2 DEF Ask, Put, Mirror, TypeOK, Once, AtMostOnce, Ended
<1>3. ASSUME NEW s \in States, Return(s) PROVE Once'
  BY <1>3 DEF Return, Put, Mirror, TypeOK, Once, AtMostOnce, Ended
<1>4. ASSUME NEW s \in States, Lapse(s) PROVE Once'
  BY <1>4 DEF Lapse, Once, AtMostOnce, Ended
<1>5. ASSUME NEW verb \in Verbs, NEW a \in Maybe, NEW code \in BOOLEAN, Receive(verb, a, code)
      PROVE Once'
  BY <1>5 DEF Receive, Put, Latest, TypeOK, Phase, Runs, Once, AtMostOnce, Ended
<1>6. CASE NotFound
  BY <1>6 DEF NotFound, Once, AtMostOnce, Ended
<1>7. CASE Already
  BY <1>7 DEF Already, Once, AtMostOnce, Ended
<1>8. CASE Expire
  BY <1>8 DEF Expire, Put, Pending, Once, AtMostOnce, Ended
<1>9. CASE BadCode
  BY <1>9 DEF BadCode, Put, Pending, Once, AtMostOnce, Ended
<1>10. CASE Confirm
  BY <1>10 DEF Confirm, Put, Pending, Once, AtMostOnce, Ended
<1>11. CASE Reject
  BY <1>11 DEF Reject, Put, Once, AtMostOnce, Ended
<1>12. CASE Save
  BY <1>12 DEF Save, Mirror, After, TypeOK, Once, AtMostOnce, Ended
<1>13. CASE Execute
  BY <1>13 DEF Execute, Put, Answering, Once, AtMostOnce, Ended
<1>14. CASE Finish
  BY <1>14 DEF Finish, Once, AtMostOnce, Ended
<1>15. CASE Crash
  BY <1>15 DEF Crash, TypeOK, Once, AtMostOnce, Ended
<1>16. CASE UNCHANGED vars
  BY <1>16 DEF vars, Once, AtMostOnce, Ended
<1> QED BY <1>1, <1>2, <1>3, <1>4, <1>5, <1>6, <1>7, <1>8, <1>9, <1>10, <1>11, <1>12, <1>13, <1>14,
           <1>15, <1>16 DEF Next, Orchestration, Handler

\* A refused action stays refused.
LEMMA RefusedStep ==
  ASSUME TypeOK, Runs, Answering, Ended(refused, {"rejected"}), [Next]_vars
  PROVE  Ended(refused, {"rejected"})'
<1> USE StatesAssumption DEF Goto, Reply, Idle, Maybe, Verbs, board, history, faults
<1>1. ASSUME NEW s \in States, Open(s) PROVE Ended(refused, {"rejected"})'
  BY <1>1 DEF Open, Put, Mirror, TypeOK, Ended
<1>2. ASSUME NEW s \in States, Ask(s) PROVE Ended(refused, {"rejected"})'
  BY <1>2 DEF Ask, Put, Mirror, TypeOK, Ended
<1>3. ASSUME NEW s \in States, Return(s) PROVE Ended(refused, {"rejected"})'
  BY <1>3 DEF Return, Put, Mirror, TypeOK, Ended
<1>4. ASSUME NEW s \in States, Lapse(s) PROVE Ended(refused, {"rejected"})'
  BY <1>4 DEF Lapse, Ended
<1>5. ASSUME NEW verb \in Verbs, NEW a \in Maybe, NEW code \in BOOLEAN, Receive(verb, a, code)
      PROVE Ended(refused, {"rejected"})'
  BY <1>5 DEF Receive, Put, Latest, TypeOK, Phase, Runs, Ended
<1>6. CASE NotFound
  BY <1>6 DEF NotFound, Ended
<1>7. CASE Already
  BY <1>7 DEF Already, Ended
<1>8. CASE Expire
  BY <1>8 DEF Expire, Put, Pending, Ended
<1>9. CASE BadCode
  BY <1>9 DEF BadCode, Put, Pending, Ended
<1>10. CASE Confirm
  BY <1>10 DEF Confirm, Put, Pending, Ended
<1>11. CASE Reject
  BY <1>11 DEF Reject, Put, Ended
<1>12. CASE Save
  BY <1>12 DEF Save, Mirror, TypeOK, Ended
<1>13. CASE Execute
  BY <1>13 DEF Execute, Put, Ended
<1>14. CASE Finish
  BY <1>14 DEF Finish, Answering, Left, Ended
<1>15. CASE Crash
  BY <1>15 DEF Crash, TypeOK, Ended
<1>16. CASE UNCHANGED vars
  BY <1>16 DEF vars, Ended
<1> QED BY <1>1, <1>2, <1>3, <1>4, <1>5, <1>6, <1>7, <1>8, <1>9, <1>10, <1>11, <1>12, <1>13, <1>14,
           <1>15, <1>16 DEF Next, Orchestration, Handler

-----------------------------------------------------------------------------
LEMMA Initially == Init => IInv
  BY StatesAssumption DEF Init, Idle, Maybe, Verbs, IInv, TypeOK, Chats, Runs, Answering, Coded,
     Grants, GrantLeftByRestart, Once, AtMostOnce, Ended

LEMMA Inductive == Spec => []IInv
<1>1. IInv /\ [Next]_vars => IInv'
  BY TypeStep, RunsStep, AnsweringStep, CodedStep, GrantsStep, OnceStep, RefusedStep DEF IInv
<1> QED BY Initially, <1>1, PTL DEF Spec

\* Every variable stays in its type, and an answer is acted on only for a state
\* of the board.
THEOREM TypeCorrect == Spec => []TypeOK
<1>1. IInv => TypeOK BY DEF IInv
<1> QED BY <1>1, Inductive, PTL

\* One approval, one call, over restarts and repeated answers: a second call
\* needs a write that failed before the process stopped.
THEOREM CalledAtMostOnce == Spec => []AtMostOnce
<1>1. IInv => AtMostOnce BY DEF IInv, Once
<1> QED BY <1>1, Inductive, PTL

\* No tool is called without its own code, sent in time.
THEOREM CalledByItsCode == Spec => []OnlyByItsCode
<1>1. IInv => OnlyByItsCode BY DEF IInv, Coded, OnlyByItsCode
<1> QED BY <1>1, Inductive, PTL

\* Only a restart leaves a grant behind.
THEOREM GrantsAreUsed == Spec => []GrantLeftByRestart
<1>1. IInv => GrantLeftByRestart BY DEF IInv, Grants
<1> QED BY <1>1, Inductive, PTL

\* The one step that calls a tool needs a grant, which a refused action has not.
THEOREM RefusalIsFinal == Spec => RefusedNeverRuns
<1>1. IInv /\ [Next]_vars => [\A s \in refused \ lost : s \in ran' => s \in ran]_vars
  <2> SUFFICES ASSUME IInv, [Next]_vars, NEW s \in refused \ lost, s \in ran', s \notin ran
               PROVE FALSE
    OBVIOUS
  <2>1. ~Execute
    BY DEF Execute, IInv, Ended
  <2> QED BY <2>1 DEF Next, Orchestration, Handler, Open, Ask, Return, Lapse, Receive, NotFound,
             Already, Expire, BadCode, Confirm, Reject, Save, Finish, Crash, history, vars
<1> QED BY <1>1, Inductive, PTL DEF Spec, RefusedNeverRuns

\* On a disk whose writes do not fail no history is needed: however often the
\* process stops, in the middle of a write too, a tool is called once per
\* approval and never after an answered refusal.
THEOREM SoundDiskCallsOnce ==
  ASSUME ~DiskFaults
  PROVE  Spec => /\ [](reran = {})
                 /\ [][\A s \in refused : s \in ran' => s \in ran]_vars
<1> DEFINE NoLoss == failed = {} /\ lost = {}
<1>1. Init => NoLoss
  BY DEF Init
<1>2. NoLoss /\ [Next]_vars => NoLoss'
  <2> SUFFICES ASSUME NoLoss, [Next]_vars PROVE NoLoss'
    OBVIOUS
  <2>1. ASSUME NEW s \in States, NEW phase, Mirror(s, phase) PROVE NoLoss'
    BY <2>1 DEF Mirror
  <2>2. CASE Crash
    BY <2>2 DEF Crash
  <2>3. CASE UNCHANGED faults
    BY <2>3 DEF faults
  <2>4. CASE Save
    <3>1. lost' = lost /\ (failed' = failed \ {chat.state} \/ DiskFaults)
      BY <2>4 DEF Save, Mirror
    <3> QED BY <3>1
  <2> QED BY <2>1, <2>2, <2>3, <2>4 DEF Next, Orchestration, Handler, Open, Ask, Return, Lapse,
             Receive, NotFound, Already, Expire, BadCode, Confirm, Reject, Execute, Finish, vars
<1>3. NoLoss /\ AtMostOnce => reran = {}
  BY DEF AtMostOnce
<1>4. NoLoss /\ [\A s \in refused \ lost : s \in ran' => s \in ran]_vars
        => [\A s \in refused : s \in ran' => s \in ran]_vars
  OBVIOUS
<1> QED
  BY <1>1, <1>2, <1>3, <1>4, CalledAtMostOnce, RefusalIsFinal, PTL DEF Spec, RefusedNeverRuns
=============================================================================
