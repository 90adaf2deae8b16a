------------------------- MODULE DeployQueueProofs -------------------------
(***************************************************************************)
(* Theorems about the deploy queue, for any jobs, users, workers and caps. *)
(***************************************************************************)
EXTENDS DeployQueueProps, FiniteSetTheorems, TLAPS

USE DEF row, proc, docker

-----------------------------------------------------------------------------
(* What the two writes that settle a job do, pointwise.                      *)

\* mark_failed(): failed for good without the token, or queued again with it.
LEMMA WriteFailedFacts ==
  ASSUME NEW w \in Workers, WriteFailed(w)
  PROVE  /\ \/ /\ lastTry[w]
               /\ status' = [status EXCEPT ![job[w]] = "failed"]
               /\ sealed' = [sealed EXCEPT ![job[w]] = FALSE]
               /\ node' = node
            \/ /\ ~lastTry[w]
               /\ status' = [status EXCEPT ![job[w]] = "queued"]
               /\ node' = [node EXCEPT ![job[w]] = NoNode]
               /\ sealed' = sealed
         /\ UNCHANGED <<attempts, stale>>
BY Zenon DEF WriteFailed

LEMMA WriteFailedType ==
  ASSUME TypeOK, NEW w \in Workers, WriteFailed(w)
  PROVE  /\ status' \in [Jobs -> RowStatus] /\ sealed' \in [Jobs -> BOOLEAN]
         /\ node' \in [Jobs -> Workers \cup {NoNode}]
<1>1. CASE lastTry[w]
  <2>1. /\ status' = [status EXCEPT ![job[w]] = "failed"]
        /\ sealed' = [sealed EXCEPT ![job[w]] = FALSE] /\ node' = node
    BY <1>1, WriteFailedFacts, Zenon
  <2> QED
    BY <2>1 DEF TypeOK, RowStatus
<1>2. CASE ~lastTry[w]
  <2>1. /\ status' = [status EXCEPT ![job[w]] = "queued"]
        /\ node' = [node EXCEPT ![job[w]] = NoNode] /\ sealed' = sealed
    BY <1>2, WriteFailedFacts, Zenon
  <2> QED
    BY <2>1 DEF TypeOK, RowStatus
<1> QED
  BY <1>1, <1>2

LEMMA MarkFailedFacts ==
  ASSUME NEW w \in Workers, MarkFailed(w)
  PROVE  /\ pc[w] \in {"giving_up", "closing"} /\ WriteFailed(w) /\ Leave(w, "idle")
         /\ \/ /\ lastTry[w]
               /\ status' = [status EXCEPT ![job[w]] = "failed"]
               /\ sealed' = [sealed EXCEPT ![job[w]] = FALSE]
               /\ node' = node
            \/ /\ ~lastTry[w]
               /\ status' = [status EXCEPT ![job[w]] = "queued"]
               /\ node' = [node EXCEPT ![job[w]] = NoNode]
               /\ sealed' = sealed
         /\ UNCHANGED <<request, attempts, stale, tracked, orphans, exited, disputed>>
BY WriteFailedFacts, Zenon DEF MarkFailed, GivingUp

\* A settling write whose answer is lost touches one row, and disputes its job.
LEMMA UnheardFacts ==
  ASSUME TypeOK, LocalsInv, NEW w \in Workers, UnheardInTry(w)
  PROVE  /\ pc[w] \in {"deployed", "giving_up"}
         /\ job[w] \in Jobs /\ status[job[w]] # "none"
         /\ \A i \in Jobs \ {job[w]} :
              status'[i] = status[i] /\ node'[i] = node[i] /\ sealed'[i] = sealed[i]
         /\ \/ status'[job[w]] = "running" /\ ~sealed'[job[w]]
            \/ lastTry[w] /\ status'[job[w]] = "failed" /\ ~sealed'[job[w]]
            \/ status'[job[w]] = "queued"
         /\ stale' \subseteq stale /\ disputed' = disputed \cup {job[w]}
         /\ pc' = [pc EXCEPT ![w] = "caught"]
         /\ UNCHANGED <<request, attempts, job, token, lastTry, tracked, orphans, exited>>
         /\ status' \in [Jobs -> RowStatus] /\ sealed' \in [Jobs -> BOOLEAN]
         /\ node' \in [Jobs -> Workers \cup {NoNode}]
<1> USE DEF TypeOK
<1>1. pc[w] \in {"deployed", "giving_up"} /\ job[w] \in Jobs /\ status[job[w]] # "none"
  BY DEF UnheardInTry, LocalsInv, Holding, Trying
<1>2. /\ disputed' = disputed \cup {job[w]} /\ pc' = [pc EXCEPT ![w] = "caught"]
      /\ UNCHANGED <<request, job, token, lastTry, tracked, orphans, exited>>
  BY DEF UnheardInTry
<1>3. CASE WriteRunning(w)
  BY <1>1, <1>2, <1>3 DEF WriteRunning, RowStatus
<1>4. CASE WriteFailed(w)
  BY <1>1, <1>2, <1>4, WriteFailedFacts, WriteFailedType
<1> QED
  BY <1>3, <1>4 DEF UnheardInTry

-----------------------------------------------------------------------------
(* Types, and the locals of process_one().                                   *)

LEMMA InitType == Init => TypeOK /\ LocalsInv
BY JobsAssumption, WorkersAssumption, LimitsAssumption
   DEF Init, TypeOK, LocalsInv, RowStatus, PC, Holding, Trying, Excepting

\* Every action keeps the types; the reads of job[w] need LocalsInv.
LEMMA NextType == TypeOK /\ LocalsInv /\ [Next]_vars => TypeOK'
<1> SUFFICES ASSUME TypeOK, LocalsInv, [Next]_vars PROVE TypeOK'
  OBVIOUS
<1> USE JobsAssumption, WorkersAssumption, LimitsAssumption
    DEF TypeOK
<1>1. ASSUME NEW j \in Jobs, CountQueued(j) PROVE TypeOK'
  BY <1>1 DEF CountQueued
<1>2. ASSUME NEW j \in Jobs, InsertJob(j) PROVE TypeOK'
  BY <1>2 DEF InsertJob, RowStatus
<1>3. ASSUME NEW j \in Jobs, EnqueueLost(j) PROVE TypeOK'
  BY <1>3 DEF EnqueueLost
<1>4. ASSUME NEW j \in Jobs, Age(j) PROVE TypeOK'
  <2>1. stale' = stale \cup {j} /\ UNCHANGED <<request, status, node, attempts, sealed>>
        /\ UNCHANGED <<pc, job, token, lastTry>> /\ UNCHANGED <<tracked, orphans, exited>>
        /\ disputed' \subseteq disputed \cup {j}
    BY <1>4 DEF Age
  <2> QED
    BY <2>1
<1>5. ASSUME NEW w \in Workers, CheckCapacity(w) PROVE TypeOK'
  BY <1>5 DEF CheckCapacity, PC, Holding, Trying, Excepting
<1>6. ASSUME NEW w \in Workers, ClaimNext(w) PROVE TypeOK'
  <2>1. PICK j \in Claimable :
          /\ status' = [i \in Jobs |-> IF i = j THEN "claimed"
                                       ELSE IF i \in Reclaimed THEN "queued" ELSE status[i]]
          /\ node' = [i \in Jobs |-> IF i = j THEN w
                                     ELSE IF i \in Reclaimed THEN NoNode ELSE node[i]]
          /\ attempts' = [attempts EXCEPT ![j] =
                            IF attempts[j] > MaxAttempts THEN @ ELSE @ + 1]
          /\ stale' = stale \ {j}
          /\ job' = [job EXCEPT ![w] = j]
    BY <1>6 DEF ClaimNext
  <2>2. j \in Jobs
    BY DEF Claimable, Reclaimed
  <2>3. status' \in [Jobs -> RowStatus] /\ node' \in [Jobs -> Workers \cup {NoNode}]
    BY <2>1 DEF RowStatus
  <2>4. attempts' \in [Jobs -> 0 .. MaxAttempts + 1]
    BY <2>1, <2>2
  <2>5. stale' \subseteq Jobs /\ job' \in [Workers -> Jobs \cup {NoJob}]
    BY <2>1, <2>2
  <2>6. pc' \in [Workers -> PC]
    BY <1>6 DEF ClaimNext, PC, Holding, Trying, Excepting
  <2> QED
    BY <1>6, <2>3, <2>4, <2>5, <2>6 DEF ClaimNext
<1>7. ASSUME NEW w \in Workers, ClaimNothing(w) PROVE TypeOK'
  BY <1>7 DEF ClaimNothing, PC, Holding, Trying, Excepting
<1>8. ASSUME NEW w \in Workers, ReadJob(w) PROVE TypeOK'
  BY <1>8 DEF ReadJob, LocalsInv, PC, Holding, Trying, Excepting
<1>9. ASSUME NEW w \in Workers, MarkBuilding(w) PROVE TypeOK'
  BY <1>9 DEF MarkBuilding, PC, Holding, Trying, Excepting, RowStatus
<1>10. ASSUME NEW w \in Workers, Heartbeat(w) PROVE TypeOK'
  BY <1>10 DEF Heartbeat, PC, Holding, Trying, Excepting
<1>11. ASSUME NEW w \in Workers, PrepareFails(w) PROVE TypeOK'
  BY <1>11 DEF PrepareFails, PC, Holding, Trying, Excepting
<1>12. ASSUME NEW w \in Workers, StopByProject(w) PROVE TypeOK'
  BY <1>12 DEF StopByProject, PC, Holding, Trying, Excepting
<1>13. ASSUME NEW w \in Workers, DeploySucceeds(w) PROVE TypeOK'
  BY <1>13 DEF DeploySucceeds, LocalsInv, PC, Holding, Trying, Excepting
<1>14. ASSUME NEW w \in Workers, DeployFails(w) PROVE TypeOK'
  BY <1>14 DEF DeployFails, PC, Holding, Trying, Excepting
<1>15. ASSUME NEW w \in Workers, DeployTimesOut(w) PROVE TypeOK'
  BY <1>15 DEF DeployTimesOut, LocalsInv, PC, Holding, Trying, Excepting
<1>16. ASSUME NEW w \in Workers, MarkRunning(w) PROVE TypeOK'
  BY <1>16 DEF MarkRunning, WriteRunning, Leave, PC, Holding, Trying, Excepting, RowStatus
<1>17. ASSUME NEW w \in Workers, ReadAttempts(w) PROVE TypeOK'
  BY <1>17 DEF ReadAttempts, LocalsInv, PC, Holding, Trying, Excepting
<1>18. ASSUME NEW w \in Workers, MarkFailed(w) PROVE TypeOK'
  <2>1. /\ pc' \in [Workers -> PC] /\ job' \in [Workers -> Jobs \cup {NoJob}]
        /\ token' \in [Workers -> BOOLEAN] /\ lastTry' \in [Workers -> BOOLEAN]
    BY <1>18, MarkFailedFacts DEF Leave, PC
  <2> QED
    BY <1>18, <2>1, MarkFailedFacts, WriteFailedType
<1>19. ASSUME NEW w \in Workers, HeartbeatUnheard(w) PROVE TypeOK'
  BY <1>19 DEF HeartbeatUnheard, Leave, PC, Holding, Trying, Excepting
<1>20. ASSUME NEW w \in Workers, CallRaises(w) PROVE TypeOK'
  BY <1>20 DEF CallRaises, Leave, PC, Holding, Trying, Excepting
<1>21. ASSUME NEW w \in Workers, RaisesInTry(w) PROVE TypeOK'
  BY <1>21 DEF RaisesInTry, PC, Holding, Trying, Excepting
<1>22. ASSUME NEW w \in Workers, Crash(w) PROVE TypeOK'
  BY <1>22 DEF Crash, Leave, PC, Holding, Trying, Excepting
<1>23. ASSUME NEW w \in Workers, Restart(w) PROVE TypeOK'
  BY <1>23 DEF Restart, PC, Holding, Trying, Excepting
<1>24. ASSUME NEW w \in Workers, UnheardInTry(w) PROVE TypeOK'
  <2>1. /\ pc' = [pc EXCEPT ![w] = "caught"] /\ job[w] \in Jobs
        /\ disputed' = disputed \cup {job[w]} /\ stale' \subseteq stale
    BY <1>24, UnheardFacts
  <2>2. pc' \in [Workers -> PC] /\ disputed' \subseteq Jobs /\ stale' \subseteq Jobs
    BY <2>1 DEF PC, Holding, Excepting
  <2>3. /\ status' \in [Jobs -> RowStatus] /\ sealed' \in [Jobs -> BOOLEAN]
        /\ node' \in [Jobs -> Workers \cup {NoNode}]
        /\ UNCHANGED <<request, attempts, job, token, lastTry, tracked, orphans, exited>>
    BY <1>24, UnheardFacts
  <2> QED
    BY <2>2, <2>3
<1>25. ASSUME NEW w \in Workers, ContainerExits(w) PROVE TypeOK'
  BY <1>25 DEF ContainerExits
<1>26. CASE UNCHANGED vars
  BY <1>26 DEF vars
<1> QED
  BY <1>1, <1>2, <1>3, <1>4, <1>5, <1>6, <1>7, <1>8, <1>9, <1>10, <1>11, <1>12, <1>13, <1>14,
     <1>15, <1>16, <1>17, <1>18, <1>19, <1>20, <1>21, <1>22, <1>23, <1>24, <1>25, <1>26
     DEF Next, Enqueue, ProcessOne, Fault

\* A job object is held exactly inside the claimed part of process_one().
LEMMA NextLocals == TypeOK /\ LocalsInv /\ [Next]_vars => LocalsInv'
<1> SUFFICES ASSUME TypeOK, LocalsInv, [Next]_vars PROVE LocalsInv'
  OBVIOUS
<1> USE JobsAssumption, WorkersAssumption, LimitsAssumption
    DEF TypeOK, LocalsInv, Holding, Trying, Excepting
<1>1. ASSUME NEW j \in Jobs, CountQueued(j) PROVE LocalsInv'
  BY <1>1 DEF CountQueued
<1>2. ASSUME NEW j \in Jobs, InsertJob(j) PROVE LocalsInv'
  BY <1>2 DEF InsertJob
<1>3. ASSUME NEW j \in Jobs, EnqueueLost(j) PROVE LocalsInv'
  BY <1>3 DEF EnqueueLost
<1>4. ASSUME NEW j \in Jobs, Age(j) PROVE LocalsInv'
  BY <1>4 DEF Age
<1>5. ASSUME NEW w \in Workers, CheckCapacity(w) PROVE LocalsInv'
  BY <1>5 DEF CheckCapacity
<1>6. ASSUME NEW w \in Workers, ClaimNext(w) PROVE LocalsInv'
  <2>1. PICK j \in Claimable :
          /\ status' = [i \in Jobs |-> IF i = j THEN "claimed"
                                       ELSE IF i \in Reclaimed THEN "queued" ELSE status[i]]
          /\ job' = [job EXCEPT ![w] = j]
    BY <1>6 DEF ClaimNext
  <2>2. j \in Jobs /\ status[j] # "none"
    BY DEF Claimable, Reclaimed, InHand
  <2>3. \A i \in Jobs : status'[i] = "none" <=> status[i] = "none"
    BY <2>1, <2>2 DEF Reclaimed, InHand
  <2> QED
    BY <1>6, <2>1, <2>2, <2>3 DEF ClaimNext
<1>7. ASSUME NEW w \in Workers, ClaimNothing(w) PROVE LocalsInv'
  BY <1>7 DEF ClaimNothing
<1>8. ASSUME NEW w \in Workers, ReadJob(w) PROVE LocalsInv'
  BY <1>8 DEF ReadJob
<1>9. ASSUME NEW w \in Workers, MarkBuilding(w) PROVE LocalsInv'
  BY <1>9 DEF MarkBuilding
<1>10. ASSUME NEW w \in Workers, Heartbeat(w) PROVE LocalsInv'
  BY <1>10 DEF Heartbeat
<1>11. ASSUME NEW w \in Workers, PrepareFails(w) PROVE LocalsInv'
  BY <1>11 DEF PrepareFails
<1>12. ASSUME NEW w \in Workers, StopByProject(w) PROVE LocalsInv'
  BY <1>12 DEF StopByProject
<1>13. ASSUME NEW w \in Workers, DeploySucceeds(w) PROVE LocalsInv'
  BY <1>13 DEF DeploySucceeds
<1>14. ASSUME NEW w \in Workers, DeployFails(w) PROVE LocalsInv'
  BY <1>14 DEF DeployFails
<1>15. ASSUME NEW w \in Workers, DeployTimesOut(w) PROVE LocalsInv'
  BY <1>15 DEF DeployTimesOut
<1>16. ASSUME NEW w \in Workers, MarkRunning(w) PROVE LocalsInv'
  <2>1. \A i \in Jobs : status'[i] = "none" => status[i] = "none"
    BY <1>16 DEF MarkRunning, WriteRunning
  <2>2. job[w] \in Jobs /\ status[job[w]] # "none"
    BY <1>16 DEF MarkRunning, WriteRunning
  <2>3. \A i \in Jobs : status[i] = "none" => status'[i] = "none"
    BY <1>16, <2>2 DEF MarkRunning, WriteRunning
  <2> QED
    BY <1>16, <2>1, <2>3 DEF MarkRunning, WriteRunning, Leave
<1>17. ASSUME NEW w \in Workers, ReadAttempts(w) PROVE LocalsInv'
  BY <1>17 DEF ReadAttempts
<1>18. ASSUME NEW w \in Workers, MarkFailed(w) PROVE LocalsInv'
  <2>1. \A i \in Jobs : status'[i] = "none" => status[i] = "none"
    BY <1>18, MarkFailedFacts
  <2>2. job[w] \in Jobs /\ status[job[w]] # "none"
    BY <1>18, MarkFailedFacts
  <2>3. \A i \in Jobs : status[i] = "none" => status'[i] = "none"
    BY <1>18, <2>2, MarkFailedFacts
  <2> QED
    <3>1. request' = request /\ job' = [job EXCEPT ![w] = NoJob] /\ pc' = [pc EXCEPT ![w] = "idle"]
      BY <1>18, MarkFailedFacts DEF Leave
    <3> QED
      BY <2>1, <2>3, <3>1
<1>19. ASSUME NEW w \in Workers, HeartbeatUnheard(w) PROVE LocalsInv'
  BY <1>19 DEF HeartbeatUnheard, Leave
<1>20. ASSUME NEW w \in Workers, CallRaises(w) PROVE LocalsInv'
  BY <1>20 DEF CallRaises, Leave
<1>21. ASSUME NEW w \in Workers, RaisesInTry(w) PROVE LocalsInv'
  BY <1>21 DEF RaisesInTry, Trying
<1>22. ASSUME NEW w \in Workers, Crash(w) PROVE LocalsInv'
  BY <1>22 DEF Crash, Leave
<1>23. ASSUME NEW w \in Workers, Restart(w) PROVE LocalsInv'
  BY <1>23 DEF Restart
<1>24. ASSUME NEW w \in Workers, UnheardInTry(w) PROVE LocalsInv'
  <2>1. \A i \in Jobs : status'[i] = "none" <=> status[i] = "none"
    BY <1>24, UnheardFacts
  <2>2. \A v \in Workers : pc'[v] \in Holding <=> pc[v] \in Holding
    BY <1>24, UnheardFacts
  <2>3. UNCHANGED <<request, job>>
    BY <1>24, UnheardFacts
  <2> QED
    BY <2>1, <2>2, <2>3
<1>25. ASSUME NEW w \in Workers, ContainerExits(w) PROVE LocalsInv'
  BY <1>25 DEF ContainerExits
<1>26. CASE UNCHANGED vars
  BY <1>26 DEF vars
<1> QED
  BY <1>1, <1>2, <1>3, <1>4, <1>5, <1>6, <1>7, <1>8, <1>9, <1>10, <1>11, <1>12, <1>13, <1>14,
     <1>15, <1>16, <1>17, <1>18, <1>19, <1>20, <1>21, <1>22, <1>23, <1>24, <1>25, <1>26
     DEF Next, Enqueue, ProcessOne, Fault

-----------------------------------------------------------------------------
(* What two of the actions do, pointwise.                                    *)

\* claim_next(): one job goes to w, reclaimed jobs back to the queue, and no
\* count of attempts goes down.
LEMMA ClaimFacts ==
  ASSUME TypeOK, NEW w \in Workers, ClaimNext(w)
  PROVE  \E j \in Jobs :
           /\ status[j] = "queued" \/ j \in Reclaimed
           /\ status'[j] = "claimed" /\ node'[j] = w
           /\ \A i \in Jobs \ {j} :
                \/ status'[i] = status[i] /\ node'[i] = node[i]
                \/ i \in Reclaimed /\ status'[i] = "queued" /\ node'[i] = NoNode
           /\ \A i \in Jobs : attempts'[i] \in Nat /\ attempts'[i] >= attempts[i]
           /\ \A i \in Jobs \ {j} : attempts'[i] = attempts[i]
           /\ stale' = stale \ {j}
           /\ job' = [job EXCEPT ![w] = j]
           /\ pc[w] = "ready" /\ pc' = [pc EXCEPT ![w] = "claimed"]
           /\ UNCHANGED <<request, sealed, disputed, token, lastTry, tracked, orphans, exited>>
<1>1. PICK j \in Claimable :
        /\ status' = [i \in Jobs |-> IF i = j THEN "claimed"
                                     ELSE IF i \in Reclaimed THEN "queued" ELSE status[i]]
        /\ node' = [i \in Jobs |-> IF i = j THEN w
                                   ELSE IF i \in Reclaimed THEN NoNode ELSE node[i]]
        /\ attempts' = [attempts EXCEPT ![j] =
                          IF attempts[j] > MaxAttempts THEN @ ELSE @ + 1]
        /\ stale' = stale \ {j}
        /\ job' = [job EXCEPT ![w] = j]
  BY DEF ClaimNext
<1>2. j \in Jobs /\ (status[j] = "queued" \/ j \in Reclaimed)
  BY DEF Claimable, Reclaimed, TypeOK
<1>3. attempts \in [Jobs -> 0 .. MaxAttempts + 1] /\ MaxAttempts \in Nat
  BY LimitsAssumption DEF TypeOK
<1>4. /\ \A i \in Jobs : attempts'[i] \in Nat /\ attempts'[i] >= attempts[i]
      /\ \A i \in Jobs \ {j} : attempts'[i] = attempts[i]
  BY <1>1, <1>2, <1>3
<1>5. \A i \in Jobs \ {j} :
         \/ status'[i] = status[i] /\ node'[i] = node[i]
         \/ i \in Reclaimed /\ status'[i] = "queued" /\ node'[i] = NoNode
  BY <1>1
<1>6. status'[j] = "claimed" /\ node'[j] = w
  BY <1>1, <1>2
<1>7. /\ pc[w] = "ready" /\ pc' = [pc EXCEPT ![w] = "claimed"]
      /\ UNCHANGED <<request, sealed, disputed, token, lastTry, tracked, orphans, exited>>
  BY DEF ClaimNext
<1> QED
  BY <1>1, <1>2, <1>4, <1>5, <1>6, <1>7

-----------------------------------------------------------------------------
(* What holds for any workers, zombies included.                             *)

\* mark_failed() decides on attempts that stay made.
LEMMA NextExhausted == TypeOK /\ LocalsInv /\ ExhaustedInv /\ [Next]_vars => ExhaustedInv'
<1> SUFFICES ASSUME TypeOK, LocalsInv, ExhaustedInv, [Next]_vars PROVE ExhaustedInv'
  OBVIOUS
<1> USE LimitsAssumption
    DEF TypeOK, ExhaustedInv
<1>1. ASSUME NEW j \in Jobs, CountQueued(j) PROVE ExhaustedInv'
  BY <1>1 DEF CountQueued
<1>2. ASSUME NEW j \in Jobs, InsertJob(j) PROVE ExhaustedInv'
  BY <1>2 DEF InsertJob
<1>3. ASSUME NEW j \in Jobs, EnqueueLost(j) PROVE ExhaustedInv'
  BY <1>3 DEF EnqueueLost
<1>4. ASSUME NEW j \in Jobs, Age(j) PROVE ExhaustedInv'
  BY <1>4 DEF Age
<1>5. ASSUME NEW w \in Workers, CheckCapacity(w) PROVE ExhaustedInv'
  BY <1>5 DEF CheckCapacity
<1>6. ASSUME NEW w \in Workers, ClaimNext(w) PROVE ExhaustedInv'
  <2>1. job[w] \notin Jobs
    BY <1>6 DEF ClaimNext, LocalsInv, Holding, Trying, Excepting
  <2> QED
    BY <1>6, <2>1, ClaimFacts
<1>7. ASSUME NEW w \in Workers, ClaimNothing(w) PROVE ExhaustedInv'
  BY <1>7 DEF ClaimNothing
<1>8. ASSUME NEW w \in Workers, ReadJob(w) PROVE ExhaustedInv'
  BY <1>8 DEF ReadJob
<1>9. ASSUME NEW w \in Workers, MarkBuilding(w) PROVE ExhaustedInv'
  BY <1>9 DEF MarkBuilding
<1>10. ASSUME NEW w \in Workers, Heartbeat(w) PROVE ExhaustedInv'
  BY <1>10 DEF Heartbeat
<1>11. ASSUME NEW w \in Workers, PrepareFails(w) PROVE ExhaustedInv'
  BY <1>11 DEF PrepareFails
<1>12. ASSUME NEW w \in Workers, StopByProject(w) PROVE ExhaustedInv'
  BY <1>12 DEF StopByProject
<1>13. ASSUME NEW w \in Workers, DeploySucceeds(w) PROVE ExhaustedInv'
  BY <1>13 DEF DeploySucceeds
<1>14. ASSUME NEW w \in Workers, DeployFails(w) PROVE ExhaustedInv'
  BY <1>14 DEF DeployFails
<1>15. ASSUME NEW w \in Workers, DeployTimesOut(w) PROVE ExhaustedInv'
  BY <1>15 DEF DeployTimesOut
<1>16. ASSUME NEW w \in Workers, MarkRunning(w) PROVE ExhaustedInv'
  BY <1>16 DEF MarkRunning, WriteRunning, Leave
<1>17. ASSUME NEW w \in Workers, ReadAttempts(w) PROVE ExhaustedInv'
  BY <1>17 DEF ReadAttempts, LocalsInv, Holding, Trying, Excepting
<1>18. ASSUME NEW w \in Workers, MarkFailed(w) PROVE ExhaustedInv'
  BY <1>18, MarkFailedFacts DEF Leave
<1>19. ASSUME NEW w \in Workers, HeartbeatUnheard(w) PROVE ExhaustedInv'
  BY <1>19 DEF HeartbeatUnheard, Leave
<1>20. ASSUME NEW w \in Workers, CallRaises(w) PROVE ExhaustedInv'
  BY <1>20 DEF CallRaises, Leave
<1>21. ASSUME NEW w \in Workers, RaisesInTry(w) PROVE ExhaustedInv'
  BY <1>21 DEF RaisesInTry, Trying
<1>22. ASSUME NEW w \in Workers, Crash(w) PROVE ExhaustedInv'
  BY <1>22 DEF Crash, Leave
<1>23. ASSUME NEW w \in Workers, Restart(w) PROVE ExhaustedInv'
  BY <1>23 DEF Restart
<1>24. ASSUME NEW w \in Workers, UnheardInTry(w) PROVE ExhaustedInv'
  BY <1>24, UnheardFacts
<1>25. ASSUME NEW w \in Workers, ContainerExits(w) PROVE ExhaustedInv'
  BY <1>25 DEF ContainerExits
<1>26. CASE UNCHANGED vars
  BY <1>26 DEF vars
<1> QED
  BY <1>1, <1>2, <1>3, <1>4, <1>5, <1>6, <1>7, <1>8, <1>9, <1>10, <1>11, <1>12, <1>13, <1>14,
     <1>15, <1>16, <1>17, <1>18, <1>19, <1>20, <1>21, <1>22, <1>23, <1>24, <1>25, <1>26
     DEF Next, Enqueue, ProcessOne, Fault

\* No write gives a settled row a token.
LEMMA NextSettledDropsToken == TypeOK /\ LocalsInv /\ SettledDropsToken /\ [Next]_vars => SettledDropsToken'
<1> SUFFICES ASSUME TypeOK, LocalsInv, SettledDropsToken, [Next]_vars PROVE SettledDropsToken'
  OBVIOUS
<1> USE DEF TypeOK, SettledDropsToken, Settled
<1>1. ASSUME NEW j \in Jobs, CountQueued(j) PROVE SettledDropsToken'
  BY <1>1 DEF CountQueued
<1>2. ASSUME NEW j \in Jobs, InsertJob(j) PROVE SettledDropsToken'
  BY <1>2 DEF InsertJob
<1>3. ASSUME NEW j \in Jobs, EnqueueLost(j) PROVE SettledDropsToken'
  BY <1>3 DEF EnqueueLost
<1>4. ASSUME NEW j \in Jobs, Age(j) PROVE SettledDropsToken'
  BY <1>4 DEF Age
<1>5. ASSUME NEW w \in Workers, CheckCapacity(w) PROVE SettledDropsToken'
  BY <1>5 DEF CheckCapacity
<1>6. ASSUME NEW w \in Workers, ClaimNext(w) PROVE SettledDropsToken'
  BY <1>6, ClaimFacts
<1>7. ASSUME NEW w \in Workers, ClaimNothing(w) PROVE SettledDropsToken'
  BY <1>7 DEF ClaimNothing
<1>8. ASSUME NEW w \in Workers, ReadJob(w) PROVE SettledDropsToken'
  BY <1>8 DEF ReadJob
<1>9. ASSUME NEW w \in Workers, MarkBuilding(w) PROVE SettledDropsToken'
  BY <1>9 DEF MarkBuilding
<1>10. ASSUME NEW w \in Workers, Heartbeat(w) PROVE SettledDropsToken'
  BY <1>10 DEF Heartbeat
<1>11. ASSUME NEW w \in Workers, PrepareFails(w) PROVE SettledDropsToken'
  BY <1>11 DEF PrepareFails
<1>12. ASSUME NEW w \in Workers, StopByProject(w) PROVE SettledDropsToken'
  BY <1>12 DEF StopByProject
<1>13. ASSUME NEW w \in Workers, DeploySucceeds(w) PROVE SettledDropsToken'
  BY <1>13 DEF DeploySucceeds
<1>14. ASSUME NEW w \in Workers, DeployFails(w) PROVE SettledDropsToken'
  BY <1>14 DEF DeployFails
<1>15. ASSUME NEW w \in Workers, DeployTimesOut(w) PROVE SettledDropsToken'
  BY <1>15 DEF DeployTimesOut
<1>16. ASSUME NEW w \in Workers, MarkRunning(w) PROVE SettledDropsToken'
  BY <1>16 DEF MarkRunning, WriteRunning, Leave
<1>17. ASSUME NEW w \in Workers, ReadAttempts(w) PROVE SettledDropsToken'
  BY <1>17 DEF ReadAttempts
<1>18. ASSUME NEW w \in Workers, MarkFailed(w) PROVE SettledDropsToken'
  BY <1>18, MarkFailedFacts
<1>19. ASSUME NEW w \in Workers, HeartbeatUnheard(w) PROVE SettledDropsToken'
  BY <1>19 DEF HeartbeatUnheard, Leave
<1>20. ASSUME NEW w \in Workers, CallRaises(w) PROVE SettledDropsToken'
  BY <1>20 DEF CallRaises, Leave
<1>21. ASSUME NEW w \in Workers, RaisesInTry(w) PROVE SettledDropsToken'
  BY <1>21 DEF RaisesInTry, Trying
<1>22. ASSUME NEW w \in Workers, Crash(w) PROVE SettledDropsToken'
  BY <1>22 DEF Crash, Leave
<1>23. ASSUME NEW w \in Workers, Restart(w) PROVE SettledDropsToken'
  BY <1>23 DEF Restart
<1>24. ASSUME NEW w \in Workers, UnheardInTry(w) PROVE SettledDropsToken'
  BY <1>24, UnheardFacts
<1>25. ASSUME NEW w \in Workers, ContainerExits(w) PROVE SettledDropsToken'
  BY <1>25 DEF ContainerExits
<1>26. CASE UNCHANGED vars
  BY <1>26 DEF vars
<1> QED
  BY <1>1, <1>2, <1>3, <1>4, <1>5, <1>6, <1>7, <1>8, <1>9, <1>10, <1>11, <1>12, <1>13, <1>14,
     <1>15, <1>16, <1>17, <1>18, <1>19, <1>20, <1>21, <1>22, <1>23, <1>24, <1>25, <1>26
     DEF Next, Enqueue, ProcessOne, Fault

\* A write of failed follows enough claims, and attempts never go down.
LEMMA NextFailedOnlyExhausted == TypeOK /\ LocalsInv /\ ExhaustedInv /\ FailedOnlyExhausted /\ [Next]_vars => FailedOnlyExhausted'
<1> SUFFICES ASSUME TypeOK, LocalsInv, ExhaustedInv, FailedOnlyExhausted, [Next]_vars PROVE FailedOnlyExhausted'
  OBVIOUS
<1> USE LimitsAssumption
    DEF TypeOK, FailedOnlyExhausted
<1>1. ASSUME NEW j \in Jobs, CountQueued(j) PROVE FailedOnlyExhausted'
  BY <1>1 DEF CountQueued
<1>2. ASSUME NEW j \in Jobs, InsertJob(j) PROVE FailedOnlyExhausted'
  BY <1>2 DEF InsertJob
<1>3. ASSUME NEW j \in Jobs, EnqueueLost(j) PROVE FailedOnlyExhausted'
  BY <1>3 DEF EnqueueLost
<1>4. ASSUME NEW j \in Jobs, Age(j) PROVE FailedOnlyExhausted'
  BY <1>4 DEF Age
<1>5. ASSUME NEW w \in Workers, CheckCapacity(w) PROVE FailedOnlyExhausted'
  BY <1>5 DEF CheckCapacity
<1>6. ASSUME NEW w \in Workers, ClaimNext(w) PROVE FailedOnlyExhausted'
  BY <1>6, ClaimFacts
<1>7. ASSUME NEW w \in Workers, ClaimNothing(w) PROVE FailedOnlyExhausted'
  BY <1>7 DEF ClaimNothing
<1>8. ASSUME NEW w \in Workers, ReadJob(w) PROVE FailedOnlyExhausted'
  BY <1>8 DEF ReadJob
<1>9. ASSUME NEW w \in Workers, MarkBuilding(w) PROVE FailedOnlyExhausted'
  BY <1>9 DEF MarkBuilding
<1>10. ASSUME NEW w \in Workers, Heartbeat(w) PROVE FailedOnlyExhausted'
  BY <1>10 DEF Heartbeat
<1>11. ASSUME NEW w \in Workers, PrepareFails(w) PROVE FailedOnlyExhausted'
  BY <1>11 DEF PrepareFails
<1>12. ASSUME NEW w \in Workers, StopByProject(w) PROVE FailedOnlyExhausted'
  BY <1>12 DEF StopByProject
<1>13. ASSUME NEW w \in Workers, DeploySucceeds(w) PROVE FailedOnlyExhausted'
  BY <1>13 DEF DeploySucceeds
<1>14. ASSUME NEW w \in Workers, DeployFails(w) PROVE FailedOnlyExhausted'
  BY <1>14 DEF DeployFails
<1>15. ASSUME NEW w \in Workers, DeployTimesOut(w) PROVE FailedOnlyExhausted'
  BY <1>15 DEF DeployTimesOut
<1>16. ASSUME NEW w \in Workers, MarkRunning(w) PROVE FailedOnlyExhausted'
  BY <1>16 DEF MarkRunning, WriteRunning, Leave
<1>17. ASSUME NEW w \in Workers, ReadAttempts(w) PROVE FailedOnlyExhausted'
  BY <1>17 DEF ReadAttempts
<1>18. ASSUME NEW w \in Workers, MarkFailed(w) PROVE FailedOnlyExhausted'
  BY <1>18, MarkFailedFacts DEF ExhaustedInv
<1>19. ASSUME NEW w \in Workers, HeartbeatUnheard(w) PROVE FailedOnlyExhausted'
  BY <1>19 DEF HeartbeatUnheard, Leave
<1>20. ASSUME NEW w \in Workers, CallRaises(w) PROVE FailedOnlyExhausted'
  BY <1>20 DEF CallRaises, Leave
<1>21. ASSUME NEW w \in Workers, RaisesInTry(w) PROVE FailedOnlyExhausted'
  BY <1>21 DEF RaisesInTry, Trying
<1>22. ASSUME NEW w \in Workers, Crash(w) PROVE FailedOnlyExhausted'
  BY <1>22 DEF Crash, Leave
<1>23. ASSUME NEW w \in Workers, Restart(w) PROVE FailedOnlyExhausted'
  BY <1>23 DEF Restart
<1>24. ASSUME NEW w \in Workers, UnheardInTry(w) PROVE FailedOnlyExhausted'
  BY <1>24, UnheardFacts DEF ExhaustedInv
<1>25. ASSUME NEW w \in Workers, ContainerExits(w) PROVE FailedOnlyExhausted'
  BY <1>25 DEF ContainerExits
<1>26. CASE UNCHANGED vars
  BY <1>26 DEF vars
<1> QED
  BY <1>1, <1>2, <1>3, <1>4, <1>5, <1>6, <1>7, <1>8, <1>9, <1>10, <1>11, <1>12, <1>13, <1>14,
     <1>15, <1>16, <1>17, <1>18, <1>19, <1>20, <1>21, <1>22, <1>23, <1>24, <1>25, <1>26
     DEF Next, Enqueue, ProcessOne, Fault

-----------------------------------------------------------------------------
(* What holds of a job nobody has disputed.                                  *)

LEMMA NoJobNotJob == NoJob \notin Jobs
BY JobsAssumption

LEMMA DisputedForGood == TypeOK /\ LocalsInv /\ [Next]_vars => disputed \subseteq disputed'
<1> SUFFICES ASSUME TypeOK, LocalsInv, [Next]_vars PROVE disputed \subseteq disputed'
  OBVIOUS
<1>1. ASSUME NEW j \in Jobs, Age(j) PROVE disputed \subseteq disputed'
  BY <1>1 DEF Age
<1>2. ASSUME NEW j \in Jobs, Enqueue(j) PROVE disputed' = disputed
  BY <1>2 DEF Enqueue, CountQueued, InsertJob, EnqueueLost
<1>3. ASSUME NEW w \in Workers, UnheardInTry(w) PROVE disputed \subseteq disputed'
  BY <1>3 DEF UnheardInTry
<1>4. ASSUME NEW w \in Workers, ProcessOne(w) PROVE disputed' = disputed
  BY <1>4 DEF ProcessOne, CheckCapacity, ClaimNext, ClaimNothing, ReadJob, MarkBuilding,
     Heartbeat, PrepareFails, StopByProject, DeploySucceeds, DeployFails, DeployTimesOut,
     MarkRunning, ReadAttempts, MarkFailed
<1>5. ASSUME NEW w \in Workers,
             \/ CallRaises(w) \/ HeartbeatUnheard(w) \/ RaisesInTry(w) \/ Crash(w)
             \/ Restart(w) \/ ContainerExits(w)
      PROVE  disputed' = disputed
  BY <1>5 DEF CallRaises, HeartbeatUnheard, RaisesInTry, Crash, Restart, ContainerExits
<1>6. CASE UNCHANGED vars
  BY <1>6 DEF vars
<1> QED
  BY <1>1, <1>2, <1>3, <1>4, <1>5, <1>6 DEF Next, Fault

\* Only a job in no live worker's hands ages, is reclaimed and is claimed again.
LEMMA OwnedStep ==
  ASSUME TypeOK, LocalsInv, NEW k \in Jobs, Owned(k), [Next]_vars
  PROVE  Owned(k)'
<1> SUFFICES ASSUME k \notin disputed, k \notin disputed' PROVE Owned(k)'
  BY DisputedForGood DEF Owned
<1> USE DEF TypeOK, Owned, InHand
<1>1. ASSUME NEW j \in Jobs, CountQueued(j) PROVE Owned(k)'
  BY <1>1 DEF CountQueued
<1>2. ASSUME NEW j \in Jobs, InsertJob(j) PROVE Owned(k)'
  BY <1>2 DEF InsertJob, LocalsInv
<1>3. ASSUME NEW j \in Jobs, EnqueueLost(j) PROVE Owned(k)'
  BY <1>3 DEF EnqueueLost
<1>4. ASSUME NEW j \in Jobs, Age(j) PROVE Owned(k)'
  <2>1. stale' = stale \cup {j} /\ UNCHANGED <<status, node, job>>
    BY <1>4 DEF Age
  <2>2. j = k => \A w \in Workers : job[w] # k
    BY <1>4 DEF Age, Held
  <2> QED
    BY <2>1, <2>2
<1>5. ASSUME NEW w \in Workers, CheckCapacity(w) PROVE Owned(k)'
  BY <1>5 DEF CheckCapacity
<1>6. ASSUME NEW w \in Workers, ClaimNext(w) PROVE Owned(k)'
  <2>1. PICK j \in Jobs :
          /\ status[j] = "queued" \/ j \in Reclaimed
          /\ status'[j] = "claimed" /\ node'[j] = w
          /\ \A i \in Jobs \ {j} :
               \/ status'[i] = status[i] /\ node'[i] = node[i]
               \/ i \in Reclaimed /\ status'[i] = "queued" /\ node'[i] = NoNode
          /\ stale' = stale \ {j}
          /\ job' = [job EXCEPT ![w] = j]
    BY <1>6, ClaimFacts
  <2>2. ASSUME NEW v \in Workers \ {w}, job[v] = k
        PROVE  k # j /\ k \notin Reclaimed /\ job'[v] = job[v]
    BY <2>1, <2>2 DEF Reclaimed
  <2> QED
    BY <2>1, <2>2
<1>7. ASSUME NEW w \in Workers, ClaimNothing(w) PROVE Owned(k)'
  BY <1>7 DEF ClaimNothing
<1>8. ASSUME NEW w \in Workers, ReadJob(w) PROVE Owned(k)'
  BY <1>8 DEF ReadJob
<1>9. ASSUME NEW w \in Workers, MarkBuilding(w) PROVE Owned(k)'
  BY <1>9 DEF MarkBuilding
<1>10. ASSUME NEW w \in Workers, Heartbeat(w) PROVE Owned(k)'
  BY <1>10 DEF Heartbeat
<1>11. ASSUME NEW w \in Workers, PrepareFails(w) PROVE Owned(k)'
  BY <1>11 DEF PrepareFails
<1>12. ASSUME NEW w \in Workers, StopByProject(w) PROVE Owned(k)'
  BY <1>12 DEF StopByProject
<1>13. ASSUME NEW w \in Workers, DeploySucceeds(w) PROVE Owned(k)'
  BY <1>13 DEF DeploySucceeds
<1>14. ASSUME NEW w \in Workers, DeployFails(w) PROVE Owned(k)'
  BY <1>14 DEF DeployFails
<1>15. ASSUME NEW w \in Workers, DeployTimesOut(w) PROVE Owned(k)'
  BY <1>15 DEF DeployTimesOut
<1>16. ASSUME NEW w \in Workers, MarkRunning(w) PROVE Owned(k)'
  BY <1>16, NoJobNotJob DEF MarkRunning, WriteRunning, Leave
<1>17. ASSUME NEW w \in Workers, ReadAttempts(w) PROVE Owned(k)'
  BY <1>17 DEF ReadAttempts
<1>18. ASSUME NEW w \in Workers, MarkFailed(w) PROVE Owned(k)'
  <2>1. job[w] \in Jobs
    BY <1>18, MarkFailedFacts DEF LocalsInv, Holding, Trying, Excepting
  <2>2. job'[w] \notin Jobs /\ \A v \in Workers \ {w} : job'[v] = job[v]
    BY <1>18, MarkFailedFacts, NoJobNotJob DEF Leave
  <2>3. \A i \in Jobs \ {job[w]} : status'[i] = status[i] /\ node'[i] = node[i]
    BY <1>18, <2>1, MarkFailedFacts
  <2>4. stale' = stale
    BY <1>18, MarkFailedFacts
  <2>5. \A v \in Workers \ {w} : job[v] = k => job[v] # job[w]
    BY <2>1
  <2> QED
    BY <2>2, <2>3, <2>4, <2>5
<1>19. ASSUME NEW w \in Workers, HeartbeatUnheard(w) PROVE Owned(k)'
  BY <1>19, NoJobNotJob DEF HeartbeatUnheard, Leave
<1>20. ASSUME NEW w \in Workers, CallRaises(w) PROVE Owned(k)'
  BY <1>20, NoJobNotJob DEF CallRaises, Leave
<1>21. ASSUME NEW w \in Workers, RaisesInTry(w) PROVE Owned(k)'
  BY <1>21 DEF RaisesInTry, Trying
<1>22. ASSUME NEW w \in Workers, Crash(w) PROVE Owned(k)'
  BY <1>22, NoJobNotJob DEF Crash, Leave
<1>23. ASSUME NEW w \in Workers, Restart(w) PROVE Owned(k)'
  BY <1>23 DEF Restart
<1>24. ASSUME NEW w \in Workers, UnheardInTry(w) PROVE Owned(k)'
  BY <1>24, UnheardFacts
<1>25. ASSUME NEW w \in Workers, ContainerExits(w) PROVE Owned(k)'
  BY <1>25 DEF ContainerExits
<1>26. CASE UNCHANGED vars
  BY <1>26 DEF vars
<1> QED
  BY <1>1, <1>2, <1>3, <1>4, <1>5, <1>6, <1>7, <1>8, <1>9, <1>10, <1>11, <1>12, <1>13, <1>14,
     <1>15, <1>16, <1>17, <1>18, <1>19, <1>20, <1>21, <1>22, <1>23, <1>24, <1>25, <1>26
     DEF Next, Enqueue, ProcessOne, Fault


\* A worker drops only the token of the job it settles.
LEMMA TokenStep ==
  ASSUME TypeOK, LocalsInv, NEW k \in Jobs, Owned(k), KeepsToken(k), [Next]_vars,
         k \notin disputed, k \notin disputed'
  PROVE  KeepsToken(k)'
<1> USE DEF TypeOK, KeepsToken, Open, InHand
<1>1. ASSUME NEW j \in Jobs, CountQueued(j) PROVE KeepsToken(k)'
  BY <1>1 DEF CountQueued
<1>2. ASSUME NEW j \in Jobs, InsertJob(j) PROVE KeepsToken(k)'
  BY <1>2 DEF InsertJob
<1>3. ASSUME NEW j \in Jobs, EnqueueLost(j) PROVE KeepsToken(k)'
  BY <1>3 DEF EnqueueLost
<1>4. ASSUME NEW j \in Jobs, Age(j) PROVE KeepsToken(k)'
  BY <1>4 DEF Age
<1>5. ASSUME NEW w \in Workers, CheckCapacity(w) PROVE KeepsToken(k)'
  BY <1>5 DEF CheckCapacity
<1>6. ASSUME NEW w \in Workers, ClaimNext(w) PROVE KeepsToken(k)'
  BY <1>6, ClaimFacts DEF Reclaimed
<1>7. ASSUME NEW w \in Workers, ClaimNothing(w) PROVE KeepsToken(k)'
  BY <1>7 DEF ClaimNothing
<1>8. ASSUME NEW w \in Workers, ReadJob(w) PROVE KeepsToken(k)'
  BY <1>8 DEF ReadJob
<1>9. ASSUME NEW w \in Workers, MarkBuilding(w) PROVE KeepsToken(k)'
  BY <1>9 DEF MarkBuilding, Owned, LocalsInv, Holding
<1>10. ASSUME NEW w \in Workers, Heartbeat(w) PROVE KeepsToken(k)'
  BY <1>10 DEF Heartbeat
<1>11. ASSUME NEW w \in Workers, PrepareFails(w) PROVE KeepsToken(k)'
  BY <1>11 DEF PrepareFails
<1>12. ASSUME NEW w \in Workers, StopByProject(w) PROVE KeepsToken(k)'
  BY <1>12 DEF StopByProject
<1>13. ASSUME NEW w \in Workers, DeploySucceeds(w) PROVE KeepsToken(k)'
  BY <1>13 DEF DeploySucceeds
<1>14. ASSUME NEW w \in Workers, DeployFails(w) PROVE KeepsToken(k)'
  BY <1>14 DEF DeployFails
<1>15. ASSUME NEW w \in Workers, DeployTimesOut(w) PROVE KeepsToken(k)'
  BY <1>15 DEF DeployTimesOut
<1>16. ASSUME NEW w \in Workers, MarkRunning(w) PROVE KeepsToken(k)'
  BY <1>16 DEF MarkRunning, WriteRunning, Leave
<1>17. ASSUME NEW w \in Workers, ReadAttempts(w) PROVE KeepsToken(k)'
  BY <1>17 DEF ReadAttempts
<1>18. ASSUME NEW w \in Workers, MarkFailed(w) PROVE KeepsToken(k)'
  BY <1>18, MarkFailedFacts DEF Owned, LocalsInv, Holding
<1>19. ASSUME NEW w \in Workers, HeartbeatUnheard(w) PROVE KeepsToken(k)'
  BY <1>19 DEF HeartbeatUnheard, Leave
<1>20. ASSUME NEW w \in Workers, CallRaises(w) PROVE KeepsToken(k)'
  BY <1>20 DEF CallRaises, Leave
<1>21. ASSUME NEW w \in Workers, RaisesInTry(w) PROVE KeepsToken(k)'
  BY <1>21 DEF RaisesInTry, Trying
<1>22. ASSUME NEW w \in Workers, Crash(w) PROVE KeepsToken(k)'
  BY <1>22 DEF Crash, Leave
<1>23. ASSUME NEW w \in Workers, Restart(w) PROVE KeepsToken(k)'
  BY <1>23 DEF Restart
<1>24. ASSUME NEW w \in Workers, UnheardInTry(w) PROVE KeepsToken(k)'
  BY <1>24, UnheardFacts
<1>25. ASSUME NEW w \in Workers, ContainerExits(w) PROVE KeepsToken(k)'
  BY <1>25 DEF ContainerExits
<1>26. CASE UNCHANGED vars
  BY <1>26 DEF vars
<1> QED
  BY <1>1, <1>2, <1>3, <1>4, <1>5, <1>6, <1>7, <1>8, <1>9, <1>10, <1>11, <1>12, <1>13, <1>14,
     <1>15, <1>16, <1>17, <1>18, <1>19, <1>20, <1>21, <1>22, <1>23, <1>24, <1>25, <1>26
     DEF Next, Enqueue, ProcessOne, Fault

\* While a worker decides whether to give a job up, nobody else claims the job.
LEMMA RetryStep ==
  ASSUME TypeOK, LocalsInv, NEW k \in Jobs, Owned(k), TriesLeft(k), [Next]_vars
  PROVE  TriesLeft(k)'
<1> SUFFICES ASSUME k \notin disputed, k \notin disputed' PROVE TriesLeft(k)'
  BY DisputedForGood DEF TriesLeft
<1> USE LimitsAssumption
    DEF TypeOK, TriesLeft, GivingUp
<1>1. ASSUME NEW j \in Jobs, CountQueued(j) PROVE TriesLeft(k)'
  BY <1>1 DEF CountQueued
<1>2. ASSUME NEW j \in Jobs, InsertJob(j) PROVE TriesLeft(k)'
  BY <1>2 DEF InsertJob
<1>3. ASSUME NEW j \in Jobs, EnqueueLost(j) PROVE TriesLeft(k)'
  BY <1>3 DEF EnqueueLost
<1>4. ASSUME NEW j \in Jobs, Age(j) PROVE TriesLeft(k)'
  BY <1>4 DEF Age
<1>5. ASSUME NEW w \in Workers, CheckCapacity(w) PROVE TriesLeft(k)'
  BY <1>5 DEF CheckCapacity
<1>6. ASSUME NEW w \in Workers, ClaimNext(w) PROVE TriesLeft(k)'
  BY <1>6, ClaimFacts DEF Reclaimed, InHand, Owned, LocalsInv, Holding
<1>7. ASSUME NEW w \in Workers, ClaimNothing(w) PROVE TriesLeft(k)'
  BY <1>7 DEF ClaimNothing
<1>8. ASSUME NEW w \in Workers, ReadJob(w) PROVE TriesLeft(k)'
  BY <1>8 DEF ReadJob
<1>9. ASSUME NEW w \in Workers, MarkBuilding(w) PROVE TriesLeft(k)'
  BY <1>9 DEF MarkBuilding
<1>10. ASSUME NEW w \in Workers, Heartbeat(w) PROVE TriesLeft(k)'
  BY <1>10 DEF Heartbeat
<1>11. ASSUME NEW w \in Workers, PrepareFails(w) PROVE TriesLeft(k)'
  BY <1>11 DEF PrepareFails
<1>12. ASSUME NEW w \in Workers, StopByProject(w) PROVE TriesLeft(k)'
  BY <1>12 DEF StopByProject
<1>13. ASSUME NEW w \in Workers, DeploySucceeds(w) PROVE TriesLeft(k)'
  BY <1>13 DEF DeploySucceeds
<1>14. ASSUME NEW w \in Workers, DeployFails(w) PROVE TriesLeft(k)'
  BY <1>14 DEF DeployFails
<1>15. ASSUME NEW w \in Workers, DeployTimesOut(w) PROVE TriesLeft(k)'
  BY <1>15 DEF DeployTimesOut
<1>16. ASSUME NEW w \in Workers, MarkRunning(w) PROVE TriesLeft(k)'
  BY <1>16 DEF MarkRunning, WriteRunning, Leave
<1>17. ASSUME NEW w \in Workers, ReadAttempts(w) PROVE TriesLeft(k)'
  <2>1. /\ UNCHANGED <<job, attempts, disputed>> /\ \A v \in Workers \ {w} : pc'[v] = pc[v]
        /\ lastTry' = [lastTry EXCEPT ![w] = attempts[job[w]] >= MaxAttempts]
    BY <1>17, Zenon DEF ReadAttempts
  <2>2. ASSUME job[w] = k, ~lastTry'[w] PROVE attempts[k] < MaxAttempts
    <3>1. lastTry'[w] = (attempts[k] >= MaxAttempts)
      BY <2>1, <2>2, Zenon
    <3>2. attempts[k] \in Nat /\ MaxAttempts \in Nat
      OBVIOUS
    <3>3. ~(attempts[k] >= MaxAttempts)
      BY <2>2, <3>1, Zenon
    <3> QED
      BY <3>2, <3>3
  <2>3. \A v \in Workers \ {w} : lastTry'[v] = lastTry[v]
    BY <2>1
  <2> QED
    BY <2>1, <2>2, <2>3
<1>18. ASSUME NEW w \in Workers, MarkFailed(w) PROVE TriesLeft(k)'
  BY <1>18, MarkFailedFacts DEF Leave
<1>19. ASSUME NEW w \in Workers, HeartbeatUnheard(w) PROVE TriesLeft(k)'
  BY <1>19 DEF HeartbeatUnheard, Leave
<1>20. ASSUME NEW w \in Workers, CallRaises(w) PROVE TriesLeft(k)'
  BY <1>20 DEF CallRaises, Leave
<1>21. ASSUME NEW w \in Workers, RaisesInTry(w) PROVE TriesLeft(k)'
  BY <1>21 DEF RaisesInTry, Trying
<1>22. ASSUME NEW w \in Workers, Crash(w) PROVE TriesLeft(k)'
  BY <1>22 DEF Crash, Leave
<1>23. ASSUME NEW w \in Workers, Restart(w) PROVE TriesLeft(k)'
  BY <1>23 DEF Restart
<1>24. ASSUME NEW w \in Workers, UnheardInTry(w) PROVE TriesLeft(k)'
  BY <1>24, UnheardFacts
<1>25. ASSUME NEW w \in Workers, ContainerExits(w) PROVE TriesLeft(k)'
  BY <1>25 DEF ContainerExits
<1>26. CASE UNCHANGED vars
  BY <1>26 DEF vars
<1> QED
  BY <1>1, <1>2, <1>3, <1>4, <1>5, <1>6, <1>7, <1>8, <1>9, <1>10, <1>11, <1>12, <1>13, <1>14,
     <1>15, <1>16, <1>17, <1>18, <1>19, <1>20, <1>21, <1>22, <1>23, <1>24, <1>25, <1>26
     DEF Next, Enqueue, ProcessOne, Fault


\* Every write to status hits a job in the writer's hands, a queued or a reclaimed one.
LEMMA SettledStep ==
  ASSUME TypeOK, LocalsInv, NEW k \in Jobs, Owned(k), [Next]_vars,
         k \notin disputed, k \notin disputed'
  PROVE  StaysSettled(k)
<1> USE DEF TypeOK, StaysSettled, Settled
<1>1. ASSUME NEW j \in Jobs, CountQueued(j) PROVE StaysSettled(k)
  BY <1>1 DEF CountQueued
<1>2. ASSUME NEW j \in Jobs, InsertJob(j) PROVE StaysSettled(k)
  BY <1>2 DEF InsertJob, LocalsInv
<1>3. ASSUME NEW j \in Jobs, EnqueueLost(j) PROVE StaysSettled(k)
  BY <1>3 DEF EnqueueLost
<1>4. ASSUME NEW j \in Jobs, Age(j) PROVE StaysSettled(k)
  BY <1>4 DEF Age
<1>5. ASSUME NEW w \in Workers, CheckCapacity(w) PROVE StaysSettled(k)
  BY <1>5 DEF CheckCapacity
<1>6. ASSUME NEW w \in Workers, ClaimNext(w) PROVE StaysSettled(k)
  BY <1>6, ClaimFacts DEF Reclaimed, InHand
<1>7. ASSUME NEW w \in Workers, ClaimNothing(w) PROVE StaysSettled(k)
  BY <1>7 DEF ClaimNothing
<1>8. ASSUME NEW w \in Workers, ReadJob(w) PROVE StaysSettled(k)
  BY <1>8 DEF ReadJob
<1>9. ASSUME NEW w \in Workers, MarkBuilding(w) PROVE StaysSettled(k)
  BY <1>9 DEF MarkBuilding, Owned, LocalsInv, Holding, InHand
<1>10. ASSUME NEW w \in Workers, Heartbeat(w) PROVE StaysSettled(k)
  BY <1>10 DEF Heartbeat
<1>11. ASSUME NEW w \in Workers, PrepareFails(w) PROVE StaysSettled(k)
  BY <1>11 DEF PrepareFails
<1>12. ASSUME NEW w \in Workers, StopByProject(w) PROVE StaysSettled(k)
  BY <1>12 DEF StopByProject
<1>13. ASSUME NEW w \in Workers, DeploySucceeds(w) PROVE StaysSettled(k)
  BY <1>13 DEF DeploySucceeds
<1>14. ASSUME NEW w \in Workers, DeployFails(w) PROVE StaysSettled(k)
  BY <1>14 DEF DeployFails
<1>15. ASSUME NEW w \in Workers, DeployTimesOut(w) PROVE StaysSettled(k)
  BY <1>15 DEF DeployTimesOut
<1>16. ASSUME NEW w \in Workers, MarkRunning(w) PROVE StaysSettled(k)
  BY <1>16 DEF MarkRunning, WriteRunning, Leave, Owned, LocalsInv, Holding, InHand
<1>17. ASSUME NEW w \in Workers, ReadAttempts(w) PROVE StaysSettled(k)
  BY <1>17 DEF ReadAttempts
<1>18. ASSUME NEW w \in Workers, MarkFailed(w) PROVE StaysSettled(k)
  <2>1. job[w] \in Jobs /\ (job[w] = k => status[k] \in InHand)
    BY <1>18, MarkFailedFacts DEF LocalsInv, Owned, Holding, Trying, Excepting
  <2>3. \A i \in Jobs \ {job[w]} : status'[i] = status[i] /\ node'[i] = node[i]
    BY <1>18, <2>1, MarkFailedFacts
  <2> QED
    BY <2>1, <2>3 DEF InHand
<1>19. ASSUME NEW w \in Workers, HeartbeatUnheard(w) PROVE StaysSettled(k)
  BY <1>19 DEF HeartbeatUnheard, Leave
<1>20. ASSUME NEW w \in Workers, CallRaises(w) PROVE StaysSettled(k)
  BY <1>20 DEF CallRaises, Leave
<1>21. ASSUME NEW w \in Workers, RaisesInTry(w) PROVE StaysSettled(k)
  BY <1>21 DEF RaisesInTry, Trying
<1>22. ASSUME NEW w \in Workers, Crash(w) PROVE StaysSettled(k)
  BY <1>22 DEF Crash, Leave
<1>23. ASSUME NEW w \in Workers, Restart(w) PROVE StaysSettled(k)
  BY <1>23 DEF Restart
<1>24. ASSUME NEW w \in Workers, UnheardInTry(w) PROVE StaysSettled(k)
  BY <1>24, UnheardFacts
<1>25. ASSUME NEW w \in Workers, ContainerExits(w) PROVE StaysSettled(k)
  BY <1>25 DEF ContainerExits
<1>26. CASE UNCHANGED vars
  BY <1>26 DEF vars
<1> QED
  BY <1>1, <1>2, <1>3, <1>4, <1>5, <1>6, <1>7, <1>8, <1>9, <1>10, <1>11, <1>12, <1>13, <1>14,
     <1>15, <1>16, <1>17, <1>18, <1>19, <1>20, <1>21, <1>22, <1>23, <1>24, <1>25, <1>26
     DEF Next, Enqueue, ProcessOne, Fault


\* What a step may add to the undisputed rows a node runs: the job it just deployed.
RunningGrows ==
  \A v \in Workers : (RunningOn(v) \ disputed)' \subseteq
    (RunningOn(v) \ disputed) \cup {i \in Jobs : pc[v] = "deployed" /\ i = job[v] /\ pc'[v] = "idle"}

\* Only its own worker adds an undisputed row to what a node runs.
LEMMA NextRunningGrows == TypeOK /\ LocalsInv /\ OwnershipInv /\ [Next]_vars => RunningGrows
<1> SUFFICES ASSUME TypeOK, LocalsInv, OwnershipInv, [Next]_vars, disputed \subseteq disputed'
             PROVE  RunningGrows
  BY DisputedForGood
<1> USE DEF TypeOK, RunningGrows, RunningOn, Owned
<1>1. ASSUME NEW j \in Jobs, CountQueued(j) PROVE RunningGrows
  BY <1>1 DEF CountQueued
<1>2. ASSUME NEW j \in Jobs, InsertJob(j) PROVE RunningGrows
  BY <1>2 DEF InsertJob
<1>3. ASSUME NEW j \in Jobs, EnqueueLost(j) PROVE RunningGrows
  BY <1>3 DEF EnqueueLost
<1>4. ASSUME NEW j \in Jobs, Age(j) PROVE RunningGrows
  BY <1>4 DEF Age
<1>5. ASSUME NEW w \in Workers, CheckCapacity(w) PROVE RunningGrows
  BY <1>5 DEF CheckCapacity
<1>6. ASSUME NEW w \in Workers, ClaimNext(w) PROVE RunningGrows
  <2>1. \A i \in Jobs : status'[i] = "running" => status[i] = "running" /\ node'[i] = node[i]
    BY <1>6, ClaimFacts
  <2> QED
    BY <2>1
<1>7. ASSUME NEW w \in Workers, ClaimNothing(w) PROVE RunningGrows
  BY <1>7 DEF ClaimNothing
<1>8. ASSUME NEW w \in Workers, ReadJob(w) PROVE RunningGrows
  BY <1>8 DEF ReadJob
<1>9. ASSUME NEW w \in Workers, MarkBuilding(w) PROVE RunningGrows
  BY <1>9 DEF MarkBuilding, LocalsInv, Holding
<1>10. ASSUME NEW w \in Workers, Heartbeat(w) PROVE RunningGrows
  BY <1>10 DEF Heartbeat
<1>11. ASSUME NEW w \in Workers, PrepareFails(w) PROVE RunningGrows
  BY <1>11 DEF PrepareFails
<1>12. ASSUME NEW w \in Workers, StopByProject(w) PROVE RunningGrows
  BY <1>12 DEF StopByProject
<1>13. ASSUME NEW w \in Workers, DeploySucceeds(w) PROVE RunningGrows
  BY <1>13 DEF DeploySucceeds
<1>14. ASSUME NEW w \in Workers, DeployFails(w) PROVE RunningGrows
  BY <1>14 DEF DeployFails
<1>15. ASSUME NEW w \in Workers, DeployTimesOut(w) PROVE RunningGrows
  BY <1>15 DEF DeployTimesOut
<1>16. ASSUME NEW w \in Workers, MarkRunning(w) PROVE RunningGrows
  <2>1. job[w] \in Jobs /\ (job[w] \notin disputed => node[job[w]] = w)
    BY <1>16 DEF MarkRunning, LocalsInv, OwnershipInv, Holding
  <2>2. pc[w] = "deployed" /\ pc'[w] = "idle"
    BY <1>16 DEF MarkRunning, WriteRunning, Leave
  <2>3. node' = node /\ \A i \in Jobs \ {job[w]} : status'[i] = status[i]
    BY <1>16 DEF MarkRunning, WriteRunning
  <2> QED
    BY <2>1, <2>2, <2>3
<1>17. ASSUME NEW w \in Workers, ReadAttempts(w) PROVE RunningGrows
  BY <1>17 DEF ReadAttempts
<1>18. ASSUME NEW w \in Workers, MarkFailed(w) PROVE RunningGrows
  <2>1. job[w] \in Jobs
    BY <1>18, MarkFailedFacts DEF LocalsInv, Holding, Trying, Excepting
  <2>2. status'[job[w]] \in {"queued", "failed"}
    BY <1>18, <2>1, MarkFailedFacts
  <2>3. \A i \in Jobs \ {job[w]} : status'[i] = status[i] /\ node'[i] = node[i]
    BY <1>18, <2>1, MarkFailedFacts
  <2> QED
    BY <2>1, <2>2, <2>3 DEF InHand
<1>19. ASSUME NEW w \in Workers, HeartbeatUnheard(w) PROVE RunningGrows
  BY <1>19 DEF HeartbeatUnheard, Leave
<1>20. ASSUME NEW w \in Workers, CallRaises(w) PROVE RunningGrows
  BY <1>20 DEF CallRaises, Leave
<1>21. ASSUME NEW w \in Workers, RaisesInTry(w) PROVE RunningGrows
  BY <1>21 DEF RaisesInTry, Trying
<1>22. ASSUME NEW w \in Workers, Crash(w) PROVE RunningGrows
  BY <1>22 DEF Crash, Leave
<1>23. ASSUME NEW w \in Workers, Restart(w) PROVE RunningGrows
  BY <1>23 DEF Restart
<1>24. ASSUME NEW w \in Workers, UnheardInTry(w) PROVE RunningGrows
  BY <1>24, UnheardFacts
<1>25. ASSUME NEW w \in Workers, ContainerExits(w) PROVE RunningGrows
  BY <1>25 DEF ContainerExits
<1>26. CASE UNCHANGED vars
  BY <1>26 DEF vars
<1> QED
  BY <1>1, <1>2, <1>3, <1>4, <1>5, <1>6, <1>7, <1>8, <1>9, <1>10, <1>11, <1>12, <1>13, <1>14,
     <1>15, <1>16, <1>17, <1>18, <1>19, <1>20, <1>21, <1>22, <1>23, <1>24, <1>25, <1>26
     DEF Next, Enqueue, ProcessOne, Fault

\* A worker gets past the capacity test only through the test.
SlotTested ==
  \A v \in Workers : pc'[v] \in Holding \cup {"ready"} =>
    \/ pc[v] \in Holding \cup {"ready"}
    \/ Cardinality(RunningOn(v)) < MaxBots

\* The only way to a slot is CheckCapacity.
LEMMA NextSlotTested == TypeOK /\ [Next]_vars => SlotTested
<1> SUFFICES ASSUME TypeOK, [Next]_vars PROVE SlotTested
  OBVIOUS
<1> USE DEF TypeOK, SlotTested, Holding, Trying, Excepting
<1>1. ASSUME NEW j \in Jobs, CountQueued(j) PROVE SlotTested
  BY <1>1 DEF CountQueued
<1>2. ASSUME NEW j \in Jobs, InsertJob(j) PROVE SlotTested
  BY <1>2 DEF InsertJob
<1>3. ASSUME NEW j \in Jobs, EnqueueLost(j) PROVE SlotTested
  BY <1>3 DEF EnqueueLost
<1>4. ASSUME NEW j \in Jobs, Age(j) PROVE SlotTested
  BY <1>4 DEF Age
<1>5. ASSUME NEW w \in Workers, CheckCapacity(w) PROVE SlotTested
  BY <1>5 DEF CheckCapacity
<1>6. ASSUME NEW w \in Workers, ClaimNext(w) PROVE SlotTested
  BY <1>6, ClaimFacts
<1>7. ASSUME NEW w \in Workers, ClaimNothing(w) PROVE SlotTested
  BY <1>7 DEF ClaimNothing
<1>8. ASSUME NEW w \in Workers, ReadJob(w) PROVE SlotTested
  BY <1>8 DEF ReadJob
<1>9. ASSUME NEW w \in Workers, MarkBuilding(w) PROVE SlotTested
  BY <1>9 DEF MarkBuilding
<1>10. ASSUME NEW w \in Workers, Heartbeat(w) PROVE SlotTested
  BY <1>10 DEF Heartbeat
<1>11. ASSUME NEW w \in Workers, PrepareFails(w) PROVE SlotTested
  BY <1>11 DEF PrepareFails
<1>12. ASSUME NEW w \in Workers, StopByProject(w) PROVE SlotTested
  BY <1>12 DEF StopByProject
<1>13. ASSUME NEW w \in Workers, DeploySucceeds(w) PROVE SlotTested
  BY <1>13 DEF DeploySucceeds
<1>14. ASSUME NEW w \in Workers, DeployFails(w) PROVE SlotTested
  BY <1>14 DEF DeployFails
<1>15. ASSUME NEW w \in Workers, DeployTimesOut(w) PROVE SlotTested
  BY <1>15 DEF DeployTimesOut
<1>16. ASSUME NEW w \in Workers, MarkRunning(w) PROVE SlotTested
  BY <1>16 DEF MarkRunning, WriteRunning, Leave
<1>17. ASSUME NEW w \in Workers, ReadAttempts(w) PROVE SlotTested
  BY <1>17 DEF ReadAttempts
<1>18. ASSUME NEW w \in Workers, MarkFailed(w) PROVE SlotTested
  BY <1>18, MarkFailedFacts DEF Leave
<1>19. ASSUME NEW w \in Workers, HeartbeatUnheard(w) PROVE SlotTested
  BY <1>19 DEF HeartbeatUnheard, Leave
<1>20. ASSUME NEW w \in Workers, CallRaises(w) PROVE SlotTested
  BY <1>20 DEF CallRaises, Leave
<1>21. ASSUME NEW w \in Workers, RaisesInTry(w) PROVE SlotTested
  BY <1>21 DEF RaisesInTry, Trying
<1>22. ASSUME NEW w \in Workers, Crash(w) PROVE SlotTested
  BY <1>22 DEF Crash, Leave
<1>23. ASSUME NEW w \in Workers, Restart(w) PROVE SlotTested
  BY <1>23 DEF Restart
<1>24. ASSUME NEW w \in Workers, UnheardInTry(w) PROVE SlotTested
  <2>1. pc[w] \in Holding /\ \A v \in Workers \ {w} : pc'[v] = pc[v]
    BY <1>24 DEF UnheardInTry
  <2> QED
    BY <2>1
<1>25. ASSUME NEW w \in Workers, ContainerExits(w) PROVE SlotTested
  BY <1>25 DEF ContainerExits
<1>26. CASE UNCHANGED vars
  BY <1>26 DEF vars
<1> QED
  BY <1>1, <1>2, <1>3, <1>4, <1>5, <1>6, <1>7, <1>8, <1>9, <1>10, <1>11, <1>12, <1>13, <1>14,
     <1>15, <1>16, <1>17, <1>18, <1>19, <1>20, <1>21, <1>22, <1>23, <1>24, <1>25, <1>26
     DEF Next, Enqueue, ProcessOne, Fault

\* The slot a worker saw free is still free when its job starts to run.
LEMMA NextSlot == TypeOK /\ LocalsInv /\ OwnershipInv /\ SlotInv /\ [Next]_vars
                    => SlotInv'
<1> SUFFICES ASSUME TypeOK, LocalsInv, OwnershipInv, SlotInv, [Next]_vars,
                    NEW v \in Workers
             PROVE  /\ Cardinality((RunningOn(v) \ disputed)') <= MaxBots
                    /\ pc'[v] \in Holding \cup {"ready"}
                         => Cardinality((RunningOn(v) \ disputed)') < MaxBots
  BY DEF SlotInv
<1> DEFINE R == RunningOn(v) \ disputed
<1> DEFINE G == {i \in Jobs : pc[v] = "deployed" /\ i = job[v] /\ pc'[v] = "idle"}
<1>1. /\ IsFiniteSet(R) /\ Cardinality(R) \in Nat /\ MaxBots \in Nat
      /\ IsFiniteSet(RunningOn(v)) /\ Cardinality(RunningOn(v)) \in Nat
      /\ Cardinality(R) <= Cardinality(RunningOn(v))
  <2>1. R \subseteq RunningOn(v) /\ RunningOn(v) \subseteq Jobs
    BY DEF RunningOn
  <2> HIDE DEF R
  <2> QED
    BY <2>1, JobsAssumption, LimitsAssumption, FS_Subset, FS_CardinalityType
<1>2. R' \subseteq R \cup G
  BY NextRunningGrows DEF RunningGrows
<1>3. CASE G = {}
  <2>1. IsFiniteSet(R') /\ Cardinality(R') <= Cardinality(R) /\ Cardinality(R') \in Nat
    BY <1>1, <1>2, <1>3, FS_Subset, FS_CardinalityType
  <2>2. pc'[v] \in Holding \cup {"ready"} => Cardinality(R) < MaxBots
    <3>1. ASSUME Cardinality(RunningOn(v)) < MaxBots PROVE Cardinality(R) < MaxBots
      <4> HIDE DEF R
      <4> QED
        BY <1>1, <3>1
    <3> QED
      BY <3>1, NextSlotTested DEF SlotTested, SlotInv
  <2>3. Cardinality(R) <= MaxBots
    BY DEF SlotInv
  <2> HIDE DEF R
  <2> QED
    BY <1>1, <2>1, <2>2, <2>3 DEF R
<1>4. CASE G # {}
  <2>1. pc[v] = "deployed" /\ pc'[v] = "idle" /\ G = {job[v]}
    BY <1>4
  <2>2. Cardinality(R) < MaxBots
    BY <2>1 DEF SlotInv, Holding
  <2>3. IsFiniteSet(R \cup {job[v]}) /\ Cardinality(R \cup {job[v]}) <= Cardinality(R) + 1
        /\ Cardinality(R \cup {job[v]}) \in Nat
    <3> HIDE DEF R
    <3>1. IsFiniteSet(R \cup {job[v]})
          /\ Cardinality(R \cup {job[v]}) =
               IF job[v] \in R THEN Cardinality(R) ELSE Cardinality(R) + 1
      BY <1>1, FS_AddElement
    <3> QED
      BY <1>1, <3>1
  <2>4. R' \subseteq R \cup {job[v]}
    BY <1>2, <2>1
  <2>5. Cardinality(R') <= Cardinality(R \cup {job[v]}) /\ Cardinality(R') \in Nat
    BY <2>3, <2>4, FS_Subset, FS_CardinalityType
  <2>6. pc'[v] \notin Holding \cup {"ready"}
    BY <2>1 DEF Holding, Trying, Excepting
  <2> HIDE DEF R
  <2> QED
    BY <1>1, <2>2, <2>3, <2>5, <2>6 DEF R
<1> QED
  BY <1>3, <1>4

\* A container is stopped or forgotten only for a job that is not running, or moves to orphans.
LEMMA ContainedStep ==
  ASSUME TypeOK, LocalsInv, NEW k \in Jobs, Owned(k), Contained(k), [Next]_vars
  PROVE  Contained(k)'
<1> SUFFICES ASSUME k \notin disputed, k \notin disputed' PROVE Contained(k)'
  BY DisputedForGood DEF Contained
<1> USE DEF TypeOK, Contained, HasContainer
<1>1. ASSUME NEW j \in Jobs, CountQueued(j) PROVE Contained(k)'
  BY <1>1 DEF CountQueued
<1>2. ASSUME NEW j \in Jobs, InsertJob(j) PROVE Contained(k)'
  BY <1>2 DEF InsertJob
<1>3. ASSUME NEW j \in Jobs, EnqueueLost(j) PROVE Contained(k)'
  BY <1>3 DEF EnqueueLost
<1>4. ASSUME NEW j \in Jobs, Age(j) PROVE Contained(k)'
  BY <1>4 DEF Age
<1>5. ASSUME NEW w \in Workers, CheckCapacity(w) PROVE Contained(k)'
  BY <1>5 DEF CheckCapacity
<1>6. ASSUME NEW w \in Workers, ClaimNext(w) PROVE Contained(k)'
  <2>1. \A i \in Jobs : status'[i] = "running" => status[i] = "running" /\ node'[i] = node[i]
    BY <1>6, ClaimFacts
  <2>2. pc' = [pc EXCEPT ![w] = "claimed"] /\ UNCHANGED <<tracked, orphans, exited>>
        /\ \A v \in Workers \ {w} : job'[v] = job[v]
    BY <1>6, ClaimFacts
  <2> QED
    BY <2>1, <2>2
<1>7. ASSUME NEW w \in Workers, ClaimNothing(w) PROVE Contained(k)'
  BY <1>7 DEF ClaimNothing
<1>8. ASSUME NEW w \in Workers, ReadJob(w) PROVE Contained(k)'
  BY <1>8 DEF ReadJob
<1>9. ASSUME NEW w \in Workers, MarkBuilding(w) PROVE Contained(k)'
  BY <1>9 DEF MarkBuilding, LocalsInv, Holding
<1>10. ASSUME NEW w \in Workers, Heartbeat(w) PROVE Contained(k)'
  BY <1>10 DEF Heartbeat
<1>11. ASSUME NEW w \in Workers, PrepareFails(w) PROVE Contained(k)'
  BY <1>11 DEF PrepareFails
<1>12. ASSUME NEW w \in Workers, StopByProject(w) PROVE Contained(k)'
  <2>1. job[w] \in Jobs /\ (job[w] = k => status[k] \in InHand)
    BY <1>12 DEF StopByProject, LocalsInv, Owned, Holding
  <2>2. pc' = [pc EXCEPT ![w] = "deploying"] /\ UNCHANGED <<status, node, job, orphans>>
        /\ tracked' = [tracked EXCEPT ![w] = @ \ {job[w]}]
        /\ exited' = [exited EXCEPT ![w] = @ \ {job[w]}]
    BY <1>12 DEF StopByProject
  <2> QED
    BY <2>1, <2>2 DEF InHand
<1>13. ASSUME NEW w \in Workers, DeploySucceeds(w) PROVE Contained(k)'
  BY <1>13 DEF DeploySucceeds, LocalsInv, Holding
<1>14. ASSUME NEW w \in Workers, DeployFails(w) PROVE Contained(k)'
  BY <1>14 DEF DeployFails
<1>15. ASSUME NEW w \in Workers, DeployTimesOut(w) PROVE Contained(k)'
  BY <1>15 DEF DeployTimesOut
<1>16. ASSUME NEW w \in Workers, MarkRunning(w) PROVE Contained(k)'
  <2>1. job[w] \in Jobs /\ (job[w] = k => node[k] = w /\ k \in tracked[w] \cup exited[w])
    BY <1>16 DEF MarkRunning, WriteRunning, LocalsInv, Owned, Holding
  <2>2. UNCHANGED <<node, tracked, orphans, exited>>
        /\ \A i \in Jobs \ {job[w]} : status'[i] = status[i]
    BY <1>16 DEF MarkRunning, WriteRunning
  <2>3. pc' = [pc EXCEPT ![w] = "idle"] /\ \A v \in Workers \ {w} : job'[v] = job[v]
    BY <1>16 DEF MarkRunning, WriteRunning, Leave
  <2> QED
    BY <2>1, <2>2, <2>3
<1>17. ASSUME NEW w \in Workers, ReadAttempts(w) PROVE Contained(k)'
  BY <1>17 DEF ReadAttempts
<1>18. ASSUME NEW w \in Workers, MarkFailed(w) PROVE Contained(k)'
  <2>1. job[w] \in Jobs
    BY <1>18, MarkFailedFacts DEF LocalsInv, Owned, Holding, Trying, Excepting
  <2>2. status'[job[w]] \in {"queued", "failed"}
    BY <1>18, <2>1, MarkFailedFacts DEF InHand
  <2>3. \A i \in Jobs \ {job[w]} : status'[i] = status[i] /\ node'[i] = node[i]
    BY <1>18, <2>1, MarkFailedFacts
  <2>4. pc' = [pc EXCEPT ![w] = "idle"] /\ UNCHANGED <<tracked, orphans, exited>>
        /\ \A v \in Workers \ {w} : job'[v] = job[v]
    BY <1>18, MarkFailedFacts DEF Leave
  <2> QED
    BY <2>1, <2>2, <2>3, <2>4 DEF InHand
<1>19. ASSUME NEW w \in Workers, HeartbeatUnheard(w) PROVE Contained(k)'
  BY <1>19 DEF HeartbeatUnheard, Leave
<1>20. ASSUME NEW w \in Workers, CallRaises(w) PROVE Contained(k)'
  BY <1>20 DEF CallRaises, Leave
<1>21. ASSUME NEW w \in Workers, RaisesInTry(w) PROVE Contained(k)'
  BY <1>21 DEF RaisesInTry, Trying
<1>22. ASSUME NEW w \in Workers, Crash(w) PROVE Contained(k)'
  BY <1>22 DEF Crash, Leave
<1>23. ASSUME NEW w \in Workers, Restart(w) PROVE Contained(k)'
  BY <1>23 DEF Restart
<1>24. ASSUME NEW w \in Workers, UnheardInTry(w) PROVE Contained(k)'
  BY <1>24, UnheardFacts
<1>25. ASSUME NEW w \in Workers, ContainerExits(w) PROVE Contained(k)'
  BY <1>25 DEF ContainerExits
<1>26. CASE UNCHANGED vars
  BY <1>26 DEF vars
<1> QED
  BY <1>1, <1>2, <1>3, <1>4, <1>5, <1>6, <1>7, <1>8, <1>9, <1>10, <1>11, <1>12, <1>13, <1>14,
     <1>15, <1>16, <1>17, <1>18, <1>19, <1>20, <1>21, <1>22, <1>23, <1>24, <1>25, <1>26
     DEF Next, Enqueue, ProcessOne, Fault


-----------------------------------------------------------------------------
(* The theorems.                                                             *)

LEMMA InitZombie == Init => ZombieInv
<1> SUFFICES ASSUME Init PROVE ZombieInv
  OBVIOUS
<1>1. TypeOK /\ LocalsInv
  BY InitType
<1>2. ExhaustedInv /\ SettledDropsToken /\ FailedOnlyExhausted
  BY DEF Init, ExhaustedInv, SettledDropsToken, FailedOnlyExhausted, Settled
<1> QED
  BY <1>1, <1>2 DEF ZombieInv

LEMMA NextZombie == ZombieInv /\ [Next]_vars => ZombieInv'
BY NextType, NextLocals, NextExhausted, NextSettledDropsToken, NextFailedOnlyExhausted
   DEF ZombieInv

LEMMA InitIInv == Init => IInv
<1> SUFFICES ASSUME Init PROVE IInv
  OBVIOUS
<1>1. ZombieInv
  BY InitZombie
<1>2. OwnershipInv
  BY NoJobNotJob DEF Init, OwnershipInv, Owned
<1>3. OpenKeepsToken /\ ContainerInv
  BY DEF Init, OpenKeepsToken, KeepsToken, ContainerInv, Contained, HasContainer, Open, InHand,
     Undisputed
<1>4. SlotInv
  <2>1. \A w \in Workers : RunningOn(w) \ disputed = {} /\ pc[w] = "idle"
    BY DEF Init, RunningOn
  <2>2. \A w \in Workers : Cardinality(RunningOn(w) \ disputed) = 0
    BY <2>1, FS_EmptySet
  <2> QED
    BY <2>1, <2>2, LimitsAssumption DEF SlotInv, Holding, Trying, Excepting
<1>5. RetryInv
  BY DEF Init, RetryInv, TriesLeft, GivingUp
<1> QED
  BY <1>1, <1>2, <1>3, <1>4, <1>5 DEF IInv

LEMMA NextIInv == IInv /\ [Next]_vars => IInv'
<1> SUFFICES ASSUME IInv, [Next]_vars PROVE IInv'
  OBVIOUS
<1>1. TypeOK /\ LocalsInv /\ ZombieInv' /\ disputed \subseteq disputed'
  BY NextZombie, DisputedForGood DEF IInv, ZombieInv
<1>2. OwnershipInv'
  BY <1>1, OwnedStep DEF IInv, OwnershipInv
<1>3. OpenKeepsToken'
  BY <1>1, TokenStep DEF IInv, OwnershipInv, OpenKeepsToken, Undisputed
<1>4. ContainerInv'
  BY <1>1, ContainedStep DEF IInv, OwnershipInv, ContainerInv
<1>5. SlotInv'
  BY <1>1, NextSlot DEF IInv
<1>6. RetryInv'
  BY <1>1, RetryStep DEF IInv, OwnershipInv, RetryInv
<1> QED
  BY <1>1, <1>2, <1>3, <1>4, <1>5, <1>6 DEF IInv

LEMMA Invariant == Spec => []IInv
BY InitIInv, NextIInv, PTL DEF Spec

\* Every variable of the queue stays in its type, whatever the workers do.
THEOREM TypeCorrect == Spec => []TypeOK
<1>1. ZombieInv => TypeOK
  BY DEF ZombieInv
<1> QED
  BY <1>1, InitZombie, NextZombie, PTL DEF Spec

\* mark_running() and mark_failed() leave no sealed token in a settled row,
\* however late and in whatever order they write (pg_deploy_queue.py).
THEOREM TokenDropped == Spec => []SettledDropsToken
<1>1. ZombieInv => SettledDropsToken
  BY DEF ZombieInv
<1> QED
  BY <1>1, InitZombie, NextZombie, PTL DEF Spec

\* No job is given up before max_attempts claims, zombies or not.
THEOREM NeverGivenUpEarly == Spec => []FailedOnlyExhausted
<1>1. ZombieInv => FailedOnlyExhausted
  BY DEF ZombieInv
<1> QED
  BY <1>1, InitZombie, NextZombie, PTL DEF Spec

\* No two live workers hold a job nobody has disputed, and its row is in hand and
\* names the one that does: claim_next()'s lock and reclaim are enough for every
\* job whose workers heard what their writes did and beat the stale timeout.
THEOREM Exclusive == Spec => []OneHolder
<1>1. IInv => OneHolder
  BY DEF IInv, OwnershipInv, Owned, OneHolder, Undisputed
<1> QED
  BY <1>1, Invariant, PTL

\* A node runs no more undisputed rows than it has slots, although can_accept is
\* tested long before mark_running() makes the row count.
THEOREM CapacityKept == Spec => []NodeWithinCapacity
<1>1. IInv => NodeWithinCapacity
  BY DEF IInv, SlotInv, NodeWithinCapacity
<1> QED
  BY <1>1, Invariant, PTL

\* The row of an undisputed job says running only where a container was started
\* for it, which nothing but its own end has removed.
THEOREM RunningIsReal == Spec => []RunningHasContainer
<1>1. IInv => RunningHasContainer
  BY DEF IInv, ContainerInv, Contained, RunningHasContainer, Undisputed
<1> QED
  BY <1>1, Invariant, PTL

\* An undisputed job that is not settled still has its token.
THEOREM TokenKept == Spec => []OpenKeepsToken
<1>1. IInv => OpenKeepsToken
  BY DEF IInv
<1> QED
  BY <1>1, Invariant, PTL

\* An undisputed job, once settled, stays as it is: zombies of other jobs and
\* answers lost about other jobs do not reach its row.
THEOREM SettledForGood == Spec => SettledIsFinal
<1>1. IInv /\ [Next]_vars => [\A j \in Undisputed : j \in disputed' \/ StaysSettled(j)]_vars
  BY SettledStep DEF IInv, ZombieInv, OwnershipInv, Undisputed
<1> QED
  BY <1>1, Invariant, PTL DEF Spec, SettledIsFinal

-----------------------------------------------------------------------------
(* The cap of enqueue().                                                     *)

WorkerStep(w) == ProcessOne(w) \/ Fault(w) \/ Restart(w) \/ ContainerExits(w)

\* A worker's writes go to rows that exist, and to no request.
LEMMA NoRowFromWorkers ==
  ASSUME TypeOK, LocalsInv, NEW w \in Workers, WorkerStep(w)
  PROVE  request' = request /\ \A i \in Jobs : status[i] = "none" => status'[i] = "none"
<1> USE DEF TypeOK, LocalsInv, Holding, Trying, Excepting
<1>1. CASE ClaimNext(w)
  <2>1. PICK j \in Jobs :
          /\ status[j] = "queued" \/ j \in Reclaimed
          /\ \A i \in Jobs \ {j} : status'[i] = status[i] \/ i \in Reclaimed
          /\ request' = request
    BY <1>1, ClaimFacts
  <2> QED
    BY <2>1 DEF Reclaimed, InHand
<1>2. CASE MarkBuilding(w)
  BY <1>2 DEF MarkBuilding
<1>3. CASE MarkRunning(w)
  BY <1>3 DEF MarkRunning, WriteRunning, Trying, Excepting
<1>4. CASE MarkFailed(w)
  <2>1. request' = request /\ job[w] \in Jobs /\ status[job[w]] # "none"
    BY <1>4, MarkFailedFacts
  <2>2. \A i \in Jobs \ {job[w]} : status'[i] = status[i]
    BY <1>4, <2>1, MarkFailedFacts
  <2> QED
    BY <2>1, <2>2
<1>5. CASE UnheardInTry(w)
  BY <1>5, UnheardFacts
<1>6. CASE status' = status /\ request' = request
  BY <1>6
<1> QED
  BY <1>1, <1>2, <1>3, <1>4, <1>5, <1>6
     DEF WorkerStep, ProcessOne, Fault, CheckCapacity, ClaimNothing, ReadJob, Heartbeat,
         PrepareFails, StopByProject, DeploySucceeds, DeployFails, DeployTimesOut, ReadAttempts,
         CallRaises, HeartbeatUnheard, RaisesInTry, Crash, Restart, ContainerExits, Leave

\* A step counts for a user below the cap, turns a counted call into a row, or
\* adds neither a counted call nor an undisputed open row.
EnqueueMoves ==
  \/ \E j \in Jobs :
       /\ Cardinality(Counted) < Enqueuers /\ Cardinality(OpenOf(UserOf[j])) < MaxQueued
       /\ UNCHANGED <<status, disputed>> /\ request' = [request EXCEPT ![j] = "counted"]
  \/ \E j \in Jobs :
       /\ request[j] = "counted" /\ request' = [request EXCEPT ![j] = "done"]
       /\ status' = [status EXCEPT ![j] = "queued"] /\ disputed' = disputed
  \/ \A j \in Jobs :
       /\ request'[j] = "counted" => request[j] = "counted"
       /\ status'[j] \in Open /\ j \notin disputed' => status[j] \in Open /\ j \notin disputed

LEMMA NextEnqueueMoves ==
  ASSUME TypeOK, LocalsInv, OwnershipInv, [Next]_vars
  PROVE  EnqueueMoves
<1> USE DEF TypeOK
<1>1. ASSUME NEW j \in Jobs, CountQueued(j) PROVE EnqueueMoves
  <2>1. UNCHANGED <<status, disputed>> /\ Cardinality(Counted) < Enqueuers
    BY <1>1 DEF CountQueued
  <2>2. CASE Cardinality(OpenOf(UserOf[j])) >= MaxQueued
    <3>1. request' = [request EXCEPT ![j] = "refused"]
      BY <1>1, <2>2 DEF CountQueued
    <3> QED
      BY <2>1, <3>1 DEF EnqueueMoves
  <2>3. CASE ~(Cardinality(OpenOf(UserOf[j])) >= MaxQueued)
    <3>1. request' = [request EXCEPT ![j] = "counted"]
      BY <1>1, <2>3 DEF CountQueued
    <3>2. Cardinality(OpenOf(UserOf[j])) \in Nat /\ MaxQueued \in Nat
      BY JobsAssumption, LimitsAssumption, FS_Subset, FS_CardinalityType DEF OpenOf
    <3>3. Cardinality(OpenOf(UserOf[j])) < MaxQueued
      BY <2>3, <3>2
    <3> QED
      BY <2>1, <3>1, <3>3, Zenon DEF EnqueueMoves
  <2> QED
    BY <2>2, <2>3
<1>2. ASSUME NEW j \in Jobs, InsertJob(j) PROVE EnqueueMoves
  BY <1>2, Zenon DEF InsertJob, EnqueueMoves
<1>3. ASSUME NEW j \in Jobs, EnqueueLost(j) \/ Age(j) PROVE EnqueueMoves
  <2>1. status' = status /\ disputed \subseteq disputed'
        /\ \A i \in Jobs : request'[i] = "counted" => request[i] = "counted"
    BY <1>3 DEF EnqueueLost, Age
  <2> QED
    BY <2>1 DEF EnqueueMoves
<1>4. ASSUME NEW w \in Workers, WorkerStep(w) PROVE EnqueueMoves
  <2>1. request' = request /\ \A i \in Jobs : status[i] = "none" => status'[i] = "none"
    BY <1>4, NoRowFromWorkers
  <2>2. disputed \subseteq disputed'
    BY DisputedForGood
  <2>3. \A i \in Jobs \ disputed' : status[i] \in Settled => status'[i] = status[i]
    BY <2>2, SettledStep DEF OwnershipInv, StaysSettled
  <2> QED
    BY <2>1, <2>2, <2>3 DEF EnqueueMoves, Open, InHand, Settled, RowStatus
<1>5. CASE UNCHANGED vars
  BY <1>5 DEF vars, EnqueueMoves
<1> QED
  BY <1>1, <1>2, <1>3, <1>4, <1>5 DEF Next, Enqueue, WorkerStep

LEMMA NextOvershoot ==
  ASSUME TypeOK, LocalsInv, OwnershipInv, QueueOvershoot, [Next]_vars,
         NEW u \in Users
  PROVE  (Cardinality(OpenOf(u) \ disputed) + Cardinality(CountedOf(u))
            <= MaxQueued + Enqueuers - 1)'
<1> DEFINE O == OpenOf(u) \ disputed
           C == CountedOf(u)
           O2 == (OpenOf(u) \ disputed)'
           C2 == CountedOf(u)'
<1>1. /\ O \subseteq Jobs /\ C \subseteq Counted /\ Counted \subseteq Jobs
      /\ O2 \subseteq Jobs /\ C2 \subseteq Jobs
  BY DEF OpenOf, CountedOf, Counted
<1>2. /\ IsFiniteSet(O) /\ IsFiniteSet(C) /\ IsFiniteSet(Counted)
      /\ IsFiniteSet(O2) /\ IsFiniteSet(C2)
  BY <1>1, JobsAssumption, FS_Subset
<1>3. /\ Cardinality(O) \in Nat /\ Cardinality(C) \in Nat /\ Cardinality(Counted) \in Nat
      /\ Cardinality(O2) \in Nat /\ Cardinality(C2) \in Nat
      /\ Cardinality(C) <= Cardinality(Counted)
      /\ MaxQueued \in Nat /\ Enqueuers \in Nat \ {0}
  BY <1>1, <1>2, FS_Subset, FS_CardinalityType, LimitsAssumption
<1>4. Cardinality(O) + Cardinality(C) <= MaxQueued + Enqueuers - 1
  BY DEF QueueOvershoot
<1>5. EnqueueMoves
  BY NextEnqueueMoves
<1>6. ASSUME O2 \subseteq O, C2 \subseteq C
      PROVE  Cardinality(O2) + Cardinality(C2) <= MaxQueued + Enqueuers - 1
  <2>1. Cardinality(O2) <= Cardinality(O) /\ Cardinality(C2) <= Cardinality(C)
    BY <1>2, <1>6, FS_Subset
  <2> HIDE DEF O, C, O2, C2
  <2> QED
    BY <1>3, <1>4, <2>1
<1>7. ASSUME NEW j \in Jobs,
             Cardinality(Counted) < Enqueuers, Cardinality(OpenOf(UserOf[j])) < MaxQueued,
             UNCHANGED <<status, disputed>>, request' = [request EXCEPT ![j] = "counted"]
      PROVE  Cardinality(O2) + Cardinality(C2) <= MaxQueued + Enqueuers - 1
  <2>1. O2 = O
    BY <1>7 DEF OpenOf
  <2>2. CASE UserOf[j] = u
    <3>1. C2 = C \cup {j}
      BY <1>7, <2>2 DEF CountedOf, TypeOK
    <3>2. Cardinality(C \cup {j}) <= Cardinality(C) + 1
      <4>1. Cardinality(C \cup {j}) = (IF j \in C THEN Cardinality(C) ELSE Cardinality(C) + 1)
        BY <1>2, FS_AddElement
      <4> HIDE DEF C
      <4> QED
        BY <1>3, <4>1
    <3>3. Cardinality(O) < MaxQueued
      <4>1. O \subseteq OpenOf(u) /\ OpenOf(u) \subseteq Jobs /\ IsFiniteSet(OpenOf(u))
        BY JobsAssumption, FS_Subset DEF OpenOf
      <4>2. Cardinality(O) <= Cardinality(OpenOf(u)) /\ Cardinality(OpenOf(u)) \in Nat
        BY <4>1, FS_Subset, FS_CardinalityType
      <4>3. Cardinality(OpenOf(u)) < MaxQueued
        BY <1>7, <2>2
      <4> HIDE DEF O
      <4> QED
        BY <1>3, <4>2, <4>3
    <3>4. Cardinality(O2) = Cardinality(O) /\ Cardinality(C2) <= Cardinality(C) + 1
      <4> HIDE DEF O, C, O2, C2
      <4> QED
        BY <2>1, <3>1, <3>2
    <3> HIDE DEF O, C, O2, C2
    <3> QED
      BY <1>3, <1>7, <3>3, <3>4
  <2>3. CASE UserOf[j] # u
    <3>1. C2 = C
      BY <1>7, <2>3 DEF CountedOf, TypeOK
    <3> QED
      BY <1>6, <2>1, <3>1
  <2> QED
    BY <2>2, <2>3
<1>8. ASSUME NEW j \in Jobs,
             request[j] = "counted", request' = [request EXCEPT ![j] = "done"],
             status' = [status EXCEPT ![j] = "queued"], disputed' = disputed
      PROVE  Cardinality(O2) + Cardinality(C2) <= MaxQueued + Enqueuers - 1
  <2>1. CASE UserOf[j] = u
    <3>1. j \in C /\ C2 = C \ {j}
      BY <1>8, <2>1 DEF CountedOf, TypeOK
    <3>2. O2 \subseteq O \cup {j}
      BY <1>8, <2>1 DEF OpenOf, Open, TypeOK
    <3>3. Cardinality(C \ {j}) = Cardinality(C) - 1
      BY <1>2, <3>1, FS_RemoveElement
    <3>4. IsFiniteSet(O \cup {j}) /\ Cardinality(O \cup {j}) <= Cardinality(O) + 1
      <4>1. /\ IsFiniteSet(O \cup {j})
            /\ Cardinality(O \cup {j}) = (IF j \in O THEN Cardinality(O) ELSE Cardinality(O) + 1)
        BY <1>2, FS_AddElement
      <4> HIDE DEF O
      <4> QED
        BY <1>3, <4>1
    <3>5. Cardinality(O2) <= Cardinality(O) + 1 /\ Cardinality(C2) = Cardinality(C) - 1
      <4>1. Cardinality(O2) <= Cardinality(O \cup {j}) /\ Cardinality(O \cup {j}) \in Nat
        BY <3>2, <3>4, FS_Subset, FS_CardinalityType
      <4> HIDE DEF O, C, O2, C2
      <4> QED
        BY <1>3, <3>1, <3>3, <3>4, <4>1
    <3> HIDE DEF O, C, O2, C2
    <3> QED
      BY <1>3, <1>4, <3>5
  <2>2. CASE UserOf[j] # u
    <3>1. C2 \subseteq C /\ O2 \subseteq O
      BY <1>8, <2>2 DEF CountedOf, OpenOf, TypeOK
    <3> QED
      BY <1>6, <3>1
  <2> QED
    BY <2>1, <2>2
<1>9. ASSUME \A j \in Jobs : /\ request'[j] = "counted" => request[j] = "counted"
                             /\ status'[j] \in Open /\ j \notin disputed'
                                  => status[j] \in Open /\ j \notin disputed
      PROVE  Cardinality(O2) + Cardinality(C2) <= MaxQueued + Enqueuers - 1
  <2>1. C2 \subseteq C /\ O2 \subseteq O
    BY <1>9 DEF CountedOf, OpenOf
  <2> QED
    BY <1>6, <2>1
<1>10. Cardinality(O2) + Cardinality(C2) <= MaxQueued + Enqueuers - 1
  BY <1>5, <1>7, <1>8, <1>9 DEF EnqueueMoves
<1> QED
  BY <1>10

\* The cap of enqueue() is exceeded by at most the other calls in flight, and by
\* jobs that came back after a disputed write: no worker puts back any other.
THEOREM OvershootBounded == Spec => []QueueOvershoot
<1>1. Init => QueueOvershoot
  <2> SUFFICES ASSUME Init, NEW u \in Users
               PROVE  Cardinality(OpenOf(u) \ disputed) + Cardinality(CountedOf(u))
                        <= MaxQueued + Enqueuers - 1
    BY DEF QueueOvershoot
  <2>1. OpenOf(u) \ disputed = {} /\ CountedOf(u) = {}
    BY DEF Init, OpenOf, CountedOf, Open, InHand
  <2>2. Cardinality(OpenOf(u) \ disputed) = 0 /\ Cardinality(CountedOf(u)) = 0
    BY <2>1, FS_EmptySet
  <2> QED
    BY <2>2, LimitsAssumption
<1>2. IInv /\ QueueOvershoot /\ [Next]_vars => QueueOvershoot'
  <2> SUFFICES ASSUME IInv, QueueOvershoot, [Next]_vars PROVE QueueOvershoot'
    OBVIOUS
  <2>1. TypeOK /\ LocalsInv /\ OwnershipInv
    BY DEF IInv, ZombieInv
  <2> QED
    BY <2>1, NextOvershoot DEF QueueOvershoot
<1> QED
  BY <1>1, <1>2, Invariant, PTL DEF Spec
=============================================================================
