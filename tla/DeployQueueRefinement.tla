----------------------- MODULE DeployQueueRefinement -----------------------
(***************************************************************************)
(* The deploy queue implements JobBoard, for any jobs, workers and caps.   *)
(***************************************************************************)
EXTENDS DeployQueueProofs

USE DEF row, proc, docker

\* The mapped variables, and what a status is on the board.
BoardPhase == [j \in Jobs |-> Phase(status[j])]

LEMMA PhaseFacts ==
  /\ Phase("none") = "absent" /\ Phase("queued") = "waiting"
  /\ Phase("claimed") = "taken" /\ Phase("building") = "taken"
  /\ Phase("running") = "running" /\ Phase("failed") = "failed"
  /\ \A s \in InHand : Phase(s) = "taken"
BY DEF Phase, InHand

LEMMA BoardInit == Init => Board!Init
BY PhaseFacts DEF Init, Board!Init

LEMMA BoardStutter == UNCHANGED <<status, job, attempts, disputed>> => UNCHANGED Board!vars
BY DEF Board!vars

\* A step that writes one status maps to a write of one phase.
LEMMA WritePhase ==
  ASSUME NEW i \in Jobs, NEW s, status \in [Jobs -> RowStatus],
         status' = [status EXCEPT ![i] = s]
  PROVE  BoardPhase' = [BoardPhase EXCEPT ![i] = Phase(s)]
BY DEF BoardPhase

LEMMA BoardTake ==
  ASSUME TypeOK, LocalsInv, OwnershipInv, NEW w \in Workers, ClaimNext(w)
  PROVE  Board!Take(w)
<1>1. job[w] = NoJob
  <2>1. pc[w] = "ready"
    BY DEF ClaimNext
  <2>2. job[w] \notin Jobs
    BY <2>1 DEF LocalsInv, Holding, Trying, Excepting
  <2>3. job[w] \in Jobs \cup {NoJob}
    BY DEF TypeOK
  <2> QED
    BY <2>2, <2>3
<1>2. PICK j \in Claimable :
        /\ status' = [i \in Jobs |-> IF i = j THEN "claimed"
                                     ELSE IF i \in Reclaimed THEN "queued" ELSE status[i]]
        /\ attempts' = [attempts EXCEPT ![j] =
                          IF attempts[j] > MaxAttempts THEN @ ELSE @ + 1]
        /\ job' = [job EXCEPT ![w] = j] /\ disputed' = disputed
  BY DEF ClaimNext
<1>3. j \in Jobs /\ (status[j] = "queued" \/ j \in Reclaimed)
  BY DEF Claimable, Reclaimed, TypeOK
<1>4. Reclaimed \in SUBSET Board!Abandoned
  <2>1. SUFFICES ASSUME NEW i \in Reclaimed PROVE i \in Board!Abandoned
    OBVIOUS
  <2>2. i \in Jobs /\ status[i] \in InHand /\ i \in stale
    BY DEF Reclaimed, TypeOK
  <2>3. i \in disputed \/ \A v \in Workers : job[v] # i
    BY <2>2 DEF OwnershipInv, Owned
  <2>4. Phase(status[i]) = "taken"
    BY <2>2, PhaseFacts
  <2> QED
    BY <2>2, <2>3, <2>4 DEF Board!Abandoned
<1>5. Phase(status[j]) = "waiting" \/ j \in Reclaimed
  BY <1>3, PhaseFacts
<1>6. BoardPhase' = [i \in Jobs |-> IF i = j THEN "taken"
                                    ELSE IF i \in Reclaimed THEN "waiting" ELSE BoardPhase[i]]
  <2>1. \A i \in Jobs : Phase(status'[i]) =
          IF i = j THEN "taken"
          ELSE IF i \in Reclaimed THEN "waiting" ELSE Phase(status[i])
    BY <1>2, PhaseFacts
  <2> QED
    BY <2>1 DEF BoardPhase
<1> QED
  BY <1>1, <1>2, <1>3, <1>4, <1>5, <1>6 DEF Board!Take, BoardPhase

\* What mark_running() and mark_failed() write is an outcome the board allows.
LEMMA BoardOutcome ==
  ASSUME IInv, NEW w \in Workers, job[w] \in Jobs,
         WriteRunning(w) \/ (WriteFailed(w) /\ pc[w] \in GivingUp)
  PROVE  /\ attempts' = attempts
         /\ \E outcome \in {"running", "waiting", "failed"} :
              /\ Board!MayBecome(job[w], outcome)
              /\ BoardPhase' = [BoardPhase EXCEPT ![job[w]] = outcome]
<1> USE DEF IInv, ZombieInv
<1>1. CASE WriteRunning(w)
  <2>1. status' = [status EXCEPT ![job[w]] = "running"] /\ UNCHANGED attempts
    BY <1>1 DEF WriteRunning
  <2>2. BoardPhase' = [BoardPhase EXCEPT ![job[w]] = "running"]
    <3>1. BoardPhase' = [BoardPhase EXCEPT ![job[w]] = Phase("running")]
      BY <2>1, WritePhase DEF TypeOK
    <3> QED
      BY <3>1, PhaseFacts
  <2> QED
    BY <2>1, <2>2 DEF Board!MayBecome
<1>2. CASE WriteFailed(w) /\ pc[w] \in GivingUp /\ lastTry[w]
  <2>1. BoardPhase' = [BoardPhase EXCEPT ![job[w]] = "failed"] /\ UNCHANGED attempts
    BY <1>2, WriteFailedFacts, WritePhase, PhaseFacts DEF TypeOK
  <2>2. attempts[job[w]] >= MaxAttempts
    BY <1>2 DEF ExhaustedInv
  <2> QED
    BY <2>1, <2>2 DEF Board!MayBecome
<1>3. CASE WriteFailed(w) /\ pc[w] \in GivingUp /\ ~lastTry[w]
  <2>1. BoardPhase' = [BoardPhase EXCEPT ![job[w]] = "waiting"] /\ UNCHANGED attempts
    BY <1>3, WriteFailedFacts, WritePhase, PhaseFacts DEF TypeOK
  <2>2. job[w] \in disputed \/ attempts[job[w]] < MaxAttempts
    BY <1>3 DEF RetryInv, TriesLeft
  <2> QED
    BY <2>1, <2>2 DEF Board!MayBecome
<1> QED
  BY <1>1, <1>2, <1>3

LEMMA BoardStep == IInv /\ [Next]_vars => [Board!Next]_(Board!vars)
<1> SUFFICES ASSUME IInv, [Next]_vars
             PROVE  Board!Next \/ UNCHANGED Board!vars
  OBVIOUS
<1> USE DEF IInv, ZombieInv
<1>1. ASSUME NEW j \in Jobs, InsertJob(j) PROVE Board!Post(j)
  <2>1. status[j] = "none" /\ status' = [status EXCEPT ![j] = "queued"]
        /\ UNCHANGED <<attempts, job, disputed>>
    BY <1>1 DEF InsertJob, LocalsInv
  <2>2. BoardPhase' = [BoardPhase EXCEPT ![j] = Phase("queued")]
    BY <2>1, WritePhase DEF TypeOK
  <2> QED
    BY <2>1, <2>2, PhaseFacts DEF Board!Post, BoardPhase
<1>2. ASSUME NEW w \in Workers, ClaimNext(w) PROVE Board!Take(w)
  BY <1>2, BoardTake
<1>3. ASSUME NEW w \in Workers, MarkBuilding(w) PROVE Board!Rework(w) \/ UNCHANGED Board!vars
  <2>1. job[w] \in Jobs /\ (job[w] \in disputed \/ status[job[w]] \in InHand)
    BY <1>3 DEF MarkBuilding, LocalsInv, OwnershipInv, Owned, Holding
  <2>2. /\ status' = [status EXCEPT ![job[w]] = "building"]
        /\ UNCHANGED <<attempts, job, disputed>>
    BY <1>3 DEF MarkBuilding
  <2>3. BoardPhase' = [BoardPhase EXCEPT ![job[w]] = "taken"]
    <3>1. BoardPhase' = [BoardPhase EXCEPT ![job[w]] = Phase("building")]
      BY <2>1, <2>2, WritePhase DEF TypeOK
    <3> QED
      BY <3>1, PhaseFacts
  <2>4. CASE job[w] \in disputed
    BY <2>2, <2>3, <2>4 DEF Board!Rework, BoardPhase
  <2>5. CASE status[job[w]] \in InHand
    <3>1. BoardPhase[job[w]] = "taken"
      BY <2>1, <2>5, PhaseFacts DEF BoardPhase
    <3> QED
      BY <2>2, <2>3, <3>1 DEF Board!vars, BoardPhase
  <2> QED
    BY <2>1, <2>4, <2>5
<1>4. ASSUME NEW w \in Workers, MarkRunning(w) \/ MarkFailed(w) PROVE Board!Bring(w)
  <2>1. /\ job[w] \in Jobs /\ job' = [job EXCEPT ![w] = NoJob] /\ disputed' = disputed
        /\ WriteRunning(w) \/ (WriteFailed(w) /\ pc[w] \in GivingUp)
    BY <1>4 DEF MarkRunning, MarkFailed, LocalsInv, Holding, Trying, Excepting, GivingUp, Leave
  <2> QED
    BY <2>1, BoardOutcome, NoJobNotJob DEF Board!Bring, BoardPhase
<1>5. ASSUME NEW w \in Workers, UnheardInTry(w) PROVE Board!Dispute(w)
  <2>1. /\ job[w] \in Jobs /\ job' = job /\ disputed' = disputed \cup {job[w]}
        /\ WriteRunning(w) \/ (WriteFailed(w) /\ pc[w] \in GivingUp)
    BY <1>5 DEF UnheardInTry, LocalsInv, Holding, Trying, GivingUp
  <2> QED
    BY <2>1, BoardOutcome, NoJobNotJob DEF Board!Dispute, BoardPhase
<1>6. ASSUME NEW j \in Jobs, Age(j)
      PROVE  (\E w \in Workers : Board!Dispute(w)) \/ UNCHANGED Board!vars
  <2>1. UNCHANGED <<status, job, attempts>>
        /\ disputed' = IF Held(j) THEN disputed \cup {j} ELSE disputed
    BY <1>6 DEF Age
  <2>2. CASE Held(j)
    <3>1. PICK w \in Workers : job[w] = j
      BY <2>2 DEF Held
    <3>2. Board!Dispute(w)
      BY <2>1, <2>2, <3>1, NoJobNotJob DEF Board!Dispute
    <3> QED
      BY <3>2
  <2>3. CASE ~Held(j)
    BY <2>1, <2>3, BoardStutter
  <2> QED
    BY <2>2, <2>3
<1>7. ASSUME NEW w \in Workers, CallRaises(w) \/ HeartbeatUnheard(w) \/ Crash(w)
      PROVE  Board!Lose(w) \/ UNCHANGED Board!vars
  <2>1. UNCHANGED <<status, attempts, disputed>> /\ job' = [job EXCEPT ![w] = NoJob]
    BY <1>7 DEF CallRaises, HeartbeatUnheard, Crash, Leave
  <2>2. CASE job[w] = NoJob
    <3>1. job' = job
      BY <2>1, <2>2 DEF TypeOK
    <3> QED
      BY <2>1, <3>1, BoardStutter
  <2>3. CASE job[w] # NoJob
    BY <2>1, <2>3 DEF Board!Lose
  <2> QED
    BY <2>2, <2>3
<1>8. ASSUME NEW j \in Jobs, CountQueued(j) \/ EnqueueLost(j) PROVE UNCHANGED Board!vars
  <2>1. UNCHANGED <<status, job, attempts, disputed>>
    BY <1>8, Zenon DEF CountQueued, EnqueueLost
  <2> QED
    BY <2>1, BoardStutter
<1>9. ASSUME NEW w \in Workers,
             \/ CheckCapacity(w) \/ ClaimNothing(w) \/ ReadJob(w) \/ Heartbeat(w)
             \/ PrepareFails(w) \/ StopByProject(w) \/ DeploySucceeds(w)
             \/ DeployFails(w) \/ DeployTimesOut(w) \/ ReadAttempts(w)
             \/ RaisesInTry(w) \/ Restart(w) \/ ContainerExits(w)
      PROVE  UNCHANGED Board!vars
  <2>1. UNCHANGED <<status, job, attempts, disputed>>
    BY <1>9, Zenon
       DEF CheckCapacity, ClaimNothing, ReadJob, Heartbeat, PrepareFails, StopByProject,
           DeploySucceeds, DeployFails, DeployTimesOut, ReadAttempts,
           RaisesInTry, Restart, ContainerExits
  <2> QED
    BY <2>1, BoardStutter
<1>10. CASE UNCHANGED vars
  BY <1>10, BoardStutter DEF vars
<1> QED
  BY <1>1, <1>2, <1>3, <1>4, <1>5, <1>6, <1>7, <1>8, <1>9, <1>10
     DEF Next, Enqueue, ProcessOne, Fault, Board!Next

\* Slow builds, lost answers and crashes included, the table, the workers and the
\* token rules together are a board from which one worker at a time takes a job.
THEOREM QueueIsJobBoard == Spec => ImplementsJobBoard
<1>1. IInv /\ [Next]_vars => [Board!Next]_(Board!vars)
  BY BoardStep
<1> QED
  BY <1>1, BoardInit, Invariant, PTL DEF Spec, ImplementsJobBoard, Board!Spec

-----------------------------------------------------------------------------
(* What the board is worth: its promises follow from its actions alone.      *)

BoardInv == Board!TypeOK /\ Board!OneHand /\ Board!GivenUpIsExhausted

\* What a step of the board does to its jobs and hands.
LEMMA BoardKeeps ==
  ASSUME BoardInv, [Board!Next]_(Board!vars)
  PROVE  /\ BoardInv'
         /\ \A j \in Jobs : BoardPhase[j] \in {"running", "failed"} =>
              j \in disputed' \/ BoardPhase'[j] = BoardPhase[j]
<1> DEFINE P == BoardPhase
           P2 == BoardPhase'
           Phases == {"absent", "waiting", "taken", "running", "failed"}
           Kept == /\ BoardInv'
                   /\ \A j \in Jobs : P[j] \in {"running", "failed"} =>
                        j \in disputed' \/ P2[j] = P[j]
<1> USE NoJobNotJob, LimitsAssumption
<1>1. /\ P \in [Jobs -> Phases] /\ disputed \subseteq Jobs
      /\ job \in [Workers -> Jobs \cup {NoJob}] /\ attempts \in [Jobs -> Nat]
      /\ \A w \in Workers : job[w] # NoJob /\ job[w] \notin disputed =>
           P[job[w]] = "taken" /\ \A v \in Workers : job[v] = job[w] => v = w
      /\ \A j \in Jobs : P[j] = "failed" => attempts[j] >= MaxAttempts
  BY DEF BoardInv, Board!TypeOK, Board!OneHand, Board!GivenUpIsExhausted, BoardPhase
<1>2. ASSUME /\ P2 \in [Jobs -> Phases] /\ disputed' \subseteq Jobs
             /\ job' \in [Workers -> Jobs \cup {NoJob}] /\ attempts' \in [Jobs -> Nat]
             /\ \A w \in Workers : job'[w] # NoJob /\ job'[w] \notin disputed' =>
                  P2[job'[w]] = "taken" /\ \A v \in Workers : job'[v] = job'[w] => v = w
             /\ \A j \in Jobs : P2[j] = "failed" => attempts'[j] >= MaxAttempts
      PROVE  BoardInv'
  BY <1>2 DEF BoardInv, Board!TypeOK, Board!OneHand, Board!GivenUpIsExhausted, BoardPhase
<1>3. ASSUME NEW j \in Jobs, Board!Post(j) PROVE Kept
  <2>1. /\ P[j] = "absent" /\ P2 = [P EXCEPT ![j] = "waiting"]
        /\ UNCHANGED <<job, attempts, disputed>>
    BY <1>3 DEF Board!Post, BoardPhase
  <2> HIDE DEF P, P2
  <2> QED
    BY <1>1, <1>2, <2>1
<1>4. ASSUME NEW w \in Workers, Board!Take(w) PROVE Kept
  <2>1. PICK back \in SUBSET Board!Abandoned, j \in Jobs :
          /\ job[w] = NoJob /\ (P[j] = "waiting" \/ j \in back)
          /\ P2 = [i \in Jobs |-> IF i = j THEN "taken" ELSE IF i \in back THEN "waiting" ELSE P[i]]
          /\ job' = [job EXCEPT ![w] = j] /\ disputed' = disputed
          /\ attempts' = [attempts EXCEPT ![j] = IF attempts[j] > MaxAttempts THEN @ ELSE @ + 1]
    BY <1>4 DEF Board!Take, BoardPhase
  <2>2. \A i \in back : P[i] = "taken" /\ (i \in disputed \/ \A v \in Workers : job[v] # i)
    BY DEF Board!Abandoned, BoardPhase
  <2>3. /\ attempts' \in [Jobs -> Nat] /\ \A i \in Jobs : attempts'[i] >= attempts[i]
    BY <1>1, <2>1
  <2> HIDE DEF P, P2
  <2>4. j \in disputed \/ \A v \in Workers \ {w} : job[v] # j
    BY <1>1, <2>1, <2>2
  <2>5. \A i \in Jobs : P[i] \in {"running", "failed"} => P2[i] = P[i]
    BY <1>1, <2>1, <2>2
  <2>6. \A i \in Jobs : P2[i] = "failed" => attempts'[i] >= MaxAttempts
    BY <1>1, <2>1, <2>3
  <2>7. P2 \in [Jobs -> Phases]
    BY <1>1, <2>1
  <2>8. \A v \in Workers : job'[v] # NoJob /\ job'[v] \notin disputed' =>
          P2[job'[v]] = "taken" /\ \A u \in Workers : job'[u] = job'[v] => u = v
    BY <1>1, <2>1, <2>2, <2>4
  <2>9. job' \in [Workers -> Jobs \cup {NoJob}]
    BY <1>1, <2>1
  <2> QED
    BY <1>1, <1>2, <2>1, <2>3, <2>5, <2>6, <2>7, <2>8, <2>9
<1>5. ASSUME NEW w \in Workers, Board!Bring(w) PROVE Kept
  <2>1. PICK outcome \in {"running", "waiting", "failed"} :
          /\ job[w] # NoJob /\ Board!MayBecome(job[w], outcome)
          /\ P2 = [P EXCEPT ![job[w]] = outcome]
          /\ job' = [job EXCEPT ![w] = NoJob] /\ UNCHANGED <<attempts, disputed>>
    BY <1>5 DEF Board!Bring, BoardPhase
  <2>2. outcome = "failed" => attempts[job[w]] >= MaxAttempts
    BY <2>1 DEF Board!MayBecome
  <2> HIDE DEF P, P2
  <2> QED
    BY <1>1, <1>2, <2>1, <2>2
<1>6. ASSUME NEW w \in Workers, Board!Dispute(w) PROVE Kept
  <2>1. /\ job[w] # NoJob /\ disputed' = disputed \cup {job[w]} /\ UNCHANGED <<job, attempts>>
        /\ P2 = P \/ \E outcome \in {"running", "waiting", "failed"} :
             Board!MayBecome(job[w], outcome) /\ P2 = [P EXCEPT ![job[w]] = outcome]
    BY <1>6 DEF Board!Dispute, BoardPhase
  <2>2. CASE P2 = P
    <3> HIDE DEF P, P2
    <3> QED
      BY <1>1, <1>2, <2>1, <2>2
  <2>3. CASE P2 # P
    <3>1. PICK outcome \in {"running", "waiting", "failed"} :
            Board!MayBecome(job[w], outcome) /\ P2 = [P EXCEPT ![job[w]] = outcome]
      BY <2>1, <2>3
    <3>2. outcome = "failed" => attempts[job[w]] >= MaxAttempts
      BY <3>1 DEF Board!MayBecome
    <3> HIDE DEF P, P2
    <3> QED
      BY <1>1, <1>2, <2>1, <3>1, <3>2
  <2> QED
    BY <2>2, <2>3
<1>7. ASSUME NEW w \in Workers, Board!Rework(w) PROVE Kept
  <2>1. /\ job[w] \in disputed /\ P2 = [P EXCEPT ![job[w]] = "taken"]
        /\ UNCHANGED <<job, attempts, disputed>>
    BY <1>7 DEF Board!Rework, BoardPhase
  <2> HIDE DEF P, P2
  <2> QED
    BY <1>1, <1>2, <2>1
<1>8. ASSUME NEW w \in Workers, Board!Lose(w) PROVE Kept
  <2>1. P2 = P /\ job' = [job EXCEPT ![w] = NoJob] /\ UNCHANGED <<attempts, disputed>>
    BY <1>8 DEF Board!Lose, BoardPhase
  <2> HIDE DEF P, P2
  <2> QED
    BY <1>1, <1>2, <2>1
<1>9. ASSUME UNCHANGED Board!vars PROVE Kept
  <2>1. P2 = P /\ UNCHANGED <<job, attempts, disputed>>
    BY <1>9 DEF Board!vars, BoardPhase
  <2> HIDE DEF P, P2
  <2> QED
    BY <1>1, <1>2, <2>1
<1> QED
  BY <1>3, <1>4, <1>5, <1>6, <1>7, <1>8, <1>9 DEF Board!Next

\* On the board an undisputed job is in one hand at a time and is settled for
\* good, and no job is given up before its takes are used up: a reader of the
\* deploy queue needs no more than the board to know it.
THEOREM BoardIsSound ==
  Board!Spec => [](Board!OneHand /\ Board!GivenUpIsExhausted) /\ Board!SettledStays
<1>1. Board!Init => BoardInv
  BY LimitsAssumption
     DEF Board!Init, BoardInv, Board!TypeOK, Board!OneHand, Board!GivenUpIsExhausted
<1>2. BoardInv /\ [Board!Next]_(Board!vars) => BoardInv'
  BY BoardKeeps
<1>3. BoardInv => Board!OneHand /\ Board!GivenUpIsExhausted
  BY DEF BoardInv
<1> DEFINE Stays == \A j \in Jobs : BoardPhase[j] \in {"running", "failed"} =>
                      j \in disputed' \/ BoardPhase'[j] = BoardPhase[j]
<1>4. BoardInv /\ [Board!Next]_(Board!vars) => [Stays]_(Board!vars)
  BY BoardKeeps
<1>5. [][Stays]_(Board!vars) => Board!SettledStays
  BY DEF Board!SettledStays, BoardPhase
<1> QED
  BY <1>1, <1>2, <1>3, <1>4, <1>5, PTL DEF Board!Spec
=============================================================================
