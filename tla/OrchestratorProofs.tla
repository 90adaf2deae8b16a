------------------------- MODULE OrchestratorProofs -------------------------
(* Proofs about the orchestrator, for any number of threads, any limits and  *)
(* any breakers: the slots are accounted for, the attempts bounded, and a    *)
(* success is one the critic has accepted.                                   *)
EXTENDS OrchestratorProps, FiniteSetTheorems, TLAPS

Weight(P, where) == IF where \in P THEN 1 ELSE 0

\* The runs of W at the places P, under the program counter f.
Those(W, P, f) == {q \in W : f[q] \in P}

\* When one run moves, the number of runs of W at the places P changes by that
\* run alone.
LEMMA OneMoves ==
  ASSUME NEW W \in SUBSET Runs, NEW P, NEW r \in Runs, NEW where \in PC,
         pc \in [Runs -> PC], pc' = [pc EXCEPT ![r] = where]
  PROVE  /\ Cardinality(Those(W, P, pc)) \in Nat
         /\ Cardinality(Those(W, P, pc')) \in Nat
         /\ r \notin W => Those(W, P, pc) = Those(W, P, pc')
         /\ r \in W =>
              Cardinality(Those(W, P, pc')) + Weight(P, pc[r])
                = Cardinality(Those(W, P, pc)) + Weight(P, where)
<1> USE DEF Those
<1> DEFINE A == Those(W, P, pc)
           B == Those(W, P, pc')
<1>1. IsFiniteSet(A) /\ IsFiniteSet(B)
  <2>1. IsFiniteSet(Runs) BY RunsAssumption
  <2>2. A \subseteq Runs /\ B \subseteq Runs OBVIOUS
  <2> QED BY <2>1, <2>2, FS_Subset
<1>2. Cardinality(A) \in Nat /\ Cardinality(B) \in Nat
  BY <1>1, FS_CardinalityType
<1>3. r \notin W => A = B
  OBVIOUS
<1>4. CASE r \in W
  <2>1. CASE pc[r] \in P /\ where \in P
    <3>1. A = B BY <1>4, <2>1
    <3> QED BY <3>1, <2>1, <1>2 DEF Weight
  <2>2. CASE pc[r] \notin P /\ where \notin P
    <3>1. A = B BY <1>4, <2>2
    <3> QED BY <3>1, <2>2, <1>2 DEF Weight
  <2>3. CASE pc[r] \notin P /\ where \in P
    <3>1. B = A \cup {r} /\ r \notin A BY <1>4, <2>3
    <3>2. Cardinality(B) = Cardinality(A) + 1 BY <3>1, <1>1, FS_AddElement
    <3> QED BY <3>2, <2>3, <1>2 DEF Weight
  <2>4. CASE pc[r] \in P /\ where \notin P
    <3>1. B = A \ {r} /\ r \in A BY <1>4, <2>4
    <3>2. Cardinality(B) = Cardinality(A) - 1 BY <3>1, <1>1, FS_RemoveElement
    <3> QED BY <3>2, <2>4, <1>2 DEF Weight
  <2> QED BY <2>1, <2>2, <2>3, <2>4
<1> QED BY <1>2, <1>3, <1>4

\* The counters stay accounted for when a run moves and each counter moves with
\* it; a user's count grows only below its limit.
LEMMA SlotsFollow ==
  ASSUME TypeOK, SlotsAccounted, NEW r \in Runs, NEW where \in PC,
         pc' = [pc EXCEPT ![r] = where],
         sem' + Weight(PermittedAt, where) = sem + Weight(PermittedAt, pc[r]),
         sem' \in Nat,
         active' + Weight(Inside, pc[r]) = active + Weight(Inside, where),
         active' \in Nat,
         \A u \in Users :
           /\ userActive'[u] \in Nat
           /\ User(r) # u => userActive'[u] = userActive[u]
           /\ User(r) = u =>
                /\ userActive'[u] + Weight(CountedAt, pc[r])
                     = userActive[u] + Weight(CountedAt, where)
                /\ userActive'[u] <= UserLimit
  PROVE  SlotsAccounted'
<1>1. pc \in [Runs -> PC] /\ sem \in Nat /\ active \in Nat /\ userActive \in [Users -> Nat]
  BY DEF TypeOK
<1>2. Weight(PermittedAt, where) \in 0..1 /\ Weight(PermittedAt, pc[r]) \in 0..1
      /\ Weight(Inside, where) \in 0..1 /\ Weight(Inside, pc[r]) \in 0..1
      /\ Weight(CountedAt, where) \in 0..1 /\ Weight(CountedAt, pc[r]) \in 0..1
  BY DEF Weight
<1>3. Limit \in Nat /\ UserLimit \in Nat
  BY BoundsAssumption
<1>4. sem' + Cardinality(RunsAt(PermittedAt)') = Limit
  <2>1. /\ Cardinality(RunsAt(PermittedAt)) \in Nat /\ Cardinality(RunsAt(PermittedAt)') \in Nat
        /\ Cardinality(RunsAt(PermittedAt)') + Weight(PermittedAt, pc[r])
             = Cardinality(RunsAt(PermittedAt)) + Weight(PermittedAt, where)
    <3>1. Runs \in SUBSET Runs OBVIOUS
    <3>2. /\ Cardinality(Those(Runs, PermittedAt, pc)) \in Nat
          /\ Cardinality(Those(Runs, PermittedAt, pc')) \in Nat
          /\ Cardinality(Those(Runs, PermittedAt, pc')) + Weight(PermittedAt, pc[r])
               = Cardinality(Those(Runs, PermittedAt, pc)) + Weight(PermittedAt, where)
      BY <3>1, <1>1, OneMoves
    <3> QED BY <3>2 DEF RunsAt, Those
  <2>2. sem + Cardinality(RunsAt(PermittedAt)) = Limit
    BY DEF SlotsAccounted
  <2> QED BY <1>1, <1>2, <1>3, <2>1, <2>2
<1>5. active' = Cardinality(RunsAt(Inside)')
  <2>1. /\ Cardinality(RunsAt(Inside)) \in Nat /\ Cardinality(RunsAt(Inside)') \in Nat
        /\ Cardinality(RunsAt(Inside)') + Weight(Inside, pc[r])
             = Cardinality(RunsAt(Inside)) + Weight(Inside, where)
    <3>1. Runs \in SUBSET Runs OBVIOUS
    <3>2. /\ Cardinality(Those(Runs, Inside, pc)) \in Nat
          /\ Cardinality(Those(Runs, Inside, pc')) \in Nat
          /\ Cardinality(Those(Runs, Inside, pc')) + Weight(Inside, pc[r])
               = Cardinality(Those(Runs, Inside, pc)) + Weight(Inside, where)
      BY <3>1, <1>1, OneMoves
    <3> QED BY <3>2 DEF RunsAt, Those
  <2>2. active = Cardinality(RunsAt(Inside))
    BY DEF SlotsAccounted
  <2> QED BY <1>1, <1>2, <2>1, <2>2
<1>6. ASSUME NEW u \in Users
      PROVE  /\ userActive'[u] = Cardinality({q \in RunsOf(u) : pc'[q] \in CountedAt})
             /\ userActive'[u] <= UserLimit
  <2> DEFINE A == {q \in RunsOf(u) : pc[q] \in CountedAt}
             B == {q \in RunsOf(u) : pc'[q] \in CountedAt}
  <2>1. /\ Cardinality(A) \in Nat /\ Cardinality(B) \in Nat
        /\ r \notin RunsOf(u) => A = B
        /\ r \in RunsOf(u) =>
             Cardinality(B) + Weight(CountedAt, pc[r]) = Cardinality(A) + Weight(CountedAt, where)
    <3>1. RunsOf(u) \in SUBSET Runs BY DEF RunsOf
    <3>2. /\ Cardinality(Those(RunsOf(u), CountedAt, pc)) \in Nat
          /\ Cardinality(Those(RunsOf(u), CountedAt, pc')) \in Nat
          /\ r \notin RunsOf(u) => Those(RunsOf(u), CountedAt, pc)
                                    = Those(RunsOf(u), CountedAt, pc')
          /\ r \in RunsOf(u) =>
               Cardinality(Those(RunsOf(u), CountedAt, pc')) + Weight(CountedAt, pc[r])
                 = Cardinality(Those(RunsOf(u), CountedAt, pc)) + Weight(CountedAt, where)
      BY <3>1, <1>1, OneMoves
    <3> QED BY <3>2 DEF Those
  <2>2. userActive[u] = Cardinality(A) /\ userActive[u] <= UserLimit
    BY <1>6 DEF SlotsAccounted
  <2>3. CASE User(r) = u
    <3>1. r \in RunsOf(u) BY <2>3 DEF RunsOf
    <3>2. userActive[u] \in Nat BY <1>1
    <3> HIDE DEF A, B
    <3>3. userActive'[u] = Cardinality(B)
      BY <3>1, <3>2, <2>1, <2>2, <2>3, <1>2, <1>6
    <3> QED BY <3>3, <2>3, <1>6 DEF B
  <2>4. CASE User(r) # u
    <3>1. r \notin RunsOf(u) BY <2>4 DEF RunsOf
    <3> QED BY <3>1, <2>1, <2>2, <2>4, <1>6
  <2> QED BY <2>3, <2>4
<1> QED
  BY <1>4, <1>5, <1>6 DEF SlotsAccounted, RunsAt, RunsOf, User

-----------------------------------------------------------------------------
\* Every step of a run keeps the types.
LEMMA TypeStep == TypeOK /\ [Next]_vars => TypeOK'
<1> SUFFICES ASSUME TypeOK, [Next]_vars PROVE TypeOK'
  OBVIOUS
<1> USE RunsAssumption, BoundsAssumption DEF Goto, Enter, slots, breakers, kept, state
<1>1. ASSUME NEW r \in Runs, Refuse(r) PROVE TypeOK'
  BY <1>1 DEF Refuse, TypeOK, PC
<1>2. ASSUME NEW r \in Runs, Admit(r) PROVE TypeOK'
  BY <1>2 DEF Admit, CountUser, TypeOK, PC
<1>3. ASSUME NEW r \in Runs, RefusedReturns(r) PROVE TypeOK'
  BY <1>3 DEF RefusedReturns, Return, TypeOK, PC, Status, Agents
<1>4. ASSUME NEW r \in Runs, AcquireSlot(r) PROVE TypeOK'
  BY <1>4 DEF AcquireSlot, TypeOK, PC
<1>5. ASSUME NEW r \in Runs, SlotTimeout(r) PROVE TypeOK'
  BY <1>5 DEF SlotTimeout, TypeOK, PC
<1>6. ASSUME NEW r \in Runs, GiveUpSlot(r) PROVE TypeOK'
  BY <1>6 DEF GiveUpSlot, UncountUser, TypeOK, PC
<1>7. ASSUME NEW r \in Runs, BusyReturns(r) PROVE TypeOK'
  BY <1>7 DEF BusyReturns, Return, TypeOK, PC, Status, Agents
<1>8. ASSUME NEW r \in Runs, Begin(r) PROVE TypeOK'
  BY <1>8 DEF Begin, Call, TypeOK, PC, Inside, Agents
<1>9. ASSUME NEW r \in Runs, Leave(r) PROVE TypeOK'
  BY <1>9 DEF Leave, UncountUser, TypeOK, PC
<1>10. ASSUME NEW r \in Runs, ReleaseSlot(r) PROVE TypeOK'
  BY <1>10 DEF ReleaseSlot, Return, TypeOK, PC, Status, Agents
<1>11. ASSUME NEW r \in Runs, StartAgent(r) PROVE TypeOK'
  BY <1>11 DEF StartAgent, TypeOK, PC, Inside
<1>12. ASSUME NEW r \in Runs, BlockedAgent(r) PROVE TypeOK'
  BY <1>12 DEF BlockedAgent, AfterAgent, Left, Call, TypeOK, PC, Inside, Status, Agents
<1>13. ASSUME NEW r \in Runs, CrashAgent(r) PROVE TypeOK'
  BY <1>13 DEF CrashAgent, AfterAgent, Left, Call, RecordFailure, TypeOK, PC, Inside, Status, Agents
<1>14. ASSUME NEW r \in Runs, RouteBuild(r) PROVE TypeOK'
  BY <1>14 DEF RouteBuild, AfterAgent, Left, Call, RecordSuccess, TypeOK, PC, Inside, Status, Agents
<1>15. ASSUME NEW r \in Runs, RouteElsewhere(r) PROVE TypeOK'
  BY <1>15 DEF RouteElsewhere, RecordSuccess, TypeOK, PC, Inside, Status
<1>16. ASSUME NEW r \in Runs, WriteSpec(r) PROVE TypeOK'
  BY <1>16 DEF WriteSpec, AfterAgent, RecordSuccess, TypeOK, PC, Inside
<1>17. ASSUME NEW r \in Runs, GatePasses(r) PROVE TypeOK'
  BY <1>17 DEF GatePasses, Call, TypeOK, PC, Inside, Agents
<1>18. ASSUME NEW r \in Runs, GateBlocks(r) PROVE TypeOK'
  BY <1>18 DEF GateBlocks, TypeOK, PC, Inside, Status
<1>19. ASSUME NEW r \in Runs, BuildReturns(r) PROVE TypeOK'
  <2>1. /\ attempts[r] + 1 \in Nat
        /\ attempts' = [attempts EXCEPT ![r] = attempts[r] + 1]
        /\ result' = [result EXCEPT ![r] = attempts[r] + 1]
    BY <1>19 DEF BuildReturns, TypeOK
  <2>5. path' \in [Runs -> Nat]
    <3>1. CASE \E where \in {0, attempts[r] + 1} : path' = [path EXCEPT ![r] = where]
      <4>1. PICK where \in {0, attempts[r] + 1} : path' = [path EXCEPT ![r] = where]
        BY <3>1
      <4>2. where \in Nat BY <4>1, <2>1
      <4> QED BY <4>1, <4>2 DEF TypeOK
    <3>2. CASE UNCHANGED path
      BY <3>2 DEF TypeOK
    <3> QED BY <3>1, <3>2, <1>19 DEF BuildReturns
  <2>6. built' \in [Runs -> BOOLEAN]
    BY <1>19 DEF BuildReturns, TypeOK
  <2>8. success' \in [Runs -> BOOLEAN]
    BY <1>19 DEF BuildReturns, TypeOK
  <2>7. status' \in [Runs -> Status]
    BY <1>19 DEF BuildReturns, TypeOK, Status
  <2>2. /\ breaker' \in [Agents -> {"closed", "open", "half_open"}]
        /\ failures' \in [Agents -> 0..Threshold]
    <3>1. CASE RecordSuccess("builder")
      BY <3>1 DEF RecordSuccess, TypeOK, Agents
    <3>2. CASE RecordFailure("builder")
      BY <3>2 DEF RecordFailure, TypeOK, Agents
    <3> QED BY <3>1, <3>2, <1>19 DEF BuildReturns
  <2>3. attempts' \in [Runs -> Nat] /\ result' \in [Runs -> Nat]
    BY <2>1 DEF TypeOK
  <2>4. /\ pc' = [pc EXCEPT ![r] = "judge"] /\ pc[r] = "running"
        /\ UNCHANGED <<agent, lock, sem, active, userActive, qa, accepted>>
    BY <1>19 DEF BuildReturns, MayBuild
  <2> QED BY <2>1, <2>2, <2>3, <2>4, <2>5, <2>6, <2>7, <2>8 DEF TypeOK, PC, Inside
<1>20. ASSUME NEW r \in Runs, BuildFails(r) PROVE TypeOK'
  BY <1>20 DEF BuildFails, MayBuild, RecordFailure, TypeOK, PC, Inside, Status
<1>21. ASSUME NEW r \in Runs, ToCritic(r) PROVE TypeOK'
  BY <1>21 DEF ToCritic, Call, TypeOK, PC, Inside, Agents
<1>22. ASSUME NEW r \in Runs, NoBuild(r) PROVE TypeOK'
  BY <1>22 DEF NoBuild, TypeOK, PC, Inside, Status
<1>23. ASSUME NEW r \in Runs, CriticAccepts(r) PROVE TypeOK'
  BY <1>23 DEF CriticAccepts, RecordSuccess, TypeOK, PC, Inside, Status
<1>24. ASSUME NEW r \in Runs, CriticRejects(r) PROVE TypeOK'
  BY <1>24 DEF CriticRejects, RecordFailure, TypeOK, PC, Inside, Status
<1>25. ASSUME NEW r \in Runs, Finish(r) PROVE TypeOK'
  BY <1>25 DEF Finish, TypeOK, PC, Inside
<1>26. ASSUME NEW r \in Runs, Repair(r) PROVE TypeOK'
  BY <1>26 DEF Repair, Call, TypeOK, PC, Inside, Status, Agents
<1>27. ASSUME NEW r \in Runs, Deliver(r) PROVE TypeOK'
  BY <1>27 DEF Deliver, TypeOK, PC, Inside, Status
<1>28. ASSUME NEW r \in Runs, Raise(r) PROVE TypeOK'
  BY <1>28 DEF Raise, TypeOK, PC, Inside
<1>29. CASE UNCHANGED vars
  BY <1>29 DEF vars, TypeOK
<1> QED
  BY <1>1, <1>2, <1>3, <1>4, <1>5, <1>6, <1>7, <1>8, <1>9, <1>10, <1>11, <1>12, <1>13, <1>14, <1>15,
     <1>16, <1>17, <1>18, <1>19, <1>20, <1>21, <1>22, <1>23, <1>24, <1>25, <1>26, <1>27, <1>28,
     <1>29 DEF Next, Arrive, Slot, Pipeline

\* The pipeline moves a run from one place inside its slot to another.
LEMMA PipelineInside ==
  ASSUME TypeOK, NEW r \in Runs, Pipeline(r)
  PROVE  /\ UNCHANGED slots
         /\ pc[r] \in Inside
         /\ \E where \in Inside : pc' = [pc EXCEPT ![r] = where]
<1> USE DEF Goto, Inside
<1>1. ASSUME StartAgent(r)
      PROVE  /\ UNCHANGED slots /\ pc[r] \in Inside
               /\ \E where \in Inside : pc' = [pc EXCEPT ![r] = where]
  BY <1>1 DEF StartAgent, slots
<1>2. ASSUME BlockedAgent(r)
      PROVE  /\ UNCHANGED slots /\ pc[r] \in Inside
               /\ \E where \in Inside : pc' = [pc EXCEPT ![r] = where]
  BY <1>2 DEF BlockedAgent, AfterAgent, Call, slots
<1>3. ASSUME CrashAgent(r)
      PROVE  /\ UNCHANGED slots /\ pc[r] \in Inside
               /\ \E where \in Inside : pc' = [pc EXCEPT ![r] = where]
  BY <1>3 DEF CrashAgent, AfterAgent, Call, slots
<1>4. ASSUME RouteBuild(r)
      PROVE  /\ UNCHANGED slots /\ pc[r] \in Inside
               /\ \E where \in Inside : pc' = [pc EXCEPT ![r] = where]
  BY <1>4 DEF RouteBuild, AfterAgent, Call, slots
<1>5. ASSUME RouteElsewhere(r)
      PROVE  /\ UNCHANGED slots /\ pc[r] \in Inside
               /\ \E where \in Inside : pc' = [pc EXCEPT ![r] = where]
  BY <1>5 DEF RouteElsewhere, slots
<1>6. ASSUME WriteSpec(r)
      PROVE  /\ UNCHANGED slots /\ pc[r] \in Inside
               /\ \E where \in Inside : pc' = [pc EXCEPT ![r] = where]
  BY <1>6 DEF WriteSpec, AfterAgent, Call, slots
<1>7. ASSUME GatePasses(r)
      PROVE  /\ UNCHANGED slots /\ pc[r] \in Inside
               /\ \E where \in Inside : pc' = [pc EXCEPT ![r] = where]
  BY <1>7 DEF GatePasses, Call, slots
<1>8. ASSUME GateBlocks(r)
      PROVE  /\ UNCHANGED slots /\ pc[r] \in Inside
               /\ \E where \in Inside : pc' = [pc EXCEPT ![r] = where]
  BY <1>8 DEF GateBlocks, slots
<1>9. ASSUME BuildReturns(r)
      PROVE  /\ UNCHANGED slots /\ pc[r] \in Inside
               /\ \E where \in Inside : pc' = [pc EXCEPT ![r] = where]
  BY <1>9 DEF BuildReturns, MayBuild, slots
<1>10. ASSUME BuildFails(r)
      PROVE  /\ UNCHANGED slots /\ pc[r] \in Inside
               /\ \E where \in Inside : pc' = [pc EXCEPT ![r] = where]
  BY <1>10 DEF BuildFails, MayBuild, slots
<1>11. ASSUME ToCritic(r)
      PROVE  /\ UNCHANGED slots /\ pc[r] \in Inside
               /\ \E where \in Inside : pc' = [pc EXCEPT ![r] = where]
  BY <1>11 DEF ToCritic, Call, slots
<1>12. ASSUME NoBuild(r)
      PROVE  /\ UNCHANGED slots /\ pc[r] \in Inside
               /\ \E where \in Inside : pc' = [pc EXCEPT ![r] = where]
  BY <1>12 DEF NoBuild, slots
<1>13. ASSUME CriticAccepts(r)
      PROVE  /\ UNCHANGED slots /\ pc[r] \in Inside
               /\ \E where \in Inside : pc' = [pc EXCEPT ![r] = where]
  BY <1>13 DEF CriticAccepts, slots
<1>14. ASSUME CriticRejects(r)
      PROVE  /\ UNCHANGED slots /\ pc[r] \in Inside
               /\ \E where \in Inside : pc' = [pc EXCEPT ![r] = where]
  BY <1>14 DEF CriticRejects, slots
<1>15. ASSUME Finish(r)
      PROVE  /\ UNCHANGED slots /\ pc[r] \in Inside
               /\ \E where \in Inside : pc' = [pc EXCEPT ![r] = where]
  BY <1>15 DEF Finish, slots
<1>16. ASSUME Repair(r)
      PROVE  /\ UNCHANGED slots /\ pc[r] \in Inside
               /\ \E where \in Inside : pc' = [pc EXCEPT ![r] = where]
  BY <1>16 DEF Repair, Call, slots
<1>17. ASSUME Deliver(r)
      PROVE  /\ UNCHANGED slots /\ pc[r] \in Inside
               /\ \E where \in Inside : pc' = [pc EXCEPT ![r] = where]
  BY <1>17 DEF Deliver, slots
<1>18. ASSUME Raise(r)
      PROVE  /\ UNCHANGED slots /\ pc[r] \in Inside
               /\ \E where \in Inside : pc' = [pc EXCEPT ![r] = where]
  BY <1>18 DEF Raise, slots
<1> QED
  BY <1>1, <1>2, <1>3, <1>4, <1>5, <1>6, <1>7, <1>8, <1>9, <1>10, <1>11, <1>12, <1>13, <1>14, <1>15,
     <1>16, <1>17, <1>18 DEF Pipeline

\* Admission, refusal, timeout and release keep the counters equal to the runs.
LEMMA SlotsStep == TypeOK /\ SlotsAccounted /\ [Next]_vars => SlotsAccounted'
<1> SUFFICES ASSUME TypeOK, SlotsAccounted, [Next]_vars PROVE SlotsAccounted'
  OBVIOUS
<1> USE DEF Goto
<1>0. /\ pc \in [Runs -> PC] /\ sem \in Nat /\ active \in Nat
      /\ userActive \in [Users -> Nat] /\ UserLimit \in Nat
      /\ \A u \in Users : userActive[u] <= UserLimit
  BY BoundsAssumption DEF TypeOK, SlotsAccounted
\* A run of a user that is counted finds the user's count above zero.
<1>u. ASSUME NEW r \in Runs, pc[r] \in CountedAt, NEW u \in Users, User(r) = u
      PROVE  userActive[u] > 0
  <2> DEFINE A == {q \in RunsOf(u) : pc[q] \in CountedAt}
  <2>1. r \in A BY <1>u DEF RunsOf
  <2>2. IsFiniteSet(A)
    <3>1. A \subseteq Runs BY DEF RunsOf
    <3> QED BY <3>1, RunsAssumption, FS_Subset
  <2>3. Cardinality(A) \in Nat /\ Cardinality(A) # 0
    BY <2>1, <2>2, FS_CardinalityType, FS_EmptySet
  <2>4. userActive[u] = Cardinality(A)
    BY <1>u DEF SlotsAccounted
  <2> QED BY <2>3, <2>4
<1>a. ASSUME NEW r \in Runs, pc[r] \in Inside PROVE active > 0
  <2>1. r \in RunsAt(Inside) BY <1>a DEF RunsAt
  <2>2. IsFiniteSet(RunsAt(Inside))
    <3>1. RunsAt(Inside) \subseteq Runs BY DEF RunsAt
    <3> QED BY <3>1, RunsAssumption, FS_Subset
  <2>3. Cardinality(RunsAt(Inside)) \in Nat /\ Cardinality(RunsAt(Inside)) # 0
    BY <2>1, <2>2, FS_CardinalityType, FS_EmptySet
  <2> QED BY <2>3 DEF SlotsAccounted
<1>1. ASSUME NEW r \in Runs, Refuse(r) PROVE SlotsAccounted'
  <2>1. /\ pc' = [pc EXCEPT ![r] = "refused"] /\ pc[r] = "new" /\ "refused" \in PC
    BY <1>1 DEF Refuse, PC, Inside
  <2>2. /\ sem' + Weight(PermittedAt, "refused") = sem + Weight(PermittedAt, pc[r])
        /\ sem' \in Nat
        /\ active' + Weight(Inside, pc[r]) = active + Weight(Inside, "refused")
        /\ active' \in Nat
    BY <1>1, <1>0, <2>1 DEF Refuse, PermittedAt, Inside, Weight
  <2>3. ASSUME NEW u \in Users
        PROVE  /\ userActive'[u] \in Nat
               /\ User(r) # u => userActive'[u] = userActive[u]
               /\ User(r) = u =>
                    /\ userActive'[u] + Weight(CountedAt, pc[r])
                         = userActive[u] + Weight(CountedAt, "refused")
                    /\ userActive'[u] <= UserLimit
    BY <1>1, <1>0, <1>u, <2>1 DEF Refuse, CountedAt, Inside, Weight
  <2> QED BY <2>1, <2>2, <2>3, SlotsFollow
<1>2. ASSUME NEW r \in Runs, RefusedReturns(r) PROVE SlotsAccounted'
  <2>1. /\ pc' = [pc EXCEPT ![r] = "new"] /\ pc[r] = "refused" /\ "new" \in PC
    BY <1>2 DEF RefusedReturns, Return, PC, Inside
  <2>2. /\ sem' + Weight(PermittedAt, "new") = sem + Weight(PermittedAt, pc[r])
        /\ sem' \in Nat
        /\ active' + Weight(Inside, pc[r]) = active + Weight(Inside, "new")
        /\ active' \in Nat
    BY <1>2, <1>0, <2>1 DEF RefusedReturns, PermittedAt, Inside, Weight
  <2>3. ASSUME NEW u \in Users
        PROVE  /\ userActive'[u] \in Nat
               /\ User(r) # u => userActive'[u] = userActive[u]
               /\ User(r) = u =>
                    /\ userActive'[u] + Weight(CountedAt, pc[r])
                         = userActive[u] + Weight(CountedAt, "new")
                    /\ userActive'[u] <= UserLimit
    BY <1>2, <1>0, <1>u, <2>1 DEF RefusedReturns, CountedAt, Inside, Weight
  <2> QED BY <2>1, <2>2, <2>3, SlotsFollow
<1>3. ASSUME NEW r \in Runs, Admit(r) PROVE SlotsAccounted'
  <2>1. /\ pc' = [pc EXCEPT ![r] = "waiting"] /\ pc[r] = "new" /\ "waiting" \in PC
    BY <1>3 DEF Admit, PC
  <2>2. /\ sem' + Weight(PermittedAt, "waiting") = sem + Weight(PermittedAt, pc[r])
        /\ sem' \in Nat
        /\ active' + Weight(Inside, pc[r]) = active + Weight(Inside, "waiting")
        /\ active' \in Nat
    BY <1>3, <1>0, <2>1 DEF Admit, PermittedAt, Inside, Weight
  <2>3. ASSUME NEW u \in Users
        PROVE  /\ userActive'[u] \in Nat
               /\ User(r) # u => userActive'[u] = userActive[u]
               /\ User(r) = u =>
                    /\ userActive'[u] + Weight(CountedAt, pc[r])
                         = userActive[u] + Weight(CountedAt, "waiting")
                    /\ userActive'[u] <= UserLimit
    BY <1>3, <1>0, <1>u, <2>1 DEF Admit, CountUser, HasShare, CountedAt, Inside, Weight
  <2> QED BY <2>1, <2>2, <2>3, SlotsFollow
<1>4. ASSUME NEW r \in Runs, AcquireSlot(r) PROVE SlotsAccounted'
  <2>1. /\ pc' = [pc EXCEPT ![r] = "granted"] /\ pc[r] = "waiting" /\ "granted" \in PC
    BY <1>4 DEF AcquireSlot, PC, Inside
  <2>2. /\ sem' + Weight(PermittedAt, "granted") = sem + Weight(PermittedAt, pc[r])
        /\ sem' \in Nat
        /\ active' + Weight(Inside, pc[r]) = active + Weight(Inside, "granted")
        /\ active' \in Nat
    BY <1>4, <1>0, <2>1 DEF AcquireSlot, PermittedAt, Inside, Weight
  <2>3. ASSUME NEW u \in Users
        PROVE  /\ userActive'[u] \in Nat
               /\ User(r) # u => userActive'[u] = userActive[u]
               /\ User(r) = u =>
                    /\ userActive'[u] + Weight(CountedAt, pc[r])
                         = userActive[u] + Weight(CountedAt, "granted")
                    /\ userActive'[u] <= UserLimit
    BY <1>4, <1>0, <1>u, <2>1 DEF AcquireSlot, CountedAt, Weight
  <2> QED BY <2>1, <2>2, <2>3, SlotsFollow
<1>5. ASSUME NEW r \in Runs, SlotTimeout(r) PROVE SlotsAccounted'
  <2>1. /\ pc' = [pc EXCEPT ![r] = "timed_out"] /\ pc[r] = "waiting" /\ "timed_out" \in PC
    BY <1>5 DEF SlotTimeout, slots, PC, Inside
  <2>2. /\ sem' + Weight(PermittedAt, "timed_out") = sem + Weight(PermittedAt, pc[r])
        /\ sem' \in Nat
        /\ active' + Weight(Inside, pc[r]) = active + Weight(Inside, "timed_out")
        /\ active' \in Nat
    BY <1>5, <1>0, <2>1 DEF SlotTimeout, slots, PermittedAt, Inside, Weight
  <2>3. ASSUME NEW u \in Users
        PROVE  /\ userActive'[u] \in Nat
               /\ User(r) # u => userActive'[u] = userActive[u]
               /\ User(r) = u =>
                    /\ userActive'[u] + Weight(CountedAt, pc[r])
                         = userActive[u] + Weight(CountedAt, "timed_out")
                    /\ userActive'[u] <= UserLimit
    BY <1>5, <1>0, <1>u, <2>1 DEF SlotTimeout, slots, CountedAt, Weight
  <2> QED BY <2>1, <2>2, <2>3, SlotsFollow
<1>6. ASSUME NEW r \in Runs, GiveUpSlot(r) PROVE SlotsAccounted'
  <2>1. /\ pc' = [pc EXCEPT ![r] = "busy"] /\ pc[r] = "timed_out" /\ "busy" \in PC
    BY <1>6 DEF GiveUpSlot, UncountUser, PC, Inside
  <2>2. /\ sem' + Weight(PermittedAt, "busy") = sem + Weight(PermittedAt, pc[r])
        /\ sem' \in Nat
        /\ active' + Weight(Inside, pc[r]) = active + Weight(Inside, "busy")
        /\ active' \in Nat
    BY <1>6, <1>0, <2>1 DEF GiveUpSlot, PermittedAt, Inside, Weight
  <2>3. ASSUME NEW u \in Users
        PROVE  /\ userActive'[u] \in Nat
               /\ User(r) # u => userActive'[u] = userActive[u]
               /\ User(r) = u =>
                    /\ userActive'[u] + Weight(CountedAt, pc[r])
                         = userActive[u] + Weight(CountedAt, "busy")
                    /\ userActive'[u] <= UserLimit
    BY <1>6, <1>0, <1>u, <2>1 DEF GiveUpSlot, UncountUser, CountedAt, Inside, Weight
  <2> QED BY <2>1, <2>2, <2>3, SlotsFollow
<1>7. ASSUME NEW r \in Runs, BusyReturns(r) PROVE SlotsAccounted'
  <2>1. /\ pc' = [pc EXCEPT ![r] = "new"] /\ pc[r] = "busy" /\ "new" \in PC
    BY <1>7 DEF BusyReturns, Return, PC
  <2>2. /\ sem' + Weight(PermittedAt, "new") = sem + Weight(PermittedAt, pc[r])
        /\ sem' \in Nat
        /\ active' + Weight(Inside, pc[r]) = active + Weight(Inside, "new")
        /\ active' \in Nat
    BY <1>7, <1>0, <2>1 DEF BusyReturns, slots, PermittedAt, Inside, Weight
  <2>3. ASSUME NEW u \in Users
        PROVE  /\ userActive'[u] \in Nat
               /\ User(r) # u => userActive'[u] = userActive[u]
               /\ User(r) = u =>
                    /\ userActive'[u] + Weight(CountedAt, pc[r])
                         = userActive[u] + Weight(CountedAt, "new")
                    /\ userActive'[u] <= UserLimit
    BY <1>7, <1>0, <1>u, <2>1 DEF BusyReturns, slots, CountedAt, Inside, Weight
  <2> QED BY <2>1, <2>2, <2>3, SlotsFollow
<1>8. ASSUME NEW r \in Runs, Begin(r) PROVE SlotsAccounted'
  <2>1. /\ pc' = [pc EXCEPT ![r] = "call"] /\ pc[r] = "granted" /\ "call" \in PC
    BY <1>8 DEF Begin, Call, PC, Inside
  <2>2. /\ sem' + Weight(PermittedAt, "call") = sem + Weight(PermittedAt, pc[r])
        /\ sem' \in Nat
        /\ active' + Weight(Inside, pc[r]) = active + Weight(Inside, "call")
        /\ active' \in Nat
    BY <1>8, <1>0, <2>1 DEF Begin, PermittedAt, Inside, Weight
  <2>3. ASSUME NEW u \in Users
        PROVE  /\ userActive'[u] \in Nat
               /\ User(r) # u => userActive'[u] = userActive[u]
               /\ User(r) = u =>
                    /\ userActive'[u] + Weight(CountedAt, pc[r])
                         = userActive[u] + Weight(CountedAt, "call")
                    /\ userActive'[u] <= UserLimit
    BY <1>8, <1>0, <1>u, <2>1 DEF Begin, CountedAt, Inside, Weight
  <2> QED BY <2>1, <2>2, <2>3, SlotsFollow
<1>9. ASSUME NEW r \in Runs, Leave(r) PROVE SlotsAccounted'
  <2>1. /\ pc' = [pc EXCEPT ![r] = "releasing"] /\ pc[r] = "leaving" /\ "releasing" \in PC
    BY <1>9 DEF Leave, UncountUser, PC, Inside
  <2>2. /\ sem' + Weight(PermittedAt, "releasing") = sem + Weight(PermittedAt, pc[r])
        /\ sem' \in Nat
        /\ active' + Weight(Inside, pc[r]) = active + Weight(Inside, "releasing")
        /\ active' \in Nat
    BY <1>9, <1>0, <1>a, <2>1 DEF Leave, PermittedAt, Inside, Weight
  <2>3. ASSUME NEW u \in Users
        PROVE  /\ userActive'[u] \in Nat
               /\ User(r) # u => userActive'[u] = userActive[u]
               /\ User(r) = u =>
                    /\ userActive'[u] + Weight(CountedAt, pc[r])
                         = userActive[u] + Weight(CountedAt, "releasing")
                    /\ userActive'[u] <= UserLimit
    BY <1>9, <1>0, <1>u, <2>1 DEF Leave, UncountUser, CountedAt, Inside, Weight
  <2> QED BY <2>1, <2>2, <2>3, SlotsFollow
<1>10. ASSUME NEW r \in Runs, ReleaseSlot(r) PROVE SlotsAccounted'
  <2>1. /\ pc' = [pc EXCEPT ![r] = "new"] /\ pc[r] = "releasing" /\ "new" \in PC
    BY <1>10 DEF ReleaseSlot, Return, PC, Inside
  <2>2. /\ sem' + Weight(PermittedAt, "new") = sem + Weight(PermittedAt, pc[r])
        /\ sem' \in Nat
        /\ active' + Weight(Inside, pc[r]) = active + Weight(Inside, "new")
        /\ active' \in Nat
    BY <1>10, <1>0, <2>1 DEF ReleaseSlot, PermittedAt, Inside, Weight
  <2>3. ASSUME NEW u \in Users
        PROVE  /\ userActive'[u] \in Nat
               /\ User(r) # u => userActive'[u] = userActive[u]
               /\ User(r) = u =>
                    /\ userActive'[u] + Weight(CountedAt, pc[r])
                         = userActive[u] + Weight(CountedAt, "new")
                    /\ userActive'[u] <= UserLimit
    BY <1>10, <1>0, <1>u, <2>1 DEF ReleaseSlot, CountedAt, Inside, Weight
  <2> QED BY <2>1, <2>2, <2>3, SlotsFollow
<1>11. ASSUME NEW r \in Runs, Pipeline(r) PROVE SlotsAccounted'
  <2>1. UNCHANGED slots /\ pc[r] \in Inside
    BY <1>11, PipelineInside
  <2>2. PICK where \in Inside : pc' = [pc EXCEPT ![r] = where]
    BY <1>11, PipelineInside
  <2>3. where \in PC BY DEF PC
  <2>4. /\ Weight(PermittedAt, where) = 1 /\ Weight(PermittedAt, pc[r]) = 1
        /\ Weight(Inside, where) = 1 /\ Weight(Inside, pc[r]) = 1
        /\ Weight(CountedAt, where) = 1 /\ Weight(CountedAt, pc[r]) = 1
    BY <2>1 DEF Weight, PermittedAt, CountedAt
  <2>5. sem' = sem /\ active' = active /\ userActive' = userActive
    BY <2>1 DEF slots
  <2> QED BY <1>0, <2>2, <2>3, <2>4, <2>5, SlotsFollow
<1>12. CASE UNCHANGED vars
  BY <1>12 DEF vars, slots, SlotsAccounted, RunsAt
<1> QED
  BY <1>1, <1>2, <1>3, <1>4, <1>5, <1>6, <1>7, <1>8, <1>9, <1>10, <1>11, <1>12 DEF Next, Arrive,
     Slot

\* A step of one run leaves the places and the state of the others alone.
Mine(r, f, g) == \A q \in Runs \ {r} : g[q] = f[q]

LEMMA OthersKeep ==
  ASSUME NEW r \in Runs, NEW q \in Runs \ {r}, LoopInvOf(q),
         Mine(r, pc, pc'), Mine(r, agent, agent'), Mine(r, status, status'),
         Mine(r, attempts, attempts'), Mine(r, built, built'), Mine(r, path, path'),
         Mine(r, qa, qa'), Mine(r, result, result'), Mine(r, success, success'),
         Mine(r, accepted, accepted')
  PROVE  LoopInvOf(q)'
BY DEF Mine, LoopInvOf, Outside, Planning, AtCritic, Passed

LEMMA LoopStep == TypeOK /\ LoopInv /\ [Next]_vars => LoopInv'
<1> SUFFICES ASSUME TypeOK, LoopInv, [Next]_vars PROVE LoopInv'
  OBVIOUS
<1> USE DEF Goto, Enter, kept
<1>0. MaxAttempts \in Nat \ {0} /\ attempts \in [Runs -> Nat]
  BY BoundsAssumption DEF TypeOK
<1>1. ASSUME NEW r \in Runs, Refuse(r) PROVE LoopInv'
  <2>1. LoopInvOf(r)'
    BY <1>1, <1>0 DEF Refuse, LoopInv, LoopInvOf, Outside, AtCritic, Passed, state
  <2>2. /\ Mine(r, pc, pc') /\ Mine(r, agent, agent') /\ Mine(r, status, status')
        /\ Mine(r, attempts, attempts') /\ Mine(r, built, built') /\ Mine(r, path, path')
        /\ Mine(r, qa, qa') /\ Mine(r, result, result') /\ Mine(r, success, success')
        /\ Mine(r, accepted, accepted')
    BY <1>1 DEF Refuse, Mine, state
  <2> QED BY <2>1, <2>2, OthersKeep DEF LoopInv
<1>2. ASSUME NEW r \in Runs, Admit(r) PROVE LoopInv'
  <2>1. LoopInvOf(r)'
    BY <1>2, <1>0 DEF Admit, LoopInv, LoopInvOf, Outside, AtCritic, Passed, state
  <2>2. /\ Mine(r, pc, pc') /\ Mine(r, agent, agent') /\ Mine(r, status, status')
        /\ Mine(r, attempts, attempts') /\ Mine(r, built, built') /\ Mine(r, path, path')
        /\ Mine(r, qa, qa') /\ Mine(r, result, result') /\ Mine(r, success, success')
        /\ Mine(r, accepted, accepted')
    BY <1>2 DEF Admit, Mine, state
  <2> QED BY <2>1, <2>2, OthersKeep DEF LoopInv
<1>3. ASSUME NEW r \in Runs, RefusedReturns(r) PROVE LoopInv'
  <2>1. LoopInvOf(r)'
    BY <1>3, <1>0 DEF RefusedReturns, Return, LoopInv, LoopInvOf, Outside, AtCritic, Passed
  <2>2. /\ Mine(r, pc, pc') /\ Mine(r, agent, agent') /\ Mine(r, status, status')
        /\ Mine(r, attempts, attempts') /\ Mine(r, built, built') /\ Mine(r, path, path')
        /\ Mine(r, qa, qa') /\ Mine(r, result, result') /\ Mine(r, success, success')
        /\ Mine(r, accepted, accepted')
    BY <1>3 DEF RefusedReturns, Return, Mine
  <2> QED BY <2>1, <2>2, OthersKeep DEF LoopInv
<1>4. ASSUME NEW r \in Runs, AcquireSlot(r) PROVE LoopInv'
  <2>1. LoopInvOf(r)'
    BY <1>4, <1>0 DEF AcquireSlot, LoopInv, LoopInvOf, Outside, AtCritic, Passed, state
  <2>2. /\ Mine(r, pc, pc') /\ Mine(r, agent, agent') /\ Mine(r, status, status')
        /\ Mine(r, attempts, attempts') /\ Mine(r, built, built') /\ Mine(r, path, path')
        /\ Mine(r, qa, qa') /\ Mine(r, result, result') /\ Mine(r, success, success')
        /\ Mine(r, accepted, accepted')
    BY <1>4 DEF AcquireSlot, Mine, state
  <2> QED BY <2>1, <2>2, OthersKeep DEF LoopInv
<1>5. ASSUME NEW r \in Runs, SlotTimeout(r) PROVE LoopInv'
  <2>1. LoopInvOf(r)'
    BY <1>5, <1>0 DEF SlotTimeout, LoopInv, LoopInvOf, Outside, AtCritic, Passed, state
  <2>2. /\ Mine(r, pc, pc') /\ Mine(r, agent, agent') /\ Mine(r, status, status')
        /\ Mine(r, attempts, attempts') /\ Mine(r, built, built') /\ Mine(r, path, path')
        /\ Mine(r, qa, qa') /\ Mine(r, result, result') /\ Mine(r, success, success')
        /\ Mine(r, accepted, accepted')
    BY <1>5 DEF SlotTimeout, Mine, state
  <2> QED BY <2>1, <2>2, OthersKeep DEF LoopInv
<1>6. ASSUME NEW r \in Runs, GiveUpSlot(r) PROVE LoopInv'
  <2>1. LoopInvOf(r)'
    BY <1>6, <1>0 DEF GiveUpSlot, LoopInv, LoopInvOf, Outside, AtCritic, Passed, state
  <2>2. /\ Mine(r, pc, pc') /\ Mine(r, agent, agent') /\ Mine(r, status, status')
        /\ Mine(r, attempts, attempts') /\ Mine(r, built, built') /\ Mine(r, path, path')
        /\ Mine(r, qa, qa') /\ Mine(r, result, result') /\ Mine(r, success, success')
        /\ Mine(r, accepted, accepted')
    BY <1>6 DEF GiveUpSlot, Mine, state
  <2> QED BY <2>1, <2>2, OthersKeep DEF LoopInv
<1>7. ASSUME NEW r \in Runs, BusyReturns(r) PROVE LoopInv'
  <2>1. LoopInvOf(r)'
    BY <1>7, <1>0 DEF BusyReturns, Return, LoopInv, LoopInvOf, Outside, AtCritic, Passed
  <2>2. /\ Mine(r, pc, pc') /\ Mine(r, agent, agent') /\ Mine(r, status, status')
        /\ Mine(r, attempts, attempts') /\ Mine(r, built, built') /\ Mine(r, path, path')
        /\ Mine(r, qa, qa') /\ Mine(r, result, result') /\ Mine(r, success, success')
        /\ Mine(r, accepted, accepted')
    BY <1>7 DEF BusyReturns, Return, Mine
  <2> QED BY <2>1, <2>2, OthersKeep DEF LoopInv
<1>8. ASSUME NEW r \in Runs, Begin(r) PROVE LoopInv'
  <2>1. LoopInvOf(r)'
    BY <1>8, <1>0 DEF Begin, Call, LoopInv, LoopInvOf, Outside, AtCritic, Passed, TypeOK, state
  <2>2. /\ Mine(r, pc, pc') /\ Mine(r, agent, agent') /\ Mine(r, status, status')
        /\ Mine(r, attempts, attempts') /\ Mine(r, built, built') /\ Mine(r, path, path')
        /\ Mine(r, qa, qa') /\ Mine(r, result, result') /\ Mine(r, success, success')
        /\ Mine(r, accepted, accepted')
    BY <1>8 DEF Begin, Call, Mine, state
  <2> QED BY <2>1, <2>2, OthersKeep DEF LoopInv
<1>9. ASSUME NEW r \in Runs, Leave(r) PROVE LoopInv'
  <2>1. LoopInvOf(r)'
    BY <1>9, <1>0 DEF Leave, LoopInv, LoopInvOf, Outside, Planning, AtCritic, Passed, state
  <2>2. /\ Mine(r, pc, pc') /\ Mine(r, agent, agent') /\ Mine(r, status, status')
        /\ Mine(r, attempts, attempts') /\ Mine(r, built, built') /\ Mine(r, path, path')
        /\ Mine(r, qa, qa') /\ Mine(r, result, result') /\ Mine(r, success, success')
        /\ Mine(r, accepted, accepted')
    BY <1>9 DEF Leave, Mine, state
  <2> QED BY <2>1, <2>2, OthersKeep DEF LoopInv
<1>10. ASSUME NEW r \in Runs, ReleaseSlot(r) PROVE LoopInv'
  <2>1. LoopInvOf(r)'
    BY <1>10, <1>0 DEF ReleaseSlot, Return, LoopInvOf, AtCritic, Passed, TypeOK
  <2>2. /\ Mine(r, pc, pc') /\ Mine(r, agent, agent') /\ Mine(r, status, status')
        /\ Mine(r, attempts, attempts') /\ Mine(r, built, built') /\ Mine(r, path, path')
        /\ Mine(r, qa, qa') /\ Mine(r, result, result') /\ Mine(r, success, success')
        /\ Mine(r, accepted, accepted')
    BY <1>10 DEF ReleaseSlot, Return, Mine
  <2> QED BY <2>1, <2>2, OthersKeep DEF LoopInv
<1>11. ASSUME NEW r \in Runs, StartAgent(r) PROVE LoopInv'
  <2>1. LoopInvOf(r)'
    BY <1>11, <1>0 DEF StartAgent, LoopInv, LoopInvOf, Outside, Planning, AtCritic, Passed, state
  <2>2. /\ Mine(r, pc, pc') /\ Mine(r, agent, agent') /\ Mine(r, status, status')
        /\ Mine(r, attempts, attempts') /\ Mine(r, built, built') /\ Mine(r, path, path')
        /\ Mine(r, qa, qa') /\ Mine(r, result, result') /\ Mine(r, success, success')
        /\ Mine(r, accepted, accepted')
    BY <1>11 DEF StartAgent, Mine, state
  <2> QED BY <2>1, <2>2, OthersKeep DEF LoopInv
<1>12. ASSUME NEW r \in Runs, BlockedAgent(r) PROVE LoopInv'
  <2>1. LoopInvOf(r)'
    BY <1>12, <1>0 DEF BlockedAgent, AfterAgent, Left, Call, LoopInv, LoopInvOf, Outside, Planning,
       AtCritic, Passed, TypeOK
  <2>2. /\ Mine(r, pc, pc') /\ Mine(r, agent, agent') /\ Mine(r, status, status')
        /\ Mine(r, attempts, attempts') /\ Mine(r, built, built') /\ Mine(r, path, path')
        /\ Mine(r, qa, qa') /\ Mine(r, result, result') /\ Mine(r, success, success')
        /\ Mine(r, accepted, accepted')
    BY <1>12 DEF BlockedAgent, AfterAgent, Left, Call, Mine, TypeOK
  <2> QED BY <2>1, <2>2, OthersKeep DEF LoopInv
<1>13. ASSUME NEW r \in Runs, CrashAgent(r) PROVE LoopInv'
  <2>1. LoopInvOf(r)'
    BY <1>13, <1>0 DEF CrashAgent, AfterAgent, Left, Call, LoopInv, LoopInvOf, Outside, Planning,
       AtCritic, Passed, TypeOK
  <2>2. /\ Mine(r, pc, pc') /\ Mine(r, agent, agent') /\ Mine(r, status, status')
        /\ Mine(r, attempts, attempts') /\ Mine(r, built, built') /\ Mine(r, path, path')
        /\ Mine(r, qa, qa') /\ Mine(r, result, result') /\ Mine(r, success, success')
        /\ Mine(r, accepted, accepted')
    BY <1>13 DEF CrashAgent, AfterAgent, Left, Call, Mine, TypeOK
  <2> QED BY <2>1, <2>2, OthersKeep DEF LoopInv
<1>14. ASSUME NEW r \in Runs, RouteBuild(r) PROVE LoopInv'
  <2>1. LoopInvOf(r)'
    BY <1>14, <1>0 DEF RouteBuild, AfterAgent, Left, Call, LoopInv, LoopInvOf, Outside, Planning,
       AtCritic, Passed, TypeOK
  <2>2. /\ Mine(r, pc, pc') /\ Mine(r, agent, agent') /\ Mine(r, status, status')
        /\ Mine(r, attempts, attempts') /\ Mine(r, built, built') /\ Mine(r, path, path')
        /\ Mine(r, qa, qa') /\ Mine(r, result, result') /\ Mine(r, success, success')
        /\ Mine(r, accepted, accepted')
    BY <1>14 DEF RouteBuild, AfterAgent, Left, Call, Mine, TypeOK
  <2> QED BY <2>1, <2>2, OthersKeep DEF LoopInv
<1>15. ASSUME NEW r \in Runs, RouteElsewhere(r) PROVE LoopInv'
  <2>1. LoopInvOf(r)'
    BY <1>15, <1>0 DEF RouteElsewhere, LoopInv, LoopInvOf, Outside, Planning, AtCritic, Passed,
       TypeOK
  <2>2. /\ Mine(r, pc, pc') /\ Mine(r, agent, agent') /\ Mine(r, status, status')
        /\ Mine(r, attempts, attempts') /\ Mine(r, built, built') /\ Mine(r, path, path')
        /\ Mine(r, qa, qa') /\ Mine(r, result, result') /\ Mine(r, success, success')
        /\ Mine(r, accepted, accepted')
    BY <1>15 DEF RouteElsewhere, Mine, TypeOK
  <2> QED BY <2>1, <2>2, OthersKeep DEF LoopInv
<1>16. ASSUME NEW r \in Runs, WriteSpec(r) PROVE LoopInv'
  <2>1. LoopInvOf(r)'
    BY <1>16, <1>0 DEF WriteSpec, AfterAgent, LoopInv, LoopInvOf, Outside, Planning, AtCritic,
       Passed, TypeOK, state
  <2>2. /\ Mine(r, pc, pc') /\ Mine(r, agent, agent') /\ Mine(r, status, status')
        /\ Mine(r, attempts, attempts') /\ Mine(r, built, built') /\ Mine(r, path, path')
        /\ Mine(r, qa, qa') /\ Mine(r, result, result') /\ Mine(r, success, success')
        /\ Mine(r, accepted, accepted')
    BY <1>16 DEF WriteSpec, AfterAgent, Mine, TypeOK, state
  <2> QED BY <2>1, <2>2, OthersKeep DEF LoopInv
<1>17. ASSUME NEW r \in Runs, GatePasses(r) PROVE LoopInv'
  <2>1. LoopInvOf(r)'
    BY <1>17, <1>0 DEF GatePasses, Call, LoopInv, LoopInvOf, Outside, Planning, AtCritic, Passed,
       TypeOK, state
  <2>2. /\ Mine(r, pc, pc') /\ Mine(r, agent, agent') /\ Mine(r, status, status')
        /\ Mine(r, attempts, attempts') /\ Mine(r, built, built') /\ Mine(r, path, path')
        /\ Mine(r, qa, qa') /\ Mine(r, result, result') /\ Mine(r, success, success')
        /\ Mine(r, accepted, accepted')
    BY <1>17 DEF GatePasses, Call, Mine, state
  <2> QED BY <2>1, <2>2, OthersKeep DEF LoopInv
<1>18. ASSUME NEW r \in Runs, GateBlocks(r) PROVE LoopInv'
  <2>1. LoopInvOf(r)'
    BY <1>18, <1>0 DEF GateBlocks, LoopInv, LoopInvOf, Outside, Planning, AtCritic, Passed
  <2>2. /\ Mine(r, pc, pc') /\ Mine(r, agent, agent') /\ Mine(r, status, status')
        /\ Mine(r, attempts, attempts') /\ Mine(r, built, built') /\ Mine(r, path, path')
        /\ Mine(r, qa, qa') /\ Mine(r, result, result') /\ Mine(r, success, success')
        /\ Mine(r, accepted, accepted')
    BY <1>18 DEF GateBlocks, Mine
  <2> QED BY <2>1, <2>2, OthersKeep DEF LoopInv
<1>19. ASSUME NEW r \in Runs, BuildReturns(r) PROVE LoopInv'
  <2>1. LoopInvOf(r)'
    BY <1>19, <1>0 DEF BuildReturns, MayBuild, LoopInv, LoopInvOf, Outside, Planning, AtCritic,
       Passed, TypeOK
  <2>2. /\ Mine(r, pc, pc') /\ Mine(r, agent, agent') /\ Mine(r, status, status')
        /\ Mine(r, attempts, attempts') /\ Mine(r, built, built') /\ Mine(r, path, path')
        /\ Mine(r, qa, qa') /\ Mine(r, result, result') /\ Mine(r, success, success')
        /\ Mine(r, accepted, accepted')
    BY <1>19 DEF BuildReturns, Mine, TypeOK
  <2> QED BY <2>1, <2>2, OthersKeep DEF LoopInv
<1>20. ASSUME NEW r \in Runs, BuildFails(r) PROVE LoopInv'
  <2>1. LoopInvOf(r)'
    BY <1>20, <1>0 DEF BuildFails, MayBuild, LoopInv, LoopInvOf, Outside, Planning, AtCritic,
       Passed, TypeOK
  <2>2. /\ Mine(r, pc, pc') /\ Mine(r, agent, agent') /\ Mine(r, status, status')
        /\ Mine(r, attempts, attempts') /\ Mine(r, built, built') /\ Mine(r, path, path')
        /\ Mine(r, qa, qa') /\ Mine(r, result, result') /\ Mine(r, success, success')
        /\ Mine(r, accepted, accepted')
    BY <1>20 DEF BuildFails, Mine
  <2> QED BY <2>1, <2>2, OthersKeep DEF LoopInv
<1>21. ASSUME NEW r \in Runs, ToCritic(r) PROVE LoopInv'
  <2>1. LoopInvOf(r)'
    BY <1>21, <1>0 DEF ToCritic, Call, LoopInv, LoopInvOf, Outside, Planning, Passed, TypeOK, state
  <2>2. /\ Mine(r, pc, pc') /\ Mine(r, agent, agent') /\ Mine(r, status, status')
        /\ Mine(r, attempts, attempts') /\ Mine(r, built, built') /\ Mine(r, path, path')
        /\ Mine(r, qa, qa') /\ Mine(r, result, result') /\ Mine(r, success, success')
        /\ Mine(r, accepted, accepted')
    BY <1>21 DEF ToCritic, Call, Mine, state
  <2> QED BY <2>1, <2>2, OthersKeep DEF LoopInv
<1>22. ASSUME NEW r \in Runs, NoBuild(r) PROVE LoopInv'
  <2>1. LoopInvOf(r)'
    BY <1>22, <1>0 DEF NoBuild, LoopInv, LoopInvOf, Outside, Planning, AtCritic, Passed
  <2>2. /\ Mine(r, pc, pc') /\ Mine(r, agent, agent') /\ Mine(r, status, status')
        /\ Mine(r, attempts, attempts') /\ Mine(r, built, built') /\ Mine(r, path, path')
        /\ Mine(r, qa, qa') /\ Mine(r, result, result') /\ Mine(r, success, success')
        /\ Mine(r, accepted, accepted')
    BY <1>22 DEF NoBuild, Mine
  <2> QED BY <2>1, <2>2, OthersKeep DEF LoopInv
<1>23. ASSUME NEW r \in Runs, CriticAccepts(r) PROVE LoopInv'
  <2>1. LoopInvOf(r)'
    BY <1>23, <1>0 DEF CriticAccepts, LoopInv, LoopInvOf, Outside, Planning, AtCritic, TypeOK
  <2>2. /\ Mine(r, pc, pc') /\ Mine(r, agent, agent') /\ Mine(r, status, status')
        /\ Mine(r, attempts, attempts') /\ Mine(r, built, built') /\ Mine(r, path, path')
        /\ Mine(r, qa, qa') /\ Mine(r, result, result') /\ Mine(r, success, success')
        /\ Mine(r, accepted, accepted')
    BY <1>23 DEF CriticAccepts, Mine
  <2> QED BY <2>1, <2>2, OthersKeep DEF LoopInv
<1>24. ASSUME NEW r \in Runs, CriticRejects(r) PROVE LoopInv'
  <2>1. LoopInvOf(r)'
    BY <1>24, <1>0 DEF CriticRejects, LoopInv, LoopInvOf, Outside, Planning, AtCritic, Passed
  <2>2. /\ Mine(r, pc, pc') /\ Mine(r, agent, agent') /\ Mine(r, status, status')
        /\ Mine(r, attempts, attempts') /\ Mine(r, built, built') /\ Mine(r, path, path')
        /\ Mine(r, qa, qa') /\ Mine(r, result, result') /\ Mine(r, success, success')
        /\ Mine(r, accepted, accepted')
    BY <1>24 DEF CriticRejects, Mine
  <2> QED BY <2>1, <2>2, OthersKeep DEF LoopInv
<1>25. ASSUME NEW r \in Runs, Finish(r) PROVE LoopInv'
  <2>1. LoopInvOf(r)'
    BY <1>25, <1>0 DEF Finish, LoopInv, LoopInvOf, Outside, Planning, AtCritic, Passed, state
  <2>2. /\ Mine(r, pc, pc') /\ Mine(r, agent, agent') /\ Mine(r, status, status')
        /\ Mine(r, attempts, attempts') /\ Mine(r, built, built') /\ Mine(r, path, path')
        /\ Mine(r, qa, qa') /\ Mine(r, result, result') /\ Mine(r, success, success')
        /\ Mine(r, accepted, accepted')
    BY <1>25 DEF Finish, Mine, state
  <2> QED BY <2>1, <2>2, OthersKeep DEF LoopInv
<1>26. ASSUME NEW r \in Runs, Repair(r) PROVE LoopInv'
  <2>1. LoopInvOf(r)'
    BY <1>26, <1>0 DEF Repair, Call, LoopInvOf, Outside, AtCritic, Passed, TypeOK
  <2>2. /\ Mine(r, pc, pc') /\ Mine(r, agent, agent') /\ Mine(r, status, status')
        /\ Mine(r, attempts, attempts') /\ Mine(r, built, built') /\ Mine(r, path, path')
        /\ Mine(r, qa, qa') /\ Mine(r, result, result') /\ Mine(r, success, success')
        /\ Mine(r, accepted, accepted')
    BY <1>26 DEF Repair, Call, Mine
  <2> QED BY <2>1, <2>2, OthersKeep DEF LoopInv
<1>27. ASSUME NEW r \in Runs, Deliver(r) PROVE LoopInv'
  <2>1. LoopInvOf(r)'
    BY <1>27, <1>0 DEF Deliver, LoopInv, LoopInvOf, Outside, Planning, AtCritic, Passed
  <2>2. /\ Mine(r, pc, pc') /\ Mine(r, agent, agent') /\ Mine(r, status, status')
        /\ Mine(r, attempts, attempts') /\ Mine(r, built, built') /\ Mine(r, path, path')
        /\ Mine(r, qa, qa') /\ Mine(r, result, result') /\ Mine(r, success, success')
        /\ Mine(r, accepted, accepted')
    BY <1>27 DEF Deliver, Mine
  <2> QED BY <2>1, <2>2, OthersKeep DEF LoopInv
<1>28. ASSUME NEW r \in Runs, Raise(r) PROVE LoopInv'
  <2>1. LoopInvOf(r)'
    BY <1>28, <1>0 DEF Raise, LoopInv, LoopInvOf, Outside, Planning, AtCritic, Passed, state
  <2>2. /\ Mine(r, pc, pc') /\ Mine(r, agent, agent') /\ Mine(r, status, status')
        /\ Mine(r, attempts, attempts') /\ Mine(r, built, built') /\ Mine(r, path, path')
        /\ Mine(r, qa, qa') /\ Mine(r, result, result') /\ Mine(r, success, success')
        /\ Mine(r, accepted, accepted')
    BY <1>28 DEF Raise, Mine, state
  <2> QED BY <2>1, <2>2, OthersKeep DEF LoopInv
<1>29. CASE UNCHANGED vars
  BY <1>29 DEF vars, state, LoopInv, LoopInvOf, Outside, Planning, AtCritic, Passed
<1> QED
  BY <1>1, <1>2, <1>3, <1>4, <1>5, <1>6, <1>7, <1>8, <1>9, <1>10, <1>11, <1>12, <1>13, <1>14, <1>15,
     <1>16, <1>17, <1>18, <1>19, <1>20, <1>21, <1>22, <1>23, <1>24, <1>25, <1>26, <1>27, <1>28,
     <1>29
  DEF Next, Arrive, Slot, Pipeline

-----------------------------------------------------------------------------
LEMMA Initially == Init => IInv
<1> SUFFICES ASSUME Init PROVE IInv
  OBVIOUS
<1>1. TypeOK
  BY RunsAssumption, BoundsAssumption DEF Init, TypeOK, PC, Status, Agents
<1>2. SlotsAccounted
  <2>1. RunsAt(PermittedAt) = {} /\ RunsAt(Inside) = {}
    BY DEF Init, RunsAt, PermittedAt, Inside
  <2>2. \A u \in Users : {r \in RunsOf(u) : pc[r] \in CountedAt} = {}
    BY DEF Init, RunsOf, CountedAt, Inside
  <2>3. Cardinality({}) = 0 /\ Limit \in Nat /\ UserLimit \in Nat
    BY FS_EmptySet, BoundsAssumption
  <2>4. sem = Limit /\ active = 0
    BY DEF Init
  <2>5. \A u \in Users : userActive[u] = 0
    BY DEF Init
  <2> QED
    BY <2>1, <2>2, <2>3, <2>4, <2>5 DEF SlotsAccounted
<1>3. LoopInv
  BY BoundsAssumption DEF Init, LoopInv, LoopInvOf, AtCritic, Passed
<1> QED BY <1>1, <1>2, <1>3 DEF IInv

LEMMA Inductive == Spec => []IInv
<1>1. IInv /\ [Next]_vars => IInv'
  BY TypeStep, SlotsStep, LoopStep DEF IInv
<1> QED BY Initially, <1>1, PTL DEF Spec

\* Every variable stays in its type, and only a refused run holds the lock.
THEOREM TypeCorrect == Spec => []TypeOK
<1>1. IInv => TypeOK BY DEF IInv
<1> QED BY <1>1, Inductive, PTL

\* The permits, _ACTIVE and the users' counts are those of the runs under way,
\* so no user and no process exceeds its limit, for any threads and limits.
THEOREM NothingLeaks == Spec => []SlotsAccounted
<1>1. IInv => SlotsAccounted BY DEF IInv
<1> QED BY <1>1, Inductive, PTL

\* A caller told success without the mark has the run's last build, which the
\* critic accepted; the flag alone says no more than that some build succeeded.
THEOREM NoUnverifiedSuccess == Spec => []SuccessIsVerified
<1>1. IInv => SuccessIsVerified
  BY DEF IInv, LoopInv, LoopInvOf, SuccessIsVerified, Passed, ToldSuccess, Marked, TypeOK
<1> QED BY <1>1, Inductive, PTL

\* No run builds more often than its attempts allow.
THEOREM BudgetKept == Spec => []BuildBudget
<1>1. IInv => BuildBudget
  BY DEF IInv, LoopInv, LoopInvOf, BuildBudget
<1> QED BY <1>1, Inductive, PTL

-----------------------------------------------------------------------------
(* The repair loop runs out of steps.                                        *)

\* A step within an attempt goes down its stages.
Descends(r) == attempts'[r] = attempts[r] /\ Stage(r)' < Stage(r)

LEMMA StageType == \A r \in Runs : Stage(r) \in 1..14 /\ Stage(r)' \in 1..14
BY DEF Stage

LEMMA PipelineDescends ==
  ASSUME TypeOK, LoopInv, NEW r \in Runs, Pipeline(r), ~SkipsBuild(r)
  PROVE  \/ Descends(r)
         \/ attempts'[r] = attempts[r] + 1 /\ Stage(r) = 5
<1> USE DEF TypeOK, Descends, Stage, AtCritic, Goto, Enter, Agents, slots, breakers, kept, state
<1>1. ASSUME StartAgent(r) PROVE Descends(r)
  BY <1>1 DEF StartAgent
<1>2. ASSUME BlockedAgent(r) PROVE Descends(r)
  BY <1>2 DEF BlockedAgent, AfterAgent, Call, SkipsBuild
<1>3. ASSUME CrashAgent(r) PROVE Descends(r)
  BY <1>3 DEF CrashAgent, AfterAgent, Call, SkipsBuild
<1>4. ASSUME RouteBuild(r) PROVE Descends(r)
  BY <1>4 DEF RouteBuild, AfterAgent, Left, Call
<1>5. ASSUME RouteElsewhere(r) PROVE Descends(r)
  BY <1>5 DEF RouteElsewhere
<1>6. ASSUME WriteSpec(r) PROVE Descends(r)
  BY <1>6 DEF WriteSpec, AfterAgent, Call
<1>7. ASSUME GatePasses(r) PROVE Descends(r)
  BY <1>7 DEF GatePasses, Call
<1>8. ASSUME ToCritic(r) PROVE Descends(r)
  BY <1>8 DEF ToCritic, Call
<1>9. ASSUME NoBuild(r) PROVE Descends(r)
  BY <1>9 DEF NoBuild
<1>10. ASSUME CriticAccepts(r) PROVE Descends(r)
  BY <1>10 DEF CriticAccepts
<1>11. ASSUME CriticRejects(r) PROVE Descends(r)
  BY <1>11 DEF CriticRejects
<1>12. ASSUME Finish(r) PROVE Descends(r)
  BY <1>12 DEF Finish
<1>13. ASSUME Repair(r) PROVE Descends(r)
  BY <1>13 DEF Repair, Call
<1>14. ASSUME Deliver(r) PROVE Descends(r)
  BY <1>14 DEF Deliver
<1>15. ASSUME Raise(r) PROVE Descends(r)
  BY <1>15 DEF Raise
<1>16. ASSUME BuildReturns(r) \/ BuildFails(r)
      PROVE  attempts'[r] = attempts[r] + 1 /\ Stage(r) = 5
  BY <1>16 DEF BuildReturns, BuildFails, MayBuild
<1> HIDE DEF TypeOK, Descends, Stage, AtCritic, Goto, Enter, Agents, slots, breakers, kept, state
<1> QED
  BY <1>1, <1>2, <1>3, <1>4, <1>5, <1>6, <1>7, <1>8, <1>9, <1>10, <1>11, <1>12, <1>13, <1>14, <1>15,
     <1>16
     DEF Pipeline, SkipsBuild

\* Whatever the agents do, a run can go on without end only by passing its builder
\* over uncounted for ever: the budget of builds alone does not say so.
THEOREM EveryRunDescends == Spec => StepsRunOut
<1>1. ASSUME TypeOK, TypeOK', LoopInv, LoopInv', NEW r \in Runs, Pipeline(r), ~SkipsBuild(r)
      PROVE  /\ Rank(r) < 10 * (MaxAttempts + 2)
             /\ Rank(r)' \in Nat /\ Rank(r)' < Rank(r)
  <2>1. /\ MaxAttempts \in Nat /\ attempts[r] \in Nat /\ attempts[r] <= MaxAttempts
        /\ attempts'[r] \in Nat /\ attempts'[r] <= MaxAttempts
    BY <1>1, BoundsAssumption DEF TypeOK, LoopInv, LoopInvOf
  <2>2. /\ Rank(r) = 10 * (MaxAttempts - attempts[r]) + Stage(r)
        /\ Rank(r)' = 10 * (MaxAttempts - attempts'[r]) + Stage(r)'
    BY DEF Rank
  <2>3. Stage(r) \in 1..14 /\ Stage(r)' \in 1..14
    BY StageType
  <2>4. CASE Descends(r)
    BY <2>1, <2>2, <2>3, <2>4 DEF Descends
  <2>5. CASE attempts'[r] = attempts[r] + 1 /\ Stage(r) = 5
    BY <2>1, <2>2, <2>3, <2>5
  <2> QED
    BY <1>1, <2>4, <2>5, PipelineDescends
<1>2. IInv /\ IInv' /\ [Next]_vars =>
        [\A r \in Runs : Pipeline(r) /\ ~SkipsBuild(r) =>
           Rank(r) < 10 * (MaxAttempts + 2) /\ Rank(r)' \in Nat /\ Rank(r)' < Rank(r)]_vars
  BY <1>1 DEF IInv
<1> QED
  BY <1>2, Inductive, PTL DEF Spec, StepsRunOut
=============================================================================
