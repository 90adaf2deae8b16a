--------------------------- MODULE HostingProofs ---------------------------
(* Proofs about the hosting service, for any number of requests, projects,  *)
(* tokens and instances, and with every fault.                              *)
EXTENDS HostingProps, FiniteSetTheorems, TLAPS

\* The starts of a project can be counted, and a new one never lowers a peak.
LEMMA StartsCounted ==
  ASSUME NEW p \in Projects
  PROVE  IsFiniteSet(Starting(p)) /\ Cardinality(Starting(p)) \in Nat
<1>1. IsFiniteSet(Starting(p))
  BY HostingAssumption, FS_Subset DEF Starting
<1> QED BY <1>1, FS_CardinalityType

LEMMA PeakGrows ==
  ASSUME TypeOK, NEW t \in Threads, NEW w \in Wants, StartRequest(t, w)
  PROVE  peak' \in [Projects -> Nat] /\ \A p \in Projects : peak'[p] >= peak[p]
<1>1. w.project \in Projects /\ peak \in [Projects -> Nat]
  BY DEF Wants, TypeOK
<1> DEFINE now == Cardinality(Starting(w.project)) + 1
<1>2. now \in Nat
  BY <1>1, StartsCounted
<1>3. peak' = [peak EXCEPT ![w.project] = IF now > @ THEN now ELSE @]
  BY DEF StartRequest
<1> HIDE DEF now
<1> QED BY <1>1, <1>2, <1>3

\* A thread's work in hand follows its request.
LEMMA TypeStep ==
  ASSUME TypeOK, [Next]_vars
  PROVE  TypeOK'
<1> USE HostingAssumption DEF PC, Statuses, Goto, requests, docker, Reach
<1>1. CASE \E t \in Threads, w \in Wants : StartRequest(t, w)
  <2> SUFFICES ASSUME NEW t \in Threads, NEW w \in Wants, StartRequest(t, w) PROVE TypeOK'
    BY <1>1
  <2> QED BY PeakGrows DEF StartRequest, TypeOK, Holding, Wants
<1>2. CASE \E t \in Threads, i \in Ids : StopRequest(t, i)
  <2> SUFFICES ASSUME NEW t \in Threads, NEW i \in Ids, StopRequest(t, i) PROVE TypeOK'
    BY <1>2
  <2> QED BY DEF StopRequest, TypeOK, Holding, Wants
<1>3. CASE \E t \in Threads : Diagnose(t)
  <2> SUFFICES ASSUME NEW t \in Threads, Diagnose(t) PROVE TypeOK'
    BY <1>3
  <2> QED BY DEF Diagnose, Saved, TypeOK
<1>4. CASE \E t \in Threads : ReadConflicts(t)
  <2> SUFFICES ASSUME NEW t \in Threads, ReadConflicts(t) PROVE TypeOK'
    BY <1>4
  <2> QED BY DEF ReadConflicts, Unsaved, TypeOK, Holding
<1>5. CASE \E t \in Threads : TakeDown(t)
  <2> SUFFICES ASSUME NEW t \in Threads, TakeDown(t) PROVE TypeOK'
    BY <1>5
  <2> QED BY DEF TakeDown, Remove, TypeOK, Holding
<1>6. CASE \E t \in Threads : MarkStopped(t)
  <2> SUFFICES ASSUME NEW t \in Threads, MarkStopped(t) PROVE TypeOK'
    BY <1>6
  <2> QED BY DEF MarkStopped, TypeOK, Holding, Wants
<1>7. CASE \E t \in Threads : SaveStopped(t)
  <2> SUFFICES ASSUME NEW t \in Threads, SaveStopped(t) PROVE TypeOK'
    BY <1>7
  <2> QED BY DEF SaveStopped, Saved, TypeOK, Holding
<1>8. CASE \E t \in Threads : AllStopped(t)
  <2> SUFFICES ASSUME NEW t \in Threads, AllStopped(t) PROVE TypeOK'
    BY <1>8
  <2> QED BY DEF AllStopped, Finish, TypeOK, Holding
<1>9. CASE \E t \in Threads : Refuse(t)
  <2> SUFFICES ASSUME NEW t \in Threads, Refuse(t) PROVE TypeOK'
    BY <1>9
  <2> QED BY DEF Refuse, Finish, TypeOK, Holding
<1>10. CASE \E t \in Threads : StopByProject(t)
  <2> SUFFICES ASSUME NEW t \in Threads, StopByProject(t) PROVE TypeOK'
    BY <1>10
  <2> QED BY DEF StopByProject, Remove, TypeOK, Holding
<1>11. CASE \E t \in Threads : RunContainer(t)
  <2> SUFFICES ASSUME NEW t \in Threads, RunContainer(t) PROVE TypeOK'
    BY <1>11
  <2> QED BY DEF RunContainer, Make, TypeOK, Holding
<1>12. CASE \E t \in Threads : DeployFails(t)
  <2> SUFFICES ASSUME NEW t \in Threads, DeployFails(t) PROVE TypeOK'
    BY <1>12
  <2> QED BY DEF DeployFails, Make, TypeOK, Holding
<1>13. CASE \E t \in Threads : Remember(t)
  <2> SUFFICES ASSUME NEW t \in Threads, Remember(t) PROVE TypeOK'
    BY <1>13
  <2> QED BY DEF Remember, TypeOK, Holding, Wants
<1>14. CASE \E t \in Threads : SaveNew(t)
  <2> SUFFICES ASSUME NEW t \in Threads, SaveNew(t) PROVE TypeOK'
    BY <1>14
  <2> QED BY DEF SaveNew, Finish, Saved, TypeOK, Holding
<1>15. CASE \E t \in Threads : SaveFails(t)
  <2> SUFFICES ASSUME NEW t \in Threads, SaveFails(t) PROVE TypeOK'
    BY <1>15
  <2> QED BY DEF SaveFails, Finish, Saved, TypeOK, Holding
<1>16. CASE Restart
  BY <1>16 DEF Restart, TypeOK, Holding, Wants
<1>17. CASE UNCHANGED vars
  BY <1>17 DEF vars, TypeOK, Holding, Wants
<1>18. CASE \E t \in Threads : Lookup(t)
  <2> SUFFICES ASSUME NEW t \in Threads, Lookup(t) PROVE TypeOK'
    BY <1>18
  <2> QED BY DEF Lookup, TypeOK, Holding
<1>19. CASE \E t \in Threads : TakeDownMisses(t)
  <2> SUFFICES ASSUME NEW t \in Threads, TakeDownMisses(t) PROVE TypeOK'
    BY <1>19
  <2> QED BY DEF TakeDownMisses, TypeOK, Holding
<1>20. CASE \E i \in Ids : Exits(i)
  <2> SUFFICES ASSUME NEW i \in Ids, Exits(i) PROVE TypeOK'
    BY <1>20
  <2> QED BY DEF Exits, TypeOK, Holding
<1> QED BY <1>1, <1>2, <1>3, <1>4, <1>5, <1>6, <1>7, <1>8, <1>9, <1>10, <1>11, <1>12, <1>13, <1>14,
           <1>15, <1>16, <1>17, <1>18, <1>19, <1>20 DEF Next, Request, Serve

\* Only what docker keeps leaves the driver's dict and stays alive.
LEMMA KnowsStep ==
  ASSUME TypeOK, DriverKnows, [Next]_vars
  PROVE  DriverKnows'
<1> USE HostingAssumption DEF PC, Statuses, Goto, requests, docker, Reach
<1>1. CASE \E t \in Threads, w \in Wants : StartRequest(t, w)
  <2> SUFFICES ASSUME NEW t \in Threads, NEW w \in Wants, StartRequest(t, w) PROVE DriverKnows'
    BY <1>1
  <2> QED BY DEF StartRequest, TypeOK, DriverKnows, Holding
<1>2. CASE \E t \in Threads, i \in Ids : StopRequest(t, i)
  <2> SUFFICES ASSUME NEW t \in Threads, NEW i \in Ids, StopRequest(t, i) PROVE DriverKnows'
    BY <1>2
  <2> QED BY DEF StopRequest, TypeOK, DriverKnows, Holding
<1>3. CASE \E t \in Threads : Diagnose(t)
  <2> SUFFICES ASSUME NEW t \in Threads, Diagnose(t) PROVE DriverKnows'
    BY <1>3
  <2> QED BY DEF Diagnose, DriverKnows
<1>4. CASE \E t \in Threads : ReadConflicts(t)
  <2> SUFFICES ASSUME NEW t \in Threads, ReadConflicts(t) PROVE DriverKnows'
    BY <1>4
  <2> QED BY DEF ReadConflicts, DriverKnows
<1>5. CASE \E t \in Threads : TakeDown(t)
  <2> SUFFICES ASSUME NEW t \in Threads, TakeDown(t) PROVE DriverKnows'
    BY <1>5
  <2> QED BY DEF TakeDown, Remove, DriverKnows
<1>6. CASE \E t \in Threads : MarkStopped(t)
  <2> SUFFICES ASSUME NEW t \in Threads, MarkStopped(t) PROVE DriverKnows'
    BY <1>6
  <2> QED BY DEF MarkStopped, TypeOK, DriverKnows, Holding
<1>7. CASE \E t \in Threads : SaveStopped(t)
  <2> SUFFICES ASSUME NEW t \in Threads, SaveStopped(t) PROVE DriverKnows'
    BY <1>7
  <2> QED BY DEF SaveStopped, DriverKnows
<1>8. CASE \E t \in Threads : AllStopped(t)
  <2> SUFFICES ASSUME NEW t \in Threads, AllStopped(t) PROVE DriverKnows'
    BY <1>8
  <2> QED BY DEF AllStopped, DriverKnows
<1>9. CASE \E t \in Threads : Refuse(t)
  <2> SUFFICES ASSUME NEW t \in Threads, Refuse(t) PROVE DriverKnows'
    BY <1>9
  <2> QED BY DEF Refuse, DriverKnows
<1>10. CASE \E t \in Threads : StopByProject(t)
  <2> SUFFICES ASSUME NEW t \in Threads, StopByProject(t) PROVE DriverKnows'
    BY <1>10
  <2> QED BY DEF StopByProject, Remove, DriverKnows
<1>11. CASE \E t \in Threads : RunContainer(t)
  <2> SUFFICES ASSUME NEW t \in Threads, RunContainer(t) PROVE DriverKnows'
    BY <1>11
  <2> QED BY DEF RunContainer, DriverKnows
<1>12. CASE \E t \in Threads : DeployFails(t)
  <2> SUFFICES ASSUME NEW t \in Threads, DeployFails(t) PROVE DriverKnows'
    BY <1>12
  <2> QED BY DEF DeployFails, DriverKnows
<1>13. CASE \E t \in Threads : Remember(t)
  <2> SUFFICES ASSUME NEW t \in Threads, Remember(t) PROVE DriverKnows'
    BY <1>13
  <2> QED BY DEF Remember, TypeOK, DriverKnows, Holding
<1>14. CASE \E t \in Threads : SaveNew(t)
  <2> SUFFICES ASSUME NEW t \in Threads, SaveNew(t) PROVE DriverKnows'
    BY <1>14
  <2> QED BY DEF SaveNew, DriverKnows
<1>15. CASE \E t \in Threads : SaveFails(t)
  <2> SUFFICES ASSUME NEW t \in Threads, SaveFails(t) PROVE DriverKnows'
    BY <1>15
  <2> QED BY DEF SaveFails, DriverKnows
<1>16. CASE Restart
  BY <1>16 DEF Restart, TypeOK, DriverKnows, Holding
<1>17. CASE UNCHANGED vars
  BY <1>17 DEF vars, TypeOK, DriverKnows, Holding
<1>18. CASE \E t \in Threads : Lookup(t)
  <2> SUFFICES ASSUME NEW t \in Threads, Lookup(t) PROVE DriverKnows'
    BY <1>18
  <2> QED BY DEF Lookup, TypeOK, DriverKnows, Holding
<1>19. CASE \E t \in Threads : TakeDownMisses(t)
  <2> SUFFICES ASSUME NEW t \in Threads, TakeDownMisses(t) PROVE DriverKnows'
    BY <1>19
  <2> QED BY DEF TakeDownMisses, TypeOK, DriverKnows, Holding
<1>20. CASE \E i \in Ids : Exits(i)
  <2> SUFFICES ASSUME NEW i \in Ids, Exits(i) PROVE DriverKnows'
    BY <1>20
  <2> QED BY DEF Exits, TypeOK, DriverKnows, Holding
<1> QED BY <1>1, <1>2, <1>3, <1>4, <1>5, <1>6, <1>7, <1>8, <1>9, <1>10, <1>11, <1>12, <1>13, <1>14,
           <1>15, <1>16, <1>17, <1>18, <1>19, <1>20 DEF Next, Request, Serve

\* An instance is deployed once, by one thread.
LEMMA FreshStep ==
  ASSUME TypeOK, Fresh, [Next]_vars
  PROVE  Fresh'
<1> USE HostingAssumption DEF PC, Statuses, Goto, requests, docker, Reach
<1>1. CASE \E t \in Threads, w \in Wants : StartRequest(t, w)
  <2> SUFFICES ASSUME NEW t \in Threads, NEW w \in Wants, StartRequest(t, w) PROVE Fresh'
    BY <1>1
  <2> QED BY DEF StartRequest, TypeOK, Fresh, Holding
<1>2. CASE \E t \in Threads, i \in Ids : StopRequest(t, i)
  <2> SUFFICES ASSUME NEW t \in Threads, NEW i \in Ids, StopRequest(t, i) PROVE Fresh'
    BY <1>2
  <2> QED BY DEF StopRequest, TypeOK, Fresh, Holding
<1>3. CASE \E t \in Threads : Diagnose(t)
  <2> SUFFICES ASSUME NEW t \in Threads, Diagnose(t) PROVE Fresh'
    BY <1>3
  <2> QED BY DEF Diagnose, Saved, TypeOK, Fresh, Holding
<1>4. CASE \E t \in Threads : ReadConflicts(t)
  <2> SUFFICES ASSUME NEW t \in Threads, ReadConflicts(t) PROVE Fresh'
    BY <1>4
  <2> QED BY DEF ReadConflicts, TypeOK, Fresh, Holding
<1>5. CASE \E t \in Threads : TakeDown(t)
  <2> SUFFICES ASSUME NEW t \in Threads, TakeDown(t) PROVE Fresh'
    BY <1>5
  <2> QED BY DEF TakeDown, Remove, TypeOK, Fresh
<1>6. CASE \E t \in Threads : MarkStopped(t)
  <2> SUFFICES ASSUME NEW t \in Threads, MarkStopped(t) PROVE Fresh'
    BY <1>6
  <2> QED BY DEF MarkStopped, TypeOK, Fresh, Holding
<1>7. CASE \E t \in Threads : SaveStopped(t)
  <2> SUFFICES ASSUME NEW t \in Threads, SaveStopped(t) PROVE Fresh'
    BY <1>7
  <2> QED BY DEF SaveStopped, Saved, TypeOK, Fresh, Holding
<1>8. CASE \E t \in Threads : AllStopped(t)
  <2> SUFFICES ASSUME NEW t \in Threads, AllStopped(t) PROVE Fresh'
    BY <1>8
  <2> QED BY DEF AllStopped, Finish, TypeOK, Fresh
<1>9. CASE \E t \in Threads : Refuse(t)
  <2> SUFFICES ASSUME NEW t \in Threads, Refuse(t) PROVE Fresh'
    BY <1>9
  <2> QED BY DEF Refuse, Finish, Fresh
<1>10. CASE \E t \in Threads : StopByProject(t)
  <2> SUFFICES ASSUME NEW t \in Threads, StopByProject(t) PROVE Fresh'
    BY <1>10
  <2> QED BY DEF StopByProject, Remove, Fresh
<1>11. CASE \E t \in Threads : RunContainer(t)
  <2> SUFFICES ASSUME NEW t \in Threads, RunContainer(t) PROVE Fresh'
    BY <1>11
  <2> QED BY DEF RunContainer, Make, TypeOK, Fresh
<1>12. CASE \E t \in Threads : DeployFails(t)
  <2> SUFFICES ASSUME NEW t \in Threads, DeployFails(t) PROVE Fresh'
    BY <1>12
  <2> QED BY DEF DeployFails, Make, TypeOK, Fresh
<1>13. CASE \E t \in Threads : Remember(t)
  <2> SUFFICES ASSUME NEW t \in Threads, Remember(t) PROVE Fresh'
    BY <1>13
  <2> QED BY DEF Remember, TypeOK, Fresh, Holding
<1>14. CASE \E t \in Threads : SaveNew(t)
  <2> SUFFICES ASSUME NEW t \in Threads, SaveNew(t) PROVE Fresh'
    BY <1>14
  <2> QED BY DEF SaveNew, Finish, Saved, TypeOK, Fresh, Holding
<1>15. CASE \E t \in Threads : SaveFails(t)
  <2> SUFFICES ASSUME NEW t \in Threads, SaveFails(t) PROVE Fresh'
    BY <1>15
  <2> QED BY DEF SaveFails, Finish, Saved, TypeOK, Fresh, Holding
<1>16. CASE Restart
  BY <1>16 DEF Restart, TypeOK, Fresh, Holding
<1>17. CASE UNCHANGED vars
  BY <1>17 DEF vars, TypeOK, Fresh, Holding
<1>18. CASE \E t \in Threads : Lookup(t)
  <2> SUFFICES ASSUME NEW t \in Threads, Lookup(t) PROVE Fresh'
    BY <1>18
  <2> QED BY DEF Lookup, TypeOK, Fresh, Holding
<1>19. CASE \E t \in Threads : TakeDownMisses(t)
  <2> SUFFICES ASSUME NEW t \in Threads, TakeDownMisses(t) PROVE Fresh'
    BY <1>19
  <2> QED BY DEF TakeDownMisses, TypeOK, Fresh, Holding
<1>20. CASE \E i \in Ids : Exits(i)
  <2> SUFFICES ASSUME NEW i \in Ids, Exits(i) PROVE Fresh'
    BY <1>20
  <2> QED BY DEF Exits, TypeOK, Fresh, Holding
<1> QED BY <1>1, <1>2, <1>3, <1>4, <1>5, <1>6, <1>7, <1>8, <1>9, <1>10, <1>11, <1>12, <1>13, <1>14,
           <1>15, <1>16, <1>17, <1>18, <1>19, <1>20 DEF Next, Request, Serve

\* No save and no reload revives what was stopped.
LEMMA StopsStep ==
  ASSUME TypeOK, DriverKnows, Fresh, Stops, [Next]_vars
  PROVE  Stops'
<1> USE HostingAssumption DEF PC, Statuses, Goto, requests, docker, Reach
<1>1. CASE \E t \in Threads, w \in Wants : StartRequest(t, w)
  <2> SUFFICES ASSUME NEW t \in Threads, NEW w \in Wants, StartRequest(t, w) PROVE Stops'
    BY <1>1
  <2> QED BY DEF StartRequest, Stops
<1>2. CASE \E t \in Threads, i \in Ids : StopRequest(t, i)
  <2> SUFFICES ASSUME NEW t \in Threads, NEW i \in Ids, StopRequest(t, i) PROVE Stops'
    BY <1>2
  <2> QED BY DEF StopRequest, Stops
<1>3. CASE \E t \in Threads : Diagnose(t)
  <2> SUFFICES ASSUME NEW t \in Threads, Diagnose(t) PROVE Stops'
    BY <1>3
  <2> QED BY DEF Diagnose, Saved, Stops
<1>4. CASE \E t \in Threads : ReadConflicts(t)
  <2> SUFFICES ASSUME NEW t \in Threads, ReadConflicts(t) PROVE Stops'
    BY <1>4
  <2> QED BY DEF ReadConflicts, Stops
<1>5. CASE \E t \in Threads : TakeDown(t)
  <2> SUFFICES ASSUME NEW t \in Threads, TakeDown(t) PROVE Stops'
    BY <1>5
  <2> QED BY DEF TakeDown, Remove, TypeOK, DriverKnows, Stops
<1>6. CASE \E t \in Threads : MarkStopped(t)
  <2> SUFFICES ASSUME NEW t \in Threads, MarkStopped(t) PROVE Stops'
    BY <1>6
  <2> QED BY DEF MarkStopped, Stops
<1>7. CASE \E t \in Threads : SaveStopped(t)
  <2> SUFFICES ASSUME NEW t \in Threads, SaveStopped(t) PROVE Stops'
    BY <1>7
  <2> QED BY DEF SaveStopped, Saved, Stops
<1>8. CASE \E t \in Threads : AllStopped(t)
  <2> SUFFICES ASSUME NEW t \in Threads, AllStopped(t) PROVE Stops'
    BY <1>8
  <2> QED BY DEF AllStopped, Finish, TypeOK, Stops
<1>9. CASE \E t \in Threads : Refuse(t)
  <2> SUFFICES ASSUME NEW t \in Threads, Refuse(t) PROVE Stops'
    BY <1>9
  <2> QED BY DEF Refuse, Finish, Stops
<1>10. CASE \E t \in Threads : StopByProject(t)
  <2> SUFFICES ASSUME NEW t \in Threads, StopByProject(t) PROVE Stops'
    BY <1>10
  <2> QED BY DEF StopByProject, Remove, Stops
<1>11. CASE \E t \in Threads : RunContainer(t)
  <2> SUFFICES ASSUME NEW t \in Threads, RunContainer(t) PROVE Stops'
    BY <1>11
  <2> QED BY DEF RunContainer, Make, Fresh, Stops
<1>12. CASE \E t \in Threads : DeployFails(t)
  <2> SUFFICES ASSUME NEW t \in Threads, DeployFails(t) PROVE Stops'
    BY <1>12
  <2> QED BY DEF DeployFails, Make, Stops
<1>13. CASE \E t \in Threads : Remember(t)
  <2> SUFFICES ASSUME NEW t \in Threads, Remember(t) PROVE Stops'
    BY <1>13
  <2> QED BY DEF Remember, Fresh, Stops
<1>14. CASE \E t \in Threads : SaveNew(t)
  <2> SUFFICES ASSUME NEW t \in Threads, SaveNew(t) PROVE Stops'
    BY <1>14
  <2> QED BY DEF SaveNew, Finish, Saved, Stops
<1>15. CASE \E t \in Threads : SaveFails(t)
  <2> SUFFICES ASSUME NEW t \in Threads, SaveFails(t) PROVE Stops'
    BY <1>15
  <2> QED BY DEF SaveFails, Finish, Saved, Stops
<1>16. CASE Restart
  BY <1>16 DEF Restart, Stops
<1>17. CASE UNCHANGED vars
  BY <1>17 DEF vars, Stops
<1>18. CASE \E t \in Threads : Lookup(t)
  <2> SUFFICES ASSUME NEW t \in Threads, Lookup(t) PROVE Stops'
    BY <1>18
  <2> QED BY DEF Lookup, TypeOK, Fresh, Stops
<1>19. CASE \E t \in Threads : TakeDownMisses(t)
  <2> SUFFICES ASSUME NEW t \in Threads, TakeDownMisses(t) PROVE Stops'
    BY <1>19
  <2> QED BY DEF TakeDownMisses, TypeOK, Fresh, Stops
<1>20. CASE \E i \in Ids : Exits(i)
  <2> SUFFICES ASSUME NEW i \in Ids, Exits(i) PROVE Stops'
    BY <1>20
  <2> QED BY DEF Exits, TypeOK, Fresh, Stops
<1> QED BY <1>1, <1>2, <1>3, <1>4, <1>5, <1>6, <1>7, <1>8, <1>9, <1>10, <1>11, <1>12, <1>13, <1>14,
           <1>15, <1>16, <1>17, <1>18, <1>19, <1>20 DEF Next, Request, Serve

\* The sets that are counted are finite.
LEMMA Finite ==
  ASSUME TypeOK, Counted, NEW p \in Projects
  PROVE  /\ IsFiniteSet(Starting(p)) /\ IsFiniteSet(Mine(p)) /\ IsFiniteSet(AtRun(p))
<1>1. Starting(p) \subseteq Threads /\ AtRun(p) \subseteq Threads /\ Mine(p) \subseteq live
  BY DEF Starting, AtRun, Mine
<1> QED BY <1>1, HostingAssumption, FS_Subset DEF Counted

\* A step that adds no start, no container and none about to run keeps the counts.
LEMMA CountsKept ==
  ASSUME TypeOK, Counted, IsFiniteSet(live'), peak' = peak,
         \A p \in Projects : /\ Starting(p)' \subseteq Starting(p) /\ Mine(p)' \subseteq Mine(p)
                             /\ AtRun(p)' \subseteq AtRun(p)
  PROVE  Counted'
<1> SUFFICES ASSUME NEW p \in Projects
             PROVE  /\ Cardinality(Starting(p)') <= peak[p]
                    /\ Cardinality(Mine(p)') + Cardinality(AtRun(p)') <= peak[p]
  BY DEF Counted
<1>1. /\ Cardinality(Starting(p)') <= Cardinality(Starting(p)) /\ IsFiniteSet(Starting(p)')
      /\ Cardinality(Mine(p)') <= Cardinality(Mine(p)) /\ IsFiniteSet(Mine(p)')
      /\ Cardinality(AtRun(p)') <= Cardinality(AtRun(p)) /\ IsFiniteSet(AtRun(p)')
  BY Finite, FS_Subset
<1>2. /\ Cardinality(Starting(p)) \in Nat /\ Cardinality(Starting(p)') \in Nat
      /\ Cardinality(Mine(p)) \in Nat /\ Cardinality(Mine(p)') \in Nat
      /\ Cardinality(AtRun(p)) \in Nat /\ Cardinality(AtRun(p)') \in Nat /\ peak[p] \in Nat
  BY <1>1, Finite, FS_CardinalityType DEF TypeOK
<1>3. Cardinality(Starting(p)) <= peak[p] /\ Cardinality(Mine(p)) + Cardinality(AtRun(p)) <= peak[p]
  BY DEF Counted
<1> QED BY <1>1, <1>2, <1>3

\* A start is counted with the others of its project, and takes down the containers
\* they have brought up before it brings up its own.
LEMMA CountedStep ==
  ASSUME TypeOK, DriverKnows, Fresh, Counted, [Next]_vars
  PROVE  Counted'
<1> USE HostingAssumption DEF PC, Statuses, Goto, requests, docker
<1>1. CASE \E t \in Threads, w \in Wants : StartRequest(t, w)
  <2> SUFFICES ASSUME NEW t \in Threads, NEW w \in Wants, StartRequest(t, w) PROVE Counted'
    BY <1>1
  <2>1. /\ IsFiniteSet(live') /\ live' = live /\ stray' = stray /\ made' = made
        /\ w.project \in Projects /\ want[t] = NoWant /\ pc[t] = "idle"
        /\ want' = [want EXCEPT ![t] = w] /\ pc' = [pc EXCEPT ![t] = "start"]
    BY DEF StartRequest, Counted, TypeOK, Wants
  <2> SUFFICES ASSUME NEW p \in Projects
               PROVE  /\ Cardinality(Starting(p)') <= peak'[p]
                      /\ Cardinality(Mine(p)') + Cardinality(AtRun(p)') <= peak'[p]
    BY <2>1 DEF Counted
  <2>2. Mine(p)' = Mine(p) /\ AtRun(p)' = AtRun(p)
    BY <2>1 DEF Mine, AtRun, TypeOK
  <2>3. /\ Cardinality(Starting(p)) \in Nat /\ Cardinality(Mine(p)) \in Nat
        /\ Cardinality(AtRun(p)) \in Nat /\ peak[p] \in Nat
    BY Finite, FS_CardinalityType DEF TypeOK
  <2>4. CASE p = w.project
    <3>1. Starting(p)' = Starting(p) \cup {t} /\ t \notin Starting(p)
      BY <2>1, <2>4, HostingAssumption DEF Starting, TypeOK, Wants
    <3>2. Cardinality(Starting(p)') = Cardinality(Starting(p)) + 1
      BY <3>1, Finite, FS_AddElement
    <3>3. /\ peak'[p] >= Cardinality(Starting(p)) + 1 /\ peak'[p] >= peak[p]
          /\ peak'[p] \in Nat
      BY <2>3, <2>4 DEF StartRequest, TypeOK
    <3> QED BY <2>2, <2>3, <3>2, <3>3 DEF Counted
  <2>5. CASE p # w.project
    <3>1. Starting(p)' = Starting(p)
      BY <2>1, <2>5 DEF Starting, TypeOK
    <3>2. peak'[p] = peak[p]
      BY <2>5 DEF StartRequest, TypeOK
    <3> QED BY <2>2, <3>1, <3>2 DEF Counted
  <2> QED BY <2>4, <2>5
<1>2. CASE \E t \in Threads, i \in Ids : StopRequest(t, i)
  <2> SUFFICES ASSUME NEW t \in Threads, NEW i \in Ids, StopRequest(t, i) PROVE Counted'
    BY <1>2
  <2>1. IsFiniteSet(live') /\ peak' = peak
    BY DEF StopRequest, Counted
  <2>2. ASSUME NEW p \in Projects
        PROVE  /\ Starting(p)' \subseteq Starting(p) /\ Mine(p)' \subseteq Mine(p)
               /\ AtRun(p)' \subseteq AtRun(p)
    BY DEF StopRequest, TypeOK, Starting, Mine, AtRun
  <2> QED BY <2>1, <2>2, CountsKept
<1>3. CASE \E t \in Threads : Diagnose(t)
  <2> SUFFICES ASSUME NEW t \in Threads, Diagnose(t) PROVE Counted'
    BY <1>3
  <2>1. IsFiniteSet(live') /\ peak' = peak
    BY DEF Diagnose, Counted
  <2>2. ASSUME NEW p \in Projects
        PROVE  /\ Starting(p)' \subseteq Starting(p) /\ Mine(p)' \subseteq Mine(p)
               /\ AtRun(p)' \subseteq AtRun(p)
    BY DEF Diagnose, TypeOK, Starting, Mine, AtRun
  <2> QED BY <2>1, <2>2, CountsKept
<1>4. CASE \E t \in Threads : ReadConflicts(t)
  <2> SUFFICES ASSUME NEW t \in Threads, ReadConflicts(t) PROVE Counted'
    BY <1>4
  <2>1. IsFiniteSet(live') /\ peak' = peak
    BY DEF ReadConflicts, Counted
  <2>2. ASSUME NEW p \in Projects
        PROVE  /\ Starting(p)' \subseteq Starting(p) /\ Mine(p)' \subseteq Mine(p)
               /\ AtRun(p)' \subseteq AtRun(p)
    BY DEF ReadConflicts, TypeOK, Starting, Mine, AtRun
  <2> QED BY <2>1, <2>2, CountsKept
<1>5. CASE \E t \in Threads : TakeDown(t)
  <2> SUFFICES ASSUME NEW t \in Threads, TakeDown(t) PROVE Counted'
    BY <1>5
  <2>1. IsFiniteSet(live') /\ peak' = peak
    BY FS_Subset DEF TakeDown, Remove, Counted
  <2>2. ASSUME NEW p \in Projects
        PROVE  /\ Starting(p)' \subseteq Starting(p) /\ Mine(p)' \subseteq Mine(p)
               /\ AtRun(p)' \subseteq AtRun(p)
    BY DEF TakeDown, Remove, TypeOK, Starting, Mine, AtRun
  <2> QED BY <2>1, <2>2, CountsKept
<1>6. CASE \E t \in Threads : MarkStopped(t)
  <2> SUFFICES ASSUME NEW t \in Threads, MarkStopped(t) PROVE Counted'
    BY <1>6
  <2>1. IsFiniteSet(live') /\ peak' = peak
    BY DEF MarkStopped, Counted
  <2>2. ASSUME NEW p \in Projects
        PROVE  /\ Starting(p)' \subseteq Starting(p) /\ Mine(p)' \subseteq Mine(p)
               /\ AtRun(p)' \subseteq AtRun(p)
    BY DEF MarkStopped, TypeOK, Starting, Mine, AtRun
  <2> QED BY <2>1, <2>2, CountsKept
<1>7. CASE \E t \in Threads : SaveStopped(t)
  <2> SUFFICES ASSUME NEW t \in Threads, SaveStopped(t) PROVE Counted'
    BY <1>7
  <2>1. IsFiniteSet(live') /\ peak' = peak
    BY DEF SaveStopped, Counted
  <2>2. ASSUME NEW p \in Projects
        PROVE  /\ Starting(p)' \subseteq Starting(p) /\ Mine(p)' \subseteq Mine(p)
               /\ AtRun(p)' \subseteq AtRun(p)
    BY DEF SaveStopped, TypeOK, Starting, Mine, AtRun
  <2> QED BY <2>1, <2>2, CountsKept
<1>8. CASE \E t \in Threads : AllStopped(t)
  <2> SUFFICES ASSUME NEW t \in Threads, AllStopped(t) PROVE Counted'
    BY <1>8
  <2>1. IsFiniteSet(live') /\ peak' = peak
    BY DEF AllStopped, Finish, Counted
  <2>2. ASSUME NEW p \in Projects
        PROVE  /\ Starting(p)' \subseteq Starting(p) /\ Mine(p)' \subseteq Mine(p)
               /\ AtRun(p)' \subseteq AtRun(p)
    BY DEF AllStopped, Finish, TypeOK, Starting, Mine, AtRun
  <2> QED BY <2>1, <2>2, CountsKept
<1>9. CASE \E t \in Threads : Refuse(t)
  <2> SUFFICES ASSUME NEW t \in Threads, Refuse(t) PROVE Counted'
    BY <1>9
  <2>1. IsFiniteSet(live') /\ peak' = peak
    BY DEF Refuse, Finish, Counted
  <2>2. ASSUME NEW p \in Projects
        PROVE  /\ Starting(p)' \subseteq Starting(p) /\ Mine(p)' \subseteq Mine(p)
               /\ AtRun(p)' \subseteq AtRun(p)
    BY DEF Refuse, Finish, TypeOK, Starting, Mine, AtRun
  <2> QED BY <2>1, <2>2, CountsKept
<1>10. CASE \E t \in Threads : StopByProject(t)
  <2> SUFFICES ASSUME NEW t \in Threads, StopByProject(t) PROVE Counted'
    BY <1>10
  <2>1. /\ IsFiniteSet(live') /\ peak' = peak /\ made' = made /\ want' = want
        /\ live' \subseteq live /\ live' \ stray' \subseteq live \ stray
        /\ pc[t] = "deploy" /\ pc' = [pc EXCEPT ![t] = "run"]
    BY FS_Subset DEF StopByProject, Remove, Counted
  <2> SUFFICES ASSUME NEW p \in Projects
               PROVE  /\ Cardinality(Starting(p)') <= peak[p]
                      /\ Cardinality(Mine(p)') + Cardinality(AtRun(p)') <= peak[p]
    BY <2>1 DEF Counted
  <2>2. Starting(p)' = Starting(p) /\ Cardinality(Starting(p)) <= peak[p]
    BY <2>1 DEF Starting, Counted
  <2>3. /\ Cardinality(Starting(p)) \in Nat /\ Cardinality(Mine(p)) \in Nat
        /\ Cardinality(AtRun(p)) \in Nat /\ peak[p] \in Nat
    BY Finite, FS_CardinalityType DEF TypeOK
  <2>4. CASE p = want[t].project
    <3>1. Mine(p)' = {}
      BY <2>1, <2>4 DEF StopByProject, Remove, DriverKnows, Mine
    <3>2. AtRun(p)' \subseteq Starting(p)
      BY <2>1 DEF AtRun, Starting, TypeOK
    <3>3. Cardinality(AtRun(p)') <= Cardinality(Starting(p)) /\ IsFiniteSet(AtRun(p)')
      BY <3>2, Finite, FS_Subset
    <3>4. Cardinality(AtRun(p)') \in Nat
      BY <3>3, FS_CardinalityType
    <3> QED BY <2>2, <2>3, <3>1, <3>3, <3>4, FS_EmptySet
  <2>5. CASE p # want[t].project
    <3>1. AtRun(p)' = AtRun(p) /\ Mine(p)' \subseteq Mine(p)
      BY <2>1, <2>5 DEF AtRun, Mine, TypeOK
    <3>2. Cardinality(Mine(p)') <= Cardinality(Mine(p)) /\ IsFiniteSet(Mine(p)')
      BY <3>1, Finite, FS_Subset
    <3>3. Cardinality(Mine(p)') \in Nat
      BY <3>2, FS_CardinalityType
    <3> QED BY <2>2, <2>3, <3>1, <3>2, <3>3 DEF Counted
  <2> QED BY <2>4, <2>5
<1>11. CASE \E t \in Threads : RunContainer(t)
  <2> SUFFICES ASSUME NEW t \in Threads, RunContainer(t) PROVE Counted'
    BY <1>11
  <2>1. PICK i \in Ids : Make(t, i) /\ live' = live \cup {i} /\ known' = known \cup {i}
    BY DEF RunContainer
  <2>2. /\ made[i] = NoWant /\ i \notin live \cup stray /\ stray' = stray
        /\ made' = [made EXCEPT ![i] = want[t]] /\ want' = want /\ peak' = peak
        /\ pc[t] = "run" /\ pc' = [pc EXCEPT ![t] = "running"]
    BY <2>1 DEF RunContainer, Make, Fresh
  <2>3. IsFiniteSet(live')
    BY <2>1, FS_AddElement DEF Counted
  <2> SUFFICES ASSUME NEW p \in Projects
               PROVE  /\ Cardinality(Starting(p)') <= peak[p]
                      /\ Cardinality(Mine(p)') + Cardinality(AtRun(p)') <= peak[p]
    BY <2>2, <2>3 DEF Counted
  <2>4. Cardinality(Starting(p)') <= peak[p]
    BY <2>2 DEF Starting, Counted
  <2>5. /\ Cardinality(Mine(p)) \in Nat /\ Cardinality(AtRun(p)) \in Nat /\ peak[p] \in Nat
    BY Finite, FS_CardinalityType DEF TypeOK
  <2>6. CASE p = want[t].project
    <3>1. Mine(p)' = Mine(p) \cup {i} /\ i \notin Mine(p)
      BY <2>1, <2>2, <2>6 DEF Mine, TypeOK
    <3>2. AtRun(p)' = AtRun(p) \ {t} /\ t \in AtRun(p)
      BY <2>2, <2>6 DEF AtRun, TypeOK
    <3>3. Cardinality(Mine(p)') = Cardinality(Mine(p)) + 1
      BY <3>1, Finite, FS_AddElement
    <3>4. Cardinality(AtRun(p)') = Cardinality(AtRun(p)) - 1
      BY <3>2, Finite, FS_RemoveElement
    <3> QED BY <2>4, <2>5, <3>3, <3>4 DEF Counted
  <2>7. CASE p # want[t].project
    <3>1. Mine(p)' = Mine(p)
      BY <2>1, <2>2, <2>7 DEF Mine, TypeOK
    <3>2. AtRun(p)' = AtRun(p)
      BY <2>2, <2>7 DEF AtRun, TypeOK
    <3> QED BY <2>4, <3>1, <3>2 DEF Counted
  <2> QED BY <2>6, <2>7
<1>12. CASE \E t \in Threads : DeployFails(t)
  <2> SUFFICES ASSUME NEW t \in Threads, DeployFails(t) PROVE Counted'
    BY <1>12
  <2>1. PICK i \in Ids : /\ Make(t, i)
                         /\ \/ UNCHANGED <<live, stray>>
                            \/ live' = live \cup {i} /\ stray' = stray \cup {i}
    BY DEF DeployFails
  <2>2. /\ made[i] = NoWant /\ i \notin live \cup stray
        /\ made' = [made EXCEPT ![i] = want[t]] /\ want' = want /\ peak' = peak
        /\ pc[t] \in {"deploy", "run"} /\ pc' = [pc EXCEPT ![t] = "not_running"]
    BY <2>1 DEF DeployFails, Make, Fresh
  <2>3. IsFiniteSet(live') /\ peak' = peak
    BY <2>1, <2>2, FS_AddElement DEF Counted
  <2>4. ASSUME NEW p \in Projects
        PROVE  /\ Starting(p)' \subseteq Starting(p) /\ Mine(p)' \subseteq Mine(p)
               /\ AtRun(p)' \subseteq AtRun(p)
    BY <2>1, <2>2 DEF TypeOK, Starting, Mine, AtRun
  <2> QED BY <2>3, <2>4, CountsKept
<1>13. CASE \E t \in Threads : Remember(t)
  <2> SUFFICES ASSUME NEW t \in Threads, Remember(t) PROVE Counted'
    BY <1>13
  <2>1. IsFiniteSet(live') /\ peak' = peak
    BY DEF Remember, Counted
  <2>2. ASSUME NEW p \in Projects
        PROVE  /\ Starting(p)' \subseteq Starting(p) /\ Mine(p)' \subseteq Mine(p)
               /\ AtRun(p)' \subseteq AtRun(p)
    BY DEF Remember, TypeOK, Starting, Mine, AtRun
  <2> QED BY <2>1, <2>2, CountsKept
<1>14. CASE \E t \in Threads : SaveNew(t)
  <2> SUFFICES ASSUME NEW t \in Threads, SaveNew(t) PROVE Counted'
    BY <1>14
  <2>1. IsFiniteSet(live') /\ peak' = peak
    BY DEF SaveNew, Finish, Counted
  <2>2. ASSUME NEW p \in Projects
        PROVE  /\ Starting(p)' \subseteq Starting(p) /\ Mine(p)' \subseteq Mine(p)
               /\ AtRun(p)' \subseteq AtRun(p)
    BY DEF SaveNew, Finish, TypeOK, Starting, Mine, AtRun
  <2> QED BY <2>1, <2>2, CountsKept
<1>15. CASE \E t \in Threads : SaveFails(t)
  <2> SUFFICES ASSUME NEW t \in Threads, SaveFails(t) PROVE Counted'
    BY <1>15
  <2>1. IsFiniteSet(live') /\ peak' = peak
    BY DEF SaveFails, Finish, Counted
  <2>2. ASSUME NEW p \in Projects
        PROVE  /\ Starting(p)' \subseteq Starting(p) /\ Mine(p)' \subseteq Mine(p)
               /\ AtRun(p)' \subseteq AtRun(p)
    BY DEF SaveFails, Finish, TypeOK, Starting, Mine, AtRun
  <2> QED BY <2>1, <2>2, CountsKept
<1>16. CASE Restart
  <2>1. IsFiniteSet(live') /\ peak' = peak
    BY <1>16 DEF Restart, Counted
  <2>2. ASSUME NEW p \in Projects
        PROVE  /\ Starting(p)' \subseteq Starting(p) /\ Mine(p)' \subseteq Mine(p)
               /\ AtRun(p)' \subseteq AtRun(p)
    BY <1>16 DEF Restart, TypeOK, Starting, Mine, AtRun
  <2> QED BY <2>1, <2>2, CountsKept
<1>17. CASE UNCHANGED vars
  <2>1. IsFiniteSet(live') /\ peak' = peak
    BY <1>17 DEF vars, Counted
  <2>2. ASSUME NEW p \in Projects
        PROVE  /\ Starting(p)' \subseteq Starting(p) /\ Mine(p)' \subseteq Mine(p)
               /\ AtRun(p)' \subseteq AtRun(p)
    BY <1>17 DEF vars, TypeOK, Starting, Mine, AtRun
  <2> QED BY <2>1, <2>2, CountsKept
<1>18. CASE \E t \in Threads : Lookup(t)
  <2> SUFFICES ASSUME NEW t \in Threads, Lookup(t) PROVE Counted'
    BY <1>18
  <2>1. IsFiniteSet(live') /\ peak' = peak
    BY DEF Lookup, Counted
  <2>2. ASSUME NEW p \in Projects
        PROVE  /\ Starting(p)' \subseteq Starting(p) /\ Mine(p)' \subseteq Mine(p)
               /\ AtRun(p)' \subseteq AtRun(p)
    BY DEF Lookup, TypeOK, Starting, Mine, AtRun
  <2> QED BY <2>1, <2>2, CountsKept
<1>19. CASE \E t \in Threads : TakeDownMisses(t)
  <2> SUFFICES ASSUME NEW t \in Threads, TakeDownMisses(t) PROVE Counted'
    BY <1>19
  <2>1. IsFiniteSet(live') /\ peak' = peak
    BY DEF TakeDownMisses, Counted
  <2>2. ASSUME NEW p \in Projects
        PROVE  /\ Starting(p)' \subseteq Starting(p) /\ Mine(p)' \subseteq Mine(p)
               /\ AtRun(p)' \subseteq AtRun(p)
    BY DEF TakeDownMisses, TypeOK, Starting, Mine, AtRun
  <2> QED BY <2>1, <2>2, CountsKept
<1>20. CASE \E i \in Ids : Exits(i)
  <2> SUFFICES ASSUME NEW i \in Ids, Exits(i) PROVE Counted'
    BY <1>20
  <2>1. IsFiniteSet(live') /\ peak' = peak
    BY FS_Subset DEF Exits, Counted
  <2>2. ASSUME NEW p \in Projects
        PROVE  /\ Starting(p)' \subseteq Starting(p) /\ Mine(p)' \subseteq Mine(p)
               /\ AtRun(p)' \subseteq AtRun(p)
    BY DEF Exits, TypeOK, Starting, Mine, AtRun
  <2> QED BY <2>1, <2>2, CountsKept
<1> QED BY <1>1, <1>2, <1>3, <1>4, <1>5, <1>6, <1>7, <1>8, <1>9, <1>10, <1>11, <1>12, <1>13, <1>14,
           <1>15, <1>16, <1>17, <1>18, <1>19, <1>20 DEF Next, Request, Serve

\* Two starts of one project under way at once have been counted.
LEMMA Overlap ==
  ASSUME TypeOK, Counted, NEW s \in Threads, NEW t \in Threads, s # t,
         want[s] # NoWant, want[t] # NoWant, want[s].project = want[t].project
  PROVE  peak[want[t].project] > 1
<1> DEFINE p == want[t].project
<1>1. p \in Projects /\ {s, t} \subseteq Starting(p)
  BY HostingAssumption DEF TypeOK, Wants, Starting
<1>2. Cardinality({s, t}) = 2
  <2>1. {s, t} = {s} \cup {t} /\ t \notin {s} OBVIOUS
  <2>2. Cardinality({s}) = 1 /\ IsFiniteSet({s}) BY FS_Singleton
  <2>3. Cardinality({s} \cup {t}) = Cardinality({s}) + 1 BY <2>1, <2>2, FS_AddElement
  <2> QED BY <2>1, <2>2, <2>3
<1>3. Cardinality({s, t}) <= Cardinality(Starting(p))
  BY <1>1, Finite, FS_Subset
<1>4. Cardinality(Starting(p)) \in Nat /\ peak[p] \in Nat /\ Cardinality(Starting(p)) <= peak[p]
  BY <1>1, Finite, FS_CardinalityType DEF TypeOK, Counted
<1> QED BY <1>2, <1>3, <1>4

-----------------------------------------------------------------------------
LEMMA Initially == Init => IInv
<1> SUFFICES ASSUME Init PROVE IInv
  OBVIOUS
<1>1. TypeOK
  BY HostingAssumption DEF Init, TypeOK, PC, Statuses, Holding
<1>2. DriverKnows /\ Fresh /\ Stops
  BY DEF Init, DriverKnows, Fresh, Stops
<1>3. Counted
  <2>1. \A p \in Projects : Starting(p) = {} /\ Mine(p) = {} /\ AtRun(p) = {} /\ peak[p] = 0
    BY DEF Init, Starting, Mine, AtRun
  <2>2. Cardinality({}) = 0 /\ IsFiniteSet({})
    BY FS_EmptySet
  <2> QED BY <2>1, <2>2 DEF Counted, Init
<1> QED BY <1>1, <1>2, <1>3 DEF IInv

LEMMA Inductive == Spec => []IInv
<1>1. IInv /\ [Next]_vars => IInv'
  BY TypeStep, KnowsStep, FreshStep, StopsStep, CountedStep DEF IInv
<1> QED BY Initially, <1>1, PTL DEF Spec

\* Every variable stays in its type, and a thread has work in hand only where
\* its request needs it.
THEOREM TypeCorrect == Spec => []TypeOK
<1>1. IInv => TypeOK BY DEF IInv
<1> QED BY <1>1, Inductive, PTL

\* A row that says stopped has no container the driver could still remove, unless
\* docker did not answer when it was stopped, in every interleaving of requests and
\* with every fault.
THEOREM StoppedHasNoContainer == Spec => []StoppedIsGone
<1>1. IInv => StoppedIsGone
  BY DEF IInv, Stops, Reach, StoppedIsGone
<1> QED BY <1>1, Inductive, PTL

\* One step writes no status over a stopped one.
LEMMA StoppedStep ==
  ASSUME IInv, [Next]_vars, NEW i \in Ids, store[i] = "stopped"
  PROVE  store'[i] = "stopped"
<1> USE DEF requests, docker, IInv, TypeOK, Stops
<1>1. \A done : Saved(done)[i] = "stopped"
  BY DEF Saved
<1>2. store' = store \/ \E done : store' = Saved(done)
  <2>1. ASSUME NEW t \in Threads, Request(t) PROVE <1>2
    BY <2>1 DEF Request, StartRequest, StopRequest, Diagnose
  <2>2. ASSUME NEW t \in Threads, Serve(t) PROVE <1>2
    BY <2>2 DEF Serve, ReadConflicts, Lookup, TakeDown, TakeDownMisses, MarkStopped, SaveStopped,
       AllStopped, Refuse, StopByProject, RunContainer, DeployFails, Make, Remember, SaveNew,
       SaveFails
  <2>3. (\E j \in Ids : Exits(j)) \/ Restart => store' = store
    BY DEF Exits, Restart
  <2>4. UNCHANGED vars => store' = store
    BY DEF vars
  <2> QED BY <2>1, <2>2, <2>3, <2>4 DEF Next
<1> QED BY <1>1, <1>2

\* No request of the process brings a stopped instance back in the store.
THEOREM StoppedForGood == Spec => StoppedStays
<1>1. IInv /\ [Next]_vars => [\A i \in Ids : store[i] = "stopped" => store'[i] = "stopped"]_vars
  BY StoppedStep
<1> QED BY <1>1, Inductive, PTL DEF Spec, StoppedStays

\* A project never has more containers this process can reach than starts of it
\* have been under way at one time: one, where they do not overlap.
THEOREM ContainersAreStarts == Spec => []ContainersWithinOverlap
<1>1. IInv => ContainersWithinOverlap
  <2> SUFFICES ASSUME IInv, NEW p \in Projects PROVE Cardinality(Mine(p)) <= peak[p]
    BY DEF ContainersWithinOverlap
  <2>1. Cardinality(Mine(p)) \in Nat /\ Cardinality(AtRun(p)) \in Nat /\ peak[p] \in Nat
    BY Finite, FS_CardinalityType DEF IInv, TypeOK
  <2> QED BY <2>1 DEF IInv, Counted
<1> QED BY <1>1, Inductive, PTL

-----------------------------------------------------------------------------
(* RegistryTruth.                                                            *)

LEMMA InHandStep ==
  ASSUME TypeOK, DriverKnows, Fresh, Counted, InHand, [Next]_vars
  PROVE  InHand'
<1> USE HostingAssumption DEF PC, Statuses, Goto, requests, docker, Reach
<1>1. CASE \E t \in Threads, w \in Wants : StartRequest(t, w)
  <2> SUFFICES ASSUME NEW t \in Threads, NEW w \in Wants, StartRequest(t, w) PROVE InHand'
    BY <1>1
  <2>1. \A p \in Projects : peak'[p] <= 1 => peak[p] <= 1
    BY PeakGrows DEF TypeOK
  <2>2. \A s \in Threads : pc[s] = "running" => want[s] \in Wants /\ want[s].project \in Projects
    BY DEF TypeOK, Wants
  <2>3. ASSUME NEW s \in Threads, pc'[s] = "running", peak'[want'[s].project] <= 1
        PROVE  held'[s] \in Reach' \cup exited'
    BY <2>1, <2>2, <2>3 DEF StartRequest, TypeOK, InHand
  <2> QED BY <2>3 DEF StartRequest, TypeOK, InHand
<1>2. CASE \E t \in Threads, i \in Ids : StopRequest(t, i)
  <2> SUFFICES ASSUME NEW t \in Threads, NEW i \in Ids, StopRequest(t, i) PROVE InHand'
    BY <1>2
  <2> QED BY DEF StopRequest, InHand
<1>3. CASE \E t \in Threads : Diagnose(t)
  <2> SUFFICES ASSUME NEW t \in Threads, Diagnose(t) PROVE InHand'
    BY <1>3
  <2> QED BY DEF Diagnose, InHand
<1>4. CASE \E t \in Threads : ReadConflicts(t)
  <2> SUFFICES ASSUME NEW t \in Threads, ReadConflicts(t) PROVE InHand'
    BY <1>4
  <2> QED BY DEF ReadConflicts, TypeOK, InHand
<1>5. CASE \E t \in Threads : TakeDown(t)
  <2> SUFFICES ASSUME NEW t \in Threads, TakeDown(t) PROVE InHand'
    BY <1>5
  <2> QED BY DEF TakeDown, Remove, TypeOK, Fresh, InHand
<1>6. CASE \E t \in Threads : MarkStopped(t)
  <2> SUFFICES ASSUME NEW t \in Threads, MarkStopped(t) PROVE InHand'
    BY <1>6
  <2> QED BY DEF MarkStopped, InHand
<1>7. CASE \E t \in Threads : SaveStopped(t)
  <2> SUFFICES ASSUME NEW t \in Threads, SaveStopped(t) PROVE InHand'
    BY <1>7
  <2> QED BY DEF SaveStopped, InHand
<1>8. CASE \E t \in Threads : AllStopped(t)
  <2> SUFFICES ASSUME NEW t \in Threads, AllStopped(t) PROVE InHand'
    BY <1>8
  <2> QED BY DEF AllStopped, Finish, TypeOK, InHand
<1>9. CASE \E t \in Threads : Refuse(t)
  <2> SUFFICES ASSUME NEW t \in Threads, Refuse(t) PROVE InHand'
    BY <1>9
  <2> QED BY DEF Refuse, Finish, InHand
<1>10. CASE \E t \in Threads : StopByProject(t)
  <2> SUFFICES ASSUME NEW t \in Threads, StopByProject(t) PROVE InHand'
    BY <1>10
  <2>1. ASSUME NEW s \in Threads, pc[s] = "running", peak[want[s].project] <= 1
        PROVE  made[held[s]].project # want[t].project
    <3>1. s # t /\ want[t] # NoWant /\ want[s] # NoWant
      BY <2>1 DEF StopByProject, TypeOK
    <3>2. want[s].project \in Projects /\ peak[want[s].project] \in Nat
      BY <3>1 DEF TypeOK, Wants
    <3>3. want[s].project # want[t].project
      BY <2>1, <3>1, <3>2, Overlap
    <3> QED BY <2>1, <3>3 DEF InHand
  <2> QED BY <2>1 DEF StopByProject, Remove, TypeOK, InHand
<1>11. CASE \E t \in Threads : RunContainer(t)
  <2> SUFFICES ASSUME NEW t \in Threads, RunContainer(t) PROVE InHand'
    BY <1>11
  <2> QED BY DEF RunContainer, Make, TypeOK, Fresh, InHand
<1>12. CASE \E t \in Threads : DeployFails(t)
  <2> SUFFICES ASSUME NEW t \in Threads, DeployFails(t) PROVE InHand'
    BY <1>12
  <2> QED BY DEF DeployFails, Make, TypeOK, Fresh, InHand
<1>13. CASE \E t \in Threads : Remember(t)
  <2> SUFFICES ASSUME NEW t \in Threads, Remember(t) PROVE InHand'
    BY <1>13
  <2> QED BY DEF Remember, InHand
<1>14. CASE \E t \in Threads : SaveNew(t)
  <2> SUFFICES ASSUME NEW t \in Threads, SaveNew(t) PROVE InHand'
    BY <1>14
  <2> QED BY DEF SaveNew, Finish, InHand
<1>15. CASE \E t \in Threads : SaveFails(t)
  <2> SUFFICES ASSUME NEW t \in Threads, SaveFails(t) PROVE InHand'
    BY <1>15
  <2> QED BY DEF SaveFails, Finish, InHand
<1>16. CASE Restart
  BY <1>16 DEF Restart, TypeOK, InHand, Holding
<1>17. CASE UNCHANGED vars
  BY <1>17 DEF vars, TypeOK, InHand, Holding
<1>18. CASE \E t \in Threads : Lookup(t)
  <2> SUFFICES ASSUME NEW t \in Threads, Lookup(t) PROVE InHand'
    BY <1>18
  <2> QED BY DEF Lookup, TypeOK, Fresh, InHand
<1>19. CASE \E t \in Threads : TakeDownMisses(t)
  <2> SUFFICES ASSUME NEW t \in Threads, TakeDownMisses(t) PROVE InHand'
    BY <1>19
  <2> QED BY DEF TakeDownMisses, TypeOK, Fresh, InHand
<1>20. CASE \E i \in Ids : Exits(i)
  <2> SUFFICES ASSUME NEW i \in Ids, Exits(i) PROVE InHand'
    BY <1>20
  <2> QED BY DEF Exits, TypeOK, Fresh, InHand
<1> QED BY <1>1, <1>2, <1>3, <1>4, <1>5, <1>6, <1>7, <1>8, <1>9, <1>10, <1>11, <1>12, <1>13, <1>14,
           <1>15, <1>16, <1>17, <1>18, <1>19, <1>20 DEF Next, Request, Serve

LEMMA TruthStep ==
  ASSUME IInv, InHand, ~disturbed', Truthful, [Next]_vars
  PROVE  Truthful'
<1> USE HostingAssumption DEF PC, Statuses, Goto, requests, docker, Reach, Watched, Lone
<1>1. CASE \E t \in Threads, w \in Wants : StartRequest(t, w)
  <2> SUFFICES ASSUME NEW t \in Threads, NEW w \in Wants, StartRequest(t, w) PROVE Truthful'
    BY <1>1
  <2>0. \A p \in Projects : peak'[p] <= 1 => peak[p] <= 1
    BY PeakGrows DEF IInv, TypeOK
  <2>1. Mirrored'
    BY DEF StartRequest, IInv, TypeOK, Truthful, Mirrored
  <2>2. RecordedRuns'
    BY <2>0 DEF StartRequest, Saved, Recorded, IInv, TypeOK, Wants, Truthful, RecordedRuns
  <2>3. RunsRecorded'
    BY DEF StartRequest, Saved, Recorded, Truthful, RunsRecorded
  <2>4. InTheWay'
    BY <2>0 DEF StartRequest, Saved, Recorded, IInv, TypeOK, Wants, Truthful, InTheWay
  <2> QED BY <2>1, <2>2, <2>3, <2>4 DEF Truthful
<1>2. CASE \E t \in Threads, i \in Ids : StopRequest(t, i)
  <2> SUFFICES ASSUME NEW t \in Threads, NEW i \in Ids, StopRequest(t, i) PROVE Truthful'
    BY <1>2
  <2>1. Mirrored'
    BY DEF StopRequest, Truthful, Mirrored
  <2>2. RecordedRuns'
    BY DEF StopRequest, Saved, Recorded, Truthful, RecordedRuns
  <2>3. RunsRecorded'
    BY DEF StopRequest, Saved, Recorded, Truthful, RunsRecorded
  <2>4. InTheWay'
    BY DEF StopRequest, Saved, Recorded, IInv, TypeOK, Truthful, InTheWay
  <2> QED BY <2>1, <2>2, <2>3, <2>4 DEF Truthful
<1>3. CASE \E t \in Threads : Diagnose(t)
  <2> SUFFICES ASSUME NEW t \in Threads, Diagnose(t) PROVE Truthful'
    BY <1>3
  <2>1. Mirrored'
    BY DEF Diagnose, Saved, Truthful, Mirrored
  <2>2. RecordedRuns'
    BY DEF Diagnose, Saved, Recorded, Truthful, RecordedRuns
  <2>3. RunsRecorded'
    BY DEF Diagnose, Saved, Recorded, Truthful, RunsRecorded
  <2>4. InTheWay'
    BY DEF Diagnose, Saved, Recorded, Truthful, InTheWay
  <2> QED BY <2>1, <2>2, <2>3, <2>4 DEF Truthful
<1>4. CASE \E t \in Threads : ReadConflicts(t)
  <2> SUFFICES ASSUME NEW t \in Threads, ReadConflicts(t) PROVE Truthful'
    BY <1>4
  <2>0. /\ cache' = store /\ store' = store /\ UNCHANGED <<want, held, docker, peak>>
        /\ todo' = [todo EXCEPT ![t] = {i \in Ids : store[i] = "running" /\ Conflict(made[i], want[t])}]
        /\ detached' = {} /\ Unsaved = {}
        /\ pc[t] = "start" /\ pc' = [pc EXCEPT ![t] = "stop"]
    <3>1. PICK rows :
            /\ cache' = rows
            /\ todo' = [todo EXCEPT ![t] = {i \in Ids : rows[i] = "running" /\ Conflict(made[i], want[t])}]
            /\ disturbed' = (disturbed \/ Unsaved # {} \/ rows # store)
      BY DEF ReadConflicts
    <3>2. rows = store /\ Unsaved = {}
      BY <3>1
    <3> QED BY <3>1, <3>2 DEF ReadConflicts
  <2>5. \A i \in Ids : Recorded(i) = store[i] /\ Recorded(i)' = store[i]
    BY <2>0 DEF Saved, Recorded, Unsaved, Truthful, Mirrored
  <2>1. Mirrored'
    BY <2>0 DEF Mirrored, IInv, TypeOK
  <2>2. RecordedRuns'
    BY <2>0, <2>5 DEF Truthful, RecordedRuns, IInv, TypeOK
  <2>3. RunsRecorded'
    BY <2>0, <2>5 DEF Truthful, RunsRecorded, IInv, TypeOK
  <2>4. InTheWay'
    <3> SUFFICES ASSUME NEW s \in Threads, NEW i \in Ids,
                        want[s] # NoWant,
                        pc'[s] \in {"stop", "found", "taken_down", "save_stop", "deploy", "run"},
                        Recorded(i)' = "running", made[i].project = want[s].project,
                        peak[want[s].project] <= 1
                 PROVE  i \in todo'[s] \/ (pc'[s] \in {"found", "taken_down"} /\ held[s] = i)
      BY <2>0 DEF InTheWay, ReadConflicts
    <3>1. CASE s = t
      BY <2>0, <2>5, <3>1 DEF Conflict, IInv, TypeOK
    <3>2. CASE s # t
      BY <2>0, <2>5, <3>2 DEF Truthful, InTheWay, IInv, TypeOK
    <3> QED BY <3>1, <3>2
  <2> QED BY <2>1, <2>2, <2>3, <2>4 DEF Truthful
<1>5. CASE \E t \in Threads : TakeDown(t)
  <2> SUFFICES ASSUME NEW t \in Threads, TakeDown(t) PROVE Truthful'
    BY <1>5
  <2>1. Mirrored'
    BY DEF TakeDown, IInv, TypeOK, Truthful, Mirrored
  <2>2. RecordedRuns'
    BY DEF TakeDown, Remove, Saved, Recorded, IInv, TypeOK, Truthful, RecordedRuns
  <2>3. RunsRecorded'
    <3> SUFFICES ASSUME NEW i \in (live' \ stray') \ missed'
                 PROVE  Recorded(i)' = "running" \/ \E s \in Threads : pc'[s] = "running" /\ held'[s] = i
      BY DEF RunsRecorded
    <3>1. i \in (live \ stray) \ missed
      BY DEF TakeDown, Remove
    <3>2. CASE Recorded(i) = "running"
      BY <3>1, <3>2 DEF TakeDown, Saved, Recorded
    <3>3. ASSUME NEW s \in Threads, pc[s] = "running", held[s] = i
          PROVE  pc'[s] = "running" /\ held'[s] = i
      BY <3>3 DEF TakeDown, Remove, IInv, TypeOK
    <3> QED BY <3>1, <3>2, <3>3 DEF Truthful, RunsRecorded
  <2>4. InTheWay'
    BY DEF TakeDown, Saved, Recorded, IInv, TypeOK, Truthful, Mirrored, InTheWay
  <2> QED BY <2>1, <2>2, <2>3, <2>4 DEF Truthful
<1>6. CASE \E t \in Threads : MarkStopped(t)
  <2> SUFFICES ASSUME NEW t \in Threads, MarkStopped(t) PROVE Truthful'
    BY <1>6
  <2>1. Mirrored'
    BY DEF MarkStopped, IInv, TypeOK, Truthful, Mirrored
  <2>2. RecordedRuns'
    BY DEF MarkStopped, Saved, Recorded, IInv, TypeOK, Truthful, Mirrored, RecordedRuns
  <2>3. RunsRecorded'
    <3> SUFFICES ASSUME NEW i \in (live' \ stray') \ missed'
                 PROVE  Recorded(i)' = "running" \/ \E s \in Threads : pc'[s] = "running" /\ held'[s] = i
      BY DEF RunsRecorded
    <3>1. i \in (live \ stray) \ missed
      BY DEF MarkStopped
    <3>2. CASE Recorded(i) = "running"
      BY <3>1, <3>2 DEF MarkStopped, Saved, Recorded, IInv, TypeOK, Stops
    <3>3. ASSUME NEW s \in Threads, pc[s] = "running", held[s] = i
          PROVE  pc'[s] = "running" /\ held'[s] = i
      BY <3>3 DEF MarkStopped, IInv, TypeOK
    <3> QED BY <3>1, <3>2, <3>3 DEF Truthful, RunsRecorded
  <2>4. InTheWay'
    BY DEF MarkStopped, Saved, Recorded, IInv, TypeOK, Truthful, Mirrored, InTheWay
  <2> QED BY <2>1, <2>2, <2>3, <2>4 DEF Truthful
<1>7. CASE \E t \in Threads : SaveStopped(t)
  <2> SUFFICES ASSUME NEW t \in Threads, SaveStopped(t) PROVE Truthful'
    BY <1>7
  <2>1. Mirrored'
    BY DEF SaveStopped, Saved, Truthful, Mirrored
  <2>2. RecordedRuns'
    BY DEF SaveStopped, Saved, Recorded, Truthful, RecordedRuns
  <2>3. RunsRecorded'
    BY DEF SaveStopped, Saved, Recorded, Truthful, RunsRecorded
  <2>4. InTheWay'
    BY DEF SaveStopped, Saved, Recorded, Truthful, InTheWay
  <2> QED BY <2>1, <2>2, <2>3, <2>4 DEF Truthful
<1>8. CASE \E t \in Threads : AllStopped(t)
  <2> SUFFICES ASSUME NEW t \in Threads, AllStopped(t) PROVE Truthful'
    BY <1>8
  <2>1. Mirrored'
    BY DEF AllStopped, Finish, IInv, TypeOK, Truthful, Mirrored
  <2>2. RecordedRuns'
    BY DEF AllStopped, Finish, Saved, Recorded, IInv, TypeOK, Truthful, RecordedRuns
  <2>3. RunsRecorded'
    <3> SUFFICES ASSUME NEW i \in (live' \ stray') \ missed'
                 PROVE  Recorded(i)' = "running" \/ \E s \in Threads : pc'[s] = "running" /\ held'[s] = i
      BY DEF RunsRecorded
    <3>1. i \in (live \ stray) \ missed
      BY DEF AllStopped, Finish
    <3>2. CASE Recorded(i) = "running"
      BY <3>1, <3>2 DEF AllStopped, Saved, Recorded
    <3>3. ASSUME NEW s \in Threads, pc[s] = "running", held[s] = i
          PROVE  pc'[s] = "running" /\ held'[s] = i
      BY <3>3 DEF AllStopped, Finish, IInv, TypeOK
    <3> QED BY <3>1, <3>2, <3>3 DEF Truthful, RunsRecorded
  <2>4. InTheWay'
    BY DEF AllStopped, Finish, Saved, Recorded, IInv, TypeOK, Truthful, InTheWay
  <2> QED BY <2>1, <2>2, <2>3, <2>4 DEF Truthful
<1>9. CASE \E t \in Threads : Refuse(t)
  <2> SUFFICES ASSUME NEW t \in Threads, Refuse(t) PROVE Truthful'
    BY <1>9
  <2>1. Mirrored'
    BY DEF Refuse, Finish, Truthful, Mirrored
  <2>2. RecordedRuns'
    BY DEF Refuse, Finish, Saved, Recorded, Truthful, RecordedRuns
  <2>3. RunsRecorded'
    BY DEF Refuse, Finish, Saved, Recorded, Truthful, RunsRecorded
  <2>4. InTheWay'
    BY DEF Refuse, Finish, Saved, Recorded, InHand, Truthful, InTheWay
  <2> QED BY <2>1, <2>2, <2>3, <2>4 DEF Truthful
<1>10. CASE \E t \in Threads : StopByProject(t)
  <2> SUFFICES ASSUME NEW t \in Threads, StopByProject(t) PROVE Truthful'
    BY <1>10
  <2>1. Mirrored'
    BY DEF StopByProject, Truthful, Mirrored
  <2>2. RecordedRuns'
    <3> SUFFICES ASSUME NEW i \in Ids, Watched(i)', Lone(i)', Recorded(i)' = "running"
                 PROVE  i \in live' \/ \E s \in Threads : pc'[s] = "taken_down" /\ held'[s] = i
      BY DEF RecordedRuns
    <3>1. /\ Recorded(i) = "running" /\ Lone(i) /\ i \notin missed \cup exited
          /\ made[i] # NoWant
      BY DEF StopByProject, Saved, Recorded, IInv, Fresh
    <3>2. CASE i \in known /\ made[i].project = want[t].project
      <4>1. want[t] # NoWant /\ pc[t] = "deploy" /\ todo[t] = {}
        BY DEF StopByProject, IInv, TypeOK, InHand
      <4> QED BY <3>1, <3>2, <4>1 DEF Truthful, InTheWay
    <3>3. CASE ~(i \in known /\ made[i].project = want[t].project)
      <4>1. i \in live' <=> i \in live
        BY <3>3 DEF StopByProject, Remove
      <4>2. i \notin stray
        BY <3>3 DEF StopByProject, Remove
      <4> QED BY <3>1, <4>1, <4>2 DEF StopByProject, Truthful, RecordedRuns, IInv, TypeOK
    <3> QED BY <3>2, <3>3
  <2>3. RunsRecorded'
    <3> SUFFICES ASSUME NEW i \in (live' \ stray') \ missed'
                 PROVE  Recorded(i)' = "running" \/ \E s \in Threads : pc'[s] = "running" /\ held'[s] = i
      BY DEF RunsRecorded
    <3>1. i \in (live \ stray) \ missed
      BY DEF StopByProject, Remove
    <3>2. CASE Recorded(i) = "running"
      BY <3>1, <3>2 DEF StopByProject, Saved, Recorded
    <3>3. ASSUME NEW s \in Threads, pc[s] = "running", held[s] = i
          PROVE  pc'[s] = "running" /\ held'[s] = i
      BY <3>3 DEF StopByProject, Remove, IInv, TypeOK
    <3> QED BY <3>1, <3>2, <3>3 DEF Truthful, RunsRecorded
  <2>4. InTheWay'
    BY DEF StopByProject, Saved, Recorded, Truthful, InTheWay
  <2> QED BY <2>1, <2>2, <2>3, <2>4 DEF Truthful
<1>11. CASE \E t \in Threads : RunContainer(t)
  <2> SUFFICES ASSUME NEW t \in Threads, RunContainer(t) PROVE Truthful'
    BY <1>11
  <2>1. Mirrored'
    BY DEF RunContainer, Make, Truthful, Mirrored
  <2>2. RecordedRuns'
    BY DEF RunContainer, Make, Saved, Recorded, IInv, TypeOK, Fresh, Truthful, RecordedRuns
  <2>3. RunsRecorded'
    <3> SUFFICES ASSUME NEW i \in (live' \ stray') \ missed'
                 PROVE  Recorded(i)' = "running" \/ \E s \in Threads : pc'[s] = "running" /\ held'[s] = i
      BY DEF RunsRecorded
    <3>0. Recorded(i)' = Recorded(i)
      BY DEF RunContainer, Make, Recorded, Saved
    <3>1. CASE i = held'[t]
      BY <3>1 DEF RunContainer, Make, IInv, TypeOK
    <3>2. CASE i # held'[t]
      <4>1. i \in (live \ stray) \ missed /\ pc[t] # "running"
        BY <3>2 DEF RunContainer, Make, IInv, TypeOK
      <4>2. ASSUME NEW s \in Threads, pc[s] = "running", held[s] = i
            PROVE  pc'[s] = "running" /\ held'[s] = i
        BY <4>1, <4>2 DEF RunContainer, Make, IInv, TypeOK
      <4> QED BY <3>0, <4>1, <4>2 DEF Truthful, RunsRecorded
    <3> QED BY <3>1, <3>2
  <2>4. InTheWay'
    BY DEF RunContainer, Make, Saved, Recorded, IInv, Fresh, Truthful, InTheWay
  <2> QED BY <2>1, <2>2, <2>3, <2>4 DEF Truthful
<1>12. CASE \E t \in Threads : DeployFails(t)
  <2> SUFFICES ASSUME NEW t \in Threads, DeployFails(t) PROVE Truthful'
    BY <1>12
  <2>1. Mirrored'
    BY DEF DeployFails, Make, Truthful, Mirrored
  <2>2. RecordedRuns'
    BY DEF DeployFails, Make, Saved, Recorded, IInv, TypeOK, Fresh, Truthful, RecordedRuns
  <2>3. RunsRecorded'
    <3> SUFFICES ASSUME NEW i \in (live' \ stray') \ missed'
                 PROVE  Recorded(i)' = "running" \/ \E s \in Threads : pc'[s] = "running" /\ held'[s] = i
      BY DEF RunsRecorded
    <3>0. Recorded(i)' = Recorded(i) /\ i \in (live \ stray) \ missed /\ pc[t] # "running"
      BY DEF DeployFails, Make, Recorded, Saved
    <3>1. ASSUME NEW s \in Threads, pc[s] = "running", held[s] = i
          PROVE  pc'[s] = "running" /\ held'[s] = i
      BY <3>0, <3>1 DEF DeployFails, Make, IInv, TypeOK
    <3> QED BY <3>0, <3>1 DEF Truthful, RunsRecorded
  <2>4. InTheWay'
    BY DEF DeployFails, Make, Saved, Recorded, IInv, Fresh, Truthful, InTheWay
  <2> QED BY <2>1, <2>2, <2>3, <2>4 DEF Truthful
<1>13. CASE \E t \in Threads : Remember(t)
  <2> SUFFICES ASSUME NEW t \in Threads, Remember(t) PROVE Truthful'
    BY <1>13
  <2>1. Mirrored'
    BY DEF Remember, IInv, TypeOK, Truthful, Mirrored
  <2>2. RecordedRuns'
    BY DEF Remember, Saved, Recorded, IInv, TypeOK, InHand, Truthful, RecordedRuns
  <2>3. RunsRecorded'
    <3> SUFFICES ASSUME NEW i \in (live' \ stray') \ missed'
                 PROVE  Recorded(i)' = "running" \/ \E s \in Threads : pc'[s] = "running" /\ held'[s] = i
      BY DEF RunsRecorded
    <3>0. i \in (live \ stray) \ missed
      BY DEF Remember
    <3>1. CASE i = held[t]
      BY <3>0, <3>1 DEF Remember, Recorded, Saved, InHand, IInv, TypeOK
    <3>2. CASE i # held[t]
      <4>1. Recorded(i)' = Recorded(i)
        BY <3>2 DEF Remember, Recorded, Saved, IInv, TypeOK
      <4>2. ASSUME NEW s \in Threads, pc[s] = "running", held[s] = i
            PROVE  pc'[s] = "running" /\ held'[s] = i
        BY <3>2, <4>2 DEF Remember, IInv, TypeOK
      <4> QED BY <3>0, <4>1, <4>2 DEF Truthful, RunsRecorded
    <3> QED BY <3>1, <3>2
  <2>4. InTheWay'
    <3>1. ASSUME NEW s \in Threads, s # t, want[s] # NoWant, want[s].project = want[t].project
          PROVE  peak[want[s].project] > 1
      BY <3>1, Overlap DEF Remember, IInv, TypeOK
    <3> SUFFICES ASSUME NEW s \in Threads, NEW i \in Ids, want[s] # NoWant,
                        pc'[s] \in {"stop", "found", "taken_down", "save_stop", "deploy", "run"},
                        Recorded(i)' = "running", made[i].project = want[s].project,
                        peak[want[s].project] <= 1
                 PROVE  i \in todo'[s] \/ (pc'[s] \in {"found", "taken_down"} /\ held'[s] = i)
      BY DEF InTheWay, Remember
    <3>2. s # t /\ pc[s] = pc'[s] /\ todo'[s] = todo[s] /\ held'[s] = held[s]
      BY DEF Remember, IInv, TypeOK
    <3>3. peak[want[s].project] \in Nat
      BY DEF IInv, TypeOK, Wants
    <3>4. CASE i = held[t] /\ pc[t] = "running"
      BY <3>1, <3>2, <3>3, <3>4 DEF InHand
    <3>5. CASE i = held[t] /\ pc[t] = "not_running"
      BY <3>5 DEF Remember, Saved, Recorded, IInv, TypeOK
    <3>6. CASE i # held[t]
      BY <3>2, <3>6 DEF Remember, Saved, Recorded, IInv, TypeOK, Truthful, InTheWay
    <3> QED BY <3>4, <3>5, <3>6 DEF Remember
  <2> QED BY <2>1, <2>2, <2>3, <2>4 DEF Truthful
<1>14. CASE \E t \in Threads : SaveNew(t)
  <2> SUFFICES ASSUME NEW t \in Threads, SaveNew(t) PROVE Truthful'
    BY <1>14
  <2>1. Mirrored'
    BY DEF SaveNew, Finish, Saved, Truthful, Mirrored
  <2>2. RecordedRuns'
    BY DEF SaveNew, Finish, Saved, Recorded, Truthful, RecordedRuns
  <2>3. RunsRecorded'
    BY DEF SaveNew, Finish, Saved, Recorded, Truthful, RunsRecorded
  <2>4. InTheWay'
    BY DEF SaveNew, Finish, Saved, Recorded, Truthful, InTheWay
  <2> QED BY <2>1, <2>2, <2>3, <2>4 DEF Truthful
<1>15. CASE \E t \in Threads : SaveFails(t)
  <2> SUFFICES ASSUME NEW t \in Threads, SaveFails(t) PROVE Truthful'
    BY <1>15
  <2>1. Mirrored'
    BY DEF SaveFails
  <2>2. RecordedRuns'
    BY DEF SaveFails
  <2>3. RunsRecorded'
    BY DEF SaveFails
  <2>4. InTheWay'
    BY DEF SaveFails
  <2> QED BY <2>1, <2>2, <2>3, <2>4 DEF Truthful
<1>16. CASE Restart
  <2>1. /\ \A s \in Threads : pc[s] = "idle" /\ pc'[s] = "idle" /\ want'[s] = NoWant
        /\ detached' = {} /\ store' = store /\ stray' = live /\ live' = live
        /\ UNCHANGED <<made, missed, exited, peak>>
        /\ cache' = store \/ cache' = [i \in Ids |-> "none"]
    BY <1>16 DEF Restart
  <2>2. \A i \in Ids : Recorded(i) = store[i] /\ Recorded(i)' = store[i]
    BY <2>1 DEF Saved, Recorded, Truthful, Mirrored
  <2>3. Mirrored'
    BY <2>1 DEF Mirrored
  <2>4. RecordedRuns'
    BY <2>1, <2>2 DEF Truthful, RecordedRuns, InHand
  <2>5. RunsRecorded' /\ InTheWay'
    BY <2>1 DEF RunsRecorded, InTheWay
  <2> QED BY <2>3, <2>4, <2>5 DEF Truthful
<1>17. CASE UNCHANGED vars
  BY <1>17 DEF vars, Saved, Recorded, Truthful, Mirrored, RecordedRuns, RunsRecorded, InTheWay
<1>18. CASE \E t \in Threads : Lookup(t)
  <2> SUFFICES ASSUME NEW t \in Threads, Lookup(t) PROVE Truthful'
    BY <1>18
  <2>1. Mirrored'
    BY DEF Lookup, IInv, TypeOK, Truthful, Mirrored
  <2>2. RecordedRuns'
    BY DEF Lookup, Saved, Recorded, IInv, TypeOK, Truthful, RecordedRuns
  <2>3. RunsRecorded'
    <3> SUFFICES ASSUME NEW i \in (live' \ stray') \ missed'
                 PROVE  Recorded(i)' = "running" \/ \E s \in Threads : pc'[s] = "running" /\ held'[s] = i
      BY DEF RunsRecorded
    <3>1. i \in (live \ stray) \ missed
      BY DEF Lookup
    <3>2. CASE Recorded(i) = "running"
      BY <3>1, <3>2 DEF Lookup, Saved, Recorded
    <3>3. ASSUME NEW s \in Threads, pc[s] = "running", held[s] = i
          PROVE  pc'[s] = "running" /\ held'[s] = i
      BY <3>3 DEF Lookup, IInv, TypeOK
    <3> QED BY <3>1, <3>2, <3>3 DEF Truthful, RunsRecorded
  <2>4. InTheWay'
    BY DEF Lookup, Saved, Recorded, IInv, TypeOK, Truthful, Mirrored, InTheWay
  <2> QED BY <2>1, <2>2, <2>3, <2>4 DEF Truthful
<1>19. CASE \E t \in Threads : TakeDownMisses(t)
  <2> SUFFICES ASSUME NEW t \in Threads, TakeDownMisses(t) PROVE Truthful'
    BY <1>19
  <2>1. Mirrored'
    BY DEF TakeDownMisses, IInv, TypeOK, Truthful, Mirrored
  <2>2. RecordedRuns'
    BY DEF TakeDownMisses, Saved, Recorded, IInv, TypeOK, Truthful, RecordedRuns
  <2>3. RunsRecorded'
    <3> SUFFICES ASSUME NEW i \in (live' \ stray') \ missed'
                 PROVE  Recorded(i)' = "running" \/ \E s \in Threads : pc'[s] = "running" /\ held'[s] = i
      BY DEF RunsRecorded
    <3>1. i \in (live \ stray) \ missed
      BY DEF TakeDownMisses
    <3>2. CASE Recorded(i) = "running"
      BY <3>1, <3>2 DEF TakeDownMisses, Saved, Recorded
    <3>3. ASSUME NEW s \in Threads, pc[s] = "running", held[s] = i
          PROVE  pc'[s] = "running" /\ held'[s] = i
      BY <3>3 DEF TakeDownMisses, IInv, TypeOK
    <3> QED BY <3>1, <3>2, <3>3 DEF Truthful, RunsRecorded
  <2>4. InTheWay'
    BY DEF TakeDownMisses, Saved, Recorded, IInv, TypeOK, Truthful, InTheWay
  <2> QED BY <2>1, <2>2, <2>3, <2>4 DEF Truthful
<1>20. CASE \E i \in Ids : Exits(i)
  <2> SUFFICES ASSUME NEW i \in Ids, Exits(i) PROVE Truthful'
    BY <1>20
  <2>1. Mirrored'
    BY DEF Exits, Truthful, Mirrored
  <2>2. RecordedRuns'
    BY DEF Exits, Saved, Recorded, Truthful, RecordedRuns
  <2>3. RunsRecorded'
    BY DEF Exits, Saved, Recorded, Truthful, RunsRecorded
  <2>4. InTheWay'
    BY DEF Exits, Saved, Recorded, Truthful, InTheWay
  <2> QED BY <2>1, <2>2, <2>3, <2>4 DEF Truthful
<1> QED BY <1>1, <1>2, <1>3, <1>4, <1>5, <1>6, <1>7, <1>8, <1>9, <1>10, <1>11, <1>12, <1>13, <1>14,
           <1>15, <1>16, <1>17, <1>18, <1>19, <1>20 DEF Next, Request, Serve

\* An unsaved change that was cut off is never forgotten.
LEMMA CutStep ==
  ASSUME [Next]_vars, disturbed
  PROVE  disturbed'
BY DEF Next, Request, Serve, StartRequest, StopRequest, Diagnose, ReadConflicts, Lookup,
   TakeDown, TakeDownMisses, MarkStopped, SaveStopped, AllStopped, Refuse, StopByProject, RunContainer,
   DeployFails, Make, Remember, SaveNew, SaveFails, Exits, Restart, vars

\* For every project whose starts have not overlapped the rows and the containers
\* agree whenever no request is under way, however stops, diagnoses and the starts
\* of other projects were interleaved, as long as no unsaved change was cut off.
THEOREM RowsAreTrue == Spec => []RegistryTruth
<1>1. Init => TruthInv
  BY HostingAssumption DEF Init, TruthInv, InHand, Truthful, Mirrored, RecordedRuns, RunsRecorded,
     InTheWay, Recorded, Saved, Reach
<1>2. IInv /\ TruthInv /\ [Next]_vars => TruthInv'
  <2> SUFFICES ASSUME IInv, TruthInv, [Next]_vars PROVE TruthInv'
    OBVIOUS
  <2>1. InHand'
    BY InHandStep DEF IInv, TruthInv
  <2>2. ASSUME ~disturbed' PROVE Truthful'
    <3>1. Truthful
      BY <2>2, CutStep DEF TruthInv
    <3> QED BY <2>2, <3>1, TruthStep DEF TruthInv
  <2> QED BY <2>1, <2>2 DEF TruthInv
<1>3. IInv /\ TruthInv => RegistryTruth
  <2> SUFFICES ASSUME IInv, TruthInv, ~disturbed, \A t \in Threads : pc[t] = "idle",
                      NEW i \in Ids, Watched(i), Lone(i)
               PROVE  store[i] = "running" <=> i \in live
    BY DEF RegistryTruth
  <2>1. Recorded(i) = store[i]
    BY DEF TruthInv, Truthful, Mirrored, Recorded, Saved
  <2> QED BY <2>1 DEF TruthInv, Truthful, RecordedRuns, RunsRecorded, Watched, Reach
<1> QED BY Inductive, <1>1, <1>2, <1>3, PTL DEF Spec

-----------------------------------------------------------------------------
(* Starts that do not overlap.                                               *)

LEMMA ApartStep ==
  ASSUME IInv, InHand, StartsApart, StartsApart', Faults \subseteq {"rm", "run", "exit"},
         ApartInv, [Next]_vars
  PROVE  ApartInv'
<1> USE HostingAssumption DEF PC, Statuses, Goto, requests, docker, Reach
<1>1. CASE \E t \in Threads, w \in Wants : StartRequest(t, w)
  <2> SUFFICES ASSUME NEW t \in Threads, NEW w \in Wants, StartRequest(t, w) PROVE ApartInv'
    BY <1>1
  <2>1. RunsStored'
    BY DEF StartRequest, ApartInv, RunsStored
  <2>2. StopsFirst'
    BY DEF StartRequest, ApartInv, StopsFirst
  <2>3. OneInstance'
    BY DEF StartRequest, ApartInv, OneInstance
  <2>4. missed' = {}
    BY DEF StartRequest, ApartInv
  <2> QED BY <2>1, <2>2, <2>3, <2>4 DEF ApartInv
<1>2. CASE \E t \in Threads, i \in Ids : StopRequest(t, i)
  <2> SUFFICES ASSUME NEW t \in Threads, NEW i \in Ids, StopRequest(t, i) PROVE ApartInv'
    BY <1>2
  <2>1. RunsStored'
    BY DEF StopRequest, ApartInv, RunsStored
  <2>2. StopsFirst'
    BY DEF StopRequest, IInv, TypeOK, ApartInv, StopsFirst
  <2>3. OneInstance'
    BY DEF StopRequest, ApartInv, OneInstance
  <2>4. missed' = {}
    BY DEF StopRequest, ApartInv
  <2> QED BY <2>1, <2>2, <2>3, <2>4 DEF ApartInv
<1>3. CASE \E t \in Threads : Diagnose(t)
  <2> SUFFICES ASSUME NEW t \in Threads, Diagnose(t) PROVE ApartInv'
    BY <1>3
  <2>1. RunsStored'
    BY DEF Diagnose, Saved, IInv, TypeOK, ApartInv, RunsStored
  <2>2. StopsFirst'
    BY DEF Diagnose, ApartInv, StopsFirst
  <2>3. OneInstance'
    BY DEF Diagnose, ApartInv, OneInstance
  <2>4. missed' = {}
    BY DEF Diagnose, ApartInv
  <2> QED BY <2>1, <2>2, <2>3, <2>4 DEF ApartInv
<1>4. CASE \E t \in Threads : ReadConflicts(t)
  <2> SUFFICES ASSUME NEW t \in Threads, ReadConflicts(t) PROVE ApartInv'
    BY <1>4
  <2>1. RunsStored'
    BY DEF ReadConflicts, IInv, TypeOK, StartsApart, ApartInv, RunsStored
  <2>2. StopsFirst'
    BY DEF ReadConflicts, IInv, TypeOK, StartsApart, ApartInv, RunsStored, StopsFirst
  <2>3. OneInstance'
    BY DEF ReadConflicts, ApartInv, OneInstance
  <2>4. missed' = {}
    BY DEF ReadConflicts, ApartInv
  <2> QED BY <2>1, <2>2, <2>3, <2>4 DEF ApartInv
<1>5. CASE \E t \in Threads : TakeDown(t)
  <2> SUFFICES ASSUME NEW t \in Threads, TakeDown(t) PROVE ApartInv'
    BY <1>5
  <2>1. RunsStored'
    BY DEF TakeDown, Remove, IInv, TypeOK, ApartInv, RunsStored
  <2>2. StopsFirst'
    BY DEF TakeDown, Remove, IInv, TypeOK, DriverKnows, ApartInv, StopsFirst
  <2>3. OneInstance'
    BY DEF TakeDown, Remove, ApartInv, OneInstance
  <2>4. missed' = {}
    BY DEF TakeDown, ApartInv
  <2> QED BY <2>1, <2>2, <2>3, <2>4 DEF ApartInv
<1>6. CASE \E t \in Threads : MarkStopped(t)
  <2> SUFFICES ASSUME NEW t \in Threads, MarkStopped(t) PROVE ApartInv'
    BY <1>6
  <2>1. RunsStored'
    BY DEF MarkStopped, IInv, TypeOK, Stops, ApartInv, RunsStored
  <2>2. StopsFirst'
    BY DEF MarkStopped, ApartInv, StopsFirst
  <2>3. OneInstance'
    BY DEF MarkStopped, ApartInv, OneInstance
  <2>4. missed' = {}
    BY DEF MarkStopped, ApartInv
  <2> QED BY <2>1, <2>2, <2>3, <2>4 DEF ApartInv
<1>7. CASE \E t \in Threads : SaveStopped(t)
  <2> SUFFICES ASSUME NEW t \in Threads, SaveStopped(t) PROVE ApartInv'
    BY <1>7
  <2>1. RunsStored'
    BY DEF SaveStopped, Saved, IInv, TypeOK, ApartInv, RunsStored
  <2>2. StopsFirst'
    BY DEF SaveStopped, ApartInv, StopsFirst
  <2>3. OneInstance'
    BY DEF SaveStopped, ApartInv, OneInstance
  <2>4. missed' = {}
    BY DEF SaveStopped, ApartInv
  <2> QED BY <2>1, <2>2, <2>3, <2>4 DEF ApartInv
<1>8. CASE \E t \in Threads : AllStopped(t)
  <2> SUFFICES ASSUME NEW t \in Threads, AllStopped(t) PROVE ApartInv'
    BY <1>8
  <2>1. RunsStored'
    BY DEF AllStopped, Finish, IInv, TypeOK, ApartInv, RunsStored
  <2>2. StopsFirst'
    BY DEF AllStopped, Finish, IInv, TypeOK, ApartInv, StopsFirst
  <2>3. OneInstance'
    BY DEF AllStopped, ApartInv, OneInstance
  <2>4. missed' = {}
    BY DEF AllStopped, ApartInv
  <2> QED BY <2>1, <2>2, <2>3, <2>4 DEF ApartInv
<1>9. CASE \E t \in Threads : Refuse(t)
  <2> SUFFICES ASSUME NEW t \in Threads, Refuse(t) PROVE ApartInv'
    BY <1>9
  <2>1. RunsStored'
    BY DEF Refuse, Finish, ApartInv, RunsStored
  <2>2. StopsFirst'
    BY DEF Refuse, Finish, InHand, ApartInv, StopsFirst
  <2>3. OneInstance'
    BY DEF Refuse, ApartInv, OneInstance
  <2>4. missed' = {}
    BY DEF Refuse, ApartInv
  <2> QED BY <2>1, <2>2, <2>3, <2>4 DEF ApartInv
<1>10. CASE \E t \in Threads : StopByProject(t)
  <2> SUFFICES ASSUME NEW t \in Threads, StopByProject(t) PROVE ApartInv'
    BY <1>10
  <2>1. RunsStored'
    BY DEF StopByProject, Remove, ApartInv, RunsStored
  <2>2. StopsFirst'
    BY DEF StopByProject, Remove, ApartInv, StopsFirst
  <2>3. OneInstance'
    BY DEF StopByProject, Remove, ApartInv, OneInstance
  <2>4. missed' = {}
    BY DEF StopByProject, ApartInv
  <2> QED BY <2>1, <2>2, <2>3, <2>4 DEF ApartInv
<1>11. CASE \E t \in Threads : RunContainer(t)
  <2> SUFFICES ASSUME NEW t \in Threads, RunContainer(t) PROVE ApartInv'
    BY <1>11
  <2>1. RunsStored'
    <3> SUFFICES ASSUME NEW i \in live' \ stray'
                 PROVE  /\ cache[i] \in {"none", "running"}
                        /\ \/ store[i] = "running"
                           \/ \E s \in Threads :
                                /\ held'[s] = i
                                /\ pc'[s] = "running" \/ (pc'[s] = "save_new" /\ cache[i] = "running")
      BY DEF RunsStored, RunContainer, Make
    <3>1. CASE i = held'[t]
      BY <3>1 DEF RunContainer, Make, Fresh, IInv, TypeOK
    <3>2. CASE i # held'[t]
      <4>1. i \in live \ stray /\ pc[t] = "run"
        BY <3>2 DEF RunContainer, Make, IInv, TypeOK
      <4>2. ASSUME NEW s \in Threads, held[s] = i, pc[s] \in {"running", "save_new"}
            PROVE  pc'[s] = pc[s] /\ held'[s] = i
        BY <4>1, <4>2 DEF RunContainer, Make, IInv, TypeOK
      <4> QED BY <4>1, <4>2 DEF ApartInv, RunsStored
    <3> QED BY <3>1, <3>2
  <2>2. StopsFirst'
    BY DEF RunContainer, Make, IInv, TypeOK, StartsApart, StopsFirst
  <2>3. OneInstance'
    BY DEF RunContainer, Make, Conflict, IInv, TypeOK, InHand, ApartInv, StopsFirst, OneInstance
  <2>4. missed' = {}
    BY DEF RunContainer, ApartInv
  <2> QED BY <2>1, <2>2, <2>3, <2>4 DEF ApartInv
<1>12. CASE \E t \in Threads : DeployFails(t)
  <2> SUFFICES ASSUME NEW t \in Threads, DeployFails(t) PROVE ApartInv'
    BY <1>12
  <2>1. RunsStored'
    BY DEF DeployFails, Make, ApartInv, RunsStored
  <2>2. StopsFirst'
    BY DEF DeployFails, Make, IInv, TypeOK, StartsApart, StopsFirst
  <2>3. OneInstance'
    BY DEF DeployFails, Make, Conflict, InHand, ApartInv, StopsFirst, OneInstance
  <2>4. missed' = {}
    BY DEF DeployFails, ApartInv
  <2> QED BY <2>1, <2>2, <2>3, <2>4 DEF ApartInv
<1>13. CASE \E t \in Threads : Remember(t)
  <2> SUFFICES ASSUME NEW t \in Threads, Remember(t) PROVE ApartInv'
    BY <1>13
  <2>1. RunsStored'
    BY DEF Remember, IInv, TypeOK, Fresh, ApartInv, RunsStored
  <2>2. StopsFirst'
    BY DEF Remember, ApartInv, StopsFirst
  <2>3. OneInstance'
    BY DEF Remember, ApartInv, OneInstance
  <2>4. missed' = {}
    BY DEF Remember, ApartInv
  <2> QED BY <2>1, <2>2, <2>3, <2>4 DEF ApartInv
<1>14. CASE \E t \in Threads : SaveNew(t)
  <2> SUFFICES ASSUME NEW t \in Threads, SaveNew(t) PROVE ApartInv'
    BY <1>14
  <2>1. RunsStored'
    BY DEF SaveNew, Finish, Saved, IInv, TypeOK, ApartInv, RunsStored
  <2>2. StopsFirst'
    BY DEF SaveNew, Finish, ApartInv, StopsFirst
  <2>3. OneInstance'
    BY DEF SaveNew, ApartInv, OneInstance
  <2>4. missed' = {}
    BY DEF SaveNew, ApartInv
  <2> QED BY <2>1, <2>2, <2>3, <2>4 DEF ApartInv
<1>15. CASE \E t \in Threads : SaveFails(t)
  <2> SUFFICES ASSUME NEW t \in Threads, SaveFails(t) PROVE ApartInv'
    BY <1>15
  <2>1. RunsStored'
    BY DEF SaveFails
  <2>2. StopsFirst'
    BY DEF SaveFails
  <2>3. OneInstance'
    BY DEF SaveFails
  <2>4. missed' = {}
    BY DEF SaveFails, ApartInv
  <2> QED BY <2>1, <2>2, <2>3, <2>4 DEF ApartInv
<1>16. CASE Restart
  BY <1>16 DEF Restart, ApartInv, RunsStored, StopsFirst, OneInstance
<1>17. CASE UNCHANGED vars
  BY <1>17 DEF vars, ApartInv, RunsStored, StopsFirst, OneInstance
<1>18. CASE \E t \in Threads : Lookup(t)
  <2> SUFFICES ASSUME NEW t \in Threads, Lookup(t) PROVE ApartInv'
    BY <1>18
  <2>1. RunsStored'
    BY DEF Lookup, IInv, TypeOK, ApartInv, RunsStored
  <2>2. StopsFirst'
    BY DEF Lookup, IInv, TypeOK, ApartInv, StopsFirst
  <2>3. OneInstance'
    BY DEF Lookup, ApartInv, OneInstance
  <2>4. missed' = {}
    BY DEF Lookup, ApartInv
  <2> QED BY <2>1, <2>2, <2>3, <2>4 DEF ApartInv
<1>19. CASE \E t \in Threads : TakeDownMisses(t)
  BY <1>19 DEF TakeDownMisses
<1>20. CASE \E i \in Ids : Exits(i)
  <2> SUFFICES ASSUME NEW i \in Ids, Exits(i) PROVE ApartInv'
    BY <1>20
  <2>1. RunsStored'
    BY DEF Exits, ApartInv, RunsStored
  <2>2. StopsFirst'
    BY DEF Exits, ApartInv, StopsFirst
  <2>3. OneInstance'
    BY DEF Exits, ApartInv, OneInstance
  <2>4. missed' = {}
    BY DEF Exits, ApartInv
  <2> QED BY <2>1, <2>2, <2>3, <2>4 DEF ApartInv
<1> QED BY <1>1, <1>2, <1>3, <1>4, <1>5, <1>6, <1>7, <1>8, <1>9, <1>10, <1>11, <1>12, <1>13, <1>14,
           <1>15, <1>16, <1>17, <1>18, <1>19, <1>20 DEF Next, Request, Serve

\* What the comment at service.py:291 promises needs starts that do not overlap:
\* then, with no load or save failing and docker answering, of the containers this
\* process started and docker did not keep there is one per project and per token,
\* however stops and diagnoses of other threads fall.  Nothing is said of what an
\* earlier process left running: a restart makes every container one of those.
THEOREM ApartOneInstance ==
  ASSUME Faults \subseteq {"rm", "run", "exit"}
  PROVE  Spec /\ []StartsApart => []OneInstance
<1>1. Init => InHand /\ ApartInv
  BY HostingAssumption DEF Init, InHand, ApartInv, RunsStored, StopsFirst, OneInstance, Reach
<1>2. IInv /\ InHand /\ [Next]_vars => InHand'
  BY InHandStep DEF IInv
<1>3. IInv /\ InHand /\ ApartInv /\ StartsApart /\ StartsApart' /\ [Next]_vars => ApartInv'
  BY ApartStep
<1>4. ApartInv => OneInstance
  BY DEF ApartInv
<1> QED BY Inductive, <1>1, <1>2, <1>3, <1>4, PTL DEF Spec
=============================================================================
