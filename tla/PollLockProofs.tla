--------------------------- MODULE PollLockProofs ---------------------------
(* Proofs about the lock file: while starts and exits do not cross, at most  *)
(* one process polls, for any number of processes and deaths at any step.    *)
EXTENDS PollLock, FiniteSetTheorems, TLAPS

\* A process has the file open, and its flock, exactly in these parts of a start.
HandleInv ==
  /\ \A p \in Procs : fh[p] # NoInode <=> pc[p] \in {"flock", "truncated", "polling"}
  /\ \A p \in Procs : p \in locked <=> pc[p] \in {"truncated", "polling"}

\* One process at a time starts or exits; the file it has locked is the one the
\* path leads to, and while another process polls from that file and is named
\* in it, a start finds it neither stale nor free.
SoloInv == ~crossed =>
  /\ \A p, q \in Procs : pc[p] \in Changing /\ pc[q] \in Changing => p = q
  /\ \A p \in Procs : pc[p] \in {"flock", "truncated"} => path = fh[p]
  /\ \A q \in Procs : pc[q] = "polling" =>
       /\ path = fh[q] /\ text[path] = q
       /\ \A p \in Procs \ {q} :
            pc[p] \notin {"stale", "busy_stale", "truncated", "polling", "unlinking"}

LockInv == TypeOK /\ HandleInv /\ SoloInv

-----------------------------------------------------------------------------
\* There is always an inode to create a file with.
LEMMA FreeInode ==
  ASSUME TypeOK, path = NoInode
  PROVE  NewInode \in Inodes
<1> SUFFICES ASSUME \A i \in Inodes : i \in Used PROVE FALSE
  BY DEF NewInode
<1> DEFINE f == [i \in Inodes |-> CHOOSE q \in Procs : fh[q] = i]
<1>1. \A i \in Inodes : \E q \in Procs : fh[q] = i
  BY FilesAssumption DEF Used
<1>2. \A i \in Inodes : f[i] \in Procs /\ fh[f[i]] = i
  BY <1>1
<1>3. f \in [Inodes -> Procs]
  BY <1>2
<1> HIDE DEF f
<1>4. Cardinality(Procs) < Cardinality(Inodes)
  BY FilesAssumption, FS_CardinalityType
<1>5. PICK x, y \in Inodes : x # y /\ f[x] = f[y]
  BY <1>3, <1>4, FilesAssumption, FS_PigeonHole
<1> QED
  BY <1>2, <1>5

\* Types: only the choice of a new inode needs an argument.
LEMMA TypeStep ==
  ASSUME TypeOK, HandleInv, [Next]_vars
  PROVE  TypeOK'
<1> USE FilesAssumption DEF Goto, TypeOK, Starting, Changing
<1>1. ASSUME NEW p \in Procs, Start(p) PROVE TypeOK'
  BY <1>1 DEF Start, Enters, HandleInv
<1>2. ASSUME NEW p \in Procs, CheckExists(p) PROVE TypeOK'
  BY <1>2 DEF CheckExists, HandleInv
<1>3. ASSUME NEW p \in Procs, ReadPid(p) PROVE TypeOK'
  BY <1>3 DEF ReadPid, Stale, Alive, HandleInv
<1>4. ASSUME NEW p \in Procs, Unlink(p) PROVE TypeOK'
  BY <1>4 DEF Unlink, HandleInv
<1>5. ASSUME NEW p \in Procs, Open(p) PROVE TypeOK'
  BY <1>5, FreeInode DEF Open, HandleInv
<1>6. ASSUME NEW p \in Procs, Flock(p) PROVE TypeOK'
  BY <1>6 DEF Flock, HandleInv
<1>7. ASSUME NEW p \in Procs, WritePid(p) PROVE TypeOK'
  BY <1>7 DEF WritePid, HandleInv
<1>8. ASSUME NEW p \in Procs, Wait(p) PROVE TypeOK'
  BY <1>8 DEF Wait, Ends, HandleInv, Alive
<1>9. ASSUME NEW p \in Procs, Release(p) PROVE TypeOK'
  BY <1>9 DEF Release, Enters, HandleInv
<1>10. ASSUME NEW p \in Procs, ReleaseUnlinks(p) PROVE TypeOK'
  BY <1>10 DEF ReleaseUnlinks, Ends, Alive, HandleInv
<1>11. ASSUME NEW p \in Procs, Kill(p) PROVE TypeOK'
  BY <1>11 DEF Kill, Ends, Alive, HandleInv
<1>13. ASSUME NEW p \in Procs, WriteFails(p) PROVE TypeOK'
  BY <1>13 DEF WriteFails, Unwritten, HandleInv
<1>14. ASSUME NEW p \in Procs, WriteGivesUp(p) PROVE TypeOK'
  BY <1>14 DEF WriteGivesUp, Unwritten, Ends, Alive, HandleInv
<1>12. CASE UNCHANGED vars
  BY <1>12 DEF vars, HandleInv
<1> QED
  BY <1>1, <1>2, <1>3, <1>4, <1>5, <1>6, <1>7, <1>8, <1>9, <1>10, <1>11, <1>12, <1>13,
     <1>14 DEF Next, Acquire

\* Handles are opened, locked and closed where the code does it.
LEMMA HandleStep ==
  ASSUME TypeOK, HandleInv, [Next]_vars
  PROVE  HandleInv'
<1> USE FilesAssumption DEF Goto, TypeOK, Starting, Changing
<1>1. ASSUME NEW p \in Procs, Start(p) PROVE HandleInv'
  BY <1>1 DEF Start, Enters, HandleInv
<1>2. ASSUME NEW p \in Procs, CheckExists(p) PROVE HandleInv'
  BY <1>2 DEF CheckExists, HandleInv
<1>3. ASSUME NEW p \in Procs, ReadPid(p) PROVE HandleInv'
  BY <1>3 DEF ReadPid, Stale, Alive, HandleInv
<1>4. ASSUME NEW p \in Procs, Unlink(p) PROVE HandleInv'
  BY <1>4 DEF Unlink, HandleInv
<1>5. ASSUME NEW p \in Procs, Open(p) PROVE HandleInv'
  BY <1>5, FreeInode DEF Open, HandleInv
<1>6. ASSUME NEW p \in Procs, Flock(p) PROVE HandleInv'
  BY <1>6 DEF Flock, HandleInv
<1>7. ASSUME NEW p \in Procs, WritePid(p) PROVE HandleInv'
  BY <1>7 DEF WritePid, HandleInv
<1>8. ASSUME NEW p \in Procs, Wait(p) PROVE HandleInv'
  BY <1>8 DEF Wait, Ends, HandleInv, Alive
<1>9. ASSUME NEW p \in Procs, Release(p) PROVE HandleInv'
  BY <1>9 DEF Release, Enters, HandleInv
<1>10. ASSUME NEW p \in Procs, ReleaseUnlinks(p) PROVE HandleInv'
  BY <1>10 DEF ReleaseUnlinks, Ends, Alive, HandleInv
<1>11. ASSUME NEW p \in Procs, Kill(p) PROVE HandleInv'
  BY <1>11 DEF Kill, Ends, Alive, HandleInv
<1>13. ASSUME NEW p \in Procs, WriteFails(p) PROVE HandleInv'
  BY <1>13 DEF WriteFails, Unwritten, HandleInv
<1>14. ASSUME NEW p \in Procs, WriteGivesUp(p) PROVE HandleInv'
  BY <1>14 DEF WriteGivesUp, Unwritten, Ends, Alive, HandleInv
<1>12. CASE UNCHANGED vars
  BY <1>12 DEF vars, HandleInv
<1> QED
  BY <1>1, <1>2, <1>3, <1>4, <1>5, <1>6, <1>7, <1>8, <1>9, <1>10, <1>11, <1>12, <1>13,
     <1>14 DEF Next, Acquire

\* While nothing crosses, the file a poller has locked is where the path leads.
LEMMA SoloStep ==
  ASSUME TypeOK, TypeOK', HandleInv, SoloInv, [Next]_vars
  PROVE  SoloInv'
<1> USE FilesAssumption DEF Goto, TypeOK, Starting, Changing
<1>1. ASSUME NEW p \in Procs, Start(p) PROVE SoloInv'
  <2> SUFFICES ASSUME ~crossed' PROVE SoloInv'
    BY DEF SoloInv
  <2>1. ~crossed /\ \A q \in Procs \ {p} : pc[q] \notin Changing
    BY <1>1 DEF Start, Enters
  <2>2. \A q \in Procs \ {p} : pc[q] = "dead" \/ pc[q] = "polling"
    BY <2>1
  <2>3. \A q \in Procs \ {p} : pc'[q] = pc[q] /\ fh'[q] = fh[q]
    BY <1>1 DEF Start
  <2> QED
    BY <1>1, <2>1, <2>2, <2>3 DEF Start, HandleInv, SoloInv
<1>2. ASSUME NEW p \in Procs, CheckExists(p) PROVE SoloInv'
  BY <1>2 DEF CheckExists, HandleInv, SoloInv
<1>3. ASSUME NEW p \in Procs, ReadPid(p) PROVE SoloInv'
  BY <1>3 DEF ReadPid, Stale, Alive, HandleInv, SoloInv
<1>4. ASSUME NEW p \in Procs, Unlink(p) PROVE SoloInv'
  BY <1>4 DEF Unlink, HandleInv, SoloInv
<1>5. ASSUME NEW p \in Procs, Open(p) PROVE SoloInv'
  BY <1>5, FreeInode DEF Open, HandleInv, SoloInv
<1>6. ASSUME NEW p \in Procs, Flock(p) PROVE SoloInv'
  BY <1>6 DEF Flock, HandleInv, SoloInv
<1>7. ASSUME NEW p \in Procs, WritePid(p) PROVE SoloInv'
  BY <1>7 DEF WritePid, HandleInv, SoloInv
<1>8. ASSUME NEW p \in Procs, Wait(p) PROVE SoloInv'
  BY <1>8 DEF Wait, Ends, HandleInv, SoloInv, Alive
<1>9. ASSUME NEW p \in Procs, Release(p) PROVE SoloInv'
  <2> SUFFICES ASSUME ~crossed' PROVE SoloInv'
    BY DEF SoloInv
  <2>1. ~crossed /\ \A q \in Procs \ {p} : pc[q] \notin Changing
    BY <1>9 DEF Release, Enters
  <2>2. \A q \in Procs \ {p} : pc[q] = "dead" \/ pc[q] = "polling"
    BY <2>1
  <2>3. \A q \in Procs \ {p} : pc'[q] = pc[q] /\ fh'[q] = fh[q]
    BY <1>9 DEF Release
  <2> QED
    BY <1>9, <2>1, <2>2, <2>3 DEF Release, HandleInv, SoloInv
<1>10. ASSUME NEW p \in Procs, ReleaseUnlinks(p) PROVE SoloInv'
  BY <1>10 DEF ReleaseUnlinks, Ends, Alive, HandleInv, SoloInv
<1>11. ASSUME NEW p \in Procs, Kill(p) PROVE SoloInv'
  BY <1>11 DEF Kill, Ends, Alive, HandleInv, SoloInv
<1>13. ASSUME NEW p \in Procs, WriteFails(p) PROVE SoloInv'
  BY <1>13 DEF WriteFails, Unwritten, HandleInv, SoloInv
<1>14. ASSUME NEW p \in Procs, WriteGivesUp(p) PROVE SoloInv'
  BY <1>14 DEF WriteGivesUp, Unwritten, Ends, Alive, HandleInv, SoloInv
<1>12. CASE UNCHANGED vars
  BY <1>12 DEF vars, HandleInv, SoloInv
<1> QED
  BY <1>1, <1>2, <1>3, <1>4, <1>5, <1>6, <1>7, <1>8, <1>9, <1>10, <1>11, <1>12, <1>13,
     <1>14 DEF Next, Acquire

-----------------------------------------------------------------------------
LEMMA LockInvHolds == Spec => []LockInv
<1>1. Init => LockInv
  BY FilesAssumption DEF Init, LockInv, TypeOK, HandleInv, SoloInv, Starting, Changing
<1>2. LockInv /\ [Next]_vars => LockInv'
  BY TypeStep, HandleStep, SoloStep DEF LockInv
<1> QED
  BY <1>1, <1>2, PTL DEF Spec

\* Every variable stays in its type.
THEOREM TypeCorrect == Spec => []TypeOK
<1>1. LockInv => TypeOK
  BY DEF LockInv
<1> QED
  BY <1>1, LockInvHolds, PTL

\* At most one process polls while no start or exit crosses another one,
\* whatever file dead processes have left.
THEOREM UncrossedExclude == Spec => []OnePoller
<1>1. LockInv => OnePoller
  BY DEF LockInv, SoloInv, OnePoller
<1> QED
  BY <1>1, LockInvHolds, PTL

\* A lonely start is at most six of its own steps from polling, whatever file
\* earlier processes left: the safety half of LonelyStartPolls.
THEOREM LonelyNeverBlocked == Spec => LonelyGoesStraight
<1> DEFINE Nearer(p) ==
      pc'[p] \in DOMAIN StepsLeft /\ StepsLeft[pc'[p]] < StepsLeft[pc[p]]
<1>1. LockInv /\ [Next]_vars =>
        [\A p \in Procs :
           Acquire(p) /\ pc[p] \in DOMAIN StepsLeft /\ (\A q \in Procs \ {p} : ~Alive(q)) =>
             Nearer(p)]_vars
  <2> SUFFICES ASSUME LockInv, NEW p \in Procs, Acquire(p), pc[p] \in DOMAIN StepsLeft,
                      \A q \in Procs \ {p} : pc[q] = "dead"
               PROVE  Nearer(p)
    BY DEF Alive
  <2> USE DEF LockInv, TypeOK, Goto, StepsLeft
  <2>1. CASE CheckExists(p)
    BY <2>1 DEF CheckExists
  <2>2. CASE ReadPid(p)
    BY <2>2 DEF ReadPid
  <2>3. CASE Unlink(p)
    BY <2>3 DEF Unlink
  <2>4. CASE Open(p)
    BY <2>4 DEF Open
  <2>5. CASE Flock(p)
    <3>1. locked = {}
      BY <2>5 DEF Flock, HandleInv
    <3>2. pc[p] = "flock" /\ pc' = [pc EXCEPT ![p] = "truncated"]
      BY <2>5, <3>1 DEF Flock
    <3> QED
      BY <3>2
  <2>6. CASE WritePid(p)
    BY <2>6 DEF WritePid
  <2>7. CASE Wait(p)
    BY <2>7 DEF Wait
  <2> QED
    BY <2>1, <2>2, <2>3, <2>4, <2>5, <2>6, <2>7 DEF Acquire
<1> QED
  BY <1>1, LockInvHolds, PTL DEF Spec, LonelyGoesStraight
=============================================================================
