-------------------------- MODULE PollLeaseProofs --------------------------
(* Proofs about the distributed polling lease: what the document alone       *)
(* guarantees, and that only a forced takeover or a lapsed lease lets two    *)
(* replicas poll.                                                            *)
EXTENDS PollLease, TLAPS

\* A poller on the lease that was neither taken over nor let it lapse owns the
\* document, unexpired; nobody polls without the lease under TBE_MULTI_REPLICA.
LeaseInv ==
  /\ TypeOK
  /\ \A r \in Replicas \ dropped : pc[r] = "polling" => owner = r /\ ~expired
  /\ MultiReplica => \A r \in Replicas : pc[r] # "local"

LEMMA LeaseInvKept == Spec => []LeaseInv
<1>1. Init => LeaseInv
  BY DEF Init, LeaseInv, TypeOK
<1>2. LeaseInv /\ [Next]_vars => LeaseInv'
  <2> SUFFICES ASSUME LeaseInv, [Next]_vars PROVE LeaseInv'
    OBVIOUS
  <2> USE LeaseAssumption DEF LeaseInv, TypeOK, Goto
  <2>1. ASSUME NEW r \in Replicas, Start(r) PROVE LeaseInv'
    BY <2>1 DEF Start
  <2>12. ASSUME NEW r \in Replicas, StartWithoutMongo(r) PROVE LeaseInv'
    BY <2>12 DEF StartWithoutMongo
  <2>2. ASSUME NEW r \in Replicas, Take(r) PROVE LeaseInv'
    BY <2>2 DEF Take, Write, Free
  <2>3. ASSUME NEW r \in Replicas, TakeUnheard(r) PROVE LeaseInv'
    BY <2>3 DEF TakeUnheard, Write, Free
  <2>4. ASSUME NEW r \in Replicas, Deadline(r) PROVE LeaseInv'
    BY <2>4 DEF Deadline
  <2>5. ASSUME NEW r \in Replicas, GiveUp(r) PROVE LeaseInv'
    BY <2>5 DEF GiveUp, Leave
  <2>6. ASSUME NEW r \in Replicas, Renew(r) PROVE LeaseInv'
    BY <2>6 DEF Renew
  <2>7. ASSUME NEW r \in Replicas, Release(r) PROVE LeaseInv'
    BY <2>7 DEF Release
  <2>8. ASSUME NEW r \in Replicas, Kill(r) PROVE LeaseInv'
    BY <2>8 DEF Kill, Leave
  <2>9. ASSUME LeaseExpires PROVE LeaseInv'
    BY <2>9 DEF LeaseExpires
  <2>10. ASSUME TtlDeletes PROVE LeaseInv'
    BY <2>10 DEF TtlDeletes
  <2>11. CASE UNCHANGED vars
    BY <2>11 DEF vars
  <2> QED
    BY <2>1, <2>2, <2>3, <2>4, <2>5, <2>6, <2>7, <2>8, <2>9, <2>10, <2>11, <2>12
       DEF Next, Acquire
<1> QED
  BY <1>1, <1>2, PTL DEF Spec

\* The document's type, kept by every operation on the lease.
THEOREM TypeCorrect == Spec => []TypeOK
<1>1. LeaseInv => TypeOK
  BY DEF LeaseInv
<1> QED
  BY <1>1, LeaseInvKept, PTL

\* For any number of replicas, two poll at once only after a forced takeover, a
\* lease that was not renewed in time or a start without Mongo; wait_seconds = 45
\* against a lease of 90 seconds makes the takeover of a live owner the normal case.
THEOREM OnlyTakeoversOverlap == Spec => []OnePoller
<1>1. LeaseInv => OnePoller
  BY DEF LeaseInv, OnePoller, Polls
<1> QED
  BY <1>1, LeaseInvKept, PTL

\* The lease changes hands only by a starting replica's take, its owner's end
\* or its expiry: renewals and releases of replicas that lost it match no
\* document.
THEOREM LeaseKept == Spec => LeaseMoves
<1> DEFINE Moves ==
      \/ owner' \in Replicas /\ pc[owner'] \in {"waiting", "forcing"}
      \/ owner' = NoOwner /\ (expired \/ (pc[owner] = "polling" /\ pc'[owner] = "off"))
      \/ owner' = Gone /\ pc'[owner] = "off"
<1>1. TypeOK /\ [Next]_vars => [owner' # owner => Moves]_vars
  <2> SUFFICES ASSUME TypeOK, [Next]_vars, owner' # owner PROVE Moves
    OBVIOUS
  <2> USE DEF TypeOK, Goto
  <2>1. ASSUME NEW r \in Replicas, Take(r) \/ TakeUnheard(r) PROVE Moves
    BY <2>1 DEF Take, TakeUnheard, Write
  <2>2. ASSUME NEW r \in Replicas, Release(r) PROVE Moves
    BY <2>2 DEF Release
  <2>3. ASSUME NEW r \in Replicas, GiveUp(r) \/ Kill(r) PROVE Moves
    BY <2>3 DEF GiveUp, Kill, Leave
  <2>4. ASSUME TtlDeletes PROVE Moves
    BY <2>4 DEF TtlDeletes
  <2>5. ASSUME NEW r \in Replicas,
               Start(r) \/ StartWithoutMongo(r) \/ Deadline(r) \/ Renew(r) PROVE FALSE
    BY <2>5 DEF Start, StartWithoutMongo, Deadline, Renew
  <2>6. ASSUME LeaseExpires \/ UNCHANGED vars PROVE FALSE
    BY <2>6 DEF LeaseExpires, vars
  <2> QED
    BY <2>1, <2>2, <2>3, <2>4, <2>5, <2>6 DEF Next, Acquire
<1> QED
  BY <1>1, TypeCorrect, PTL DEF Spec, LeaseMoves

\* Under TBE_MULTI_REPLICA (a start without Mongo exits), with renewals in time
\* and a deadline beyond the time a poller needs to stop, the lease is a lock:
\* lost answers, restarts with a new id, the TTL index and the deletes of replicas
\* that lost the lease never admit a second poller.
THEOREM PunctualExclude ==
  MultiReplica => (Spec /\ [][Punctual]_vars => []OnePollerAtATime)
<1> SUFFICES ASSUME MultiReplica PROVE Spec /\ [][Punctual]_vars => []OnePollerAtATime
  OBVIOUS
<1>1. Init => dropped = {}
  BY DEF Init
<1>2. LeaseInv /\ dropped = {} /\ [Next]_vars /\ [Punctual]_vars => (dropped = {})'
  <2> SUFFICES ASSUME LeaseInv, dropped = {}, [Next]_vars, [Punctual]_vars
               PROVE  dropped' = {}
    OBVIOUS
  <2> USE LeaseAssumption DEF LeaseInv, TypeOK, Goto, Punctual, vars
  <2>1. ASSUME NEW r \in Replicas, Take(r) \/ TakeUnheard(r) PROVE dropped' = {}
    BY <2>1 DEF Take, TakeUnheard, Write
  <2>2. ASSUME LeaseExpires PROVE dropped' = {}
    BY <2>2 DEF LeaseExpires
  <2>3. ASSUME NEW r \in Replicas,
               \/ Start(r) \/ StartWithoutMongo(r) \/ Deadline(r) \/ GiveUp(r)
               \/ Renew(r) \/ Release(r) \/ Kill(r)
        PROVE  dropped' = {}
    BY <2>3 DEF Start, StartWithoutMongo, Deadline, GiveUp, Renew, Release, Kill, Leave
  <2>4. CASE TtlDeletes \/ UNCHANGED vars
    BY <2>4 DEF TtlDeletes
  <2> QED
    BY <2>1, <2>2, <2>3, <2>4 DEF Next, Acquire
<1>3. LeaseInv /\ dropped = {} => OnePollerAtATime
  BY DEF LeaseInv, OnePollerAtATime, Polls
<1> QED
  BY <1>1, <1>2, <1>3, LeaseInvKept, PTL DEF Spec
=============================================================================
