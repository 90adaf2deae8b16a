------------------------- MODULE GenerateJobsProofs -------------------------
(* Proofs about the generation path for any requests, processes, workers and *)
(* limits: a job runs at most once, a queued or running job holds its slot,  *)
(* a finished one keeps it only by a failure of its worker, and the global   *)
(* cap is passed by at most one job per further API process.                 *)
EXTENDS GenerateJobsProps, FiniteSetTheorems, TLAPS

LEMMA AppendFacts ==
  ASSUME NEW S, NEW s \in Seq(S), NEW e \in S
  PROVE  /\ Append(s, e) \in Seq(S)
         /\ Range(Append(s, e)) = Range(s) \cup {e}
         /\ IsInjective(s) /\ e \notin Range(s) => IsInjective(Append(s, e))
<1> DEFINE t == Append(s, e)
<1>1. t \in Seq(S) /\ Len(t) = Len(s) + 1 /\ DOMAIN t = 1 .. Len(s) + 1 /\ DOMAIN s = 1 .. Len(s)
  OBVIOUS
<1>2. t[Len(s) + 1] = e /\ \A i \in 1 .. Len(s) : t[i] = s[i]
  OBVIOUS
<1>3. Len(s) \in Nat
  OBVIOUS
<1> HIDE DEF t
<1>4. Range(t) = Range(s) \cup {e}
  <2>1. \A i \in DOMAIN t : t[i] \in Range(s) \cup {e}
    BY <1>1, <1>2, <1>3 DEF Range
  <2>2. Range(s) \subseteq Range(t) /\ e \in Range(t)
    BY <1>1, <1>2, <1>3 DEF Range
  <2> QED
    BY <2>1, <2>2 DEF Range
<1>5. ASSUME IsInjective(s), e \notin Range(s) PROVE IsInjective(t)
  <2> SUFFICES ASSUME NEW i \in DOMAIN t, NEW k \in DOMAIN t, t[i] = t[k] PROVE i = k
    BY DEF IsInjective
  <2>1. \A n \in DOMAIN s : s[n] # e
    BY <1>5 DEF Range
  <2> QED
    BY <1>1, <1>2, <1>3, <1>5, <2>1 DEF IsInjective
<1> QED
  BY <1>1, <1>4, <1>5 DEF t

LEMMA TailFacts ==
  ASSUME NEW S, NEW s \in Seq(S), s # <<>>
  PROVE  /\ Head(s) \in S /\ Tail(s) \in Seq(S)
         /\ Range(s) = {Head(s)} \cup Range(Tail(s))
         /\ IsInjective(s) => IsInjective(Tail(s)) /\ Head(s) \notin Range(Tail(s))
<1> DEFINE t == Tail(s)
<1>1. /\ Len(s) \in Nat \ {0} /\ DOMAIN s = 1 .. Len(s) /\ Head(s) = s[1] /\ s[1] \in S
      /\ t \in Seq(S) /\ DOMAIN t = 1 .. Len(s) - 1
  OBVIOUS
<1>2. \A i \in 1 .. Len(s) - 1 : t[i] = s[i + 1]
  OBVIOUS
<1> HIDE DEF t
<1>3. Range(s) = {Head(s)} \cup Range(t)
  <2>1. 1 \in DOMAIN s
    BY <1>1
  <2>2. \A i \in DOMAIN t : i + 1 \in DOMAIN s /\ t[i] = s[i + 1]
    BY <1>1, <1>2
  <2>3. Head(s) = s[1]
    BY <1>1
  <2>4. Head(s) \in Range(s)
    BY <2>1, <2>3 DEF Range
  <2>5. ASSUME NEW e \in Range(t) PROVE e \in Range(s)
    <3>1. PICK i \in DOMAIN t : e = t[i]
      BY <2>5 DEF Range
    <3>2. i + 1 \in DOMAIN s /\ e = s[i + 1]
      BY <2>2, <3>1
    <3> QED
      BY <3>2, Zenon DEF Range
  <2>6. ASSUME NEW e \in Range(s), e # Head(s) PROVE e \in Range(t)
    <3>1. PICK i \in DOMAIN s : e = s[i]
      BY <2>6 DEF Range
    <3>2. i - 1 \in DOMAIN t /\ t[i - 1] = s[(i - 1) + 1]
      BY <1>1, <1>2, <2>3, <2>6, <3>1
    <3>3. e = t[i - 1]
      BY <1>1, <3>1, <3>2
    <3> QED
      BY <3>2, <3>3, Zenon DEF Range
  <2> QED
    BY <2>4, <2>5, <2>6
<1>4. ASSUME IsInjective(s) PROVE IsInjective(t) /\ s[1] \notin Range(t)
  <2>1. ASSUME NEW i \in DOMAIN t, NEW k \in DOMAIN t, t[i] = t[k] PROVE i = k
    <3>1. i + 1 \in DOMAIN s /\ k + 1 \in DOMAIN s /\ s[i + 1] = s[k + 1]
      BY <1>1, <1>2, <2>1
    <3>2. i + 1 = k + 1
      BY <1>4, <3>1 DEF IsInjective
    <3> QED
      BY <1>1, <3>2
  <2>2. \A i \in DOMAIN t : t[i] # s[1]
    BY <1>1, <1>2, <1>4 DEF IsInjective
  <2> QED
    BY <2>1, <2>2 DEF Range, IsInjective
<1> QED
  BY <1>1, <1>3, <1>4 DEF t

LEMMA PushFacts ==
  ASSUME NEW S, NEW s \in Seq(S), NEW e \in S, NEW n \in Nat
  PROVE  LET pushed == <<e>> \o s IN
           (IF Len(pushed) > n THEN SubSeq(pushed, 1, n) ELSE pushed) \in Seq(S)
OBVIOUS

\* A worker that moves on keeps its job; one that becomes idle has none.
LEMMA StepTyped ==
  ASSUME TypeOK, NEW w \in Workers, wjob[w] \in Requests,
         NEW where \in Busy \cup {"idle"}, Step(w, where)
  PROVE  /\ wpc' \in [Workers -> Busy \cup {"idle"}]
         /\ wjob' \in [Workers -> Requests \cup {NoJob}]
         /\ \A v \in Workers : wpc'[v] = "idle" <=> wjob'[v] = NoJob
<1> USE PartiesAssumption DEF TypeOK
<1>1. wpc' = [wpc EXCEPT ![w] = where] /\ wpc' \in [Workers -> Busy \cup {"idle"}]
  BY DEF Step
<1>2. CASE where = "idle"
  <2>1. wjob' = [wjob EXCEPT ![w] = NoJob]
    BY <1>2 DEF Step
  <2> QED
    BY <1>1, <1>2, <2>1
<1>3. CASE where # "idle"
  <2>1. wjob' = wjob
    BY <1>3 DEF Step
  <2> QED
    BY <1>1, <1>3, <2>1
<1> QED
  BY <1>2, <1>3

\* Storing a status keeps the types of the statuses and of the workers.
LEMMA StoreTyped ==
  ASSUME TypeOK, NEW w \in Workers, wjob[w] \in Requests,
         NEW new \in Unfinished \cup TERMINAL,
         NEW next \in Busy \cup {"idle"}, NEW gone \in Busy \cup {"idle"},
         StoreStatus(w, new, next, gone)
  PROVE  /\ status' \in [Requests -> {"none"} \cup Unfinished \cup TERMINAL]
         /\ wpc' \in [Workers -> Busy \cup {"idle"}]
         /\ wjob' \in [Workers -> Requests \cup {NoJob}]
         /\ \A v \in Workers : wpc'[v] = "idle" <=> wjob'[v] = NoJob
<1>1. CASE status[wjob[w]] = "none"
  <2>1. Step(w, gone) /\ status' = status
    BY <1>1 DEF StoreStatus
  <2> QED
    BY <2>1, StepTyped DEF TypeOK
<1>2. CASE status[wjob[w]] # "none"
  <2>1. Step(w, next) /\ status' = [status EXCEPT ![wjob[w]] = new]
    BY <1>2 DEF StoreStatus
  <2> QED
    BY <2>1, StepTyped DEF TypeOK
<1> QED
  BY <1>1, <1>2

\* Every variable keeps its type.
THEOREM TypeCorrect == Spec => []TypeOK
<1> USE PartiesAssumption, LimitsAssumption
<1>1. Init => TypeOK
  BY DEF Init, TypeOK
<1>2. TypeOK /\ [Next]_vars => TypeOK'
  <2> SUFFICES ASSUME TypeOK, [Next]_vars PROVE TypeOK'
    OBVIOUS
  <2> USE DEF TypeOK, InFlight, Locked, Answered, Refused, Unfinished, TERMINAL, Busy,
              store, workers, tally, given
  <2>1. ASSUME NEW r \in Requests, Reserve(r) PROVE TypeOK'
    <3>1. TenantOf[r] \in Tenants /\ used[TenantOf[r]] + 1 \in Nat
      OBVIOUS
    <3>2. used' \in [Tenants -> Nat]
      BY <2>1, <3>1 DEF Reserve
    <3>3. pc' \in [Requests -> {"new"} \cup InFlight \cup Answered]
      <4>1. \/ pc' = [pc EXCEPT ![r] = "reserved"]
            \/ pc' = [pc EXCEPT ![r] = "over_quota"]
        BY <2>1 DEF Reserve, Goto
      <4> QED
        BY <4>1
    <3>4. UNCHANGED <<status, active, recent, rq, blind, failedJobs, forgotten, wpc, wjob>>
      BY <2>1 DEF Reserve
    <3> QED
      BY <3>2, <3>3, <3>4
  <2>2. ASSUME NEW r \in Requests, RejectBody(r) PROVE TypeOK'
    BY <2>2 DEF RejectBody, Goto
  <2>3. ASSUME NEW r \in Requests, CountGlobal(r) PROVE TypeOK'
    BY <2>3 DEF CountGlobal, Goto
  <2>19. ASSUME NEW r \in Requests, CountGlobalFails(r) PROVE TypeOK'
    BY <2>19 DEF CountGlobalFails, Goto
  <2>20. ASSUME NEW r \in Requests, RequestRaises(r) PROVE TypeOK'
    BY <2>20 DEF RequestRaises, Goto
  <2>21. ASSUME NEW r \in Requests, RqForgets(r) PROVE TypeOK'
    BY <2>21 DEF RqForgets
  <2>4. ASSUME NEW r \in Requests, CountTenant(r) PROVE TypeOK'
    BY <2>4 DEF CountTenant, Goto
  <2>5. ASSUME NEW r \in Requests, Create(r) PROVE TypeOK'
    <3>1. recent'[TenantOf[r]] \in Seq(Requests)
      BY <2>5, PushFacts DEF Create
    <3> QED
      BY <2>5, <3>1 DEF Create, Goto
  <2>6. ASSUME NEW r \in Requests, RqEnqueue(r) PROVE TypeOK'
    <3>1. Append(rq, r) \in Seq(Requests)
      BY AppendFacts
    <3> QED
      BY <2>6, <3>1 DEF RqEnqueue, Goto
  <2>7. ASSUME NEW r \in Requests, Expire(r) PROVE TypeOK'
    BY <2>7 DEF Expire
  <2>8. ASSUME NEW p \in Procs, ApiCrash(p) PROVE TypeOK'
    BY <2>8 DEF ApiCrash
  <2>9. ASSUME NEW w \in Workers, Fetch(w) PROVE TypeOK'
    <3>1. Head(rq) \in Requests /\ Tail(rq) \in Seq(Requests)
      BY <2>9, TailFacts DEF Fetch
    <3> QED
      BY <2>9, <3>1 DEF Fetch
  <2>10. ASSUME NEW w \in Workers, Load(w) PROVE TypeOK'
    <3>1. wjob[w] \in Requests /\ \E where \in {"idle", "loaded"} : Step(w, where)
      BY <2>10 DEF Load
    <3> QED
      BY <2>10, <3>1, StepTyped DEF Load
  <2>11. ASSUME NEW w \in Workers, MarkRunning(w) PROVE TypeOK'
    <3>1. wjob[w] \in Requests /\ StoreStatus(w, "running", "starting", "working")
      BY <2>11 DEF MarkRunning
    <3> QED
      BY <2>11, <3>1, StoreTyped DEF MarkRunning
  <2>12. ASSUME NEW w \in Workers, AddActive(w) PROVE TypeOK'
    <3>1. wjob[w] \in Requests /\ Step(w, "working")
      BY <2>12 DEF AddActive
    <3> QED
      BY <2>12, <3>1, StepTyped DEF AddActive
  <2>13. ASSUME NEW w \in Workers, HandlerReturns(w) PROVE TypeOK'
    <3>1. wjob[w] \in Requests
      BY <2>13 DEF HandlerReturns
    <3>2. PICK verdict \in TERMINAL : StoreStatus(w, verdict, "stored", "idle")
      BY <2>13 DEF HandlerReturns
    <3> QED
      BY <2>13, <3>1, <3>2, StoreTyped DEF HandlerReturns
  <2>14. ASSUME NEW w \in Workers, HandlerRaises(w) PROVE TypeOK'
    <3>1. wjob[w] \in Requests /\ Step(w, "failing")
      BY <2>14 DEF HandlerRaises
    <3> QED
      BY <2>14, <3>1, StepTyped DEF HandlerRaises
  <2>15. ASSUME NEW w \in Workers, StoreFailure(w) PROVE TypeOK'
    <3>1. wjob[w] \in Requests /\ StoreStatus(w, "failed", "stored_failed", "idle")
      BY <2>15 DEF StoreFailure
    <3> QED
      BY <2>15, <3>1, StoreTyped DEF StoreFailure
  <2>16. ASSUME NEW w \in Workers, DropActive(w) PROVE TypeOK'
    <3>1. wjob[w] \in Requests /\ Step(w, "idle")
      BY <2>16 DEF DropActive
    <3> QED
      BY <2>16, <3>1, StepTyped DEF DropActive
  <2>17. ASSUME NEW w \in Workers, Abandon(w) PROVE TypeOK'
    <3>1. wjob[w] \in Requests /\ Step(w, "idle")
      BY <2>17 DEF Abandon
    <3> QED
      BY <2>17, <3>1, StepTyped DEF Abandon
  <2>18. CASE UNCHANGED vars
    BY <2>18 DEF vars
  <2> QED
    BY <2>1, <2>2, <2>3, <2>4, <2>5, <2>6, <2>7, <2>8, <2>9, <2>10, <2>11, <2>12, <2>13, <2>14, <2>15, <2>16, <2>17, <2>18, <2>19, <2>20,
       <2>21 DEF Next, Generate, Execute
<1> QED
  BY <1>1, <1>2, PTL DEF Spec

-----------------------------------------------------------------------------
\* What a job's place in RQ says about the request that made it.
PlacedInv ==
  /\ \A r \in Range(rq) \cup GaveUp : pc[r] \in {"accepted", "rq_failed"}
  /\ \A w \in Workers : wjob[w] # NoJob => pc[wjob[w]] \in {"accepted", "rq_failed"}
  /\ \A r \in Requests :
       /\ status[r] # "none" => pc[r] \in {"created", "accepted", "rq_failed", "aborted"}
       /\ pc[r] = "created" => status[r] \in {"none", "queued"}

\* How far a worker is says what is stored of its job.
ProgressInv ==
  \A w \in Workers :
    /\ wpc[w] \in {"fetched", "loaded"} => status[wjob[w]] \in {"none", "queued"}
    /\ wpc[w] \in {"starting", "working"} => status[wjob[w]] \in {"none", "running"}
    /\ wpc[w] \in {"stored", "stored_failed"} => status[wjob[w]] \in TERMINAL \cup {"none"}

JobInv == PlacedInv /\ ProgressInv /\ RunsOnce /\ OpenIsActive /\ SlotLeaksOnlyByFailure

LEMMA JobInvInit == Init => JobInv
<1> SUFFICES ASSUME Init PROVE JobInv
  OBVIOUS
<1>1. Range(rq) = {} /\ IsInjective(rq)
  BY DEF Init, Range, IsInjective
<1> QED
  BY <1>1 DEF Init, JobInv, PlacedInv, ProgressInv, RunsOnce, OpenIsActive,
              SlotLeaksOnlyByFailure, Held, GaveUp, Unfinished, TERMINAL

-----------------------------------------------------------------------------
(* What the steps of a worker that has a job have in common.                *)

WorkerStep(w) ==
  \/ Load(w) \/ MarkRunning(w) \/ AddActive(w) \/ HandlerReturns(w)
  \/ HandlerRaises(w) \/ StoreFailure(w) \/ DropActive(w) \/ Abandon(w)

\* It touches its own job only.
TouchesOwn(w) ==
  /\ wjob[w] \in Requests /\ wjob'[w] \in {wjob[w], NoJob}
  /\ \A v \in Workers \ {w} : wjob'[v] = wjob[v] /\ wpc'[v] = wpc[v]
  /\ pc' = pc /\ rq' = rq
  /\ GaveUp' \in {GaveUp, GaveUp \cup {wjob[w]}}
  /\ \A r \in Requests \ {wjob[w]} :
       status'[r] = status[r] /\ (r \in active' <=> r \in active)
  /\ status[wjob[w]] = "none" => status'[wjob[w]] = "none"

\* It leaves its own job as the invariants want it.
LeavesOwn(w) ==
  /\ wpc'[w] \in {"fetched", "loaded"} => status'[wjob[w]] \in {"none", "queued"}
  /\ wpc'[w] \in {"starting", "working"} => status'[wjob[w]] \in {"none", "running"}
  /\ wpc'[w] \in {"stored", "stored_failed"} => status'[wjob[w]] \in TERMINAL \cup {"none"}
  /\ status'[wjob[w]] \in Unfinished => wjob[w] \in active'
  /\ wjob[w] \in active' /\ status'[wjob[w]] \in TERMINAL =>
       wjob'[w] = wjob[w] \/ wjob[w] \in GaveUp'
  /\ status'[wjob[w]] \in Unfinished => wjob'[w] = wjob[w] \/ wjob[w] \in GaveUp'

LEMMA WorkerTouchesOwn ==
  ASSUME TypeOK, NEW w \in Workers, WorkerStep(w)
  PROVE  TouchesOwn(w)
<1> USE PartiesAssumption DEF TypeOK, TouchesOwn, GaveUp, store, given, Busy
<1>1. CASE Load(w)
  BY <1>1 DEF Load, Step
<1>2. CASE MarkRunning(w)
  BY <1>2 DEF MarkRunning, StoreStatus, Step
<1>3. CASE AddActive(w)
  BY <1>3 DEF AddActive, Step
<1>4. CASE HandlerReturns(w)
  BY <1>4 DEF HandlerReturns, StoreStatus, Step
<1>5. CASE HandlerRaises(w)
  BY <1>5 DEF HandlerRaises, Step
<1>6. CASE StoreFailure(w)
  BY <1>6 DEF StoreFailure, StoreStatus, Step
<1>7. CASE DropActive(w)
  BY <1>7 DEF DropActive, Step
<1>8. CASE Abandon(w)
  BY <1>8 DEF Abandon, Step
<1> QED
  BY <1>1, <1>2, <1>3, <1>4, <1>5, <1>6, <1>7, <1>8 DEF WorkerStep

LEMMA WorkerLeavesOwn ==
  ASSUME TypeOK, JobInv, NEW w \in Workers, WorkerStep(w)
  PROVE  LeavesOwn(w)
<1> USE PartiesAssumption
    DEF TypeOK, JobInv, ProgressInv, OpenIsActive, SlotLeaksOnlyByFailure, LeavesOwn, store,
        given, GaveUp, Busy, Unfinished, TERMINAL
<1>1. CASE Load(w)
  BY <1>1 DEF Load, Step
<1>2. CASE MarkRunning(w)
  BY <1>2 DEF MarkRunning, StoreStatus, Step
<1>3. CASE AddActive(w)
  BY <1>3 DEF AddActive, Step
<1>4. CASE HandlerReturns(w)
  BY <1>4 DEF HandlerReturns, StoreStatus, Step
<1>5. CASE HandlerRaises(w)
  BY <1>5 DEF HandlerRaises, Step
<1>6. CASE StoreFailure(w)
  BY <1>6 DEF StoreFailure, StoreStatus, Step
<1>7. CASE DropActive(w)
  BY <1>7 DEF DropActive, Step
<1>8. CASE Abandon(w)
  BY <1>8 DEF Abandon, Step
<1> QED
  BY <1>1, <1>2, <1>3, <1>4, <1>5, <1>6, <1>7, <1>8 DEF WorkerStep

-----------------------------------------------------------------------------
(* What the other steps do.                                                 *)

Sent == {"accepted", "rq_failed"}

\* The steps of generate() around the create: no job is touched.
Unsent(r) ==
  \/ Reserve(r) \/ RejectBody(r) \/ CountGlobal(r) \/ CountGlobalFails(r) \/ CountTenant(r)
  \/ RequestRaises(r)

NoJobTouched ==
  /\ \A r \in Requests :
       /\ pc[r] \in Sent => pc'[r] \in Sent
       /\ pc[r] \in {"created", "aborted"} => pc'[r] \in {"created", "aborted"}
       /\ pc'[r] = "created" => pc[r] = "created"
       /\ pc'[r] = "accepted" => pc[r] = "accepted"
  /\ UNCHANGED <<status, active, rq, GaveUp, wpc, wjob>>

LEMMA UnsentTouchesNoJob ==
  ASSUME TypeOK, NEW r \in Requests, Unsent(r)
  PROVE  NoJobTouched
<1> USE DEF NoJobTouched, Sent, Goto, store, tally, given, workers, GaveUp
<1>0. pc \in [Requests -> {"new"} \cup InFlight \cup Answered]
  BY DEF TypeOK
<1>1. CASE Reserve(r)
  <2>1. pc[r] = "new" /\ \E v \in {"reserved", "over_quota"} : pc' = [pc EXCEPT ![r] = v]
    BY <1>1 DEF Reserve
  <2> QED
    BY <1>0, <1>1, <2>1 DEF Reserve
<1>2. CASE RejectBody(r)
  BY <1>0, <1>2 DEF RejectBody
<1>3. CASE CountGlobal(r)
  BY <1>0, <1>3 DEF CountGlobal
<1>4. CASE CountTenant(r)
  BY <1>0, <1>4 DEF CountTenant
<1>5. CASE CountGlobalFails(r)
  BY <1>0, <1>5 DEF CountGlobalFails
<1>6. CASE RequestRaises(r)
  BY <1>0, <1>6 DEF RequestRaises, Locked
<1> QED
  BY <1>1, <1>2, <1>3, <1>4, <1>5, <1>6 DEF Unsent

LEMMA CrashTouchesNoJob ==
  ASSUME TypeOK, NEW p \in Procs, ApiCrash(p)
  PROVE  NoJobTouched
BY DEF TypeOK, NoJobTouched, Sent, ApiCrash, InFlight, Locked, store, given, workers, GaveUp

LEMMA ForgettingTouchesNoJob ==
  ASSUME TypeOK, NEW r \in Requests, RqForgets(r)
  PROVE  NoJobTouched
BY DEF TypeOK, NoJobTouched, RqForgets, store, GaveUp

\* RQ gets a job it has never had.
SendsNew(r) ==
  /\ pc[r] = "created" /\ pc'[r] \in Sent
  /\ \A s \in Requests \ {r} : pc'[s] = pc[s]
  /\ r \notin Range(rq) /\ r \notin GaveUp /\ ~Held(r)
  /\ Range(rq') \subseteq Range(rq) \cup {r} /\ IsInjective(rq')
  /\ Range(rq) \subseteq Range(rq') /\ (pc'[r] = "accepted" => r \in Range(rq'))
  /\ UNCHANGED <<status, active, GaveUp, wpc, wjob>>

LEMMA RqEnqueueSendsNew ==
  ASSUME TypeOK, JobInv, NEW r \in Requests, RqEnqueue(r)
  PROVE  SendsNew(r)
<1>1. rq \in Seq(Requests) /\ IsInjective(rq)
  BY DEF TypeOK, JobInv, RunsOnce
<1>2. pc[r] = "created" /\ pc[r] \notin Sent
  BY DEF RqEnqueue, Sent
<1>3. r \notin Range(rq) /\ r \notin GaveUp
  BY <1>2 DEF JobInv, PlacedInv, Sent
<1>4. ~Held(r)
  <2>1. r # NoJob
    BY PartiesAssumption
  <2> QED
    BY <1>2, <2>1 DEF JobInv, PlacedInv, Held, Sent
<1>5. rq' \in {rq, Append(rq, r)}
  BY DEF RqEnqueue
<1>6. /\ Range(rq') \subseteq Range(rq) \cup {r} /\ IsInjective(rq')
      /\ Range(rq) \subseteq Range(rq') /\ (pc'[r] = "accepted" => r \in Range(rq'))
  <2>1. /\ Range(Append(rq, r)) = Range(rq) \cup {r}
        /\ IsInjective(Append(rq, r))
    BY <1>1, <1>3, AppendFacts
  <2>2. pc'[r] = "accepted" => rq' = Append(rq, r)
    BY DEF RqEnqueue, Goto, TypeOK
  <2> QED
    BY <1>1, <1>5, <2>1, <2>2
<1>7. /\ pc'[r] \in Sent /\ \A s \in Requests \ {r} : pc'[s] = pc[s]
      /\ UNCHANGED <<status, active, GaveUp, wpc, wjob>>
  BY DEF RqEnqueue, Goto, TypeOK, Sent, store, given, workers, GaveUp
<1> QED
  BY <1>2, <1>3, <1>4, <1>6, <1>7 DEF SendsNew

\* A worker gets the oldest job of the list.
Takes(w) ==
  /\ wjob[w] = NoJob /\ wpc'[w] = "fetched"
  /\ wjob'[w] \in Range(rq) /\ wjob'[w] \notin Range(rq')
  /\ Range(rq) = {wjob'[w]} \cup Range(rq') /\ IsInjective(rq')
  /\ \A v \in Workers \ {w} : wjob'[v] = wjob[v] /\ wpc'[v] = wpc[v]
  /\ UNCHANGED <<pc, status, active, GaveUp>>

LEMMA FetchTakes ==
  ASSUME TypeOK, JobInv, NEW w \in Workers, Fetch(w)
  PROVE  Takes(w)
<1>1. rq \in Seq(Requests) /\ rq # <<>> /\ IsInjective(rq)
  BY DEF TypeOK, JobInv, RunsOnce, Fetch
<1>2. /\ Head(rq) \notin Range(Tail(rq)) /\ Range(rq) = {Head(rq)} \cup Range(Tail(rq))
      /\ IsInjective(Tail(rq))
  BY <1>1, TailFacts
<1> QED
  BY <1>2 DEF Fetch, Takes, TypeOK, store, given, GaveUp

\* A job's record appears, or expires.
Creates(r) ==
  /\ pc[r] = "tenant_ok" /\ pc'[r] = "created"
  /\ \A s \in Requests \ {r} : pc'[s] = pc[s] /\ status'[s] = status[s]
  /\ status'[r] = "queued" /\ active' = active \cup {r}
  /\ UNCHANGED <<rq, GaveUp, wpc, wjob>>

LEMMA CreateCreates ==
  ASSUME TypeOK, NEW r \in Requests, Create(r)
  PROVE  Creates(r)
BY DEF TypeOK, Create, Creates, Goto, given, workers, GaveUp

Expires(r) ==
  /\ \A s \in Requests \ {r} : status'[s] = status[s]
  /\ status'[r] = "none"
  /\ UNCHANGED <<pc, active, rq, GaveUp, wpc, wjob>>

LEMMA ExpireExpires ==
  ASSUME TypeOK, NEW r \in Requests, Expire(r)
  PROVE  Expires(r)
BY DEF TypeOK, Expire, Expires, given, workers, GaveUp

\* Every step is one of these.
Moves ==
  \/ NoJobTouched
  \/ \E r \in Requests : SendsNew(r) \/ Creates(r) \/ Expires(r)
  \/ \E w \in Workers : Takes(w) \/ (TouchesOwn(w) /\ LeavesOwn(w))

LEMMA EveryStepMoves == TypeOK /\ JobInv /\ [Next]_vars => Moves
<1> SUFFICES ASSUME TypeOK, JobInv, [Next]_vars PROVE Moves
  OBVIOUS
<1>1. CASE UNCHANGED vars
  BY <1>1 DEF vars, store, given, workers, Moves, NoJobTouched, GaveUp
<1>2. ASSUME NEW r \in Requests, Generate(r) PROVE Moves
  BY <1>2, UnsentTouchesNoJob, CreateCreates, RqEnqueueSendsNew DEF Generate, Unsent, Moves
<1>3. ASSUME NEW r \in Requests, Expire(r) PROVE Moves
  BY <1>3, ExpireExpires DEF Moves
<1>4. ASSUME NEW p \in Procs, ApiCrash(p) PROVE Moves
  BY <1>4, CrashTouchesNoJob DEF Moves
<1>5. ASSUME NEW w \in Workers, Fetch(w) PROVE Moves
  BY <1>5, FetchTakes DEF Moves
<1>6. ASSUME NEW w \in Workers, WorkerStep(w) PROVE Moves
  BY <1>6, WorkerTouchesOwn, WorkerLeavesOwn DEF Moves
<1>7. ASSUME NEW r \in Requests, RqForgets(r) PROVE Moves
  BY <1>7, ForgettingTouchesNoJob DEF Moves
<1> QED
  BY <1>1, <1>2, <1>3, <1>4, <1>5, <1>6, <1>7 DEF Next, Execute, WorkerStep

-----------------------------------------------------------------------------
LEMMA PlacedKept == TypeOK /\ TypeOK' /\ JobInv /\ Moves => PlacedInv'
<1> SUFFICES ASSUME TypeOK, TypeOK', JobInv, Moves PROVE PlacedInv'
  OBVIOUS
<1>0. /\ Range(rq) \subseteq Requests /\ GaveUp \subseteq Requests /\ NoJob \notin Requests
      /\ active \subseteq Requests /\ active' \subseteq Requests
      /\ \A w \in Workers : wjob[w] \in Requests \cup {NoJob}
      /\ \A w \in Workers : wpc[w] = "idle" <=> wjob[w] = NoJob
      /\ \A w \in Workers : wpc'[w] = "idle" <=> wjob'[w] = NoJob
  BY PartiesAssumption DEF TypeOK, Range, GaveUp
<1>1. ASSUME NoJobTouched PROVE PlacedInv'
  BY <1>0, <1>1 DEF NoJobTouched, JobInv, PlacedInv, Sent
<1>2. ASSUME NEW r \in Requests, SendsNew(r) PROVE PlacedInv'
  BY <1>0, <1>2 DEF SendsNew, JobInv, PlacedInv, Sent
<1>3. ASSUME NEW r \in Requests, Creates(r) PROVE PlacedInv'
  BY <1>0, <1>3 DEF Creates, JobInv, PlacedInv, Sent
<1>4. ASSUME NEW r \in Requests, Expires(r) PROVE PlacedInv'
  BY <1>0, <1>4 DEF Expires, JobInv, PlacedInv, Sent
<1>5. ASSUME NEW w \in Workers, Takes(w) PROVE PlacedInv'
  BY <1>0, <1>5 DEF Takes, JobInv, PlacedInv, Sent
<1>6. ASSUME NEW w \in Workers, TouchesOwn(w), LeavesOwn(w) PROVE PlacedInv'
  BY <1>0, <1>6 DEF TouchesOwn, LeavesOwn, JobInv, PlacedInv, Sent
<1> QED
  BY <1>1, <1>2, <1>3, <1>4, <1>5, <1>6 DEF Moves

LEMMA ProgressKept == TypeOK /\ TypeOK' /\ JobInv /\ Moves => ProgressInv'
<1> SUFFICES ASSUME TypeOK, TypeOK', JobInv, Moves PROVE ProgressInv'
  OBVIOUS
<1>0. /\ Range(rq) \subseteq Requests /\ GaveUp \subseteq Requests /\ NoJob \notin Requests
      /\ active \subseteq Requests /\ active' \subseteq Requests
      /\ \A w \in Workers : wjob[w] \in Requests \cup {NoJob}
      /\ \A w \in Workers : wpc[w] = "idle" <=> wjob[w] = NoJob
      /\ \A w \in Workers : wpc'[w] = "idle" <=> wjob'[w] = NoJob
  BY PartiesAssumption DEF TypeOK, Range, GaveUp
<1>1. ASSUME NoJobTouched PROVE ProgressInv'
  BY <1>0, <1>1 DEF NoJobTouched, JobInv, PlacedInv, ProgressInv, RunsOnce, Held, Sent, TERMINAL
<1>2. ASSUME NEW r \in Requests, SendsNew(r) PROVE ProgressInv'
  BY <1>0, <1>2 DEF SendsNew, JobInv, PlacedInv, ProgressInv, RunsOnce, Held, Sent, TERMINAL
<1>3. ASSUME NEW r \in Requests, Creates(r) PROVE ProgressInv'
  BY <1>0, <1>3 DEF Creates, JobInv, PlacedInv, ProgressInv, RunsOnce, Held, Sent, TERMINAL
<1>4. ASSUME NEW r \in Requests, Expires(r) PROVE ProgressInv'
  BY <1>0, <1>4 DEF Expires, JobInv, PlacedInv, ProgressInv, RunsOnce, Held, Sent, TERMINAL
<1>5. ASSUME NEW w \in Workers, Takes(w) PROVE ProgressInv'
  BY <1>0, <1>5 DEF Takes, JobInv, PlacedInv, ProgressInv, RunsOnce, Held, Sent, TERMINAL
<1>6. ASSUME NEW w \in Workers, TouchesOwn(w), LeavesOwn(w) PROVE ProgressInv'
  BY <1>0, <1>6 DEF TouchesOwn, LeavesOwn, JobInv, PlacedInv, ProgressInv, RunsOnce, Held, Sent, TERMINAL
<1> QED
  BY <1>1, <1>2, <1>3, <1>4, <1>5, <1>6 DEF Moves

LEMMA RunsOnceKept == TypeOK /\ TypeOK' /\ JobInv /\ Moves => RunsOnce'
<1> SUFFICES ASSUME TypeOK, TypeOK', JobInv, Moves PROVE RunsOnce'
  OBVIOUS
<1>0. /\ Range(rq) \subseteq Requests /\ GaveUp \subseteq Requests /\ NoJob \notin Requests
      /\ active \subseteq Requests /\ active' \subseteq Requests
      /\ \A w \in Workers : wjob[w] \in Requests \cup {NoJob}
      /\ \A w \in Workers : wpc[w] = "idle" <=> wjob[w] = NoJob
      /\ \A w \in Workers : wpc'[w] = "idle" <=> wjob'[w] = NoJob
  BY PartiesAssumption DEF TypeOK, Range, GaveUp
<1>1. ASSUME NoJobTouched PROVE RunsOnce'
  BY <1>0, <1>1 DEF NoJobTouched, JobInv, PlacedInv, RunsOnce, Held, Sent
<1>2. ASSUME NEW r \in Requests, SendsNew(r) PROVE RunsOnce'
  BY <1>0, <1>2 DEF SendsNew, JobInv, PlacedInv, RunsOnce, Held, Sent
<1>3. ASSUME NEW r \in Requests, Creates(r) PROVE RunsOnce'
  BY <1>0, <1>3 DEF Creates, JobInv, PlacedInv, RunsOnce, Held, Sent
<1>4. ASSUME NEW r \in Requests, Expires(r) PROVE RunsOnce'
  BY <1>0, <1>4 DEF Expires, JobInv, PlacedInv, RunsOnce, Held, Sent
<1>5. ASSUME NEW w \in Workers, Takes(w) PROVE RunsOnce'
  BY <1>0, <1>5 DEF Takes, JobInv, PlacedInv, RunsOnce, Held, Sent
<1>6. ASSUME NEW w \in Workers, TouchesOwn(w), LeavesOwn(w) PROVE RunsOnce'
  BY <1>0, <1>6 DEF TouchesOwn, LeavesOwn, JobInv, PlacedInv, RunsOnce, Held, Sent
<1> QED
  BY <1>1, <1>2, <1>3, <1>4, <1>5, <1>6 DEF Moves

LEMMA OpenIsActiveKept == TypeOK /\ TypeOK' /\ JobInv /\ Moves => OpenIsActive'
<1> SUFFICES ASSUME TypeOK, TypeOK', JobInv, Moves PROVE OpenIsActive'
  OBVIOUS
<1>0. /\ Range(rq) \subseteq Requests /\ GaveUp \subseteq Requests /\ NoJob \notin Requests
      /\ active \subseteq Requests /\ active' \subseteq Requests
      /\ \A w \in Workers : wjob[w] \in Requests \cup {NoJob}
      /\ \A w \in Workers : wpc[w] = "idle" <=> wjob[w] = NoJob
      /\ \A w \in Workers : wpc'[w] = "idle" <=> wjob'[w] = NoJob
  BY PartiesAssumption DEF TypeOK, Range, GaveUp
<1>1. ASSUME NoJobTouched PROVE OpenIsActive'
  BY <1>0, <1>1 DEF NoJobTouched, JobInv, OpenIsActive, Unfinished
<1>2. ASSUME NEW r \in Requests, SendsNew(r) PROVE OpenIsActive'
  BY <1>0, <1>2 DEF SendsNew, JobInv, OpenIsActive, Unfinished
<1>3. ASSUME NEW r \in Requests, Creates(r) PROVE OpenIsActive'
  BY <1>0, <1>3 DEF Creates, JobInv, OpenIsActive, Unfinished
<1>4. ASSUME NEW r \in Requests, Expires(r) PROVE OpenIsActive'
  BY <1>0, <1>4 DEF Expires, JobInv, OpenIsActive, Unfinished
<1>5. ASSUME NEW w \in Workers, Takes(w) PROVE OpenIsActive'
  BY <1>0, <1>5 DEF Takes, JobInv, OpenIsActive, Unfinished
<1>6. ASSUME NEW w \in Workers, TouchesOwn(w), LeavesOwn(w) PROVE OpenIsActive'
  BY <1>0, <1>6 DEF TouchesOwn, LeavesOwn, JobInv, OpenIsActive, Unfinished
<1> QED
  BY <1>1, <1>2, <1>3, <1>4, <1>5, <1>6 DEF Moves

LEMMA SlotLeaksKept == TypeOK /\ TypeOK' /\ JobInv /\ Moves => SlotLeaksOnlyByFailure'
<1> SUFFICES ASSUME TypeOK, TypeOK', JobInv, Moves PROVE SlotLeaksOnlyByFailure'
  OBVIOUS
<1>0. /\ Range(rq) \subseteq Requests /\ GaveUp \subseteq Requests /\ NoJob \notin Requests
      /\ active \subseteq Requests /\ active' \subseteq Requests
      /\ \A w \in Workers : wjob[w] \in Requests \cup {NoJob}
      /\ \A w \in Workers : wpc[w] = "idle" <=> wjob[w] = NoJob
      /\ \A w \in Workers : wpc'[w] = "idle" <=> wjob'[w] = NoJob
  BY PartiesAssumption DEF TypeOK, Range, GaveUp
<1>1. ASSUME NoJobTouched PROVE SlotLeaksOnlyByFailure'
  BY <1>0, <1>1 DEF NoJobTouched, JobInv, SlotLeaksOnlyByFailure, Held, TERMINAL
<1>2. ASSUME NEW r \in Requests, SendsNew(r) PROVE SlotLeaksOnlyByFailure'
  BY <1>0, <1>2 DEF SendsNew, JobInv, SlotLeaksOnlyByFailure, Held, TERMINAL
<1>3. ASSUME NEW r \in Requests, Creates(r) PROVE SlotLeaksOnlyByFailure'
  BY <1>0, <1>3 DEF Creates, JobInv, SlotLeaksOnlyByFailure, Held, TERMINAL
<1>4. ASSUME NEW r \in Requests, Expires(r) PROVE SlotLeaksOnlyByFailure'
  BY <1>0, <1>4 DEF Expires, JobInv, SlotLeaksOnlyByFailure, Held, TERMINAL
<1>5. ASSUME NEW w \in Workers, Takes(w) PROVE SlotLeaksOnlyByFailure'
  BY <1>0, <1>5 DEF Takes, JobInv, SlotLeaksOnlyByFailure, Held, TERMINAL
<1>6. ASSUME NEW w \in Workers, TouchesOwn(w), LeavesOwn(w) PROVE SlotLeaksOnlyByFailure'
  BY <1>0, <1>6 DEF TouchesOwn, LeavesOwn, JobInv, SlotLeaksOnlyByFailure, Held, TERMINAL
<1> QED
  BY <1>1, <1>2, <1>3, <1>4, <1>5, <1>6 DEF Moves

LEMMA JobInvKept == TypeOK /\ TypeOK' /\ JobInv /\ [Next]_vars => JobInv'
BY EveryStepMoves, PlacedKept, ProgressKept, RunsOnceKept, OpenIsActiveKept, SlotLeaksKept
   DEF JobInv

\* A job runs at most once, whatever workers die and answers are lost.
THEOREM AtMostOnce == Spec => []RunsOnce
<1>1. JobInv => RunsOnce
  BY DEF JobInv
<1> QED
  BY <1>1, TypeCorrect, JobInvInit, JobInvKept, PTL DEF Spec

\* The active set has every queued or running job, and a finished one only
\* between two writes of its worker, or because that worker failed there.
THEOREM SlotsFollow == Spec => []SlotsFollowJobs
<1>1. JobInv => SlotsFollowJobs
  BY DEF JobInv, SlotsFollowJobs
<1> QED
  BY <1>1, TypeCorrect, JobInvInit, JobInvKept, PTL DEF Spec

-----------------------------------------------------------------------------
(* Final statuses.                                                          *)

Worsens(r) ==
  status[r] \in TERMINAL /\ status'[r] \notin {status[r], "none"} =>
    status[r] = "succeeded" /\ status'[r] = "failed" /\ Held(r)

\* A worker that writes a status over a final one is in its except branch.
LEMMA WorkerWorsens ==
  ASSUME TypeOK, JobInv, NEW w \in Workers, WorkerStep(w)
  PROVE  Worsens(wjob[w])
<1> USE DEF TypeOK, JobInv, ProgressInv, Worsens, TERMINAL, store
<1>1. CASE Load(w)
  BY <1>1 DEF Load
<1>2. CASE MarkRunning(w)
  BY <1>2 DEF MarkRunning, StoreStatus
<1>3. CASE AddActive(w)
  BY <1>3 DEF AddActive
<1>4. CASE HandlerReturns(w)
  BY <1>4 DEF HandlerReturns, StoreStatus
<1>5. CASE HandlerRaises(w)
  BY <1>5 DEF HandlerRaises
<1>6. CASE StoreFailure(w)
  BY <1>6 DEF StoreFailure, StoreStatus, Held
<1>7. CASE DropActive(w)
  BY <1>7 DEF DropActive
<1>8. CASE Abandon(w)
  BY <1>8 DEF Abandon
<1> QED
  BY <1>1, <1>2, <1>3, <1>4, <1>5, <1>6, <1>7, <1>8 DEF WorkerStep

LEMMA StepWorsens ==
  ASSUME TypeOK, JobInv, [Next]_vars, NEW r \in Requests
  PROVE  Worsens(r)
<1>1. CASE \E w \in Workers : WorkerStep(w)
  BY <1>1, WorkerTouchesOwn, WorkerWorsens DEF TouchesOwn, Worsens
<1>2. CASE \E s \in Requests : Create(s)
  <2> PICK s \in Requests : Create(s)
    BY <1>2
  <2>1. status[s] = "none"
    BY DEF Create, TypeOK, JobInv, PlacedInv
  <2> QED
    BY <2>1 DEF Create, TypeOK, Worsens, TERMINAL
<1>3. CASE \E s \in Requests : Expire(s)
  BY <1>3 DEF Expire, TypeOK, Worsens
<1>4. CASE UNCHANGED status
  BY <1>4 DEF Worsens
<1>5. \/ \E w \in Workers : WorkerStep(w)
      \/ \E s \in Requests : Create(s) \/ Expire(s)
      \/ UNCHANGED status
  BY DEF Next, Generate, Execute, WorkerStep, Reserve, RejectBody, CountGlobal,
         CountGlobalFails, CountTenant, RequestRaises, RqForgets, RqEnqueue, ApiCrash, Fetch, store, vars
<1> QED
  BY <1>1, <1>2, <1>3, <1>4, <1>5

\* A client that read "failed" reads no other status later; only "succeeded"
\* can turn into "failed", and only by the job's own worker.
THEOREM FinalWorsensOnly == Spec => FinalOnlyWorsens
<1>1. TypeOK /\ JobInv /\ [Next]_vars =>
        [\A r \in Requests :
           status[r] \in TERMINAL /\ status'[r] \notin {status[r], "none"} =>
             status[r] = "succeeded" /\ status'[r] = "failed" /\ Held(r)]_vars
  BY StepWorsens DEF Worsens
<1> QED
  BY <1>1, TypeCorrect, JobInvInit, JobInvKept, PTL DEF Spec, FinalOnlyWorsens

-----------------------------------------------------------------------------
\* A job whose client was told it is queued stays in RQ's list, with a worker or
\* in the failed registry until it has an outcome; only the expiry of its entry
\* in that registry leaves it to the store alone.
THEOREM LostOnlyByExpiry == Spec => []AcceptedIsSomewhere
<1>1. Init => AcceptedIsSomewhere
  BY DEF Init, AcceptedIsSomewhere
<1>2. TypeOK /\ TypeOK' /\ JobInv /\ AcceptedIsSomewhere /\ [Next]_vars => AcceptedIsSomewhere'
  <2> SUFFICES ASSUME TypeOK, TypeOK', JobInv, AcceptedIsSomewhere, [Next]_vars,
                      NEW j \in Requests, pc'[j] = "accepted", status'[j] \in Unfinished
               PROVE  j \in Range(rq') \/ Held(j)' \/ j \in GaveUp'
    BY DEF AcceptedIsSomewhere, GaveUp
  <2>0. /\ \A k \in Requests : pc[k] = "accepted" /\ status[k] \in Unfinished =>
             k \in Range(rq) \/ Held(k) \/ k \in GaveUp
        /\ \A w \in Workers : wjob[w] \in Requests \cup {NoJob}
        /\ NoJob \notin Requests
    BY PartiesAssumption DEF TypeOK, AcceptedIsSomewhere, GaveUp
  <2>1. ASSUME NoJobTouched PROVE j \in Range(rq') \/ Held(j)' \/ j \in GaveUp'
    BY <2>0, <2>1 DEF NoJobTouched, Held, Sent
  <2>2. ASSUME NEW r \in Requests, SendsNew(r)
        PROVE  j \in Range(rq') \/ Held(j)' \/ j \in GaveUp'
    BY <2>0, <2>2 DEF SendsNew, Held
  <2>3. ASSUME NEW r \in Requests, Creates(r)
        PROVE  j \in Range(rq') \/ Held(j)' \/ j \in GaveUp'
    BY <2>0, <2>3 DEF Creates, Held
  <2>4. ASSUME NEW r \in Requests, Expires(r)
        PROVE  j \in Range(rq') \/ Held(j)' \/ j \in GaveUp'
    BY <2>0, <2>4 DEF Expires, Held, Unfinished
  <2>5. ASSUME NEW w \in Workers, Takes(w)
        PROVE  j \in Range(rq') \/ Held(j)' \/ j \in GaveUp'
    BY <2>0, <2>5 DEF Takes, Held
  <2>6. ASSUME NEW w \in Workers, TouchesOwn(w), LeavesOwn(w)
        PROVE  j \in Range(rq') \/ Held(j)' \/ j \in GaveUp'
    BY <2>0, <2>6 DEF TouchesOwn, LeavesOwn, Held
  <2> QED
    BY <2>1, <2>2, <2>3, <2>4, <2>5, <2>6, EveryStepMoves DEF Moves
<1> QED
  BY <1>1, <1>2, TypeCorrect, JobInvInit, JobInvKept, PTL DEF Spec

-----------------------------------------------------------------------------
(* The quota.                                                               *)

Unreserved == {"new", "over_quota"}

\* Only Reserve() turns a request into one that has reserved.
LEMMA ReservedFacts ==
  ASSUME TypeOK, [Next]_vars
  PROVE  \/ /\ used' = used
            /\ \A r \in Requests : pc'[r] \in Unreserved <=> pc[r] \in Unreserved
         \/ \E r \in Requests :
              /\ used' = [used EXCEPT ![TenantOf[r]] = @ + 1]
              /\ Quota[TenantOf[r]] = 0 \/ used[TenantOf[r]] < Quota[TenantOf[r]]
              /\ pc[r] = "new" /\ pc' = [pc EXCEPT ![r] = "reserved"]
<1> USE DEF TypeOK, Unreserved, Goto
<1>1. ASSUME NEW r \in Requests, Reserve(r)
      PROVE  \/ used' = used /\ pc[r] = "new" /\ pc' = [pc EXCEPT ![r] = "over_quota"]
             \/ /\ used' = [used EXCEPT ![TenantOf[r]] = @ + 1]
                /\ Quota[TenantOf[r]] = 0 \/ used[TenantOf[r]] < Quota[TenantOf[r]]
                /\ pc[r] = "new" /\ pc' = [pc EXCEPT ![r] = "reserved"]
  BY <1>1 DEF Reserve
<1>2. ASSUME NEW r \in Requests,
             RejectBody(r) \/ CountGlobal(r) \/ CountGlobalFails(r) \/ CountTenant(r)
             \/ Create(r) \/ RqEnqueue(r) \/ RequestRaises(r)
      PROVE  /\ used' = used /\ pc[r] \notin Unreserved
             /\ \E where : where \notin Unreserved /\ pc' = [pc EXCEPT ![r] = where]
  BY <1>2 DEF RejectBody, CountGlobal, CountGlobalFails, CountTenant, Create, RqEnqueue,
     RequestRaises, Locked, tally
<1>3. ASSUME NEW p \in Procs, ApiCrash(p)
      PROVE  used' = used /\ \A r \in Requests : pc'[r] \in Unreserved <=> pc[r] \in Unreserved
  BY <1>3 DEF ApiCrash, InFlight, Locked, tally
<1>4. CASE UNCHANGED <<used, pc>>
  BY <1>4
<1>5. \/ \E r \in Requests : Reserve(r)
      \/ \E r \in Requests :
           RejectBody(r) \/ CountGlobal(r) \/ CountGlobalFails(r) \/ CountTenant(r)
             \/ Create(r) \/ RqEnqueue(r) \/ RequestRaises(r)
      \/ \E p \in Procs : ApiCrash(p)
      \/ UNCHANGED <<used, pc>>
  BY DEF Next, Generate, Expire, RqForgets, Execute, Abandon, Fetch, Load, MarkRunning, AddActive,
         HandlerReturns, HandlerRaises, StoreFailure, DropActive, tally, vars
<1> QED
  BY <1>1, <1>2, <1>3, <1>4, <1>5

\* The month's counter is the number of requests that reserved a unit, and
\* never passes the plan's quota.
THEOREM UsageCounts == Spec => []UsageIsReservations
<1>1. Init => UsageIsReservations
  <2> SUFFICES ASSUME Init, NEW t \in Tenants
               PROVE  used[t] = Cardinality(ReservedBy(t)) /\ (Quota[t] > 0 => used[t] <= Quota[t])
    BY DEF UsageIsReservations
  <2>1. ReservedBy(t) = {} /\ used[t] = 0
    BY DEF Init, ReservedBy
  <2> QED
    BY <2>1, FS_EmptySet, LimitsAssumption
<1>2. TypeOK /\ UsageIsReservations /\ [Next]_vars => UsageIsReservations'
  <2> SUFFICES ASSUME TypeOK, UsageIsReservations, [Next]_vars, NEW t \in Tenants
               PROVE  used'[t] = Cardinality(ReservedBy(t)') /\ (Quota[t] > 0 => used'[t] <= Quota[t])
    BY DEF UsageIsReservations
  <2>0. /\ used[t] = Cardinality(ReservedBy(t)) /\ (Quota[t] > 0 => used[t] <= Quota[t])
        /\ used \in [Tenants -> Nat] /\ Quota[t] \in Nat /\ DOMAIN pc = Requests
    BY LimitsAssumption DEF UsageIsReservations, TypeOK
  <2>1. CASE /\ used' = used
             /\ \A r \in Requests : pc'[r] \in Unreserved <=> pc[r] \in Unreserved
    <3>1. ReservedBy(t)' = ReservedBy(t)
      BY <2>1 DEF ReservedBy, Unreserved
    <3> QED
      BY <2>0, <2>1, <3>1
  <2>2. ASSUME NEW r \in Requests,
               used' = [used EXCEPT ![TenantOf[r]] = @ + 1],
               Quota[TenantOf[r]] = 0 \/ used[TenantOf[r]] < Quota[TenantOf[r]],
               pc[r] = "new", pc' = [pc EXCEPT ![r] = "reserved"]
        PROVE  used'[t] = Cardinality(ReservedBy(t)') /\ (Quota[t] > 0 => used'[t] <= Quota[t])
    <3>1. CASE TenantOf[r] = t
      <4>1. ReservedBy(t)' = ReservedBy(t) \cup {r} /\ r \notin ReservedBy(t)
        BY <2>0, <2>2, <3>1 DEF ReservedBy
      <4>2. IsFiniteSet(ReservedBy(t))
        BY PartiesAssumption, FS_Subset DEF ReservedBy
      <4>3. Cardinality(ReservedBy(t)') = Cardinality(ReservedBy(t)) + 1
        BY <4>1, <4>2, FS_AddElement
      <4> QED
        BY <2>0, <2>2, <3>1, <4>3
    <3>2. CASE TenantOf[r] # t
      <4>1. ReservedBy(t)' = ReservedBy(t)
        BY <2>0, <2>2, <3>2 DEF ReservedBy
      <4> QED
        BY <2>0, <2>2, <3>2, <4>1
    <3> QED
      BY <3>1, <3>2
  <2> QED
    BY <2>1, <2>2, ReservedFacts
<1> QED
  BY <1>1, <1>2, TypeCorrect, PTL DEF Spec
-----------------------------------------------------------------------------
(* The global cap.                                                          *)

\* One request of a process is between the counts and the create, and a job a
\* worker is about to add to the active set is there already.
CapInv ==
  /\ \A r, s \in LockHolders : ProcOf[r] = ProcOf[s] => r = s
  /\ \A w \in Workers : wpc[w] = "starting" => wjob[w] \in active

\* The lock bounds its holders by the processes.
LEMMA HoldersByProc ==
  ASSUME NEW H \in SUBSET Requests, \A r, s \in H : ProcOf[r] = ProcOf[s] => r = s
  PROVE  /\ IsFiniteSet(H) /\ Cardinality(H) \in Nat
         /\ Cardinality(H) <= Cardinality(Procs)
<1>1. IsFiniteSet(H) /\ Cardinality(H) \in Nat /\ Cardinality(Procs) \in Nat
  BY PartiesAssumption, FS_Subset, FS_CardinalityType
<1>2. ASSUME Cardinality(Procs) < Cardinality(H) PROVE FALSE
  <2> DEFINE f == [r \in H |-> ProcOf[r]]
  <2>1. f \in [H -> Procs] /\ \A r \in H : f[r] = ProcOf[r]
    BY PartiesAssumption
  <2> HIDE DEF f
  <2>2. PICK x, y \in H : x # y /\ f[x] = f[y]
    BY <1>1, <1>2, <2>1, PartiesAssumption, FS_PigeonHole
  <2> QED
    BY <2>1, <2>2
<1> QED
  BY <1>1, <1>2

\* A request enters the lock of its process.
Enters(r) ==
  /\ LockHolders' = LockHolders \cup {r}
  /\ \A s \in LockHolders : ProcOf[s] # ProcOf[r]

\* A step enters the lock after it has counted the active set or failed to,
\* moves its request from the lock to the active set, or adds to neither.
CapMoves ==
  \/ /\ Cardinality(active) < MaxGlobal /\ active' = active /\ blind' = blind
     /\ \E r \in Requests : Enters(r)
  \/ \E r \in Requests : Enters(r) /\ active' = active /\ blind' = blind \cup {r}
  \/ \E r \in LockHolders :
       LockHolders' = LockHolders \ {r} /\ active' = active \cup {r} /\ blind' = blind
  \/ LockHolders' \subseteq LockHolders /\ active' \subseteq active /\ blind' = blind

LEMMA StartingKept ==
  ASSUME TypeOK, JobInv, [Next]_vars, \A w \in Workers : wpc[w] = "starting" => wjob[w] \in active
  PROVE  \A w \in Workers : wpc'[w] = "starting" => wjob'[w] \in active'
<1> SUFFICES ASSUME NEW w \in Workers, wpc'[w] = "starting" PROVE wjob'[w] \in active'
  OBVIOUS
<1> USE PartiesAssumption DEF TypeOK, JobInv, RunsOnce, ProgressInv, OpenIsActive,
        Unfinished, Busy, store, workers, given
<1>1. ASSUME NEW v \in Workers, WorkerStep(v) PROVE wjob'[w] \in active'
  <2>1. TouchesOwn(v)
    BY <1>1, WorkerTouchesOwn
  <2>2. CASE v # w
    BY <2>1, <2>2 DEF TouchesOwn
  <2>3. CASE v = w
    <3>1. MarkRunning(w)
      BY <1>1, <2>3 DEF WorkerStep, Load, MarkRunning, AddActive, HandlerReturns,
         HandlerRaises, StoreFailure, DropActive, Abandon, StoreStatus, Step
    <3> QED
      BY <3>1 DEF MarkRunning, StoreStatus, Step
  <2> QED
    BY <2>2, <2>3
<1>2. ASSUME NEW v \in Workers, Fetch(v) PROVE wjob'[w] \in active'
  BY <1>2 DEF Fetch
<1>3. ASSUME NEW r \in Requests, Generate(r) PROVE wjob'[w] \in active'
  BY <1>3 DEF Generate, Reserve, RejectBody, CountGlobal, CountGlobalFails, CountTenant, Create,
     RqEnqueue, RequestRaises
<1>4. CASE UNCHANGED <<active, wpc, wjob>>
  BY <1>4
<1> QED
  BY <1>1, <1>2, <1>3, <1>4 DEF Next, Execute, WorkerStep, Expire, RqForgets, ApiCrash, vars

LEMMA StepCaps ==
  ASSUME TypeOK, JobInv, CapInv, [Next]_vars
  PROVE  CapMoves
<1> USE PartiesAssumption DEF TypeOK, LockHolders, Locked, Goto, store, tally, workers
<1>0. Cardinality(active) \in Nat /\ MaxGlobal \in Nat
  BY LimitsAssumption, FS_Subset, FS_CardinalityType
<1>1. ASSUME NEW r \in Requests, CountGlobal(r) PROVE CapMoves
  <2>1. active' = active /\ blind' = blind
    BY <1>1 DEF CountGlobal
  <2>2. CASE Cardinality(active) >= MaxGlobal
    <3>1. pc' = [pc EXCEPT ![r] = "global_full"]
      BY <1>1, <2>2 DEF CountGlobal
    <3>2. LockHolders' \subseteq LockHolders
      BY <3>1
    <3> QED
      BY <2>1, <3>2, Zenon DEF CapMoves
  <2>3. CASE ~(Cardinality(active) >= MaxGlobal)
    <3>1. pc' = [pc EXCEPT ![r] = "global_ok"] /\ LockFree(r)
      BY <1>1, <2>3 DEF CountGlobal
    <3>2. Enters(r)
      BY <3>1 DEF Enters, LockFree
    <3>3. Cardinality(active) < MaxGlobal
      BY <1>0, <2>3
    <3> QED
      BY <2>1, <3>2, <3>3, Zenon DEF CapMoves
  <2> QED
    BY <2>2, <2>3
<1>2. ASSUME NEW r \in Requests, CountGlobalFails(r) PROVE CapMoves
  <2>1. pc' = [pc EXCEPT ![r] = "global_ok"] /\ LockFree(r) /\ active' = active
    BY <1>2 DEF CountGlobalFails
  <2>2. Enters(r)
    BY <2>1 DEF Enters, LockFree
  <2>3. \/ blind' = blind \cup {r}
        \/ ~(Cardinality(active) >= MaxGlobal) /\ blind' = blind
    BY <1>2 DEF CountGlobalFails
  <2>4. ~(Cardinality(active) >= MaxGlobal) => Cardinality(active) < MaxGlobal
    BY <1>0
  <2> QED
    BY <2>1, <2>2, <2>3, <2>4, Zenon DEF CapMoves
<1>3. ASSUME NEW r \in Requests, Create(r) PROVE CapMoves
  <2>1. /\ r \in LockHolders /\ pc' = [pc EXCEPT ![r] = "created"]
        /\ active' = active \cup {r} /\ blind' = blind
    BY <1>3 DEF Create
  <2>2. LockHolders' = LockHolders \ {r}
    BY <2>1
  <2> QED
    BY <2>1, <2>2, Zenon DEF CapMoves
<1>4. ASSUME NEW r \in Requests,
             Reserve(r) \/ RejectBody(r) \/ CountTenant(r) \/ RqEnqueue(r) \/ RequestRaises(r)
      PROVE CapMoves
  <2>1. active' = active /\ blind' = blind
    BY <1>4 DEF Reserve, RejectBody, CountTenant, RqEnqueue, RequestRaises
  <2>2. /\ pc' = [pc EXCEPT ![r] = pc'[r]]
        /\ pc'[r] \in Locked => pc[r] \in Locked
    BY <1>4 DEF Reserve, RejectBody, CountTenant, RqEnqueue, RequestRaises
  <2>3. LockHolders' \subseteq LockHolders
    BY <2>2
  <2> QED
    BY <2>1, <2>3 DEF CapMoves
<1>5. ASSUME NEW p \in Procs, ApiCrash(p) PROVE CapMoves
  BY <1>5 DEF ApiCrash, CapMoves
<1>6. ASSUME NEW w \in Workers, WorkerStep(w) PROVE CapMoves
  <2>1. pc' = pc
    BY <1>6, WorkerTouchesOwn DEF TouchesOwn
  <2>2. wpc[w] = "starting" => wjob[w] \in active
    BY DEF CapInv
  <2>3. active' \subseteq active /\ blind' = blind
    BY <1>6, <2>2 DEF WorkerStep, Load, MarkRunning, AddActive, HandlerReturns, HandlerRaises,
       StoreFailure, DropActive, Abandon
  <2> QED
    BY <2>1, <2>3 DEF CapMoves
<1>7. CASE UNCHANGED <<pc, active, blind>>
  BY <1>7 DEF CapMoves
<1> QED
  BY <1>1, <1>2, <1>3, <1>4, <1>5, <1>6, <1>7
     DEF Next, Generate, Expire, RqForgets, Execute, WorkerStep, Fetch, vars

\* Jobs pass the global cap by the other processes and by counts that failed
\* while the set was full, whatever the workers do meanwhile.
THEOREM OvershootBounded == Spec => []GlobalOvershoot
<1>1. Init => CapInv /\ GlobalOvershoot
  <2> SUFFICES ASSUME Init PROVE CapInv /\ GlobalOvershoot
    OBVIOUS
  <2>1. /\ LockHolders = {} /\ LockHolders \ blind = {} /\ active \ blind = {}
        /\ \A w \in Workers : wpc[w] # "starting"
    BY DEF Init, LockHolders, Locked
  <2>2. Cardinality(Procs) \in Nat /\ MaxGlobal \in Nat \ {0}
    BY PartiesAssumption, LimitsAssumption, FS_CardinalityType
  <2>3. CapInv
    BY <2>1 DEF CapInv
  <2>4. Cardinality(LockHolders \ blind) = 0 /\ Cardinality(active \ blind) = 0
    BY <2>1, FS_EmptySet, Zenon
  <2> QED
    BY <2>2, <2>3, <2>4 DEF GlobalOvershoot
<1>2. TypeOK /\ TypeOK' /\ JobInv /\ CapInv /\ GlobalOvershoot /\ [Next]_vars
        => CapInv' /\ GlobalOvershoot'
  <2> SUFFICES ASSUME TypeOK, TypeOK', JobInv, CapInv, GlobalOvershoot, [Next]_vars
               PROVE  CapInv' /\ GlobalOvershoot'
    OBVIOUS
  <2>1. CapMoves
    BY StepCaps
  <2>2. CapInv'
    <3>1. \A w \in Workers : wpc'[w] = "starting" => wjob'[w] \in active'
      BY StartingKept DEF CapInv
    <3>2. \A r, s \in LockHolders' : ProcOf[r] = ProcOf[s] => r = s
      BY <2>1 DEF CapMoves, CapInv, Enters
    <3> QED
      BY <3>1, <3>2 DEF CapInv
  <2> DEFINE inside == LockHolders \ blind
             counted == active \ blind
  <2>3. /\ IsFiniteSet(inside) /\ Cardinality(inside) \in Nat
        /\ IsFiniteSet(inside') /\ Cardinality(inside') \in Nat
        /\ Cardinality(inside') <= Cardinality(Procs)
    <3>1. LockHolders \subseteq Requests /\ LockHolders' \subseteq Requests
      BY DEF LockHolders
    <3>2. inside \in SUBSET Requests /\ inside' \in SUBSET Requests
      BY <3>1
    <3>3. \A r, s \in inside' : ProcOf[r] = ProcOf[s] => r = s
      BY <2>2 DEF CapInv
    <3> HIDE DEF inside
    <3> QED
      BY <3>2, <3>3, HoldersByProc, PartiesAssumption, FS_Subset, FS_CardinalityType
  <2>4. /\ IsFiniteSet(active) /\ Cardinality(active) \in Nat
        /\ IsFiniteSet(counted) /\ Cardinality(counted) \in Nat
        /\ Cardinality(counted') \in Nat /\ Cardinality(counted) <= Cardinality(active)
        /\ Cardinality(Procs) \in Nat /\ MaxGlobal \in Nat
    <3>1. /\ active \subseteq Requests /\ counted \subseteq active /\ counted' \subseteq Requests
      BY DEF TypeOK
    <3> HIDE DEF counted
    <3>2. IsFiniteSet(active) /\ Cardinality(active) \in Nat
      BY <3>1, PartiesAssumption, FS_Subset, FS_CardinalityType
    <3>3. IsFiniteSet(counted) /\ Cardinality(counted) <= Cardinality(active)
      BY <3>1, <3>2, FS_Subset
    <3>4. Cardinality(counted) \in Nat /\ Cardinality(counted') \in Nat
      BY <3>1, <3>3, PartiesAssumption, FS_Subset, FS_CardinalityType
    <3> QED
      BY <3>2, <3>3, <3>4, PartiesAssumption, LimitsAssumption, FS_CardinalityType
  <2>5. Cardinality(counted) + Cardinality(inside) < MaxGlobal + Cardinality(Procs)
    BY DEF GlobalOvershoot
  <2>6. SUFFICES Cardinality(counted') + Cardinality(inside') < MaxGlobal + Cardinality(Procs)
    BY <2>2 DEF GlobalOvershoot
  <2>7. CASE Cardinality(active) < MaxGlobal /\ active' = active /\ blind' = blind
    <3>1. counted' = counted
      BY <2>7
    <3> HIDE DEF counted, inside
    <3> QED
      BY <2>3, <2>4, <2>7, <3>1
  <2>8. ASSUME inside' \subseteq inside, counted' \subseteq counted
        PROVE  Cardinality(counted') + Cardinality(inside') < MaxGlobal + Cardinality(Procs)
    <3> HIDE DEF counted, inside
    <3>1. /\ Cardinality(inside') <= Cardinality(inside)
          /\ Cardinality(counted') <= Cardinality(counted)
      BY <2>3, <2>4, <2>8, FS_Subset
    <3> QED
      BY <2>3, <2>4, <2>5, <3>1
  <2>9. ASSUME NEW r \in Requests, Enters(r), active' = active, blind' = blind \cup {r}
        PROVE  inside' \subseteq inside /\ counted' \subseteq counted
    BY <2>9 DEF Enters
  <2>10. ASSUME NEW r \in LockHolders, LockHolders' = LockHolders \ {r},
                active' = active \cup {r}, blind' = blind
         PROVE  Cardinality(counted') + Cardinality(inside') < MaxGlobal + Cardinality(Procs)
    <3>1. CASE r \in blind
      <4>1. inside' \subseteq inside /\ counted' \subseteq counted
        BY <2>10, <3>1
      <4> QED
        BY <2>8, <4>1
    <3>2. CASE r \notin blind
      <4>1. inside' = inside \ {r} /\ r \in inside /\ counted' = counted \cup {r}
        BY <2>10, <3>2
      <4> HIDE DEF counted, inside
      <4>2. Cardinality(inside \ {r}) = Cardinality(inside) - 1
        BY <2>3, <4>1, FS_RemoveElement
      <4>3. Cardinality(counted \cup {r}) <= Cardinality(counted) + 1
        <5>1. Cardinality(counted \cup {r}) =
                (IF r \in counted THEN Cardinality(counted) ELSE Cardinality(counted) + 1)
          BY <2>4, FS_AddElement
        <5> QED
          BY <2>4, <5>1
      <4>4. /\ Cardinality(inside') = Cardinality(inside) - 1
            /\ Cardinality(counted') <= Cardinality(counted) + 1
        BY <4>1, <4>2, <4>3
      <4> QED
        BY <2>3, <2>4, <2>5, <4>4
    <3> QED
      BY <3>1, <3>2
  <2>11. CASE LockHolders' \subseteq LockHolders /\ active' \subseteq active /\ blind' = blind
    <3>1. inside' \subseteq inside /\ counted' \subseteq counted
      BY <2>11
    <3> QED
      BY <2>8, <3>1
  <2> HIDE DEF counted, inside
  <2> QED
    BY <2>1, <2>7, <2>8, <2>9, <2>10, <2>11 DEF CapMoves
<1> QED
  BY <1>1, <1>2, TypeCorrect, JobInvInit, JobInvKept, PTL DEF Spec
=============================================================================
