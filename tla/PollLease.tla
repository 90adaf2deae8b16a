----------------------------- MODULE PollLease -----------------------------
(***************************************************************************)
(* The distributed polling singleton: one Mongo document, telegram_polling,*)
(* names the owner of the lease and when it expires                        *)
(* (_try_acquire_mongo_lock and its renewer, bot_interface/singleton.py).  *)
(* The owner's renewer sets expires_at every third of the lease; a replica *)
(* that waited wait_seconds for a live owner takes the lease over by force.*)
(* Mongo deletes an expired document by its TTL index at some later time.  *)
(* A start that cannot reach Mongo falls back to the lock file of its own   *)
(* host (module PollLock) and never looks at the lease again.               *)
(***************************************************************************)
EXTENDS Naturals, FiniteSets

CONSTANTS
  MultiReplica,  \* TBE_MULTI_REPLICA without TBE_ALLOW_LOCAL_SINGLETON
  Replicas,   \* a restarted process is the same replica with a new owner id
  NoOwner,    \* no document
  Gone        \* the owner id of a process that has ended

ASSUME LeaseAssumption ==
  /\ MultiReplica \in BOOLEAN
  /\ NoOwner \notin Replicas /\ Gone \notin Replicas /\ Gone # NoOwner

VARIABLES
  pc,       \* "off", "waiting", "forcing" (deadline passed), "polling", "local"
  owner,    \* the document's owner; NoOwner while there is no document
  expired,  \* expires_at <= now
  dropped   \* history: pollers taken over by force or whose lease ran out

vars == <<pc, owner, expired, dropped>>

Goto(r, where) == pc' = [pc EXCEPT ![r] = where]

Init ==
  /\ pc = [r \in Replicas |-> "off"]
  /\ owner = NoOwner
  /\ expired = FALSE
  /\ dropped = {}

Start(r) ==
  /\ pc[r] = "off"
  /\ Goto(r, "waiting")
  /\ UNCHANGED <<owner, expired, dropped>>

\* Mongo is configured but cannot be reached: the process polls on the file lock
\* of its host, or exits when the deployment says that there are other replicas.
StartWithoutMongo(r) ==
  /\ pc[r] = "off" /\ ~MultiReplica
  /\ Goto(r, "local")
  /\ UNCHANGED <<owner, expired, dropped>>

\* Mutated: the filter does not look at expires_at.
FreeAlways(r) == TRUE

\* The filter of find_one_and_update(): missing, expired, or already ours.
Free(r) == owner \in {NoOwner, r} \/ expired

\* The update is applied; the one poller it takes the lease from is not told.
Write(r) ==
  /\ pc[r] = "forcing" \/ (pc[r] = "waiting" /\ Free(r))
  /\ owner' = r
  /\ expired' = FALSE
  /\ dropped' = IF pc[r] = "forcing" /\ owner \in Replicas /\ pc[owner] = "polling"
                THEN dropped \cup {owner} ELSE dropped

\* Mutated: the forced attempt waits for the lease to be free.
TakeNeverForces(r) == Free(r) /\ Write(r) /\ Goto(r, "polling")

\* The upsert takes the lease and the process goes on to poll.
Take(r) == Write(r) /\ Goto(r, "polling")

\* The upsert takes the lease, but its answer is lost.
TakeUnheard(r) == Write(r) /\ UNCHANGED pc

\* Every attempt met a lease (DuplicateKeyError) or failed until the deadline:
\* forced becomes True.
Deadline(r) ==
  /\ pc[r] = "waiting"
  /\ Goto(r, "forcing")
  /\ UNCHANGED <<owner, expired, dropped>>

\* The process ends and the document stays: nobody has its owner id any more.
Leave(r) ==
  /\ Goto(r, "off")
  /\ owner' = IF owner = r THEN Gone ELSE owner
  /\ dropped' = dropped \ {r}
  /\ UNCHANGED expired

\* The forced attempt raises: SystemExit.
GiveUp(r) == pc[r] = "forcing" /\ Leave(r)

\* Mutated: the renewer's update names no owner.
RenewAnyone(r) ==
  /\ pc[r] = "polling" /\ owner # NoOwner
  /\ owner' = r
  /\ expired' = FALSE
  /\ dropped' = dropped \ {r}
  /\ UNCHANGED pc

\* The renewer's update matches the owner's own document, expired or not; how
\* many documents it matched is not looked at.
Renew(r) ==
  /\ pc[r] = "polling" /\ owner = r
  /\ expired' = FALSE
  /\ dropped' = dropped \ {r}
  /\ UNCHANGED <<pc, owner>>

\* Mutated: the deleted lease leaves its expiry behind.
ReleaseKeepsExpired(r) ==
  /\ pc[r] = "polling"
  /\ Goto(r, "off")
  /\ owner' = IF owner = r THEN NoOwner ELSE owner
  /\ dropped' = dropped \ {r}
  /\ UNCHANGED expired

\* atexit: delete_one() of the document this process owns, if it still does.
Release(r) ==
  /\ pc[r] = "polling"
  /\ Goto(r, "off")
  /\ owner' = IF owner = r THEN NoOwner ELSE owner
  /\ expired' = (expired /\ owner # r)
  /\ dropped' = dropped \ {r}

\* The process dies, or atexit cannot reach Mongo.
Kill(r) == pc[r] # "off" /\ Leave(r)

\* The lease runs out: its owner is gone, or did not renew it in time.
LeaseExpires ==
  /\ owner # NoOwner /\ ~expired
  /\ expired' = TRUE
  /\ dropped' = IF owner \in Replicas /\ pc[owner] = "polling"
                THEN dropped \cup {owner} ELSE dropped
  /\ UNCHANGED <<pc, owner>>

TtlDeletes ==
  /\ owner # NoOwner /\ expired
  /\ owner' = NoOwner
  /\ expired' = FALSE
  /\ UNCHANGED <<pc, dropped>>

Acquire(r) == Take(r) \/ Deadline(r)

Next ==
  \/ \E r \in Replicas :
       \/ Start(r) \/ StartWithoutMongo(r) \/ Acquire(r) \/ TakeUnheard(r) \/ GiveUp(r)
       \/ Renew(r) \/ Release(r) \/ Kill(r)
  \/ LeaseExpires \/ TtlDeletes

Spec == Init /\ [][Next]_vars

\* A waiting replica tries every second until it has an answer.
FairSpec == Spec /\ \A r \in Replicas : WF_vars(Acquire(r))

-----------------------------------------------------------------------------
\* Every variable holds a value of its type; only a document can be expired.
TypeOK ==
  /\ pc \in [Replicas -> {"off", "waiting", "forcing", "polling", "local"}]
  /\ owner \in Replicas \cup {NoOwner, Gone}
  /\ expired \in BOOLEAN
  /\ dropped \subseteq Replicas
  /\ owner = NoOwner => ~expired

Polls(r) == pc[r] \in {"polling", "local"}

\* Two replicas poll at once only if one of them was taken over by force, let
\* its lease run out or started without Mongo: lost answers, restarts, the TTL
\* index and the exit of other replicas are not enough (singleton.py:201,
\* "Exclusive lock so two platform processes cannot both call getUpdates").
OnePoller ==
  \A r, s \in Replicas \ dropped :
    Polls(r) /\ Polls(s) /\ r # s => "local" \in {pc[r], pc[s]}

\* The lease changes hands only when a starting replica takes it, its own owner
\* stops, or it has expired: a replica that lost it cannot take it back or
\* delete it while it goes on polling or when it exits.
LeaseMoves ==
  [][owner' # owner =>
       \/ owner' \in Replicas /\ pc[owner'] \in {"waiting", "forcing"}
       \/ owner' = NoOwner /\ (expired \/ (pc[owner] = "polling" /\ pc'[owner] = "off"))
       \/ owner' = Gone /\ pc'[owner] = "off"]_vars

\* A start ends by polling or by exiting, whoever holds the lease and renews it.
StartEnds ==
  \A r \in Replicas : pc[r] \in {"waiting", "forcing"} ~> pc[r] \in {"polling", "off"}

\* The step takes no lease from a replica that polls on it: it neither runs out
\* nor is taken by another replica.
Punctual ==
  \A r \in Replicas : pc[r] = "polling" /\ owner = r =>
    /\ expired' => expired
    /\ owner' \in Replicas => owner' = r

\* Who polls on an unexpired lease of its own polls alone (main.py:150, "Single
\* poller only"): what the lease is for, and what a start without Mongo breaks.
OwnerPollsAlone ==
  \A r, s \in Replicas :
    pc[r] = "polling" /\ owner = r /\ ~expired /\ Polls(s) => s = r

\* Two replicas never poll at the same time.
OnePollerAtATime == \A r, s \in Replicas : Polls(r) /\ Polls(s) => r = s
=============================================================================
