--------------------------- MODULE HostingProps ---------------------------
(* What a user of the hosting service relies on.                            *)
EXTENDS HostingService

\* Where a thread works on one instance.
Holding == {"found", "taken_down", "save_stop", "running", "not_running", "save_new"}

\* Every variable holds a value of its type, and a thread has work in hand where
\* its request needs it and nowhere else.
TypeOK ==
  /\ pc \in [Threads -> PC]
  /\ want \in [Threads -> Wants \cup {NoWant}]
  /\ todo \in [Threads -> SUBSET Ids]
  /\ held \in [Threads -> Ids \cup {NoId}]
  /\ detached \subseteq Threads
  /\ cache \in [Ids -> Statuses] /\ store \in [Ids -> Statuses]
  /\ made \in [Ids -> Wants \cup {NoWant}]
  /\ live \subseteq Ids /\ known \subseteq Ids /\ stray \subseteq Ids
  /\ missed \subseteq Ids /\ exited \subseteq Ids
  /\ peak \in [Projects -> Nat]
  /\ disturbed \in BOOLEAN
  /\ \A t \in Threads :
       /\ held[t] # NoId <=> pc[t] \in Holding
       /\ want[t] = NoWant => pc[t] \in {"idle", "stop", "found", "taken_down", "save_stop"}
       /\ pc[t] = "idle" => want[t] = NoWant /\ todo[t] = {}

\* An instance the store calls stopped has no container, however its request and
\* others were interleaved, whichever objects were cut off and whichever saves
\* failed.  Three containers are left out, which stop() does not notice: one that
\* docker kept, one of before a restart (stray), and one whose stop found docker
\* not answering (missed).
StoppedIsGone ==
  \A i \in Ids : store[i] = "stopped" /\ i \in live => i \in stray \cup missed

\* Within one process a stopped instance never comes back to life in the store,
\* although every request writes every cached instance.
StoppedStays == [][\A i \in Ids : store[i] = "stopped" => store'[i] = "stopped"]_vars

\* A project never has more containers than starts of it have been under way at
\* one time: one, if they never overlapped, also after the row of an earlier start
\* was lost by somebody else's reload, for the driver's own dict still has it; and
\* a race leaves no more behind than took part in it.  Containers that docker kept
\* or that an earlier process left (stray) are not counted.
Mine(p) == {i \in live \ stray : made[i].project = p}
ContainersWithinOverlap == \A p \in Projects : Cardinality(Mine(p)) <= peak[p]

\* Neither docker nor the bot has parted the container from its row.
Watched(i) == i \notin stray \cup missed \cup exited

\* The starts of the instance's project have never overlapped.
Lone(i) == made[i] # NoWant => peak[made[i].project] <= 1

\* With no request under way the rows and the containers agree: stops, starts,
\* failures and diagnoses of several threads do not overwrite one another.  Left
\* out are a change cut off before it was saved - by a failing load or save, a
\* restart, or a start that replaced the dict while a request held one of its
\* objects - and projects with overlapping starts; and containers as in Watched.
RegistryTruth ==
  ~disturbed /\ (\A t \in Threads : pc[t] = "idle") =>
    \A i \in Ids : Watched(i) /\ Lone(i) => (store[i] = "running" <=> i \in live)

-----------------------------------------------------------------------------
(* The inductive invariant behind the properties above.                      *)

\* The driver knows what it started and did not lose.
DriverKnows == live \ stray \subseteq known

\* An instance nobody has deployed is nowhere; one just deployed is in one
\* thread's hands only and in no dict.
Fresh ==
  /\ \A i \in Ids : made[i] = NoWant =>
       cache[i] = "none" /\ store[i] = "none" /\ i \notin live \cup known \cup stray \cup missed
  /\ \A t \in Threads : pc[t] \in {"running", "not_running"} =>
       made[held[t]] # NoWant /\ cache[held[t]] = "none" /\ store[held[t]] = "none"
  /\ \A t \in Threads : pc[t] \in {"found", "taken_down"} => made[held[t]] # NoWant
  /\ \A s, t \in Threads :
       s # t /\ pc[s] \in {"running", "not_running"}
             /\ pc[t] \in {"running", "not_running", "found", "taken_down"} => held[s] # held[t]

\* The containers the driver can remove.
Reach == live \ stray

\* What is called stopped, or is about to be, is gone, out of reach or missed; and
\* the dict never revives what the store calls stopped.
Stops ==
  /\ \A i \in Ids : cache[i] = "stopped" \/ store[i] = "stopped" => i \notin Reach \ missed
  /\ \A t \in Threads : pc[t] = "taken_down" => held[t] \notin Reach \ missed
  /\ \A i \in Ids : store[i] = "stopped" => cache[i] \in {"stopped", "none"}

\* A start about to run a container has removed those of its project, and each
\* that is about to will add one.
AtRun(p) == {t \in Threads : pc[t] = "run" /\ want[t].project = p}

Counted ==
  /\ IsFiniteSet(live)
  /\ \A p \in Projects :
       /\ Cardinality(Starting(p)) <= peak[p]
       /\ Cardinality(Mine(p)) + Cardinality(AtRun(p)) <= peak[p]

IInv == TypeOK /\ DriverKnows /\ Fresh /\ Stops /\ Counted

-----------------------------------------------------------------------------
(* The strengthening behind RegistryTruth.                                   *)

\* What stop() cannot reach runs and is not in _RUNNING; a deployment in hand is
\* the one its request asked for; a start deploys with nothing left to stop.
InHand ==
  /\ stray \subseteq live \ known
  /\ \A t \in Threads :
       /\ pc[t] \in {"running", "not_running"} => made[held[t]] = want[t]
       /\ pc[t] = "not_running" => held[t] \notin Reach
       /\ pc[t] \in {"start", "deploy", "run"} => todo[t] = {}
       /\ pc[t] = "running" /\ peak[want[t].project] <= 1 => held[t] \in Reach \cup exited

\* The status the next save will leave in the store.
Recorded(i) == Saved(Ids)[i]

\* The dict is the store but for the changes about to be saved, and a start that
\* has read the rows keeps the dict complete.
Mirrored ==
  /\ detached = {}
  /\ (\A t \in Threads : pc[t] \notin {"save_stop", "save_new"}) =>
       \A i \in Ids : cache[i] \in {"none", store[i]}
  /\ (\E t \in Threads : want[t] # NoWant /\ pc[t] # "start") =>
       \A i \in Ids : cache[i] = "none" => store[i] = "none"

\* What is recorded as running runs or is being stopped.
RecordedRuns ==
  \A i \in Ids : Watched(i) /\ Lone(i) /\ Recorded(i) = "running" =>
    i \in live \/ \E t \in Threads : pc[t] = "taken_down" /\ held[t] = i

\* What runs is recorded as running, or about to be.
RunsRecorded ==
  \A i \in Reach \ missed :
    Recorded(i) = "running" \/ \E t \in Threads : pc[t] = "running" /\ held[t] = i

\* A lone start has in hand whatever is recorded as running of its project.
InTheWay ==
  \A t \in Threads, i \in Ids :
    /\ want[t] # NoWant /\ pc[t] \in {"stop", "found", "taken_down", "save_stop", "deploy", "run"}
    /\ Recorded(i) = "running" /\ made[i].project = want[t].project
    /\ peak[want[t].project] <= 1
    => i \in todo[t] \/ (pc[t] \in {"found", "taken_down"} /\ held[t] = i)

\* As long as no unsaved change was cut off.
Truthful == Mirrored /\ RecordedRuns /\ RunsRecorded /\ InTheWay

TruthInv == InHand /\ (~disturbed => Truthful)

-----------------------------------------------------------------------------
(* What a comment says and the code does not keep.                           *)

\* service.py:291: two starts of one user never leave two containers with one
\* token or one project.  Containers that docker kept or that an earlier process
\* left (stray) are not counted: the comment is about concurrent starts.
OneInstance ==
  \A i, j \in Reach : Conflict(made[i], made[j]) => i = j

\* No two starts are under way at the same time.
StartsApart == \A s, t \in Threads : s # t => want[s] = NoWant \/ want[t] = NoWant

\* Then, with no load or save failing and docker answering: what runs has a row, or
\* is in the hands of the start that makes one; that start has in hand all that runs
\* in its way.
RunsStored ==
  \A i \in Reach :
    /\ cache[i] \in {"none", "running"}
    /\ \/ store[i] = "running"
       \/ \E t \in Threads :
            /\ held[t] = i
            /\ pc[t] = "running" \/ (pc[t] = "save_new" /\ cache[i] = "running")

StopsFirst ==
  \A t \in Threads :
    want[t] # NoWant /\ pc[t] \in {"stop", "found", "taken_down", "save_stop", "deploy", "run"} =>
      /\ \A i \in todo[t] : cache[i] # "none"
      /\ \A i \in Reach : Conflict(made[i], want[t]) =>
           i \in todo[t] \/ (pc[t] = "found" /\ held[t] = i)

ApartInv == missed = {} /\ RunsStored /\ StopsFirst /\ OneInstance
=============================================================================
