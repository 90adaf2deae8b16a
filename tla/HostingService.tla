--------------------------- MODULE HostingService ---------------------------
(***************************************************************************)
(* The hosting service of one process (services/hosting/service.py,        *)
(* direct mode).  API and bot handlers call start(), stop() and diagnose() *)
(* in threads.  They share the dict _instances, which every start replaces *)
(* by what the store holds and every save writes back whole; a thread      *)
(* that holds an instance of the replaced dict changes an object nobody    *)
(* saves.  The containers are kept by the docker driver, whose _RUNNING    *)
(* dict names those this process may remove; it is lost by a restart,      *)
(* which the containers outlive.  The lock of state_lock.py covers one     *)
(* reading or one writing of the store, never a whole request.             *)
(***************************************************************************)
EXTENDS Naturals, FiniteSets

CONSTANTS
  Threads,   \* requests under way at the same time
  Projects,  \* project paths
  Tokens,    \* bot tokens
  OwnerOf,   \* [Projects -> users]: a path lies in its user's sandbox
  Ids,       \* instances that can be made, each with its deployment
  NoId,      \* no instance
  NoWant,    \* a request that deploys nothing
  Faults     \* what may fail: "load" and "save" (store or lock), "rm" and "run"
             \* (docker), "down" (docker does not answer), "exit" (a hosted bot)

ASSUME HostingAssumption ==
  /\ IsFiniteSet(Threads) /\ NoId \notin Ids
  /\ Faults \subseteq {"load", "save", "rm", "run", "down", "exit"}
  /\ NoWant \notin [project : Projects, token : Tokens]

VARIABLES
  pc,        \* where each thread is
  want,      \* the project and token a thread is to start
  todo,      \* the instances it has still to stop first
  held,      \* the instance it works on
  detached,  \* threads whose held instance is not an object of the dict any more
  cache,     \* [Ids -> status in _instances, "none" without an entry]
  store,     \* [Ids -> status in the database, "none" without a row]
  made,      \* [Ids -> project and token of a deployment, NoWant before it]
  live,      \* containers that run
  known,     \* _RUNNING of the docker driver
  stray,     \* history: containers docker kept, or an earlier process left behind
  missed,    \* history: instances whose stop found docker not answering
  exited,    \* history: containers that ended by themselves
  peak,      \* history: [Projects -> the most starts of it under way at one time]
  disturbed  \* history: an unsaved change was cut off, by a reload, a fault or a restart

requests == <<pc, want, todo, held, detached>>
docker == <<made, live, known, stray, missed, exited>>
vars == <<requests, cache, store, docker, peak, disturbed>>

PC == {"idle", "start", "stop", "found", "taken_down", "save_stop", "deploy", "run",
       "running", "not_running", "save_new"}
Statuses == {"none", "running", "failed", "stopped"}
Wants == [project : Projects, token : Tokens]

Goto(t, where) == pc' = [pc EXCEPT ![t] = where]

\* Same user, and the same path or the same token.
Conflict(w, v) ==
  /\ OwnerOf[w.project] = OwnerOf[v.project]
  /\ w.project = v.project \/ w.token = v.token

\* The starts of a project that are under way.
Starting(p) == {t \in Threads : want[t] # NoWant /\ want[t].project = p}

\* Threads with an object of the dict in hand, whose change is not in the store yet.
Unsaved == {t \in Threads : pc[t] \in {"found", "taken_down", "save_stop", "save_new"}}

\* _save_unlocked(): every entry of the dict, as far as the call gets.
Saved(done) == [i \in Ids |-> IF i \in done /\ cache[i] # "none" THEN cache[i] ELSE store[i]]

Init ==
  /\ pc = [t \in Threads |-> "idle"]
  /\ want = [t \in Threads |-> NoWant]
  /\ todo = [t \in Threads |-> {}]
  /\ held = [t \in Threads |-> NoId]
  /\ detached = {}
  /\ cache = [i \in Ids |-> "none"]
  /\ store = [i \in Ids |-> "none"]
  /\ made = [i \in Ids |-> NoWant]
  /\ live = {} /\ known = {} /\ stray = {} /\ missed = {} /\ exited = {}
  /\ peak = [p \in Projects |-> 0]
  /\ disturbed = FALSE

\* Mutated: a request that ends leaves its work behind.
FinishKeepsWork(t) ==
  /\ Goto(t, "idle")
  /\ want' = [want EXCEPT ![t] = NoWant]
  /\ UNCHANGED <<todo, held, detached>>

\* The request returns or raises.
Finish(t) ==
  /\ Goto(t, "idle")
  /\ want' = [want EXCEPT ![t] = NoWant]
  /\ todo' = [todo EXCEPT ![t] = {}]
  /\ held' = [held EXCEPT ![t] = NoId]
  /\ detached' = detached \ {t}

-----------------------------------------------------------------------------
(* Requests                                                                  *)

\* Nothing makes the starts of one project wait for each other.
StartRequest(t, w) ==
  /\ pc[t] = "idle"
  /\ Goto(t, "start")
  /\ want' = [want EXCEPT ![t] = w]
  /\ peak' = [peak EXCEPT ![w.project] =
       LET now == Cardinality(Starting(w.project)) + 1 IN IF now > @ THEN now ELSE @]
  /\ UNCHANGED <<todo, held, detached, cache, store, docker, disturbed>>

\* stop() of an instance the dict has.
StopRequest(t, i) ==
  /\ pc[t] = "idle" /\ cache[i] # "none"
  /\ Goto(t, "stop")
  /\ todo' = [todo EXCEPT ![t] = {i}]
  /\ UNCHANGED <<want, held, detached, cache, store, docker, peak, disturbed>>

\* diagnose() saves when it has an opinion, and the save is of the whole dict.
Diagnose(t) ==
  /\ pc[t] = "idle"
  /\ store' = Saved(Ids)
  /\ UNCHANGED <<requests, cache, docker, peak, disturbed>>

-----------------------------------------------------------------------------
(* start(): stop what is in the way                                          *)

\* Under the lock the dict is replaced by the rows; a failing read leaves an
\* empty dict, and nothing to stop.
ReadConflicts(t) ==
  /\ pc[t] = "start"
  /\ Goto(t, "stop")
  /\ \E rows \in {store} \cup (IF "load" \in Faults THEN {[i \in Ids |-> "none"]} ELSE {}) :
       /\ cache' = rows
       /\ todo' = [todo EXCEPT ![t] =
            {i \in Ids : rows[i] = "running" /\ Conflict(made[i], want[t])}]
       /\ disturbed' = (disturbed \/ Unsaved # {} \/ rows # store)
  /\ detached' = Unsaved
  /\ UNCHANGED <<want, held, store, docker, peak>>

\* The containers of R are removed and forgotten; docker may keep some of them,
\* which the driver does not notice.
Remove(R) ==
  \E kept \in (IF "rm" \in Faults THEN SUBSET R ELSE {{}}) :
    /\ live' = live \ (R \ kept)
    /\ stray' = stray \cup (kept \cap live)
    /\ known' = known \ R

\* stop(): the instance is looked up, and not yet touched.
Lookup(t) ==
  /\ pc[t] = "stop"
  /\ \E i \in todo[t] :
       /\ todo' = [todo EXCEPT ![t] = @ \ {i}]
       /\ \/ cache[i] = "none" /\ UNCHANGED <<pc, held>>
          \/ cache[i] # "none" /\ Goto(t, "found") /\ held' = [held EXCEPT ![t] = i]
  /\ UNCHANGED <<want, detached, cache, store, docker, peak, disturbed>>

\* Mutated: the deployment is forgotten and its container stays.
TakeDownForgets(t) ==
  /\ pc[t] = "found"
  /\ Goto(t, "taken_down")
  /\ known' = known \ {held[t]}
  /\ UNCHANGED <<want, todo, held, detached, cache, store, made, live, stray, missed, exited,
                 peak, disturbed>>

\* When `docker info` has answered, the container is removed, if the driver knows it.
TakeDown(t) ==
  /\ pc[t] = "found"
  /\ Goto(t, "taken_down")
  /\ Remove({held[t]} \cap known)
  /\ UNCHANGED <<want, todo, held, detached, cache, store, made, missed, exited, peak,
                 disturbed>>

\* Otherwise the driver for local processes is asked, which knows of no container;
\* the instance is called stopped all the same.
TakeDownMisses(t) ==
  /\ pc[t] = "found" /\ "down" \in Faults
  /\ Goto(t, "taken_down")
  /\ missed' = missed \cup {held[t]}
  /\ UNCHANGED <<want, todo, held, detached, cache, store, made, live, known, stray, exited,
                 peak, disturbed>>

\* Mutated: the status goes to the database and not to the object.
MarkStoppedInStore(t) ==
  /\ pc[t] = "taken_down"
  /\ Goto(t, "save_stop")
  /\ store' = [store EXCEPT ![held[t]] = "stopped"]
  /\ UNCHANGED <<want, todo, held, detached, cache, docker, peak, disturbed>>

\* inst.status = "stopped", on the object looked up before.
MarkStopped(t) ==
  /\ pc[t] = "taken_down"
  /\ Goto(t, "save_stop")
  /\ cache' = IF t \in detached THEN cache ELSE [cache EXCEPT ![held[t]] = "stopped"]
  /\ UNCHANGED <<want, todo, held, detached, store, docker, peak, disturbed>>

SaveStopped(t) ==
  /\ pc[t] = "save_stop"
  /\ Goto(t, "stop")
  /\ store' = Saved(Ids)
  /\ held' = [held EXCEPT ![t] = NoId]
  /\ detached' = detached \ {t}
  /\ UNCHANGED <<want, todo, cache, docker, peak, disturbed>>

\* A stop request ends here; a start goes on to deploy.
AllStopped(t) ==
  /\ pc[t] = "stop" /\ todo[t] = {}
  /\ IF want[t] = NoWant
     THEN Finish(t)
     ELSE Goto(t, "deploy") /\ UNCHANGED <<want, todo, held, detached>>
  /\ UNCHANGED <<cache, store, docker, peak, disturbed>>

-----------------------------------------------------------------------------
(* start(): deploy and record                                                *)

\* The token is invalid or the platform's own, or isolation is refused.
Refuse(t) ==
  /\ pc[t] = "deploy"
  /\ Finish(t)
  /\ UNCHANGED <<cache, store, docker, peak, disturbed>>

\* Mutated: deploy() trusts that the caller has stopped everything.
StopByProjectSkipped(t) ==
  /\ pc[t] = "deploy"
  /\ Goto(t, "run")
  /\ UNCHANGED <<want, todo, held, detached, cache, store, docker, peak, disturbed>>

\* DockerProcessDriver._stop_by_project(): what _RUNNING has of this path.
StopByProject(t) ==
  /\ pc[t] = "deploy"
  /\ Goto(t, "run")
  /\ Remove({i \in known : made[i].project = want[t].project})
  /\ UNCHANGED <<want, todo, held, detached, cache, store, made, missed, exited, peak,
                 disturbed>>

\* An instance id of its own for the result of deploy().
Make(t, i) ==
  /\ made[i] = NoWant
  /\ made' = [made EXCEPT ![i] = want[t]]
  /\ held' = [held EXCEPT ![t] = i]
  /\ UNCHANGED <<want, todo, detached, cache, store, peak, disturbed>>

\* The image is built and the container runs.
RunContainer(t) ==
  /\ pc[t] = "run"
  /\ Goto(t, "running")
  /\ \E i \in Ids : /\ Make(t, i)
                    /\ live' = live \cup {i}
                    /\ known' = known \cup {i}
  /\ UNCHANGED <<stray, missed, exited>>

\* deploy() fails before or after it stopped the project; a docker run that
\* timed out may leave a container behind.
DeployFails(t) ==
  /\ pc[t] \in {"deploy", "run"}
  /\ Goto(t, "not_running")
  /\ \E i \in Ids : /\ Make(t, i)
                    /\ \/ UNCHANGED <<live, stray>>
                       \/ /\ pc[t] = "run" /\ "run" \in Faults
                          /\ live' = live \cup {i}
                          /\ stray' = stray \cup {i}
  /\ UNCHANGED <<known, missed, exited>>

\* Mutated: the status of a deployment is not looked at.
RememberRunning(t) ==
  /\ pc[t] \in {"running", "not_running"}
  /\ Goto(t, "save_new")
  /\ cache' = [cache EXCEPT ![held[t]] = "running"]
  /\ UNCHANGED <<want, todo, held, detached, store, docker, peak, disturbed>>

\* self._instances[instance_id] = inst, in whatever dict is there now.
Remember(t) ==
  /\ pc[t] \in {"running", "not_running"}
  /\ Goto(t, "save_new")
  /\ cache' = [cache EXCEPT ![held[t]] = IF pc[t] = "running" THEN "running" ELSE "failed"]
  /\ UNCHANGED <<want, todo, held, detached, store, docker, peak, disturbed>>

SaveNew(t) ==
  /\ pc[t] = "save_new"
  /\ Finish(t)
  /\ store' = Saved(Ids)
  /\ UNCHANGED <<cache, docker, peak, disturbed>>

\* The lock times out, the database fails, or another thread adds an instance
\* while this one goes through the dict: the request raises.
SaveFails(t) ==
  /\ "save" \in Faults /\ pc[t] \in {"save_stop", "save_new"}
  /\ Finish(t)
  /\ \E done \in SUBSET Ids : store' = Saved(done)
  /\ disturbed' = TRUE
  /\ UNCHANGED <<cache, docker, peak>>

-----------------------------------------------------------------------------
\* A hosted bot ends; docker does not start it again (--restart no), and no row
\* changes: status(instance_id), which would look, is never called.
Exits(i) ==
  /\ "exit" \in Faults /\ i \in live
  /\ live' = live \ {i}
  /\ stray' = stray \ {i}
  /\ exited' = exited \cup {i}
  /\ UNCHANGED <<requests, cache, store, made, known, missed, peak, disturbed>>

\* The process dies and a new one reads the store; the containers run on.
Restart ==
  /\ pc' = [t \in Threads |-> "idle"]
  /\ want' = [t \in Threads |-> NoWant]
  /\ todo' = [t \in Threads |-> {}]
  /\ held' = [t \in Threads |-> NoId]
  /\ detached' = {}
  /\ \E rows \in {store} \cup (IF "load" \in Faults THEN {[i \in Ids |-> "none"]} ELSE {}) :
       cache' = rows
  /\ known' = {}
  /\ stray' = live
  /\ disturbed' = (disturbed \/ \E t \in Threads : pc[t] # "idle")
  /\ UNCHANGED <<store, made, live, missed, exited, peak>>

Request(t) ==
  \/ \E w \in Wants : StartRequest(t, w)
  \/ \E i \in Ids : StopRequest(t, i)
  \/ Diagnose(t)

Serve(t) ==
  \/ ReadConflicts(t) \/ Lookup(t) \/ TakeDown(t) \/ TakeDownMisses(t) \/ MarkStopped(t)
  \/ SaveStopped(t) \/ AllStopped(t)
  \/ Refuse(t) \/ StopByProject(t) \/ RunContainer(t) \/ DeployFails(t)
  \/ Remember(t) \/ SaveNew(t) \/ SaveFails(t)

Next ==
  \/ \E t \in Threads : Request(t) \/ Serve(t)
  \/ \E i \in Ids : Exits(i)
  \/ Restart

Spec == Init /\ [][Next]_vars
=============================================================================
