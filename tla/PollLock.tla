------------------------------ MODULE PollLock ------------------------------
(***************************************************************************)
(* The local polling singleton: acquire_bot_singleton() without Mongo      *)
(* (bot_interface/singleton.py).  A process that holds the kernel lock     *)
(* (flock) on the file behind lock_path polls Telegram.  The file also     *)
(* names the holder's PID, and whoever finds a dead PID or none in it      *)
(* unlinks the path, so the path may come to lead to another inode than    *)
(* the one a live process has locked.  A process stands for its PID.       *)
(***************************************************************************)
EXTENDS Naturals, FiniteSets

CONSTANTS
  Procs,       \* platform processes on one host
  Inodes,      \* files the path can lead to, in turn
  NoInode,     \* the path leads nowhere; a process has no open file
  Empty        \* the text of a file with no readable PID

ASSUME FilesAssumption ==
  /\ NoInode \notin Inodes /\ Empty \notin Procs
  /\ IsFiniteSet(Procs) /\ IsFiniteSet(Inodes)
  /\ Cardinality(Inodes) > Cardinality(Procs)

VARIABLES
  pc,      \* where each process is in acquire_bot_singleton()
  path,    \* the inode lock_path leads to
  text,    \* the PID in each inode
  fh,      \* the inode each process has open
  locked,  \* processes that hold the flock of their inode
  crossed  \* history: a start or an exit began inside another one, and some
           \* process has been alive ever since

vars == <<pc, path, text, fh, locked, crossed>>

Starting == {"check", "exists", "stale", "open", "flock", "truncated", "busy", "busy_stale", "wait"}
Changing == Starting \cup {"unlinking"}
Alive(p) == pc[p] # "dead"
Used == {path} \cup {fh[p] : p \in Procs}

Goto(p, where) == pc' = [pc EXCEPT ![p] = where]

Init ==
  /\ pc = [p \in Procs |-> "dead"]
  /\ path = NoInode
  /\ text = [i \in Inodes |-> Empty]
  /\ fh = [p \in Procs |-> NoInode]
  /\ locked = {}
  /\ crossed = FALSE

\* A start or an exit begins.
Enters(p) == crossed' = (crossed \/ \E q \in Procs \ {p} : pc[q] \in Changing)
\* A process is dead; the last one takes all but the file with it.
Ends(p) == crossed' = (crossed /\ \E q \in Procs \ {p} : Alive(q))

Start(p) ==
  /\ pc[p] = "dead"
  /\ Goto(p, "check")
  /\ Enters(p)
  /\ UNCHANGED <<path, text, fh, locked>>

\* lock_path.exists()
CheckExists(p) ==
  /\ pc[p] = "check"
  /\ Goto(p, IF path = NoInode THEN "open" ELSE "exists")
  /\ UNCHANGED <<path, text, fh, locked, crossed>>

\* Mutated: the PID is not tested for life.
StaleAlways == TRUE

\* _break_stale_lock(): the file names no PID or a dead one, or is gone.
Stale == path = NoInode \/ text[path] = Empty \/ ~Alive(text[path])

ReadPid(p) ==
  /\ \/ pc[p] = "exists" /\ Goto(p, IF Stale THEN "stale" ELSE "open")
     \/ pc[p] = "busy" /\ Goto(p, IF Stale THEN "busy_stale" ELSE "wait")
  /\ UNCHANGED <<path, text, fh, locked, crossed>>

\* Mutated: only a file that names a PID is unlinked, and the start looks again.
UnlinkOnlyNamed(p) ==
  /\ pc[p] \in {"stale", "busy_stale"} /\ Goto(p, "check")
  /\ path' = IF path \in Inodes /\ text[path] = Empty THEN path ELSE NoInode
  /\ UNCHANGED <<text, fh, locked, crossed>>

\* The unlink comes after the read: the path may lead elsewhere by now.
Unlink(p) ==
  /\ \/ pc[p] = "stale" /\ Goto(p, "open")
     \/ pc[p] = "busy_stale" /\ Goto(p, "check")
  /\ path' = NoInode
  /\ UNCHANGED <<text, fh, locked, crossed>>

\* An inode nobody has open; which of them makes no difference.
NewInode == CHOOSE i \in Inodes : i \notin Used

\* open(lock_path, "a+") creates the file when there is none.
Open(p) ==
  /\ pc[p] = "open"
  /\ Goto(p, "flock")
  /\ path' = IF path = NoInode THEN NewInode ELSE path
  /\ fh' = [fh EXCEPT ![p] = path']
  /\ text' = IF path = NoInode THEN [text EXCEPT ![NewInode] = Empty] ELSE text
  /\ UNCHANGED <<locked, crossed>>

\* flock(LOCK_EX | LOCK_NB), then the truncate; or BlockingIOError and close.
Flock(p) ==
  /\ pc[p] = "flock"
  /\ IF \E q \in locked : fh[q] = fh[p]
     THEN Goto(p, "busy") /\ fh' = [fh EXCEPT ![p] = NoInode] /\ UNCHANGED <<text, locked>>
     ELSE /\ Goto(p, "truncated")
          /\ locked' = locked \cup {p}
          /\ text' = [text EXCEPT ![fh[p]] = Empty]
          /\ UNCHANGED fh
  /\ UNCHANGED <<path, crossed>>

WritePid(p) ==
  /\ pc[p] = "truncated"
  /\ Goto(p, "polling")
  /\ text' = [text EXCEPT ![fh[p]] = p]
  /\ UNCHANGED <<path, fh, locked, crossed>>

\* The write fails, wholly or after the PID: the file is closed, its lock with it.
Unwritten(p) ==
  /\ pc[p] = "truncated"
  /\ \E pid \in {Empty, p} : text' = [text EXCEPT ![fh[p]] = pid]
  /\ fh' = [fh EXCEPT ![p] = NoInode]
  /\ locked' = locked \ {p}
  /\ UNCHANGED path

WriteFails(p) == Unwritten(p) /\ Goto(p, "check") /\ UNCHANGED crossed

\* A write that fails after the deadline: SystemExit.
WriteGivesUp(p) == Unwritten(p) /\ Goto(p, "dead") /\ Ends(p)

\* Mutated: a process that gives up is in a state of its own.
WaitGivesUp(p) ==
  /\ pc[p] = "wait"
  /\ \E next \in {"check", "gave_up"} : Goto(p, next)
  /\ UNCHANGED <<path, text, fh, locked, crossed>>

\* The holder lives: wait a second and try again, or give up at the deadline.
Wait(p) ==
  /\ pc[p] = "wait"
  /\ \/ Goto(p, "check") /\ UNCHANGED crossed
     \/ Goto(p, "dead") /\ Ends(p)
  /\ UNCHANGED <<path, text, fh, locked>>

\* atexit: unlock and close, and only then unlink the path.
Release(p) ==
  /\ pc[p] = "polling"
  /\ Goto(p, "unlinking")
  /\ Enters(p)
  /\ locked' = locked \ {p}
  /\ fh' = [fh EXCEPT ![p] = NoInode]
  /\ UNCHANGED <<path, text>>

ReleaseUnlinks(p) ==
  /\ pc[p] = "unlinking"
  /\ Goto(p, "dead")
  /\ Ends(p)
  /\ path' = NoInode
  /\ UNCHANGED <<text, fh, locked>>

\* The kernel closes the file and drops the lock; the file stays.
Kill(p) ==
  /\ Alive(p)
  /\ Goto(p, "dead")
  /\ Ends(p)
  /\ locked' = locked \ {p}
  /\ fh' = [fh EXCEPT ![p] = NoInode]
  /\ UNCHANGED <<path, text>>

Acquire(p) ==
  \/ CheckExists(p) \/ ReadPid(p) \/ Unlink(p) \/ Open(p) \/ Flock(p)
  \/ WritePid(p) \/ Wait(p)

Next == \E p \in Procs :
  \/ Start(p) \/ Acquire(p) \/ WriteFails(p) \/ WriteGivesUp(p)
  \/ Release(p) \/ ReleaseUnlinks(p) \/ Kill(p)

Spec == Init /\ [][Next]_vars

\* A process that is starting keeps running its own loop, and its deadline
\* passes: writes do not fail and be tried again for ever.
FairSpec ==
  /\ Spec
  /\ \A p \in Procs : WF_vars(Acquire(p)) /\ SF_vars(WritePid(p) \/ WriteGivesUp(p))

-----------------------------------------------------------------------------
\* Every variable holds a value of its type.
TypeOK ==
  /\ pc \in [Procs -> {"dead", "polling"} \cup Changing]
  /\ path \in Inodes \cup {NoInode}
  /\ text \in [Inodes -> Procs \cup {Empty}]
  /\ fh \in [Procs -> Inodes \cup {NoInode}]
  /\ locked \subseteq Procs
  /\ crossed \in BOOLEAN

\* At most one process polls as long as no start or exit has begun inside
\* another one: a death at any step, and whatever file earlier processes left
\* behind, crossed or not, do not admit a second poller (singleton.py:1, "Ensure
\* only one polling process holds the platform bot token").
OnePoller ==
  ~crossed => \A p, q \in Procs : pc[p] = "polling" /\ pc[q] = "polling" => p = q

\* A start that begins its loop when no other process is alive gets the lock,
\* whatever file an earlier process left behind, unless it cannot write its PID
\* until the deadline.
LonelyStartPolls ==
  \A p \in Procs :
    LET lonely == \A q \in Procs \ {p} : ~Alive(q) IN
    pc[p] = "check" /\ lonely ~> pc[p] \in {"polling", "dead"} \/ ~lonely

\* How many steps a start that is alone is from polling, at most.
StepsLeft == [check |-> 6, exists |-> 5, stale |-> 4, open |-> 3, flock |-> 2, truncated |-> 1,
              polling |-> 0]

\* A start that is alone goes straight through: it never finds the file busy,
\* waits or gives up, and every step of its own brings it nearer to polling.
\* Locks die with their processes, so no file left behind can stop it.
LonelyGoesStraight ==
  [][\A p \in Procs :
       Acquire(p) /\ pc[p] \in DOMAIN StepsLeft /\ (\A q \in Procs \ {p} : ~Alive(q)) =>
         pc'[p] \in DOMAIN StepsLeft /\ StepsLeft[pc'[p]] < StepsLeft[pc[p]]]_vars
=============================================================================
