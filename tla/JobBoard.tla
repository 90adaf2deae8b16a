----------------------------- MODULE JobBoard ------------------------------
(***************************************************************************)
(* What the deploy queue promises the rest of the platform, without its    *)
(* table, tokens and containers: a posted job is taken by one worker at a  *)
(* time, only that worker brings it back or settles it, a settled job is   *)
(* settled for good, and a worker that fails brings the job back while it  *)
(* has takes left and gives it up when it has none.  A taker may dispute   *)
(* its job - by keeping it too long, or by writing an outcome it does not  *)
(* know to be written - and then anyone who has had the job may still      *)
(* write to it; other jobs notice nothing.                                 *)
(***************************************************************************)
EXTENDS Naturals

CONSTANTS Jobs, Workers, Nobody, MaxAttempts

VARIABLES
  phase,     \* [Jobs -> {"absent", "waiting", "taken", "running", "failed"}]
  hand,      \* [Workers -> Jobs \cup {Nobody}], the job each live worker has
  takes,     \* how often each job was taken, up to MaxAttempts + 1
  disputed   \* the jobs some taker disputed

vars == <<phase, hand, takes, disputed>>

Init ==
  /\ phase = [j \in Jobs |-> "absent"]
  /\ hand = [w \in Workers |-> Nobody]
  /\ takes = [j \in Jobs |-> 0]
  /\ disputed = {}

Post(j) ==
  /\ phase[j] = "absent"
  /\ UNCHANGED <<hand, takes, disputed>>
  /\ phase' = [phase EXCEPT ![j] = "waiting"]

\* Taken jobs that may be put back on the board over the head of their taker:
\* it is gone, or the job is disputed.
Abandoned ==
  {j \in Jobs : phase[j] = "taken" /\ (j \in disputed \/ \A w \in Workers : hand[w] # j)}

Take(w) ==
  /\ hand[w] = Nobody /\ UNCHANGED disputed
  /\ \E j \in Jobs :
       /\ hand' = [hand EXCEPT ![w] = j]
       /\ takes' = [takes EXCEPT ![j] = IF takes[j] > MaxAttempts THEN @ ELSE @ + 1]
       /\ \E back \in SUBSET Abandoned :
            /\ phase[j] = "waiting" \/ j \in back
            /\ phase' = [i \in Jobs |-> IF i = j THEN "taken"
                                        ELSE IF i \in back THEN "waiting" ELSE phase[i]]

\* What a worker may make of the job in its hand.
MayBecome(j, outcome) ==
  \/ outcome = "running"
  \/ outcome = "waiting" /\ (takes[j] < MaxAttempts \/ j \in disputed)
  \/ outcome = "failed" /\ takes[j] >= MaxAttempts

Bring(w) ==
  /\ hand[w] # Nobody
  /\ hand' = [hand EXCEPT ![w] = Nobody]
  /\ UNCHANGED <<takes, disputed>>
  /\ \E outcome \in {"running", "waiting", "failed"} :
       /\ MayBecome(hand[w], outcome)
       /\ phase' = [phase EXCEPT ![hand[w]] = outcome]

\* The job outlasts the patience of the board, or its outcome is written while
\* the worker believes it is not.
Dispute(w) ==
  /\ hand[w] # Nobody
  /\ disputed' = disputed \cup {hand[w]}
  /\ UNCHANGED <<hand, takes>>
  /\ \/ phase' = phase
     \/ \E outcome \in {"running", "waiting", "failed"} :
          /\ MayBecome(hand[w], outcome)
          /\ phase' = [phase EXCEPT ![hand[w]] = outcome]

\* A worker goes on with a disputed job as if it were its own.
Rework(w) ==
  /\ hand[w] \in disputed
  /\ UNCHANGED <<hand, takes, disputed>>
  /\ phase' = [phase EXCEPT ![hand[w]] = "taken"]

\* A worker dies or loses the database with the job in its hand.
Lose(w) ==
  /\ hand[w] # Nobody
  /\ hand' = [hand EXCEPT ![w] = Nobody]
  /\ UNCHANGED <<phase, takes, disputed>>

Next ==
  \/ \E j \in Jobs : Post(j)
  \/ \E w \in Workers : Take(w) \/ Bring(w) \/ Dispute(w) \/ Rework(w) \/ Lose(w)

Spec == Init /\ [][Next]_vars

-----------------------------------------------------------------------------
(* What a reader of the board may rely on.                                   *)

\* Every variable of the board holds a value of its type.
TypeOK ==
  /\ phase \in [Jobs -> {"absent", "waiting", "taken", "running", "failed"}]
  /\ hand \in [Workers -> Jobs \cup {Nobody}]
  /\ takes \in [Jobs -> Nat]
  /\ disputed \subseteq Jobs

\* An undisputed job is in one hand at a time, and is then taken.
OneHand ==
  \A w \in Workers : hand[w] # Nobody /\ hand[w] \notin disputed =>
    /\ phase[hand[w]] = "taken"
    /\ \A v \in Workers : hand[v] = hand[w] => v = w

\* No job is given up before MaxAttempts takes, disputed or not.
GivenUpIsExhausted == \A j \in Jobs : phase[j] = "failed" => takes[j] >= MaxAttempts

\* An undisputed job that runs or was given up stays so.
SettledStays ==
  [][\A j \in Jobs : phase[j] \in {"running", "failed"} =>
       j \in disputed' \/ phase'[j] = phase[j]]_vars
=============================================================================
