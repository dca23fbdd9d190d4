------------------------------ MODULE JobQueue ------------------------------
(***************************************************************************)
(* What a background queue of urlfy.cc promises, whatever it is built      *)
(* from: a job handed to it stays owed until it was executed to the end or *)
(* put aside in the dead-letter stream, unless the queue admits having     *)
(* lost it (a job published before the consumer group exists, or trimmed   *)
(* from a full stream).  Jobs may be executed any number of times.         *)
(*                                                                         *)
(* StreamWorker and, for the events of clicks, ClickAccounting are shown   *)
(* to implement this specification.                                        *)
(***************************************************************************)
CONSTANT Job

VARIABLES
  submitted,  \* jobs handed to the queue so far
  owed,       \* jobs the queue still holds an entry for
  completed,  \* jobs whose handler has returned at least once
  dead,       \* jobs put in the dead-letter stream
  lost        \* jobs an entry of which the queue gave up

vars == <<submitted, owed, completed, dead, lost>>

Init ==
  /\ submitted = {}
  /\ owed = {}
  /\ completed = {}
  /\ dead = {}
  /\ lost = {}

\* The jobs that stop being owed are among S.
Keeps(owedBefore, S) == owed' \subseteq owedBefore /\ owedBefore \ owed' \subseteq S

\* The queue takes a job in, or back in for another try, even one it had settled.
\* S is what it gives up meanwhile: older jobs, to make room, or the job itself.
Submit(j, S) ==
  /\ submitted' = submitted \cup {j}
  /\ lost' = lost \cup S
  /\ Keeps(owed \cup {j}, S)
  /\ UNCHANGED <<completed, dead>>

\* The handlers of admitted jobs return: of one, or of a batch at once.
Complete(S) ==
  /\ completed' = completed \cup S
  /\ UNCHANGED <<submitted, owed, dead, lost>>

\* An admitted job is put aside, and may be forgotten with it.
DeadLetter(j) ==
  /\ j \in submitted
  /\ dead' = dead \cup {j}
  /\ Keeps(owed, {j})
  /\ UNCHANGED <<submitted, completed, lost>>

\* The queue forgets jobs it owes: only those done, put aside or given up.
Settle(S) ==
  /\ S \subseteq owed \cap (completed \cup dead \cup lost)
  /\ owed' = owed \ S
  /\ UNCHANGED <<submitted, completed, dead, lost>>

\* A full queue gives up entries of jobs S (other entries of them may remain).
GiveUp(S) ==
  /\ lost' = lost \cup S
  /\ Keeps(owed, S)
  /\ UNCHANGED <<submitted, completed, dead>>

Next ==
  \/ \E j \in Job : \E S \in SUBSET (submitted \cup {j}) : Submit(j, S)
  \/ \E S \in SUBSET submitted : Complete(S)
  \/ \E j \in Job : DeadLetter(j)
  \/ \E S \in SUBSET owed : Settle(S) \/ GiveUp(S)

Spec == Init /\ [][Next]_vars

(***************************************************************************)
(* The promise, as a state predicate: no admitted job is unaccounted for.  *)
(***************************************************************************)
Accounted == submitted \subseteq owed \cup completed \cup dead \cup lost
=============================================================================
