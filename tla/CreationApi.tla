---------------------------- MODULE CreationApi ----------------------------
(***************************************************************************)
(* What POST /links promises to the clients that send it with one          *)
(* Idempotency-Key, whatever the key is kept in: every request gets one     *)
(* answer, a request that is turned away or answered with another's link    *)
(* has created nothing, and the reason it is given is true.  It does not    *)
(* promise one link per key: see OneLinkPerKey of Idempotency, which is     *)
(* shown to implement this specification.                                   *)
(***************************************************************************)
CONSTANTS Request, PayloadOf, NoRequest

VARIABLES tried,    \* requests that went as far as to create a link, or gave up
          rows,     \* requests whose link exists
          answer,   \* "none" until the request is answered
          named     \* the link a replay answers with

vars == <<tried, rows, answer, named>>

Init ==
    /\ tried = {}
    /\ rows = {}
    /\ answer = [r \in Request |-> "none"]
    /\ named = [r \in Request |-> NoRequest]

Open(r) == answer[r] = "none"
AnswerIs(r, a) == answer' = [answer EXCEPT ![r] = a]

(* The request is let in. *)
Try(r) ==
    /\ Open(r)
    /\ tried' = tried \cup {r}
    /\ UNCHANGED <<rows, answer, named>>

Commit(r) ==
    /\ Open(r)
    /\ r \in tried
    /\ rows' = rows \cup {r}
    /\ UNCHANGED <<tried, answer, named>>

Created(r) ==
    /\ Open(r)
    /\ r \in rows
    /\ AnswerIs(r, "created")
    /\ UNCHANGED <<tried, rows, named>>

(* An error or no answer: the client cannot tell what became of the requests. *)
GiveUp(S) ==
    /\ \A r \in S : Open(r)
    /\ tried' = tried \cup S
    /\ answer' = [r \in Request |-> IF r \in S THEN "failed" ELSE answer[r]]
    /\ UNCHANGED <<rows, named>>

(* The requests that follow are answered instead of being let in. *)
TurnAway(r, a) ==
    /\ Open(r)
    /\ r \notin tried
    /\ AnswerIs(r, a)
    /\ UNCHANGED <<tried, rows>>

(* The answer of an earlier request with the same payload is given again. *)
Replay(r, s) ==
    /\ TurnAway(r, "replayed")
    /\ s \in rows
    /\ PayloadOf[s] = PayloadOf[r]
    /\ named' = [named EXCEPT ![r] = s]

(* The key was used with another payload. *)
Conflict(r) ==
    /\ TurnAway(r, "conflict")
    /\ \E s \in tried : PayloadOf[s] # PayloadOf[r]
    /\ UNCHANGED named

(* Another request with the key is, or was, at work. *)
Busy(r) ==
    /\ TurnAway(r, "busy")
    /\ tried # {}
    /\ UNCHANGED named

Next ==
    \/ \E r \in Request : Try(r) \/ Commit(r) \/ Created(r) \/ Conflict(r) \/ Busy(r)
    \/ \E r, s \in Request : Replay(r, s)
    \/ \E S \in SUBSET Request : GiveUp(S)

Spec == Init /\ [][Next]_vars
=============================================================================
