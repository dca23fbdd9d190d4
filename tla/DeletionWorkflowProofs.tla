------------------------ MODULE DeletionWorkflowProofs ------------------------
(***************************************************************************)
(* Theorems about DeletionWorkflow, for any number of requests, processes, *)
(* retries and faults, and any deadline, lease and idle time.              *)
(***************************************************************************)
EXTENDS DeletionWorkflow, TLAPS

\* An entry in the stream is about a request that exists and is due, and carries no
\* more attempts than the request has failed executions.
Sound(e) ==
  /\ status[e.req] # "none"
  /\ dueIn[e.req] = 0
  /\ e.attempt <= failures[e.req]

\* What the worker knows at each of its steps.
LaneInv(l) ==
  /\ pc[l] # "idle" => Sound(msg[l])
  /\ pc[l] \in {"catch", "bad"} => msg[l].attempt < failures[msg[l].req]
  /\ pc[l] = "complete" => "user" \notin data

\* Neither CompletedMeansErased nor FailedOnlyWhenExhausted is inductive: the status is
\* written blindly, and what is written is right because of what the loop has done.
IInv ==
  /\ \A r \in checked : status[r] = "none"
  /\ \A r \in dueList : status[r] # "none" /\ dueIn[r] = 0
  /\ \A i \in 1..Len(queue) : Sound(queue[i])
  /\ \A p \in pending : Sound(p.entry)
  /\ \A l \in Lane : LaneInv(l)
  /\ "user" \notin data => "auth" \notin data
  /\ \A r \in Request : status[r] = "completed" => "user" \notin data
  /\ FailedOnlyWhenExhausted

-----------------------------------------------------------------------------
(* Steps *)

\* A request is not forgotten, stays due, and its failures are not taken back; the
\* user row does not come back.
Progress ==
  /\ \A r \in Request :
       /\ status[r] # "none" => status'[r] # "none"
       /\ status[r] # "none" /\ dueIn[r] = 0 => dueIn'[r] = 0
       /\ failures[r] <= failures'[r]
  /\ "user" \notin data => "user" \notin data'

LEMMA SoundKept ==
  ASSUME TypeOK, TypeOK', Progress, NEW e \in Entry, Sound(e)
  PROVE  Sound(e)'
  BY DEF Sound, Progress, TypeOK, Entry

\* What is left to show of a step that makes progress: the invariant of what it adds.
LEMMA StepKeepsInv ==
  ASSUME TypeOK, IInv, TypeOK', Progress,
         \A r \in checked' : status'[r] = "none",
         \A r \in dueList' : r \in dueList \/ (status'[r] # "none" /\ dueIn'[r] = 0),
         \A i \in 1..Len(queue') :
           (\E k \in 1..Len(queue) : queue'[i] = queue[k]) \/ Sound(queue[i])',
         \A p \in pending' : (\E q \in pending : p.entry = q.entry) \/ Sound(p.entry)',
         \A l \in Lane : (pc'[l] = pc[l] /\ msg'[l] = msg[l]) \/ LaneInv(l)',
         "user" \notin data' => "auth" \notin data',
         \A r \in Request :
           status'[r] = "completed" => status[r] = "completed" \/ "user" \notin data',
         \A r \in Request :
           status'[r] = "failed" => status[r] = "failed" \/ failures'[r] > MaxRetries
  PROVE  IInv'
  <1>1. \A r \in dueList' : status'[r] # "none" /\ dueIn'[r] = 0
    BY DEF IInv, Progress, TypeOK
  <1>2. \A i \in 1..Len(queue') : Sound(queue[i])'
    <2> SUFFICES ASSUME NEW i \in 1..Len(queue'),
                        NEW k \in 1..Len(queue), queue'[i] = queue[k]
                 PROVE  Sound(queue[i])'
      OBVIOUS
    <2>1. PICK e \in Entry : e = queue[k]
      <3>1. queue \in Seq(Entry)
        BY DEF TypeOK
      <3> QED
        BY <3>1
    <2>2. Sound(e)'
      BY <2>1, SoundKept DEF IInv
    <2> QED
      BY <2>1, <2>2 DEF Sound
  <1>3. \A p \in pending' : Sound(p.entry)'
    <2> SUFFICES ASSUME NEW p \in pending', NEW q \in pending, p.entry = q.entry
                 PROVE  Sound(p.entry)'
      OBVIOUS
    <2>1. PICK e \in Entry : e = q.entry
      BY DEF TypeOK
    <2>2. Sound(e)'
      BY <2>1, SoundKept DEF IInv
    <2> QED
      BY <2>1, <2>2 DEF Sound
  <1>4. ASSUME NEW l \in Lane, pc'[l] = pc[l], msg'[l] = msg[l]
        PROVE  LaneInv(l)'
    <2>1. CASE pc[l] = "idle"
      BY <1>4, <2>1 DEF LaneInv
    <2>2. CASE pc[l] # "idle"
      <3>1. PICK e \in Entry : e = msg[l]
        BY <2>2 DEF TypeOK
      <3>2. Sound(e)'
        BY <2>2, <3>1, SoundKept DEF IInv, LaneInv
      <3>3. Sound(msg[l])'
        BY <1>4, <3>1, <3>2 DEF Sound
      <3>4. pc[l] \in {"catch", "bad"} => e.attempt < failures'[e.req]
        BY <2>2, <3>1 DEF IInv, LaneInv, Progress, TypeOK, Entry
      <3> QED
        BY <1>4, <3>1, <3>3, <3>4 DEF LaneInv, IInv, Progress
    <2> QED
      BY <2>1, <2>2
  <1>5. FailedOnlyWhenExhausted'
    <2> SUFFICES ASSUME NEW r \in Request, status'[r] = "failed"
                 PROVE  failures'[r] > MaxRetries
      BY DEF FailedOnlyWhenExhausted
    <2>1. failures[r] \in Nat /\ failures'[r] \in Nat /\ failures[r] <= failures'[r]
      BY DEF TypeOK, Progress
    <2>2. status[r] = "failed" => failures[r] > MaxRetries
      BY DEF IInv, FailedOnlyWhenExhausted
    <2> QED
      BY <2>1, <2>2, DeletionAssumption
  <1>6. \A r \in Request : status'[r] = "completed" => "user" \notin data'
    BY DEF IInv, Progress
  <1> QED
    BY <1>1, <1>2, <1>3, <1>4, <1>5, <1>6 DEF IInv

\* A loop with work has a sound entry in hand.
LEMMA InHand ==
  ASSUME TypeOK, IInv, NEW l \in Lane, pc[l] # "idle"
  PROVE  msg[l] \in Entry /\ Sound(msg[l]) /\ msg[l] # NoEntry
  BY DEF TypeOK, IInv, LaneInv

\* A loop that moves on keeps its entry, and the other loops stay where they are.
LEMMA GotoStep ==
  ASSUME TypeOK, NEW l \in Lane, NEW from \in Step \ {"idle"}, NEW to \in Step \ {"idle"},
         Goto(l, from, to)
  PROVE  /\ pc' \in [Lane -> Step] /\ msg' = msg
         /\ \A k \in Lane : msg'[k] = NoEntry <=> pc'[k] = "idle"
         /\ pc[l] = from /\ pc'[l] = to
         /\ \A k \in Lane : k # l => pc'[k] = pc[k]
  BY DEF TypeOK, Goto

LEMMA TakeStep ==
  ASSUME TypeOK, NEW l \in Lane, NEW e \in Entry, Take(l, e)
  PROVE  /\ pc' \in [Lane -> Step] /\ msg' \in [Lane -> Entry \cup {NoEntry}]
         /\ \A k \in Lane : msg'[k] = NoEntry <=> pc'[k] = "idle"
         /\ pc'[l] = "select" /\ msg'[l] = e
         /\ \A k \in Lane : k # l => pc'[k] = pc[k] /\ msg'[k] = msg[k]
  BY DeletionAssumption DEF TypeOK, Take, Step

LEMMA PutDownStep ==
  ASSUME TypeOK, NEW l \in Lane, PutDown(l)
  PROVE  /\ pc' \in [Lane -> Step] /\ msg' \in [Lane -> Entry \cup {NoEntry}]
         /\ \A k \in Lane : msg'[k] = NoEntry <=> pc'[k] = "idle"
         /\ pc'[l] = "idle"
         /\ \A k \in Lane : k # l => pc'[k] = pc[k] /\ msg'[k] = msg[k]
  BY DEF TypeOK, PutDown, Step

LEMMA FaultStep ==
  ASSUME TypeOK, Fault
  PROVE  faults' \in 0..MaxFaults
  BY DeletionAssumption DEF TypeOK, Fault

\* XADD appends one entry.
LEMMA AddStep ==
  ASSUME TypeOK, NEW r \in Request, NEW a \in 0..MaxRetries, Add(r, a)
  PROVE  /\ queue' \in Seq(Entry)
         /\ \A i \in 1..Len(queue') :
              \/ \E k \in 1..Len(queue) : queue'[i] = queue[k]
              \/ queue'[i].req = r /\ queue'[i].attempt = a
  <1>1. PICK e \in Entry : queue' = Append(queue, e) /\ e.req = r /\ e.attempt = a
    BY DEF Add, Entry
  <1>2. queue \in Seq(Entry)
    BY DEF TypeOK
  <1> QED
    BY <1>1, <1>2

\* One request changes its status.
LEMMA SetStatusStep ==
  ASSUME TypeOK, NEW r \in Request, NEW t \in Status, SetStatus(r, t)
  PROVE  /\ status' \in [Request -> Status] /\ leaseLeft' \in [Request -> 0..Lease]
         /\ dueIn' = dueIn
         /\ status'[r] = t
         /\ \A q \in Request : q # r => status'[q] = status[q]
  BY DeletionAssumption DEF TypeOK, SetStatus

LEMMA CheckStep ==
  ASSUME TypeOK, IInv, NEW r \in Request, Check(r)
  PROVE  TypeOK' /\ IInv'
  <1>1. TypeOK'
    BY DEF Check, TypeOK, requests, delivery
  <1>2. Progress
    BY DEF Check, Progress, TypeOK, requests
  <1>3. \A q \in checked' : status'[q] = "none"
    BY DEF Check, IInv, requests
  <1> QED
    BY <1>1, <1>2, <1>3, StepKeepsInv DEF Check, IInv, requests, delivery

LEMMA InsertStep ==
  ASSUME TypeOK, IInv, NEW r \in Request, Insert(r)
  PROVE  TypeOK' /\ IInv'
  <1>1. status[r] = "none" /\ checked' = checked \ {r}
    BY DEF Insert, IInv
  <1>2. status' \in [Request -> Status] /\ status'[r] \in {"none", "pending"}
        /\ \A q \in Request : q # r => status'[q] = status[q]
    BY DEF Insert, TypeOK, Status
  <1>3. TypeOK'
    BY <1>1, <1>2 DEF Insert, TypeOK, delivery
  <1>4. Progress
    BY <1>1, <1>2 DEF Insert, Progress, TypeOK
  <1>5. \A q \in checked' : status'[q] = "none"
    BY <1>1, <1>2 DEF IInv, TypeOK
  <1>6. \A q \in Request : status'[q] \in {"completed", "failed"} => status[q] = status'[q]
    BY <1>2
  <1> QED
    BY <1>3, <1>4, <1>5, <1>6, StepKeepsInv DEF Insert, IInv, delivery

LEMMA CreateLinkStep ==
  ASSUME TypeOK, IInv, CreateLink
  PROVE  TypeOK' /\ IInv'
  <1>1. TypeOK'
    BY DEF CreateLink, TypeOK, requests, delivery, Data
  <1>2. Progress
    BY DEF CreateLink, Progress, TypeOK, requests
  <1> QED
    BY <1>1, <1>2, StepKeepsInv DEF CreateLink, IInv, requests, delivery

LEMMA QueryDueStep ==
  ASSUME TypeOK, IInv, QueryDue
  PROVE  TypeOK' /\ IInv'
  <1>1. TypeOK'
    BY DEF QueryDue, TypeOK, requests, delivery
  <1>2. Progress
    BY DEF QueryDue, Progress, TypeOK, requests
  <1>3. \A r \in dueList' : status'[r] # "none" /\ dueIn'[r] = 0
    BY DEF QueryDue, IsDue, requests
  <1> QED
    BY <1>1, <1>2, <1>3, StepKeepsInv DEF QueryDue, IInv, requests, delivery

LEMMA EnqueueStep ==
  ASSUME TypeOK, IInv, NEW r \in Request, Enqueue(r)
  PROVE  TypeOK' /\ IInv'
  <1>1. status[r] # "none" /\ dueIn[r] = 0 /\ dueList' = dueList \ {r}
    BY DEF Enqueue, IInv
  <1>2. queue' \in Seq(Entry)
        /\ \A i \in 1..Len(queue') :
             \/ \E k \in 1..Len(queue) : queue'[i] = queue[k]
             \/ queue'[i].req = r /\ queue'[i].attempt = 0
    BY AddStep, DeletionAssumption DEF Enqueue
  <1>3. TypeOK'
    BY <1>1, <1>2 DEF Enqueue, TypeOK, requests
  <1>4. Progress
    BY DEF Enqueue, Progress, TypeOK, requests
  <1>5. \A i \in 1..Len(queue') :
          (\E k \in 1..Len(queue) : queue'[i] = queue[k]) \/ Sound(queue[i])'
    <2>1. status'[r] # "none" /\ dueIn'[r] = 0 /\ 0 <= failures'[r]
      BY <1>1 DEF Enqueue, requests, TypeOK
    <2> QED
      BY <1>2, <2>1 DEF Sound
  <1> QED
    BY <1>1, <1>3, <1>4, <1>5, StepKeepsInv DEF Enqueue, IInv, requests

LEMMA EnqueueFailsStep ==
  ASSUME TypeOK, IInv, NEW r \in Request, EnqueueFails(r)
  PROVE  TypeOK' /\ IInv'
  <1>1. TypeOK'
    BY FaultStep DEF EnqueueFails, TypeOK, requests, delivery
  <1>2. Progress
    BY DEF EnqueueFails, Progress, TypeOK, requests
  <1> QED
    BY <1>1, <1>2, StepKeepsInv DEF EnqueueFails, IInv, requests, delivery

LEMMA ReadStep ==
  ASSUME TypeOK, IInv, NEW l \in Lane, Read(l)
  PROVE  TypeOK' /\ IInv'
  <1>1. PICK e \in Entry : e = Head(queue) /\ e = queue[1]
    <2>1. queue \in Seq(Entry) /\ queue # <<>>
      BY DEF TypeOK, Read
    <2> QED
      BY <2>1
  <1>2. Take(l, e) /\ pending' = pending \cup {[entry |-> e, idle |-> 0]}
        /\ queue' = Tail(queue) /\ UNCHANGED <<requests, checked, data, dueList, failures, faults>>
    BY <1>1 DEF Read
  <1>3. queue' \in Seq(Entry)
        /\ \A i \in 1..Len(queue') : \E k \in 1..Len(queue) : queue'[i] = queue[k]
    <2>1. queue \in Seq(Entry) /\ queue # <<>>
      BY DEF TypeOK, Read
    <2>2. Len(queue') = Len(queue) - 1 /\ \A i \in 1..Len(queue') : queue'[i] = queue[i + 1]
      BY <1>2, <2>1
    <2> QED
      BY <1>2, <2>1, <2>2
  <1>4. Sound(e)
    <2>1. queue \in Seq(Entry) /\ queue # <<>>
      BY DEF TypeOK, Read
    <2>2. 1 \in 1..Len(queue)
      BY <2>1
    <2> QED
      BY <1>1, <2>2 DEF IInv
  <1>5. pending' \subseteq [entry : Entry, idle : 0..MinIdle]
    BY <1>2, DeletionAssumption DEF TypeOK
  <1>6. TypeOK'
    BY <1>2, <1>3, <1>5, TakeStep DEF TypeOK, requests
  <1>7. Progress
    BY <1>2 DEF Progress, TypeOK, requests
  <1>8. Sound(e)'
    BY <1>2, <1>4 DEF Sound, requests
  <1>9. \A p \in pending' : (\E q \in pending : p.entry = q.entry) \/ Sound(p.entry)'
    BY <1>2, <1>8
  <1>10. LaneInv(l)'
    BY <1>2, <1>8, TakeStep DEF LaneInv, Sound
  <1>11. \A k \in Lane : (pc'[k] = pc[k] /\ msg'[k] = msg[k]) \/ LaneInv(k)'
    BY <1>2, <1>10, TakeStep
  <1> QED
    BY <1>2, <1>3, <1>6, <1>7, <1>9, <1>11, StepKeepsInv DEF IInv, requests

LEMMA ClaimIdleStep ==
  ASSUME TypeOK, IInv, NEW l \in Lane, ClaimIdle(l)
  PROVE  TypeOK' /\ IInv'
  <1>1. PICK p \in pending : /\ Take(l, p.entry)
                            /\ pending' = (pending \ {p}) \cup {[p EXCEPT !.idle = 0]}
    BY DEF ClaimIdle
  <1>2. PICK e \in Entry : e = p.entry
    BY DEF TypeOK
  <1>3. [p EXCEPT !.idle = 0] \in [entry : Entry, idle : 0..MinIdle]
        /\ [p EXCEPT !.idle = 0].entry = e
    BY <1>2, DeletionAssumption DEF TypeOK
  <1>4. Sound(e)
    BY <1>2 DEF IInv
  <1>5. TypeOK'
    BY <1>1, <1>2, <1>3, TakeStep DEF ClaimIdle, TypeOK, requests
  <1>6. Progress
    BY DEF ClaimIdle, Progress, TypeOK, requests
  <1>7. Sound(e)'
    BY <1>4 DEF ClaimIdle, Sound, requests
  <1>8. \A q \in pending' : (\E m \in pending : q.entry = m.entry) \/ Sound(q.entry)'
    BY <1>1, <1>3, <1>7
  <1>9. LaneInv(l)'
    BY <1>1, <1>2, <1>7, TakeStep DEF LaneInv, Sound
  <1>10. \A k \in Lane : (pc'[k] = pc[k] /\ msg'[k] = msg[k]) \/ LaneInv(k)'
    BY <1>1, <1>2, <1>9, TakeStep
  <1> QED
    BY <1>5, <1>6, <1>8, <1>10, StepKeepsInv DEF ClaimIdle, IInv, requests

\* A loop that moves on to a step other than catch, bad and complete keeps its invariant
\* when the requests stay as they are.
LEMMA LaneKept ==
  ASSUME TypeOK, IInv, NEW l \in Lane, pc[l] # "idle", msg' = msg,
         UNCHANGED failures,
         status'[msg[l].req] # "none", dueIn'[msg[l].req] = dueIn[msg[l].req],
         pc'[l] \notin {"catch", "bad"},
         pc'[l] = "complete" => "user" \notin data'
  PROVE  LaneInv(l)'
  BY InHand DEF LaneInv, Sound

LEMMA SelectStep ==
  ASSUME TypeOK, IInv, NEW l \in Lane, Select(l)
  PROVE  TypeOK' /\ IInv'
  <1> DEFINE to == IF IsDue(msg[l].req) THEN "claim" ELSE "ok"
  <1>1. pc[l] = "select" /\ Goto(l, "select", to) /\ to \in {"claim", "ok"}
    BY DEF Select, Goto
  <1>2. TypeOK'
    BY <1>1, GotoStep DEF Select, TypeOK, requests, delivery, Step
  <1>3. Progress
    BY DEF Select, Progress, TypeOK, requests
  <1>4. LaneInv(l)'
    <2>1. msg' = msg /\ pc'[l] \in {"claim", "ok"}
      BY <1>1, GotoStep DEF Step
    <2> QED
      BY <1>1, <2>1, InHand, LaneKept DEF Select, requests, Sound
  <1>5. \A k \in Lane : (pc'[k] = pc[k] /\ msg'[k] = msg[k]) \/ LaneInv(k)'
    BY <1>1, <1>4, GotoStep DEF Step
  <1> QED
    BY <1>2, <1>3, <1>5, StepKeepsInv DEF Select, IInv, requests, delivery

LEMMA ClaimStep ==
  ASSUME TypeOK, IInv, NEW l \in Lane, Claim(l)
  PROVE  TypeOK' /\ IInv'
  <1>1. PICK r \in Request : r = msg[l].req /\ status[r] # "none" /\ dueIn[r] = 0
    BY InHand DEF Claim, Goto, Sound, Entry
  <1>2. PICK to \in {"links", "ok"} : pc[l] = "claim" /\ Goto(l, "claim", to)
    BY <1>1 DEF Claim, Goto
  <1>3. /\ status' \in [Request -> Status] /\ leaseLeft' \in [Request -> 0..Lease]
        /\ status'[r] \in {status[r], "processing"}
        /\ \A q \in Request : q # r => status'[q] = status[q]
    BY <1>1, DeletionAssumption DEF Claim, TypeOK, Status
  <1>4. UNCHANGED <<dueIn, checked, data, dueList, delivery, failures, faults>>
    BY DEF Claim
  <1>5. TypeOK'
    BY <1>2, <1>3, <1>4, GotoStep DEF TypeOK, delivery, Step, Erasing
  <1>6. Progress
    BY <1>1, <1>3, <1>4 DEF Progress, TypeOK
  <1>7. LaneInv(l)'
    <2>1. msg' = msg /\ pc'[l] \in {"links", "ok"}
      BY <1>2, GotoStep DEF Step, Erasing
    <2> QED
      BY <1>1, <1>2, <1>3, <1>4, <2>1, LaneKept
  <1>8. \A k \in Lane : (pc'[k] = pc[k] /\ msg'[k] = msg[k]) \/ LaneInv(k)'
    BY <1>2, <1>7, GotoStep DEF Step, Erasing
  <1>9. \A q \in checked' : status'[q] = "none"
    BY <1>1, <1>3, <1>4 DEF IInv, TypeOK
  <1> QED
    BY <1>3, <1>4, <1>5, <1>6, <1>8, <1>9, StepKeepsInv DEF IInv, delivery

\* A deletion moves the loop on and takes data away; the user row goes last, and takes
\* what lets the user in with it.
LEMMA DeleteStep ==
  ASSUME TypeOK, IInv, NEW l \in Lane,
         NEW from \in {"links", "auth", "user"}, NEW to \in {"auth", "user", "complete"},
         NEW left \in SUBSET Data, Delete(l, from, to, left),
         "user" \notin data => "user" \notin left,
         "user" \notin left => "auth" \notin left,
         to = "complete" => "user" \notin left
  PROVE  TypeOK' /\ IInv'
  <1>1. pc[l] = from /\ msg' = msg /\ pc'[l] = to /\ pc' \in [Lane -> Step]
        /\ \A k \in Lane : msg'[k] = NoEntry <=> pc'[k] = "idle"
    BY GotoStep DEF Delete, Step, Erasing
  <1>2. \A k \in Lane : k # l => pc'[k] = pc[k]
    BY GotoStep DEF Delete, Step, Erasing
  <1>3. TypeOK'
    BY <1>1 DEF Delete, TypeOK, requests, delivery
  <1>4. Progress
    BY DEF Delete, Progress, TypeOK, requests
  <1>5. LaneInv(l)'
    BY <1>1, InHand, LaneKept DEF Delete, requests, Sound
  <1>6. \A k \in Lane : (pc'[k] = pc[k] /\ msg'[k] = msg[k]) \/ LaneInv(k)'
    BY <1>1, <1>2, <1>5
  <1> QED
    BY <1>3, <1>4, <1>6, StepKeepsInv DEF Delete, IInv, requests, delivery

LEMMA ErasingStep ==
  ASSUME TypeOK, IInv, NEW l \in Lane, DeleteLinks(l) \/ DeleteAuth(l) \/ DeleteUser(l)
  PROVE  TypeOK' /\ IInv'
  <1>1. "user" \notin data => "auth" \notin data
    BY DEF IInv
  <1>2. CASE DeleteLinks(l)
    BY <1>1, <1>2, DeleteStep DEF DeleteLinks, TypeOK, Data
  <1>3. CASE DeleteAuth(l)
    BY <1>1, <1>3, DeleteStep DEF DeleteAuth, TypeOK, Data
  <1>4. CASE DeleteUser(l)
    BY <1>4, DeleteStep DEF DeleteUser, TypeOK, Data
  <1> QED
    BY <1>2, <1>3, <1>4

LEMMA CompleteStep ==
  ASSUME TypeOK, IInv, NEW l \in Lane, Complete(l)
  PROVE  TypeOK' /\ IInv'
  <1>1. PICK r \in Request : r = msg[l].req /\ status[r] # "none"
    BY InHand DEF Complete, Goto, Sound, Entry
  <1>2. pc[l] = "complete" /\ Goto(l, "complete", "ok") /\ SetStatus(r, "completed")
        /\ UNCHANGED <<checked, data, dueList, delivery, failures, faults>>
    BY <1>1 DEF Complete, Goto
  <1>3. status' \in [Request -> Status] /\ leaseLeft' \in [Request -> 0..Lease]
        /\ dueIn' = dueIn /\ status'[r] = "completed"
        /\ \A q \in Request : q # r => status'[q] = status[q]
    BY <1>2, SetStatusStep DEF Status
  <1>4. msg' = msg /\ pc'[l] = "ok" /\ pc' \in [Lane -> Step]
        /\ \A k \in Lane : msg'[k] = NoEntry <=> pc'[k] = "idle"
    BY <1>2, GotoStep DEF Step, Erasing
  <1>5. \A k \in Lane : k # l => pc'[k] = pc[k]
    BY <1>2, GotoStep DEF Step, Erasing
  <1>6. TypeOK'
    BY <1>2, <1>3, <1>4 DEF TypeOK, delivery
  <1>7. Progress
    BY <1>2, <1>3 DEF Progress, TypeOK
  <1>8. LaneInv(l)'
    BY <1>1, <1>2, <1>3, <1>4, LaneKept
  <1>9. \A k \in Lane : (pc'[k] = pc[k] /\ msg'[k] = msg[k]) \/ LaneInv(k)'
    BY <1>4, <1>5, <1>8
  <1>10. \A q \in checked' : status'[q] = "none"
    BY <1>1, <1>2, <1>3 DEF IInv, TypeOK
  <1>11. "user" \notin data'
    BY <1>2 DEF IInv, LaneInv
  <1> QED
    BY <1>2, <1>3, <1>6, <1>7, <1>9, <1>10, <1>11, StepKeepsInv DEF IInv, delivery

LEMMA ThrowStep ==
  ASSUME TypeOK, IInv, NEW l \in Lane, StatementFails(l) \/ CompleteUnanswered(l)
  PROVE  TypeOK' /\ IInv'
  <1>1. pc[l] # "idle" /\ pc[l] \in Step
    BY DEF StatementFails, CompleteUnanswered, Erasing, TypeOK
  <1>2. PICK e \in Entry : e = msg[l] /\ Sound(e)
    BY <1>1, InHand
  <1>3. PICK r \in Request : r = e.req /\ status[r] # "none" /\ dueIn[r] = 0
    BY <1>2 DEF Sound, Entry
  <1>4. Throw(l) /\ UNCHANGED <<checked, data, dueList, delivery>>
    BY DEF StatementFails, CompleteUnanswered
  <1>5. msg' = msg /\ pc'[l] = "catch" /\ pc' \in [Lane -> Step]
        /\ \A k \in Lane : msg'[k] = NoEntry <=> pc'[k] = "idle"
    BY <1>1, <1>4, GotoStep DEF Throw, Step
  <1>6. \A k \in Lane : k # l => pc'[k] = pc[k]
    BY <1>1, <1>4, GotoStep DEF Throw, Step
  <1>7. failures' \in [Request -> Nat] /\ failures'[r] = failures[r] + 1
        /\ \A q \in Request : failures[q] <= failures'[q]
    BY <1>2, <1>3, <1>4 DEF Throw, TypeOK
  <1>8. /\ status' \in [Request -> Status] /\ leaseLeft' \in [Request -> 0..Lease]
        /\ dueIn' = dueIn
        /\ status'[r] # "none"
        /\ status'[r] = status[r] \/ (status'[r] = "completed" /\ "user" \notin data)
        /\ \A q \in Request : q # r => status'[q] = status[q]
    <2>1. CASE StatementFails(l)
      BY <1>3, <2>1 DEF StatementFails, requests, TypeOK
    <2>2. CASE CompleteUnanswered(l)
      <3>1. SetStatus(r, "completed") /\ pc[l] = "complete"
        BY <1>2, <1>3, <2>2 DEF CompleteUnanswered
      <3>2. "user" \notin data
        BY <3>1 DEF IInv, LaneInv
      <3> QED
        BY <3>1, <3>2, SetStatusStep DEF Status
    <2> QED
      BY <2>1, <2>2
  <1>9. TypeOK'
    BY <1>4, <1>5, <1>7, <1>8, FaultStep DEF Throw, TypeOK, delivery
  <1>10. Progress
    BY <1>4, <1>7, <1>8 DEF Progress, TypeOK
  <1>11. LaneInv(l)'
    <2>1. e.attempt < failures'[r] /\ e.attempt <= failures'[r]
      <3>1. e.attempt <= failures[r] /\ e.attempt \in Nat /\ failures[r] \in Nat
        BY <1>2, <1>3, DeletionAssumption DEF Sound, Entry, TypeOK
      <3> QED
        BY <1>7, <3>1
    <2>2. Sound(msg[l])'
      BY <1>2, <1>3, <1>5, <1>8, <2>1 DEF Sound
    <2> QED
      BY <1>2, <1>3, <1>5, <2>1, <2>2 DEF LaneInv
  <1>12. \A k \in Lane : (pc'[k] = pc[k] /\ msg'[k] = msg[k]) \/ LaneInv(k)'
    BY <1>5, <1>6, <1>11
  <1>13. \A q \in checked' : status'[q] = "none"
    BY <1>3, <1>4, <1>8 DEF IInv, TypeOK
  <1>14. \A q \in Request : /\ status'[q] = "failed" => status[q] = "failed"
                            /\ status'[q] = "completed" =>
                                 status[q] = "completed" \/ "user" \notin data'
    BY <1>4, <1>8
  <1> QED
    BY <1>4, <1>9, <1>10, <1>12, <1>13, <1>14, StepKeepsInv DEF IInv, delivery

LEMMA CatchStep ==
  ASSUME TypeOK, IInv, NEW l \in Lane, Catch(l) \/ CatchFails(l)
  PROVE  TypeOK' /\ IInv'
  <1>1. PICK e \in Entry : e = msg[l] /\ Sound(e) /\ pc[l] = "catch"
                          /\ e.attempt < failures[e.req]
    <2>1. pc[l] = "catch"
      BY DEF Catch, CatchFails, Goto
    <2> QED
      BY <2>1, InHand DEF IInv, LaneInv
  <1>2. PICK r \in Request : r = e.req
    BY DEF Entry
  <1>3. msg' = msg /\ pc'[l] = "bad" /\ pc' \in [Lane -> Step]
        /\ \A k \in Lane : msg'[k] = NoEntry <=> pc'[k] = "idle"
    BY GotoStep DEF Catch, CatchFails, Step
  <1>4. \A k \in Lane : k # l => pc'[k] = pc[k]
    BY GotoStep DEF Catch, CatchFails, Step
  <1>5. UNCHANGED <<checked, data, dueList, delivery, failures>> /\ faults' \in 0..MaxFaults
    BY FaultStep DEF Catch, CatchFails, TypeOK
  <1>6. status' \in [Request -> Status] /\ leaseLeft' \in [Request -> 0..Lease]
        /\ dueIn' = dueIn
        /\ (status'[r] = status[r] \/ status'[r] = "pending"
            \/ (status'[r] = "failed" /\ Exhausted(e)))
        /\ \A q \in Request : q # r => status'[q] = status[q]
    <2>1. CASE Catch(l)
      <3>1. PICK t \in {"failed", "pending"} : SetStatus(r, t) /\ (t = "failed" => Exhausted(e))
        BY <1>1, <1>2, <2>1 DEF Catch
      <3> QED
        BY <3>1, SetStatusStep DEF Status
    <2>2. CASE CatchFails(l)
      BY <2>2 DEF CatchFails, requests, TypeOK
    <2> QED
      BY <2>1, <2>2
  <1>7. TypeOK'
    BY <1>3, <1>5, <1>6 DEF TypeOK, delivery
  <1>8. status[r] # "none" /\ status'[r] # "none" /\ dueIn'[r] = 0
    BY <1>1, <1>2, <1>6 DEF Sound
  <1>9. Progress
    BY <1>5, <1>6, <1>8 DEF Progress, TypeOK
  <1>10. LaneInv(l)'
    BY <1>1, <1>2, <1>3, <1>5, <1>8 DEF LaneInv, Sound
  <1>11. \A k \in Lane : (pc'[k] = pc[k] /\ msg'[k] = msg[k]) \/ LaneInv(k)'
    BY <1>3, <1>4, <1>10
  <1>12. \A q \in checked' : status'[q] = "none"
    BY <1>5, <1>6, <1>8 DEF IInv, TypeOK
  <1>13. \A q \in Request :
           status'[q] = "failed" => status[q] = "failed" \/ failures'[q] > MaxRetries
    <2>1. Exhausted(e) => failures'[r] > MaxRetries
      BY <1>1, <1>2, <1>5, DeletionAssumption DEF Exhausted, Entry, TypeOK
    <2> QED
      BY <1>6, <2>1
  <1>14. \A q \in Request : status'[q] = "completed" => status[q] = "completed"
    BY <1>6
  <1> QED
    BY <1>5, <1>7, <1>9, <1>11, <1>12, <1>13, <1>14, StepKeepsInv DEF IInv, delivery

LEMMA CopyStep ==
  ASSUME TypeOK, IInv, NEW l \in Lane, Retry(l) \/ MoveToDLQ(l)
  PROVE  TypeOK' /\ IInv'
  <1>1. PICK e \in Entry : e = msg[l] /\ Sound(e) /\ pc[l] = "bad"
                          /\ e.attempt < failures[e.req]
    <2>1. pc[l] = "bad"
      BY DEF Retry, MoveToDLQ, Goto
    <2> QED
      BY <2>1, InHand DEF IInv, LaneInv
  <1>2. msg' = msg /\ pc'[l] = "copied" /\ pc' \in [Lane -> Step]
        /\ \A k \in Lane : msg'[k] = NoEntry <=> pc'[k] = "idle"
    BY GotoStep DEF Retry, MoveToDLQ, Step
  <1>3. \A k \in Lane : k # l => pc'[k] = pc[k]
    BY GotoStep DEF Retry, MoveToDLQ, Step
  <1>4. UNCHANGED <<requests, checked, data, dueList, pending, failures, faults>>
    BY DEF Retry, MoveToDLQ, delivery
  <1>5. queue' \in Seq(Entry)
        /\ \A i \in 1..Len(queue') :
             \/ \E k \in 1..Len(queue) : queue'[i] = queue[k]
             \/ queue'[i].req = e.req /\ queue'[i].attempt = e.attempt + 1
    <2>1. CASE Retry(l)
      <3>1. e.attempt + 1 \in 0..MaxRetries /\ e.req \in Request
        BY <1>1, <2>1, DeletionAssumption DEF Retry, Exhausted, Entry
      <3>2. Add(e.req, e.attempt + 1)
        BY <1>1, <2>1 DEF Retry
      <3> QED
        BY <3>1, <3>2, AddStep
    <2>2. CASE MoveToDLQ(l)
      BY <2>2 DEF MoveToDLQ, delivery, TypeOK
    <2> QED
      BY <2>1, <2>2
  <1>6. TypeOK'
    BY <1>2, <1>4, <1>5 DEF TypeOK, requests
  <1>7. Progress
    BY <1>4 DEF Progress, TypeOK, requests
  <1>8. status'[e.req] # "none" /\ dueIn'[e.req] = 0 /\ e.attempt + 1 <= failures'[e.req]
    <2>1. e.attempt \in Nat /\ failures[e.req] \in Nat
      BY DeletionAssumption DEF Entry, TypeOK
    <2>2. status[e.req] # "none" /\ dueIn[e.req] = 0
      BY <1>1 DEF Sound
    <2> QED
      BY <1>1, <1>4, <2>1, <2>2 DEF requests
  <1>9. \A i \in 1..Len(queue') :
          (\E k \in 1..Len(queue) : queue'[i] = queue[k]) \/ Sound(queue[i])'
    BY <1>5, <1>8 DEF Sound
  <1>10. LaneInv(l)'
    BY <1>1, <1>2, <1>4, LaneKept DEF requests, Sound
  <1>11. \A k \in Lane : (pc'[k] = pc[k] /\ msg'[k] = msg[k]) \/ LaneInv(k)'
    BY <1>2, <1>3, <1>10
  <1> QED
    BY <1>4, <1>6, <1>7, <1>9, <1>11, StepKeepsInv DEF IInv, requests

LEMMA PutDownStepInv ==
  ASSUME TypeOK, IInv, NEW l \in Lane, Ack(l) \/ StreamFails(l)
  PROVE  TypeOK' /\ IInv'
  <1>1. PutDown(l) /\ UNCHANGED <<requests, checked, data, dueList, queue, failures>>
        /\ faults' \in 0..MaxFaults /\ pending' \subseteq pending
    BY FaultStep DEF Ack, StreamFails, delivery, TypeOK
  <1>2. TypeOK'
    BY <1>1, PutDownStep DEF TypeOK, requests
  <1>3. Progress
    BY <1>1 DEF Progress, TypeOK, requests
  <1>4. \A k \in Lane : (pc'[k] = pc[k] /\ msg'[k] = msg[k]) \/ LaneInv(k)'
    <2>1. LaneInv(l)'
      BY <1>1, PutDownStep DEF LaneInv
    <2> QED
      BY <1>1, <2>1, PutDownStep
  <1> QED
    BY <1>1, <1>2, <1>3, <1>4, StepKeepsInv DEF IInv, requests

LEMMA CrashStep ==
  ASSUME TypeOK, IInv, NEW p \in Process, Crash(p)
  PROVE  TypeOK' /\ IInv'
  <1>1. UNCHANGED <<requests, checked, data, delivery, failures>>
        /\ dueList' \subseteq dueList /\ faults' \in 0..MaxFaults
    BY FaultStep DEF Crash
  <1>2. \A l \in Lane : (pc'[l] = "idle" /\ msg'[l] = NoEntry)
                      \/ (pc'[l] = pc[l] /\ msg'[l] = msg[l])
    BY DEF Crash
  <1>3. pc' \in [Lane -> Step] /\ msg' \in [Lane -> Entry \cup {NoEntry}]
    BY DEF Crash, TypeOK, Step
  <1>4. TypeOK'
    BY <1>1, <1>2, <1>3 DEF TypeOK, requests, delivery
  <1>5. Progress
    BY <1>1 DEF Progress, TypeOK, requests
  <1>6. \A l \in Lane : (pc'[l] = pc[l] /\ msg'[l] = msg[l]) \/ LaneInv(l)'
    BY <1>2 DEF LaneInv
  <1> QED
    BY <1>1, <1>4, <1>5, <1>6, StepKeepsInv DEF IInv, requests, delivery

LEMMA TickStep ==
  ASSUME TypeOK, IInv, Tick
  PROVE  TypeOK' /\ IInv'
  <1>1. UNCHANGED <<status, checked, data, dueList, queue, pc, msg, failures, faults>>
    BY DEF Tick
  <1>2. dueIn' \in [Request -> 0..Deadline] /\ leaseLeft' \in [Request -> 0..Lease]
        /\ \A r \in Request : status[r] # "none" /\ dueIn[r] = 0 => dueIn'[r] = 0
    BY DeletionAssumption DEF Tick, TypeOK, Down
  <1>3. pending' \subseteq [entry : Entry, idle : 0..MinIdle]
        /\ \A p \in pending' : \E q \in pending : p.entry = q.entry
    <2>1. ASSUME NEW q \in pending
          PROVE  Grow(q) \in [entry : Entry, idle : 0..MinIdle] /\ Grow(q).entry = q.entry
      <3>1. q \in [entry : Entry, idle : 0..MinIdle]
        BY DEF TypeOK
      <3>2. PICK n \in 0..MinIdle : n = IF q.idle < MinIdle THEN q.idle + 1 ELSE q.idle
        BY <3>1, DeletionAssumption
      <3>3. Grow(q) = [q EXCEPT !.idle = n]
        BY <3>2 DEF Grow
      <3> QED
        BY <3>1, <3>3
    <2> QED
      BY <2>1 DEF Tick
  <1>4. TypeOK'
    BY <1>1, <1>2, <1>3 DEF TypeOK
  <1>5. Progress
    BY <1>1, <1>2 DEF Progress, TypeOK
  <1> QED
    BY <1>1, <1>3, <1>4, <1>5, StepKeepsInv DEF IInv

LEMMA StutterStep ==
  ASSUME TypeOK, IInv, UNCHANGED vars
  PROVE  TypeOK' /\ IInv'
  <1>1. TypeOK'
    BY DEF vars, requests, delivery, TypeOK
  <1>2. Progress
    BY DEF vars, requests, delivery, Progress, TypeOK
  <1> QED
    BY <1>1, <1>2, StepKeepsInv DEF vars, requests, delivery, IInv

LEMMA InitInv == Init => TypeOK /\ IInv
  <1> SUFFICES ASSUME Init
               PROVE  TypeOK /\ IInv
    OBVIOUS
  <1>1. status \in [Request -> Status] /\ dueIn \in [Request -> 0..Deadline]
        /\ leaseLeft \in [Request -> 0..Lease] /\ failures \in [Request -> Nat]
    BY DeletionAssumption DEF Init, Status
  <1>2. pc \in [Lane -> Step] /\ msg \in [Lane -> Entry \cup {NoEntry}]
        /\ \A l \in Lane : pc[l] = "idle" /\ msg[l] = NoEntry
    BY DEF Init, Step
  <1>3. queue \in Seq(Entry) /\ Len(queue) = 0 /\ faults \in 0..MaxFaults
    <2>1. queue = <<>> /\ faults = 0
      BY DEF Init
    <2> QED
      BY <2>1, DeletionAssumption
  <1>4. checked = {} /\ dueList = {} /\ pending = {} /\ data = {"links", "auth", "user"}
        /\ \A r \in Request : status[r] = "none"
    BY DEF Init
  <1>5. TypeOK
    BY <1>1, <1>2, <1>3, <1>4 DEF TypeOK, Data
  <1>6. \A l \in Lane : LaneInv(l)
    BY <1>2 DEF LaneInv
  <1> QED
    BY <1>3, <1>4, <1>5, <1>6 DEF IInv, FailedOnlyWhenExhausted

LEMMA NextInv ==
  ASSUME TypeOK, IInv, [Next]_vars
  PROVE  TypeOK' /\ IInv'
  <1>1. ASSUME NEW r \in Request, Check(r) \/ Insert(r) \/ Enqueue(r) \/ EnqueueFails(r)
        PROVE  TypeOK' /\ IInv'
    BY <1>1, CheckStep, InsertStep, EnqueueStep, EnqueueFailsStep
  <1>2. CASE CreateLink
    BY <1>2, CreateLinkStep
  <1>3. CASE QueryDue
    BY <1>3, QueryDueStep
  <1>4. ASSUME NEW l \in Lane, Read(l) \/ ClaimIdle(l)
        PROVE  TypeOK' /\ IInv'
    BY <1>4, ReadStep, ClaimIdleStep
  <1>5. ASSUME NEW l \in Lane, Work(l)
        PROVE  TypeOK' /\ IInv'
    BY <1>5, SelectStep, ClaimStep, ErasingStep, CompleteStep, CatchStep, CopyStep,
       PutDownStepInv DEF Work
  <1>6. ASSUME NEW l \in Lane, StatementFails(l) \/ CompleteUnanswered(l)
                               \/ CatchFails(l) \/ StreamFails(l)
        PROVE  TypeOK' /\ IInv'
    BY <1>6, ThrowStep, CatchStep, PutDownStepInv
  <1>7. ASSUME NEW p \in Process, Crash(p)
        PROVE  TypeOK' /\ IInv'
    BY <1>7, CrashStep
  <1>8. CASE Tick
    BY <1>8, TickStep
  <1>9. CASE UNCHANGED vars
    BY <1>9, StutterStep
  <1> QED
    BY <1>1, <1>2, <1>3, <1>4, <1>5, <1>6, <1>7, <1>8, <1>9 DEF Next

\* Data is erased by a loop whose request is due.
LEMMA ErasingIsDue ==
  ASSUME TypeOK, IInv, [Next]_vars, ~(data \subseteq data')
  PROVE  \E r \in Request : status[r] # "none" /\ dueIn[r] = 0
  <1>1. PICK l \in Lane : DeleteLinks(l) \/ DeleteAuth(l) \/ DeleteUser(l)
    <2>1. ASSUME NEW r \in Request, Check(r) \/ Insert(r) \/ Enqueue(r) \/ EnqueueFails(r)
          PROVE  FALSE
      BY <2>1 DEF Check, Insert, Enqueue, EnqueueFails
    <2>2. CASE CreateLink \/ QueryDue \/ Tick \/ UNCHANGED vars
      BY <2>2 DEF CreateLink, QueryDue, Tick, vars
    <2>3. ASSUME NEW l \in Lane, Read(l) \/ ClaimIdle(l) \/ StatementFails(l)
                                 \/ CompleteUnanswered(l) \/ CatchFails(l)
                                 \/ StreamFails(l)
          PROVE  FALSE
      BY <2>3 DEF Read, ClaimIdle, StatementFails, CompleteUnanswered, CatchFails,
                  StreamFails
    <2>4. ASSUME NEW l \in Lane, Select(l) \/ Claim(l) \/ Complete(l) \/ Catch(l)
                                 \/ Retry(l) \/ MoveToDLQ(l) \/ Ack(l)
          PROVE  FALSE
      BY <2>4 DEF Select, Claim, Complete, Catch, Retry, MoveToDLQ, Ack
    <2>5. ASSUME NEW p \in Process, Crash(p)
          PROVE  FALSE
      BY <2>5 DEF Crash
    <2> QED
      BY <2>1, <2>2, <2>3, <2>4, <2>5 DEF Next, Work
  <1>2. pc[l] # "idle"
    BY <1>1 DEF DeleteLinks, DeleteAuth, DeleteUser, Delete, Goto
  <1> QED
    BY <1>2, InHand DEF Sound, Entry

-----------------------------------------------------------------------------
(* Claims *)

\* A row is under a lease only while it is processing; and a row that a loop executes is
\* processing or completed, unless the catch block of an execution that failed has reset
\* it.
Held(l) ==
  pc[l] \in Erasing =>
    status[msg[l].req] \in {"processing", "completed"} \/ failures[msg[l].req] > 0
ClaimInv ==
  /\ \A r \in Request : status[r] # "processing" => leaseLeft[r] = 0
  /\ \A l \in Lane : Held(l)

\* The loop keeps what it has in hand, and does not begin to execute.
NoNewClaim(l) ==
  pc'[l] \in Erasing => pc[l] \in Erasing /\ msg'[l] = msg[l]

LEMMA NoNewClaimKeeps ==
  ASSUME TypeOK, IInv, ClaimInv, NEW l \in Lane, NoNewClaim(l),
         \A r \in Request :
           /\ status[r] \in {"processing", "completed"} =>
                status'[r] \in {"processing", "completed"} \/ failures'[r] > 0
           /\ failures[r] > 0 => failures'[r] > 0
  PROVE  Held(l)'
  <1> SUFFICES ASSUME pc'[l] \in Erasing
               PROVE  status'[msg'[l].req] \in {"processing", "completed"}
                        \/ failures'[msg'[l].req] > 0
    BY DEF Held
  <1>1. pc[l] \in Erasing /\ msg'[l] = msg[l]
    BY DEF NoNewClaim
  <1>2. msg[l] \in Entry /\ msg[l].req \in Request
    BY <1>1, InHand DEF Erasing, Entry
  <1> QED
    BY <1>1, <1>2 DEF ClaimInv, Held

\* Only Claim lets a loop begin to execute a request, and only one it may claim.
LEMMA OnlyClaimBegins ==
  ASSUME TypeOK, IInv, [Next]_vars, NEW l \in Lane, ~NoNewClaim(l)
  PROVE  Claim(l) /\ Claimable(msg[l].req)
  <1>1. ASSUME NEW r \in Request, Check(r) \/ Insert(r) \/ Enqueue(r) \/ EnqueueFails(r)
        PROVE  FALSE
    BY <1>1 DEF Check, Insert, Enqueue, EnqueueFails, NoNewClaim
  <1>2. CASE CreateLink \/ QueryDue \/ Tick \/ UNCHANGED vars
    BY <1>2 DEF CreateLink, QueryDue, Tick, vars, NoNewClaim
  <1>3. ASSUME NEW k \in Lane, Read(k) \/ ClaimIdle(k)
        PROVE  FALSE
    <2>1. PICK e \in Entry : Take(k, e)
      <3>1. CASE Read(k)
        <4>1. queue \in Seq(Entry) /\ queue # <<>>
          BY <3>1 DEF TypeOK, Read
        <4>2. Head(queue) \in Entry
          BY <4>1
        <4> QED
          BY <3>1, <4>2 DEF Read
      <3>2. CASE ClaimIdle(k)
        BY <3>2 DEF ClaimIdle, TypeOK
      <3> QED
        BY <1>3, <3>1, <3>2
    <2> QED
      BY <2>1, TakeStep DEF NoNewClaim, Erasing
  <1>4. ASSUME NEW k \in Lane, NEW from \in Step \ {"idle"}, NEW to \in Step \ {"idle"},
               Goto(k, from, to), to \in Erasing => from \in Erasing
        PROVE  FALSE
    BY <1>4, GotoStep DEF NoNewClaim
  <1>5. ASSUME NEW k \in Lane, Work(k), ~Claim(k)
        PROVE  FALSE
    <2>1. CASE Select(k)
      BY <2>1, <1>4 DEF Select, Step, Erasing
    <2>2. CASE DeleteLinks(k) \/ DeleteAuth(k) \/ DeleteUser(k) \/ Complete(k)
      BY <2>2, <1>4 DEF DeleteLinks, DeleteAuth, DeleteUser, Delete, Complete, Step, Erasing
    <2>3. CASE Catch(k) \/ Retry(k) \/ MoveToDLQ(k)
      BY <2>3, <1>4 DEF Catch, Retry, MoveToDLQ, Step, Erasing
    <2>4. CASE Ack(k)
      BY <2>4, PutDownStep DEF Ack, NoNewClaim, Erasing
    <2> QED
      BY <1>5, <2>1, <2>2, <2>3, <2>4 DEF Work
  <1>6. ASSUME NEW k \in Lane, StatementFails(k) \/ CompleteUnanswered(k)
                               \/ CatchFails(k) \/ StreamFails(k)
        PROVE  FALSE
    <2>1. CASE StatementFails(k) \/ CompleteUnanswered(k)
      BY <2>1, <1>4 DEF StatementFails, CompleteUnanswered, Throw, Step, Erasing
    <2>2. CASE CatchFails(k)
      BY <2>2, <1>4 DEF CatchFails, Step, Erasing
    <2>3. CASE StreamFails(k)
      BY <2>3, PutDownStep DEF StreamFails, NoNewClaim, Erasing
    <2> QED
      BY <1>6, <2>1, <2>2, <2>3
  <1>7. ASSUME NEW p \in Process, Crash(p)
        PROVE  FALSE
    BY <1>7 DEF Crash, NoNewClaim, Erasing
  <1>8. PICK k \in Lane : Claim(k)
    BY <1>1, <1>2, <1>3, <1>5, <1>6, <1>7 DEF Next
  <1>9. PICK to \in {"links", "ok"} :
          Goto(k, "claim", to) /\ (to = "links" => Claimable(msg[k].req))
    BY <1>8 DEF Claim
  <1>10. k = l
    BY <1>9, GotoStep DEF NoNewClaim, Step, Erasing
  <1>11. to = "links"
    BY <1>4, <1>9 DEF Step, Erasing
  <1> QED
    BY <1>8, <1>9, <1>10, <1>11

\* The steps that write neither a row nor a count of failures.
LEMMA QuietClaims ==
  ASSUME TypeOK, IInv, ClaimInv, UNCHANGED <<requests, failures>>,
         \A l \in Lane : NoNewClaim(l)
  PROVE  ClaimInv'
  BY NoNewClaimKeeps DEF ClaimInv, requests

LEMMA InsertClaims ==
  ASSUME TypeOK, IInv, ClaimInv, NEW r \in Request, Insert(r),
         \A l \in Lane : NoNewClaim(l)
  PROVE  ClaimInv'
  <1>1. status[r] = "none" /\ UNCHANGED <<leaseLeft, failures>>
    BY DEF Insert, IInv
  <1>2. status'[r] \in {"none", "pending"}
        /\ \A q \in Request : q # r => status'[q] = status[q]
    BY DEF Insert, TypeOK
  <1>3. \A l \in Lane : Held(l)'
    BY <1>1, <1>2, NoNewClaimKeeps
  <1> QED
    BY <1>1, <1>2, <1>3 DEF ClaimInv

LEMMA ClaimClaims ==
  ASSUME TypeOK, IInv, ClaimInv, NEW l \in Lane, Claim(l)
  PROVE  ClaimInv'
  <1>1. PICK r \in Request : r = msg[l].req
    BY InHand DEF Claim, Goto, Entry
  <1>2. PICK to \in {"links", "ok"} :
          /\ Goto(l, "claim", to)
          /\ to = "links" <=> Claimable(r)
    BY <1>1 DEF Claim
  <1>3. msg' = msg /\ pc'[l] = to /\ \A k \in Lane : k # l => pc'[k] = pc[k]
    BY <1>2, GotoStep DEF Step, Erasing
  <1>4. /\ status'[r] = (IF Claimable(r) THEN "processing" ELSE status[r])
        /\ \A q \in Request : q # r => status'[q] = status[q] /\ leaseLeft'[q] = leaseLeft[q]
        /\ ~Claimable(r) => leaseLeft'[r] = leaseLeft[r]
        /\ UNCHANGED failures
    BY <1>1 DEF Claim, TypeOK
  <1>5. Held(l)'
    BY <1>1, <1>2, <1>3, <1>4 DEF Held, Erasing
  <1>6. ASSUME NEW k \in Lane, k # l
        PROVE  Held(k)'
    <2>1. NoNewClaim(k)
      BY <1>3, <1>6 DEF NoNewClaim
    <2> QED
      BY <1>4, <2>1, NoNewClaimKeeps
  <1>7. \A q \in Request : status'[q] # "processing" => leaseLeft'[q] = 0
    BY <1>4 DEF ClaimInv
  <1> QED
    BY <1>5, <1>6, <1>7 DEF ClaimInv

\* Complete, a failure and the catch block write one row without its lease.
LEMMA SetStatusClaims ==
  ASSUME TypeOK, IInv, ClaimInv, NEW r \in Request,
         NEW t \in {"completed", "pending", "failed"}, SetStatus(r, t),
         t # "completed" => failures'[r] > 0,
         \A q \in Request : failures[q] > 0 => failures'[q] > 0,
         \A l \in Lane : NoNewClaim(l)
  PROVE  ClaimInv'
  <1>1. status'[r] = t /\ leaseLeft'[r] = 0
        /\ \A q \in Request : q # r => status'[q] = status[q] /\ leaseLeft'[q] = leaseLeft[q]
    BY DEF SetStatus, TypeOK
  <1>2. \A l \in Lane : Held(l)'
    BY <1>1, NoNewClaimKeeps
  <1> QED
    BY <1>1, <1>2 DEF ClaimInv

LEMMA ThrowClaims ==
  ASSUME TypeOK, IInv, ClaimInv, NEW l \in Lane, StatementFails(l) \/ CompleteUnanswered(l),
         \A k \in Lane : NoNewClaim(k)
  PROVE  ClaimInv'
  <1>1. PICK r \in Request : r = msg[l].req
    BY InHand DEF StatementFails, CompleteUnanswered, Erasing, Entry
  <1>2. \A q \in Request : failures[q] > 0 => failures'[q] > 0
    <2>1. failures' = [failures EXCEPT ![r] = @ + 1]
      BY <1>1 DEF StatementFails, CompleteUnanswered, Throw
    <2> QED
      BY <2>1 DEF TypeOK
  <1>3. CASE StatementFails(l)
    <2>1. status' = status /\ leaseLeft' = leaseLeft
      BY <1>3 DEF StatementFails, requests
    <2> QED
      BY <1>2, <2>1, NoNewClaimKeeps DEF ClaimInv
  <1>4. CASE CompleteUnanswered(l)
    BY <1>1, <1>2, <1>4, SetStatusClaims DEF CompleteUnanswered
  <1> QED
    BY <1>3, <1>4

LEMMA CatchClaims ==
  ASSUME TypeOK, IInv, ClaimInv, NEW l \in Lane, Catch(l), \A k \in Lane : NoNewClaim(k)
  PROVE  ClaimInv'
  <1>1. PICK e \in Entry : e = msg[l] /\ e.attempt < failures[e.req]
    BY InHand DEF Catch, Goto, IInv, LaneInv
  <1>2. e.req \in Request /\ failures[e.req] > 0
    BY <1>1, DeletionAssumption DEF Entry, TypeOK
  <1>3. PICK t \in {"pending", "failed"} : SetStatus(e.req, t) /\ failures' = failures
    BY <1>1 DEF Catch
  <1> QED
    BY <1>2, <1>3, SetStatusClaims

LEMMA TickClaims ==
  ASSUME TypeOK, IInv, ClaimInv, Tick, \A l \in Lane : NoNewClaim(l)
  PROVE  ClaimInv'
  <1>1. UNCHANGED <<status, failures>> /\ leaseLeft' = [r \in Request |-> Down(leaseLeft[r])]
    BY DEF Tick
  <1>2. \A r \in Request : status'[r] # "processing" => leaseLeft'[r] = 0
    BY <1>1 DEF ClaimInv, Down
  <1> QED
    BY <1>1, <1>2, NoNewClaimKeeps DEF ClaimInv

LEMMA NextClaims ==
  ASSUME TypeOK, IInv, ClaimInv, [Next]_vars
  PROVE  ClaimInv'
  <1>1. CASE \E l \in Lane : ~NoNewClaim(l)
    BY <1>1, OnlyClaimBegins, ClaimClaims
  <1> SUFFICES ASSUME \A l \in Lane : NoNewClaim(l)
               PROVE  ClaimInv'
    BY <1>1
  <1>2. ASSUME NEW r \in Request, Check(r) \/ Insert(r) \/ Enqueue(r) \/ EnqueueFails(r)
        PROVE  ClaimInv'
    BY <1>2, QuietClaims, InsertClaims DEF Check, Enqueue, EnqueueFails
  <1>3. CASE CreateLink \/ QueryDue \/ UNCHANGED vars
    BY <1>3, QuietClaims DEF CreateLink, QueryDue, vars
  <1>4. ASSUME NEW l \in Lane, Read(l) \/ ClaimIdle(l) \/ CatchFails(l) \/ StreamFails(l)
        PROVE  ClaimInv'
    BY <1>4, QuietClaims DEF Read, ClaimIdle, CatchFails, StreamFails
  <1>5. ASSUME NEW l \in Lane, Work(l)
        PROVE  ClaimInv'
    <2>1. CASE Select(l) \/ Retry(l) \/ MoveToDLQ(l) \/ Ack(l)
      BY <2>1, QuietClaims DEF Select, Retry, MoveToDLQ, Ack
    <2>2. CASE DeleteLinks(l) \/ DeleteAuth(l) \/ DeleteUser(l)
      BY <2>2, QuietClaims DEF DeleteLinks, DeleteAuth, DeleteUser, Delete
    <2>3. CASE Claim(l)
      BY <2>3, ClaimClaims
    <2>4. CASE Complete(l)
      <3>1. PICK r \in Request : r = msg[l].req
        BY <2>4, InHand DEF Complete, Goto, Entry
      <3> QED
        BY <2>4, <3>1, SetStatusClaims DEF Complete
    <2>5. CASE Catch(l)
      BY <2>5, CatchClaims
    <2> QED
      BY <1>5, <2>1, <2>2, <2>3, <2>4, <2>5 DEF Work
  <1>6. ASSUME NEW l \in Lane, StatementFails(l) \/ CompleteUnanswered(l)
        PROVE  ClaimInv'
    BY <1>6, ThrowClaims
  <1>7. ASSUME NEW p \in Process, Crash(p)
        PROVE  ClaimInv'
    BY <1>7, QuietClaims DEF Crash
  <1>8. CASE Tick
    BY <1>8, TickClaims
  <1> QED
    BY <1>2, <1>3, <1>4, <1>5, <1>6, <1>7, <1>8 DEF Next

\* A loop that joins another has claimed a row whose lease runs no longer.
LEMMA JoinHasCause ==
  ASSUME TypeOK, IInv, ClaimInv, [Next]_vars, NEW r \in Request, Executing(r) # {},
         ~(Executing(r)' \subseteq Executing(r))
  PROVE  /\ leaseLeft[r] = 0
         /\ status[r] = "processing" \/ (status[r] = "pending" /\ failures[r] > 0)
  <1>1. PICK l \in Lane : ~NoNewClaim(l) /\ msg'[l].req = r
    BY DEF Executing, NoNewClaim
  <1>2. Claim(l) /\ Claimable(msg[l].req)
    BY <1>1, OnlyClaimBegins
  <1>3. Claimable(r)
    BY <1>1, <1>2 DEF Claim, Goto
  <1>4. PICK k \in Lane : pc[k] \in Erasing /\ msg[k].req = r
    BY DEF Executing
  <1>5. status[r] = "pending" => failures[r] > 0
    BY <1>4 DEF ClaimInv, Held
  <1> QED
    BY <1>3, <1>5 DEF Claimable, ClaimInv

-----------------------------------------------------------------------------
(* Theorems *)

\* The variables of the deletion workflow keep their types.
THEOREM TypeCorrect == Spec => []TypeOK
  <1>1. TypeOK /\ IInv /\ [Next]_vars => (TypeOK /\ IInv)'
    BY NextInv
  <1> QED
    BY InitInv, <1>1, PTL DEF Spec

\* The inductive invariant holds in every execution.
THEOREM Inductive == Spec => []IInv
  <1>1. TypeOK /\ IInv /\ [Next]_vars => (TypeOK /\ IInv)'
    BY NextInv
  <1> QED
    BY InitInv, <1>1, PTL DEF Spec

\* The worker marks a request completed only when the user row, sessions, accounts and
\* keys are gone, under every interleaving of executions, leases and crashes.
THEOREM CompletedRequestsAreErased == Spec => []CompletedMeansErased
  <1>1. TypeOK /\ IInv => CompletedMeansErased
    BY DEF IInv, TypeOK, CompletedMeansErased, Data
  <1> QED
    BY <1>1, TypeCorrect, Inductive, PTL

\* The catch block marks a request failed only after 1 + maxRetries failed executions.
THEOREM FailedRequestsAreExhausted == Spec => []FailedOnlyWhenExhausted
  <1>1. IInv => FailedOnlyWhenExhausted
    BY DEF IInv
  <1> QED
    BY <1>1, Inductive, PTL

\* Neither the cron job nor the worker erases anything before a deadline has passed.
THEOREM NothingErasedEarly == Spec => NeverBeforeDeadline
  <1>1. TypeOK /\ IInv /\ [Next]_vars =>
          [data \subseteq data' \/ \E r \in Request : status[r] # "none" /\ dueIn[r] = 0]_vars
    BY ErasingIsDue
  <1> QED
    BY <1>1, TypeCorrect, Inductive, PTL DEF Spec, NeverBeforeDeadline

\* A row is under a lease only while it is processing, and a loop executes a request whose
\* row says so, unless an execution that failed has reset it.
THEOREM ClaimsAreRecorded == Spec => []ClaimInv
  <1>1. Init => ClaimInv
    BY DEF Init, ClaimInv, Held, Erasing
  <1>2. TypeOK /\ IInv /\ ClaimInv /\ [Next]_vars => ClaimInv'
    BY NextClaims
  <1> QED
    BY <1>1, <1>2, TypeCorrect, Inductive, PTL DEF Spec

\* A second loop executes a request only after a lease that ran out or an execution that
\* failed: while the lease of an execution runs, nobody joins it.
THEOREM LeaseExcludesOthers == Spec => OneExecutorPerLease
  <1>1. TypeOK /\ IInv /\ ClaimInv /\ [Next]_vars =>
          [\A r \in Request : Executing(r) # {} /\ ~(Executing(r)' \subseteq Executing(r)) =>
             /\ leaseLeft[r] = 0
             /\ status[r] = "processing" \/ (status[r] = "pending" /\ failures[r] > 0)]_vars
    BY JoinHasCause
  <1> QED
    BY <1>1, TypeCorrect, Inductive, ClaimsAreRecorded, PTL DEF Spec, OneExecutorPerLease
=============================================================================
