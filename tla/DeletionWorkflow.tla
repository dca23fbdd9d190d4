--------------------------- MODULE DeletionWorkflow ---------------------------
(***************************************************************************)
(* Erasure of a user's data (LGPD/GDPR): the requests the API registers    *)
(* (gdpr.service.ts), the cron job that enqueues the due ones              *)
(* (scheduler.ts), and the deletion worker (deletion-stream.worker.ts),    *)
(* which claims a request in the database under a lease before it deletes. *)
(*                                                                         *)
(* All requests are those of one user: every statement of the worker names *)
(* one request and one user.  Delivery is that of StreamWorker, with a     *)
(* batch of one, a group that exists and no eviction (the stream keeps     *)
(* 5000 entries).  Time passes in ticks of gcIntervalMs, five minutes.     *)
(***************************************************************************)
EXTENDS Naturals, Sequences, FiniteSets

CONSTANTS
  Request,       \* deletion requests the user may make
  Process,       \* worker processes
  MaxRetries,    \* config.maxRetries
  Deadline,      \* ticks from a request to its deadlineAt
  MinIdle,       \* gcMinIdleMs in ticks
  Lease,         \* DELETION_PROCESSING_LEASE_MS in ticks
  Crashes,       \* whether processes crash
  SlowHandlers,  \* whether time passes while a handler runs
  MaxQueued,     \* bound on the entries in the stream when the cron job adds one
  MaxFaults,     \* bound on failed commands and crashes
  NoEntry        \* what a loop without work has in hand

Loop == {"main", "gc"}
Lane == Process \X Loop
\* Ids are used again.  There are enough of them for the cron job's entries, a copy
\* of the entry in hand of every loop, and an entry for every failed XACK.
EntryId == 1..(MaxQueued + Cardinality(Lane) + MaxFaults)
Entry == [id : EntryId, req : Request, attempt : 0..MaxRetries]

ASSUME DeletionAssumption ==
  /\ MaxRetries \in Nat
  /\ Deadline \in Nat
  /\ MinIdle \in Nat
  /\ Lease \in Nat \ {0}
  /\ Crashes \in BOOLEAN
  /\ SlowHandlers \in BOOLEAN
  /\ MaxQueued \in Nat
  /\ MaxFaults \in Nat
  /\ NoEntry \notin Entry

VARIABLES
  status,     \* data_deletion_request.status, "none" before the row exists
  dueIn,      \* ticks until the request's deadlineAt
  leaseLeft,  \* ticks until its processingLeaseExpiresAt, 0 when past or null
  checked,    \* API calls that found no pending request and are about to insert
  data,       \* what the database still holds about the user
  dueList,    \* requests the running cron jobs have still to enqueue
  queue,      \* entries not delivered yet, oldest first
  pending,    \* delivered, unacknowledged entries and how long they are idle
  pc, msg,    \* where each loop of each process is, and the entry in its hand
  failures,   \* history: failed executions per request
  faults      \* faults so far, at most MaxFaults

requests == <<status, dueIn, leaseLeft>>
delivery == <<queue, pending>>
vars == <<requests, checked, data, dueList, delivery, pc, msg, failures, faults>>

Status == {"none", "pending", "processing", "completed", "failed"}
\* "orphans": links that outlive the user row, their user_id set to null.
Data == {"links", "auth", "user", "orphans"}
\* Steps of processMessage() in order, then those of processBatch().
Erasing == {"links", "auth", "user", "complete"}
Step == {"idle", "select", "claim", "catch", "ok", "bad", "copied"} \cup Erasing

TypeOK ==
  /\ status \in [Request -> Status]
  /\ dueIn \in [Request -> 0..Deadline]
  /\ leaseLeft \in [Request -> 0..Lease]
  /\ checked \subseteq Request
  /\ data \subseteq Data
  /\ dueList \subseteq Request
  /\ queue \in Seq(Entry)
  /\ pending \subseteq [entry : Entry, idle : 0..MinIdle]
  /\ pc \in [Lane -> Step]
  /\ msg \in [Lane -> Entry \cup {NoEntry}]
  /\ \A l \in Lane : msg[l] = NoEntry <=> pc[l] = "idle"
  /\ failures \in [Request -> Nat]
  /\ faults \in 0..MaxFaults

Init ==
  /\ status = [r \in Request |-> "none"]
  /\ dueIn = [r \in Request |-> Deadline]
  /\ leaseLeft = [r \in Request |-> 0]
  /\ checked = {}
  /\ data = {"links", "auth", "user"}
  /\ dueList = {}
  /\ queue = <<>>
  /\ pending = {}
  /\ pc = [l \in Lane |-> "idle"]
  /\ msg = [l \in Lane |-> NoEntry]
  /\ failures = [r \in Request |-> 0]
  /\ faults = 0

Fault ==
  /\ faults < MaxFaults
  /\ faults' = faults + 1

-----------------------------------------------------------------------------
(* The API *)

\* scheduleDataDeletion(): looks for a pending request of the user ...
Check(r) ==
  /\ status[r] = "none" /\ r \notin checked
  /\ "user" \in data
  /\ \A s \in Request : status[s] # "pending"
  /\ checked' = checked \cup {r}
  /\ UNCHANGED <<requests, data, dueList, delivery, pc, msg, failures, faults>>

\* ... and inserts one; the insert fails when the user row is gone.
Insert(r) ==
  /\ r \in checked
  /\ checked' = checked \ {r}
  /\ status' = [status EXCEPT ![r] = IF "user" \in data THEN "pending" ELSE "none"]
  /\ UNCHANGED <<dueIn, leaseLeft, data, dueList, delivery, pc, msg, failures, faults>>

\* A link is created by a request that was authenticated while the user had a
\* session or a key.  Only the foreign key to the user row stands in its way.
CreateLink ==
  /\ "user" \in data
  /\ data' = data \cup {"links"}
  /\ UNCHANGED <<requests, checked, dueList, delivery, pc, msg, failures, faults>>

-----------------------------------------------------------------------------
(* The cron job *)

\* (mutation: requestedAt is compared with the clock, not deadlineAt)
IsDueAtOnce(r) == status[r] # "none"

\* deadlineAt has passed.
IsDue(r) == dueIn[r] = 0

\* getDueDeletionRequests().  Every process runs the job; two runs at a time enqueue
\* what two runs in a row would, as an entry may wait in the stream for any time.
QueryDue ==
  /\ dueList = {}
  /\ dueList' = {r \in Request : status[r] = "pending" /\ IsDue(r)}
  /\ UNCHANGED <<requests, checked, data, delivery, pc, msg, failures, faults>>

EntriesInUse ==
  {queue[i] : i \in DOMAIN queue} \cup {p.entry : p \in pending}
    \cup {msg[l] : l \in {k \in Lane : pc[k] # "idle"}}

\* XADD.
Add(r, a) ==
  \E i \in EntryId :
    /\ \A e \in EntriesInUse : e.id # i
    /\ \A j \in EntryId : j < i => \E e \in EntriesInUse : e.id = j
    /\ queue' = Append(queue, [id |-> i, req |-> r, attempt |-> a])

\* scheduleDeletion() of one request of the list, whatever became of it since.
Enqueue(r) ==
  /\ r \in dueList
  /\ Cardinality(EntriesInUse) < MaxQueued
  /\ dueList' = dueList \ {r}
  /\ Add(r, 0)
  /\ UNCHANGED <<requests, checked, data, pending, pc, msg, failures, faults>>

\* The XADD fails: logged, the request is left to the next run of the job.
EnqueueFails(r) ==
  /\ r \in dueList
  /\ Fault
  /\ dueList' = dueList \ {r}
  /\ UNCHANGED <<requests, checked, data, delivery, pc, msg, failures>>

-----------------------------------------------------------------------------
(* Delivery *)

Take(l, e) ==
  /\ pc[l] = "idle"
  /\ pc' = [pc EXCEPT ![l] = "select"]
  /\ msg' = [msg EXCEPT ![l] = e]

Read(l) ==
  /\ l[2] = "main"
  /\ queue # <<>>
  /\ Take(l, Head(queue))
  /\ queue' = Tail(queue)
  /\ pending' = pending \cup {[entry |-> Head(queue), idle |-> 0]}
  /\ UNCHANGED <<requests, checked, data, dueList, failures, faults>>

\* XAUTOCLAIM of an entry idle for gcMinIdleMs; its idle time starts again.
ClaimIdle(l) ==
  /\ l[2] = "gc"
  /\ \E p \in pending :
       /\ p.idle = MinIdle
       /\ Take(l, p.entry)
       /\ pending' = (pending \ {p}) \cup {[p EXCEPT !.idle = 0]}
  /\ UNCHANGED <<requests, checked, data, dueList, queue, failures, faults>>

PutDown(l) ==
  /\ pc' = [pc EXCEPT ![l] = "idle"]
  /\ msg' = [msg EXCEPT ![l] = NoEntry]

-----------------------------------------------------------------------------
(* processMessage() *)

Goto(l, from, to) ==
  /\ pc[l] = from
  /\ pc' = [pc EXCEPT ![l] = to]
  /\ UNCHANGED msg

\* Steps 1 and 2: the request is read; before its deadline the entry is dropped.
Select(l) ==
  /\ Goto(l, "select", IF IsDue(msg[l].req) THEN "claim" ELSE "ok")
  /\ UNCHANGED <<requests, checked, data, dueList, delivery, failures, faults>>

\* (mutation: attempt_count = 0 instead of the lease)
ClaimableOnce(r) == status[r] = "pending" /\ failures[r] = 0

\* (mutation: the lease is not looked at)
ClaimableAnyTime(r) == status[r] \in {"pending", "processing"}

\* The WHERE clause of the conditional UPDATE of step 3.
Claimable(r) ==
  \/ status[r] = "pending"
  \/ status[r] = "processing" /\ leaseLeft[r] = 0

\* Step 3 claims the request, or finds it claimed or done and drops the entry.
Claim(l) ==
  LET r == msg[l].req IN
  /\ Goto(l, "claim", IF Claimable(r) THEN "links" ELSE "ok")
  /\ status' = [status EXCEPT ![r] = IF Claimable(r) THEN "processing" ELSE @]
  /\ leaseLeft' = [leaseLeft EXCEPT ![r] = IF Claimable(r) THEN Lease ELSE @]
  /\ UNCHANGED <<dueIn, checked, data, dueList, delivery, failures, faults>>

Delete(l, from, to, left) ==
  /\ Goto(l, from, to)
  /\ data' = left
  /\ UNCHANGED <<requests, checked, dueList, delivery, failures, faults>>

\* (mutation: deleteUserData() returns when there are no links)
DeleteLinksIfAny(l) ==
  Delete(l, "links", IF "links" \in data THEN "auth" ELSE "complete", data \ {"links"})

\* deleteUserData(): analytics events and links, then API keys, sessions, accounts
\* and second factors, then the user row.  Its foreign keys cascade to what is left,
\* but links.user_id is set to null.
DeleteLinks(l) == Delete(l, "links", "auth", data \ {"links"})
DeleteAuth(l) == Delete(l, "auth", "user", data \ {"auth"})
DeleteUser(l) ==
  Delete(l, "user", "complete",
         (data \cap {"orphans"}) \cup (IF "links" \in data THEN {"orphans"} ELSE {}))

SetStatus(r, s) ==
  /\ status' = [status EXCEPT ![r] = s]
  /\ leaseLeft' = [leaseLeft EXCEPT ![r] = 0]
  /\ UNCHANGED dueIn

\* Step 7, whatever the status is by then.
Complete(l) ==
  /\ Goto(l, "complete", "ok")
  /\ SetStatus(msg[l].req, "completed")
  /\ UNCHANGED <<checked, data, dueList, delivery, failures, faults>>

Throw(l) ==
  /\ Fault
  /\ Goto(l, pc[l], "catch")
  /\ failures' = [failures EXCEPT ![msg[l].req] = @ + 1]

\* A statement of the try block fails.  (One that was executed but reported as failed
\* is that statement followed by this, but for the last one.)
StatementFails(l) ==
  /\ pc[l] \in {"select", "claim"} \cup Erasing
  /\ Throw(l)
  /\ UNCHANGED <<requests, checked, data, dueList, delivery>>

CompleteUnanswered(l) ==
  /\ pc[l] = "complete"
  /\ Throw(l)
  /\ SetStatus(msg[l].req, "completed")
  /\ UNCHANGED <<checked, data, dueList, delivery>>

\* (mutations: the retry count is compared with one less than maxRetries; or by >)
ExhaustedTooEarly(e) == e.attempt + 1 >= MaxRetries
ExhaustedTooLate(e) == e.attempt > MaxRetries

Exhausted(e) == e.attempt >= MaxRetries

\* The catch block resets the row, whoever holds it and whatever its status is.
Catch(l) ==
  /\ Goto(l, "catch", "bad")
  /\ SetStatus(msg[l].req, IF Exhausted(msg[l]) THEN "failed" ELSE "pending")
  /\ UNCHANGED <<checked, data, dueList, delivery, failures, faults>>

\* ... and swallows a failure to do so.
CatchFails(l) ==
  /\ Goto(l, "catch", "bad")
  /\ Fault
  /\ UNCHANGED <<requests, checked, data, dueList, delivery, failures>>

-----------------------------------------------------------------------------
(* processBatch() *)

\* handleFailedMessage(): a copy for the next attempt, or one in the DLQ.
Retry(l) ==
  /\ Goto(l, "bad", "copied")
  /\ ~Exhausted(msg[l])
  /\ Add(msg[l].req, msg[l].attempt + 1)
  /\ UNCHANGED <<requests, checked, data, dueList, pending, failures, faults>>

MoveToDLQ(l) ==
  /\ Goto(l, "bad", "copied")
  /\ Exhausted(msg[l])
  /\ UNCHANGED <<requests, checked, data, dueList, delivery, failures, faults>>

Ack(l) ==
  /\ pc[l] \in {"ok", "copied"}
  /\ pending' = {p \in pending : p.entry # msg[l]}
  /\ PutDown(l)
  /\ UNCHANGED <<requests, checked, data, dueList, queue, failures, faults>>

\* The XADD or the XACK fails: the entry stays pending.
StreamFails(l) ==
  /\ pc[l] \in {"bad", "ok", "copied"}
  /\ Fault
  /\ PutDown(l)
  /\ UNCHANGED <<requests, checked, data, dueList, delivery, failures>>

\* A process dies with what its loops had in hand, and perhaps with the run of the
\* cron job: each process has a scheduler.
Crash(p) ==
  /\ Crashes
  /\ \E k \in Loop : pc[<<p, k>>] # "idle"
  /\ Fault
  /\ pc' = [l \in Lane |-> IF l[1] = p THEN "idle" ELSE pc[l]]
  /\ msg' = [l \in Lane |-> IF l[1] = p THEN NoEntry ELSE msg[l]]
  /\ dueList' \in {dueList, {}}
  /\ UNCHANGED <<requests, checked, data, delivery, failures>>

-----------------------------------------------------------------------------
(* Time *)

Down(n) == IF n = 0 THEN 0 ELSE n - 1
Grow(p) == [p EXCEPT !.idle = IF @ < MinIdle THEN @ + 1 ELSE @]

Tick ==
  /\ SlowHandlers \/ \A l \in Lane : pc[l] = "idle"
  /\ dueIn' = [r \in Request |-> IF status[r] = "none" THEN Deadline ELSE Down(dueIn[r])]
  /\ leaseLeft' = [r \in Request |-> Down(leaseLeft[r])]
  /\ pending' = {Grow(p) : p \in pending}
  /\ UNCHANGED <<status, checked, data, dueList, queue, pc, msg, failures, faults>>

-----------------------------------------------------------------------------
\* What a loop does next when nothing fails.
Work(l) ==
  \/ Select(l) \/ Claim(l)
  \/ DeleteLinks(l) \/ DeleteAuth(l) \/ DeleteUser(l) \/ Complete(l)
  \/ Catch(l) \/ Retry(l) \/ MoveToDLQ(l) \/ Ack(l)

Next ==
  \/ \E r \in Request : Check(r) \/ Insert(r) \/ Enqueue(r) \/ EnqueueFails(r)
  \/ CreateLink
  \/ QueryDue
  \/ \E l \in Lane : Read(l) \/ ClaimIdle(l) \/ Work(l)
  \/ \E l \in Lane : StatementFails(l) \/ CompleteUnanswered(l)
  \/ \E l \in Lane : CatchFails(l) \/ StreamFails(l)
  \/ \E p \in Process : Crash(p)
  \/ Tick

Spec == Init /\ [][Next]_vars

\* Time passes, the cron job keeps running, an API call that began ends, and the
\* loops keep reading, collecting and working.  Users and faults are not fair.
Fairness ==
  /\ WF_vars(Tick)
  /\ WF_vars(QueryDue)
  /\ \A r \in Request : WF_vars(Insert(r)) /\ WF_vars(Enqueue(r))
  /\ \A l \in Lane : WF_vars(Read(l)) /\ WF_vars(ClaimIdle(l)) /\ WF_vars(Work(l))

FairSpec == Spec /\ Fairness

-----------------------------------------------------------------------------
(* Properties *)

\* A request is marked completed only when the user row and everything that lets the
\* user in are gone, whichever of the concurrent, repeated and interrupted executions
\* marked it.
CompletedMeansErased ==
  (\E r \in Request : status[r] = "completed") => data \cap {"auth", "user"} = {}

\* Nothing about the user is erased before a request of theirs has reached its
\* deadline, 72 hours after it was made.
NeverBeforeDeadline ==
  [][data \subseteq data' \/ \E r \in Request : status[r] # "none" /\ dueIn[r] = 0]_vars

\* A request is given up as failed only after its execution has failed on the first
\* try and on every retry.
FailedOnlyWhenExhausted ==
  \A r \in Request : status[r] = "failed" => failures[r] > MaxRetries

\* The conditional UPDATE lets one worker execute a request
\* (deletion-stream.worker.ts:106-132): another joins it only when the lease on the row
\* runs no longer, as it ran out during the execution, or as one that failed has reset
\* the row whoever held it; and never after the request has ended.
Executing(r) == {l \in Lane : pc[l] \in Erasing /\ msg[l].req = r}
OneExecutorPerLease ==
  [][\A r \in Request : Executing(r) # {} /\ ~(Executing(r)' \subseteq Executing(r)) =>
       /\ leaseLeft[r] = 0
       /\ status[r] = "processing" \/ (status[r] = "pending" /\ failures[r] > 0)]_vars

\* A request does not stay pending for ever: the cron job enqueues it again and again
\* until a worker takes it.
PendingIsTransient == \A r \in Request : <>[](status[r] # "pending")

\* Every request ends, as completed or as failed: the worker retries what a failure
\* or a crash interrupted (deletion-stream.worker.ts:191-193).
EveryRequestEnds ==
  \A r \in Request : status[r] # "none" ~> status[r] \in {"completed", "failed"}
=============================================================================
