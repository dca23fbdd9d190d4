---------------------------- MODULE StreamWorker ----------------------------
(***************************************************************************)
(* Delivery of background jobs: the Redis stream and its consumer group,   *)
(* as packages/cache/src/stream.ts uses them, and the WorkerBase loops of  *)
(* apps/worker/src/server/lib/worker-base.ts that every worker inherits.   *)
(*                                                                         *)
(* A worker process runs two concurrent loops over the same group, here    *)
(* its two lanes: "main" reads new entries (XREADGROUP), "gc" takes over   *)
(* entries that have been pending for long (XAUTOCLAIM).  Both hand their  *)
(* batch to processBatch.  Time is abstracted: an entry may have been idle *)
(* for long whenever nobody holds it, and, as a fault, while somebody does *)
(* (a slow handler, or the 1/5/30 s sleeps between retries of a batch).    *)
(***************************************************************************)
EXTENDS Naturals, FiniteSets

CONSTANTS
  Job,         \* the jobs producers may publish
  Worker,      \* the worker processes of the group
  MaxRetries,  \* config.maxRetries
  BatchSize,   \* config.batchSize
  MaxLen,      \* STREAM_RETENTION_MAXLEN of the stream
  MaxFaults    \* bound on crashes, failed commands and entries claimed while held

ASSUME StreamWorkerAssumption ==
  /\ MaxRetries \in Nat
  /\ BatchSize \in Nat \ {0}
  /\ MaxLen \in Nat \ {0}
  /\ MaxFaults \in Nat

VARIABLES
  groupReady,   \* the consumer group exists
  lastId,       \* id of the newest entry of the stream
  trimmed,      \* entries up to this id were evicted by MAXLEN
  undelivered,  \* entries beyond the group's last-delivered id
  pending,      \* the group's pending entries list: delivered, not acknowledged
  lane,         \* lane[w][k]: the batch loop k of process w is working on
  submitted, completed, dead, lost,  \* history: see JobQueue
  failures,     \* history: failed executions per job
  faults        \* faults so far, at most MaxFaults

stream == <<groupReady, lastId, trimmed, undelivered, pending>>
history == <<submitted, completed, dead, lost, failures>>
vars == <<stream, lane, history, faults>>

Entry == [id : Nat, job : Job, attempt : 0..MaxRetries]
Loop == {"main", "gc"}
\* A batch in hand: entries not handled yet, handled with success, failed, and
\* copied to the stream or the DLQ but not acknowledged.
Batch == [todo : SUBSET Entry, ok : SUBSET Entry, bad : SUBSET Entry, copied : SUBSET Entry]
Fresh(B) == [todo |-> B, ok |-> {}, bad |-> {}, copied |-> {}]
Idle == Fresh({})

MarkOk(b, e) == [b EXCEPT !.todo = @ \ {e}, !.ok = @ \cup {e}]
MarkBad(b, e) == [b EXCEPT !.todo = @ \ {e}, !.bad = @ \cup {e}]
MarkCopied(b, e) == [b EXCEPT !.bad = @ \ {e}, !.copied = {e}]
DropBad(b, e) == [b EXCEPT !.bad = @ \ {e}]
DropCopied(b) == [b EXCEPT !.copied = {}]

Held(b) == b.todo \cup b.ok \cup b.bad \cup b.copied
JobsOf(S) == {e.job : e \in S}
\* Batches are handled in stream order.
IsFirst(e, S) == e \in S /\ \A f \in S : e.id <= f.id
Live == undelivered \cup pending

TypeOK ==
  /\ groupReady \in BOOLEAN
  /\ lastId \in Nat
  /\ trimmed \in Nat
  /\ undelivered \subseteq Entry
  /\ pending \subseteq Entry
  /\ lane \in [Worker -> [Loop -> Batch]]
  /\ submitted \subseteq Job
  /\ completed \subseteq Job
  /\ dead \subseteq Job
  /\ lost \subseteq Job
  /\ failures \in [Job -> Nat]
  /\ faults \in 0..MaxFaults

Init ==
  /\ groupReady = FALSE
  /\ lastId = 0
  /\ trimmed = 0
  /\ undelivered = {}
  /\ pending = {}
  /\ lane = [w \in Worker |-> [k \in Loop |-> Idle]]
  /\ submitted = {}
  /\ completed = {}
  /\ dead = {}
  /\ lost = {}
  /\ failures = [j \in Job |-> 0]
  /\ faults = 0

-----------------------------------------------------------------------------
(* Redis commands *)

\* MAXLEN ~ n may drop any number of the oldest entries down to n.
Cuts == {c \in trimmed..(lastId + 1) : c = trimmed \/ c + MaxLen <= lastId + 1}

\* XADD.  The group was created at '$' (worker-base.ts:117): it never delivers an
\* entry added before.  An evicted entry is neither delivered nor claimed again.
Add(j, a) ==
  \E cut \in Cuts :
    LET new == [id |-> lastId + 1, job |-> j, attempt |-> a]
        arrived == IF groupReady THEN {new} ELSE {}
        evicted == {e \in Live : e.id <= cut}
    IN /\ lastId' = lastId + 1
       /\ trimmed' = cut
       /\ undelivered' = (undelivered \cup arrived) \ evicted
       /\ pending' = pending \ evicted
       /\ lost' = lost \cup JobsOf(evicted) \cup (IF groupReady THEN {} ELSE {j})

\* (mutation: a cumulative acknowledgement, as of an offset)
AckUpTo(S) ==
  /\ pending' = {e \in pending : \A f \in S : e.id > f.id}
  /\ UNCHANGED <<groupReady, lastId, trimmed, undelivered>>

\* XACK: whoever sends it, the entries leave the pending list.
Ack(S) ==
  /\ pending' = pending \ S
  /\ UNCHANGED <<groupReady, lastId, trimmed, undelivered>>

Fault ==
  /\ faults < MaxFaults
  /\ faults' = faults + 1

\* A producer: XADD of a job nobody published before.
Publish(j) ==
  /\ j \notin submitted
  /\ submitted' = submitted \cup {j}
  /\ Add(j, 0)
  /\ UNCHANGED <<groupReady, lane, completed, dead, failures, faults>>

\* initialize(): the first XGROUP CREATE wins, later ones find BUSYGROUP.
Initialize ==
  /\ ~groupReady
  /\ groupReady' = TRUE
  /\ UNCHANGED <<lastId, trimmed, undelivered, pending, lane, history, faults>>

-----------------------------------------------------------------------------
(* WorkerBase *)

Hold(w, k, b) == lane' = [lane EXCEPT ![w][k] = b]

\* XREADGROUP returns the oldest undelivered entries, as many as fit the batch.
NextBatch(B) ==
  /\ B # {}
  /\ Cardinality(B) <= BatchSize
  /\ Cardinality(B) < BatchSize => B = undelivered
  /\ \A e \in B, f \in undelivered \ B : e.id < f.id

\* run(): the main loop reads new entries.
Read(w) ==
  /\ groupReady
  /\ lane[w]["main"] = Idle
  /\ \E B \in SUBSET undelivered :
       /\ NextBatch(B)
       /\ undelivered' = undelivered \ B
       /\ pending' = pending \cup B
       /\ Hold(w, "main", Fresh(B))
  /\ UNCHANGED <<groupReady, lastId, trimmed, history, faults>>

InHand(e) == \E w \in Worker, k \in Loop : e \in Held(lane[w][k])

\* (mutation: the collector sees only entries a running consumer holds)
ClaimableIfHeld == {e \in pending : InHand(e)}

\* XAUTOCLAIM asks for pending entries idle for gcMinIdleMs, whoever holds them.
Claimable == pending

\* runGarbageCollector(): the second loop takes a batch over.
Claim(w) ==
  /\ lane[w]["gc"] = Idle
  /\ \E C \in SUBSET Claimable :
       /\ C # {}
       /\ Cardinality(C) <= BatchSize
       /\ Hold(w, "gc", Fresh(C))
       /\ IF \E e \in C : InHand(e) THEN Fault ELSE UNCHANGED faults
  /\ UNCHANGED <<stream, history>>

\* processMessages(): the handler of one entry returns ...
Succeed(w, k, e) ==
  LET b == lane[w][k] IN
  /\ IsFirst(e, b.todo)
  /\ Hold(w, k, MarkOk(b, e))
  /\ completed' = completed \cup {e.job}
  /\ UNCHANGED <<stream, submitted, dead, lost, failures, faults>>

\* ... or throws.
Throw(w, k, e) ==
  LET b == lane[w][k] IN
  /\ IsFirst(e, b.todo)
  /\ Hold(w, k, MarkBad(b, e))
  /\ failures' = [failures EXCEPT ![e.job] = @ + 1]
  /\ UNCHANGED <<stream, submitted, completed, dead, lost, faults>>

\* (mutations: one retry too many, one too few)
CanRetryOnceMore(e) == e.attempt <= MaxRetries
CanRetryOnceLess(e) == e.attempt + 1 < MaxRetries

CanRetry(e) == e.attempt < MaxRetries

\* processBatch() turns to the failed entries once every entry was handled, one
\* at a time.
HandlesFailed(b, e) == b.todo = {} /\ b.copied = {} /\ IsFirst(e, b.bad)

\* (mutation: XACK first, and then the XADD fails)
RequeueAcksFirst(w, k, e) ==
  LET b == lane[w][k] IN
  /\ HandlesFailed(b, e)
  /\ CanRetry(e)
  /\ Fault
  /\ Ack({e})
  /\ Hold(w, k, DropBad(b, e))
  /\ UNCHANGED history

\* requeueMessage(): XADD of a copy that counts the attempt; the XACK comes next.
Requeue(w, k, e) ==
  LET b == lane[w][k] IN
  /\ HandlesFailed(b, e)
  /\ CanRetry(e)
  /\ Add(e.job, e.attempt + 1)
  /\ Hold(w, k, MarkCopied(b, e))
  /\ UNCHANGED <<groupReady, submitted, completed, dead, failures, faults>>

\* moveToDLQ(): XADD to the dead-letter stream; the XACK comes next.
MoveToDLQ(w, k, e) ==
  LET b == lane[w][k] IN
  /\ HandlesFailed(b, e)
  /\ ~CanRetry(e)
  /\ dead' = dead \cup {e.job}
  /\ Hold(w, k, MarkCopied(b, e))
  /\ UNCHANGED <<stream, submitted, completed, lost, failures, faults>>

\* acknowledgeMessage() of the entry just copied.
AckCopied(w, k) ==
  LET b == lane[w][k] IN
  /\ b.copied # {}
  /\ Ack(b.copied)
  /\ Hold(w, k, DropCopied(b))
  /\ UNCHANGED <<history, faults>>

\* The end of processBatch(): one XACK of every entry handled with success.
BatchDone(b) == b.todo = {} /\ b.bad = {} /\ b.copied = {} /\ b.ok # {}
AckProcessed(w, k) ==
  LET b == lane[w][k] IN
  /\ BatchDone(b)
  /\ Ack(b.ok)
  /\ Hold(w, k, Idle)
  /\ UNCHANGED <<history, faults>>

-----------------------------------------------------------------------------
(* Faults *)

\* A Redis command of processBatch fails: the error is logged and swallowed, and
\* the entry it was about stays pending.  (An XADD that was executed but reported
\* as failed is a Requeue or MoveToDLQ followed by this.)
CommandFails(w, k) ==
  LET b == lane[w][k] IN
  /\ b.todo = {}
  /\ Fault
  /\ \/ \E e \in b.bad : HandlesFailed(b, e) /\ Hold(w, k, DropBad(b, e))
     \/ b.copied # {} /\ Hold(w, k, DropCopied(b))
     \/ BatchDone(b) /\ Hold(w, k, Idle)
  /\ UNCHANGED <<stream, history>>

\* The process dies (or is killed 5 s into stop()) and is restarted.
Crash(w) ==
  /\ \E k \in Loop : lane[w][k] # Idle
  /\ Fault
  /\ lane' = [lane EXCEPT ![w] = [k \in Loop |-> Idle]]
  /\ UNCHANGED <<stream, history>>

-----------------------------------------------------------------------------
Handle(w, k, e) == Succeed(w, k, e) \/ Throw(w, k, e)
Settle(w, k) == AckCopied(w, k) \/ AckProcessed(w, k)
Copy(w, k, e) == Requeue(w, k, e) \/ MoveToDLQ(w, k, e)

Next ==
  \/ \E j \in Job : Publish(j)
  \/ Initialize
  \/ \E w \in Worker : Read(w) \/ Claim(w) \/ Crash(w)
  \/ \E w \in Worker, k \in Loop :
       \/ \E e \in lane[w][k].todo : Handle(w, k, e)
       \/ \E e \in lane[w][k].bad : Copy(w, k, e)
       \/ Settle(w, k)
       \/ CommandFails(w, k)

Spec == Init /\ [][Next]_vars

\* A running process keeps looping: it reads, it collects, and it finishes the
\* batch it holds.  Nothing is assumed of producers, and faults are never fair.
LaneStep(w, k) ==
  \/ \E e \in lane[w][k].todo : Handle(w, k, e)
  \/ \E e \in lane[w][k].bad : Copy(w, k, e)
  \/ Settle(w, k)

Fairness ==
  /\ WF_vars(Initialize)
  /\ \A w \in Worker : WF_vars(Read(w)) /\ WF_vars(Claim(w))
  /\ \A w \in Worker, k \in Loop : WF_vars(LaneStep(w, k))

FairSpec == Spec /\ Fairness

-----------------------------------------------------------------------------
(* Properties *)

\* Every job a producer published is still in the stream (undelivered or pending),
\* or its handler has returned, or it is in the dead-letter stream, or Redis itself
\* gave it up.  Crashes, failed commands and two loops holding the same entry cannot
\* make WorkerBase drop a job.
NothingDropped ==
  submitted \subseteq JobsOf(Live) \cup completed \cup dead \cup lost

\* A job is dead-lettered only after its handler failed on the first try and on
\* every one of the MaxRetries retries, also when copies of it were claimed twice.
DeadOnlyWhenExhausted == \A j \in dead : failures[j] > MaxRetries

\* Once producers stop and faults are over, the stream is worked off: nothing stays
\* undelivered or pending for ever, and so every job was handled or put aside.
QueueDrains == <>[](undelivered = {} /\ pending = {})

\* The detailed system implements the queue's promise.
Queue == INSTANCE JobQueue WITH owed <- JobsOf(Live)
ImplementsJobQueue == Queue!Spec
=============================================================================
