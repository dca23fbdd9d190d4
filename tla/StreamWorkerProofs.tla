------------------------- MODULE StreamWorkerProofs -------------------------
(***************************************************************************)
(* Theorems about StreamWorker, for every number of jobs, processes,       *)
(* retries, faults, and every batch and stream size.                       *)
(***************************************************************************)
EXTENDS StreamWorker, TLAPS

-----------------------------------------------------------------------------
(* Type correctness *)

\* A batch put in hand of one loop leaves the other loops' batches alone.
LEMMA HoldLane ==
  ASSUME TypeOK, NEW w \in Worker, NEW k \in Loop, NEW b \in Batch, Hold(w, k, b)
  PROVE  /\ lane' \in [Worker -> [Loop -> Batch]]
         /\ \A v \in Worker, l \in Loop :
              lane'[v][l] = IF v = w /\ l = k THEN b ELSE lane[v][l]
  BY DEF TypeOK, Hold

\* XADD keeps the types, never evicts the entry it adds, and only moves jobs from
\* Live to lost.
Added(j, a) ==
  /\ lastId' = lastId + 1
  /\ trimmed' \in Nat
  /\ trimmed' <= lastId
  /\ undelivered' \subseteq Entry
  /\ pending' \subseteq Entry
  /\ lost' \subseteq Job
  /\ lost \subseteq lost'
  /\ lost' \subseteq lost \cup JobsOf(Live) \cup {j}
  /\ \A e \in Live : e \in Live' \/ e.job \in lost'
  /\ \A e \in Live' : e \in Live \/ (e.job = j /\ e.attempt = a)
  /\ \/ j \in lost'
     \/ \E e \in Live' : e.job = j /\ e.attempt = a

LEMMA AddStep ==
  ASSUME TypeOK, trimmed <= lastId, NEW j \in Job, NEW a \in 0..MaxRetries, Add(j, a)
  PROVE  Added(j, a)
  <1> DEFINE new == [id |-> lastId + 1, job |-> j, attempt |-> a]
             arrived == IF groupReady THEN {new} ELSE {}
             evicted(c) == {e \in Live : e.id <= c}
  <1>1. PICK cut \in Cuts :
          /\ lastId' = lastId + 1
          /\ trimmed' = cut
          /\ undelivered' = (undelivered \cup arrived) \ evicted(cut)
          /\ pending' = pending \ evicted(cut)
          /\ lost' = lost \cup JobsOf(evicted(cut)) \cup (IF groupReady THEN {} ELSE {j})
    BY DEF Add
  <1>2. cut \in Nat /\ cut <= lastId
    BY StreamWorkerAssumption DEF Cuts, TypeOK
  <1>3. new \in Entry /\ new.id = lastId + 1 /\ new.job = j /\ new.attempt = a
    BY DEF Entry, TypeOK
  <1>4. evicted(cut) \subseteq Entry /\ Live \subseteq Entry
    BY DEF Live, TypeOK
  <1>5. new \notin evicted(cut)
    BY <1>2, <1>3 DEF TypeOK
  <1>6. JobsOf(evicted(cut)) \subseteq Job
    BY <1>4 DEF JobsOf, Entry
  <1>7. \A e \in Live : e \in Live' \/ e.job \in lost'
    BY <1>1, <1>4 DEF Live, JobsOf, Entry
  <1>8. \A e \in Live' : e \in Live \/ (e.job = j /\ e.attempt = a)
    BY <1>1, <1>3 DEF Live
  <1>9. j \in lost' \/ new \in Live'
    BY <1>1, <1>5 DEF Live, TypeOK
  <1>10. undelivered' \subseteq Entry /\ pending' \subseteq Entry
    BY <1>1, <1>3 DEF TypeOK
  <1>11. lost' \subseteq Job /\ lost \subseteq lost'
    BY <1>1, <1>6 DEF TypeOK
  <1>12. lost' \subseteq lost \cup JobsOf(Live) \cup {j}
    BY <1>1 DEF JobsOf
  <1> QED
    BY <1>1, <1>2, <1>3, <1>7, <1>8, <1>9, <1>10, <1>11, <1>12 DEF Added

\* Every entry in the stream or in hand, with its job admitted and with no more
\* attempts on it than the job has failed executions.
Sound(e) == e.job \in submitted /\ e.attempt <= failures[e.job]

\* What makes it safe to acknowledge a copied entry: its job is settled, or a later
\* attempt of it is in the stream.
Superseded(e) ==
  \/ e.job \in completed \cup dead \cup lost
  \/ \E f \in Live : f.job = e.job /\ f.attempt > e.attempt

BatchInv(b) ==
  /\ \A e \in Held(b) : Sound(e)
  /\ \A e \in b.ok : e.job \in completed
  /\ \A e \in b.bad : e.attempt < failures[e.job]
  /\ \A e \in b.copied : Superseded(e)
  /\ \A e, f \in b.copied : e = f

\* NothingDropped alone is not inductive: acknowledging an entry removes a job from
\* the stream, which is harmless only because of what the loops know of it.
IInv ==
  /\ trimmed <= lastId
  /\ NothingDropped
  /\ DeadOnlyWhenExhausted
  /\ \A e \in Live : Sound(e)
  /\ \A w \in Worker, k \in Loop : BatchInv(lane[w][k])

-----------------------------------------------------------------------------
(* Steps *)

\* No step of the system takes back what it knows of a job, and an entry only leaves
\* the stream when its job is settled or a later attempt of it is there.
Settled == completed \cup dead \cup lost
Progress ==
  /\ submitted \subseteq submitted'
  /\ completed \subseteq completed'
  /\ dead \subseteq dead'
  /\ lost \subseteq lost'
  /\ \A j \in Job : failures'[j] \in Nat /\ failures[j] <= failures'[j]
  /\ \A e \in Live :
       \/ e \in Live'
       \/ e.job \in Settled'
       \/ \E g \in Live' : g.job = e.job /\ g.attempt > e.attempt

\* A batch that a loop keeps as it is keeps its invariant.
LEMMA BatchKept ==
  ASSUME TypeOK, TypeOK', Progress
  PROVE  \A b \in Batch : BatchInv(b) => BatchInv(b)'
  <1> SUFFICES ASSUME NEW b \in Batch, BatchInv(b)
               PROVE  BatchInv(b)'
    OBVIOUS
  <1>1. Held(b) \subseteq Entry /\ b.ok \subseteq Held(b) /\ b.bad \subseteq Held(b)
        /\ b.copied \subseteq Held(b)
    BY DEF Batch, Held
  <1>2. \A e \in Held(b) : Sound(e)'
    BY <1>1 DEF BatchInv, Sound, Progress, TypeOK, Entry
  <1>3. \A e \in b.ok : e.job \in completed'
    BY DEF BatchInv, Progress
  <1>4. \A e \in b.bad : e.attempt < failures'[e.job]
    BY <1>1 DEF BatchInv, Progress, TypeOK, Entry
  <1>5. \A e \in b.copied : Superseded(e)'
    <2> SUFFICES ASSUME NEW e \in b.copied
                 PROVE  Superseded(e)'
      OBVIOUS
    <2>1. CASE e.job \in completed \cup dead \cup lost
      BY <2>1 DEF Superseded, Progress
    <2>2. CASE \E f \in Live : f.job = e.job /\ f.attempt > e.attempt
      <3>1. PICK f \in Live : f.job = e.job /\ f.attempt > e.attempt
        BY <2>2
      <3>2. e \in Entry /\ f \in Entry /\ Live' \subseteq Entry
        BY <1>1 DEF Live, TypeOK
      <3>3. CASE f \in Live'
        BY <3>1, <3>3 DEF Superseded
      <3>4. CASE f.job \in Settled'
        BY <3>1, <3>4 DEF Superseded, Settled
      <3>5. CASE \E g \in Live' : g.job = f.job /\ g.attempt > f.attempt
        BY <3>1, <3>2, <3>5 DEF Superseded, Entry
      <3> QED
        BY <3>3, <3>4, <3>5 DEF Progress
    <2> QED
      BY <2>1, <2>2 DEF BatchInv, Superseded
  <1> QED
    BY <1>2, <1>3, <1>4, <1>5 DEF BatchInv

\* The stream keeps track of every job admitted before the step.
LEMMA JobsKept ==
  ASSUME TypeOK, NothingDropped, Progress, NEW j \in submitted
  PROVE  j \in JobsOf(Live)' \cup Settled'
  <1>1. CASE j \in completed \cup dead \cup lost
    BY <1>1 DEF Progress, Settled
  <1>2. CASE j \in JobsOf(Live)
    BY <1>2 DEF JobsOf, Progress
  <1> QED
    BY <1>1, <1>2 DEF NothingDropped

\* What is left to show of a step, once it is known to make progress: the invariant
\* of what it adds.
LEMMA StepKeepsInv ==
  ASSUME TypeOK, IInv, TypeOK', Progress,
         trimmed' <= lastId',
         \A j \in submitted' \ submitted : j \in JobsOf(Live)' \cup Settled',
         \A j \in dead' \ dead : failures'[j] > MaxRetries,
         \A e \in Live' \ Live : Sound(e)',
         \A w \in Worker, k \in Loop :
           lane'[w][k] = lane[w][k] \/ BatchInv(lane[w][k])'
  PROVE  IInv'
  <1>1. NothingDropped'
    BY JobsKept DEF NothingDropped, Settled, IInv
  <1>2. DeadOnlyWhenExhausted'
    BY StreamWorkerAssumption DEF DeadOnlyWhenExhausted, IInv, Progress, TypeOK
  <1>3. \A e \in Live' : Sound(e)'
    BY DEF IInv, Sound, Progress, TypeOK, Live, Entry
  <1>4. ASSUME NEW w \in Worker, NEW k \in Loop, lane'[w][k] = lane[w][k]
        PROVE  BatchInv(lane[w][k])'
    <2> DEFINE b == lane[w][k]
    <2>1. b \in Batch /\ BatchInv(b)
      BY DEF IInv, TypeOK
    <2> QED
      BY <1>4, <2>1, BatchKept DEF BatchInv, Sound, Superseded, Held, Live
  <1> QED
    BY <1>1, <1>2, <1>3, <1>4 DEF IInv

LEMMA HeldBatchInv ==
  ASSUME TypeOK, NEW w \in Worker, NEW k \in Loop, NEW b \in Batch, Hold(w, k, b),
         BatchInv(b)'
  PROVE  \A v \in Worker, l \in Loop :
           lane'[v][l] = lane[v][l] \/ BatchInv(lane[v][l])'
  <1>1. \A v \in Worker, l \in Loop : lane'[v][l] = lane[v][l] \/ lane'[v][l] = b
    BY HoldLane
  <1> QED
    BY <1>1 DEF BatchInv, Held, Sound, Superseded

LEMMA PublishStep ==
  ASSUME TypeOK, IInv, NEW j \in Job, Publish(j)
  PROVE  TypeOK' /\ IInv'
  <1>1. 0 \in 0..MaxRetries /\ trimmed <= lastId
    BY StreamWorkerAssumption DEF IInv
  <1>2. Add(j, 0) /\ submitted' = submitted \cup {j}
        /\ UNCHANGED <<groupReady, lane, completed, dead, failures, faults>>
    BY DEF Publish
  <1>3. Added(j, 0)
    BY <1>1, <1>2, AddStep
  <1>4. TypeOK'
    BY <1>2, <1>3 DEF TypeOK, Added
  <1>5. Progress
    BY <1>2, <1>3 DEF TypeOK, Progress, Settled, Added
  <1>6. \A e \in Live' \ Live : Sound(e)'
    BY <1>2, <1>3, <1>4 DEF Sound, TypeOK, Added
  <1>7. j \in JobsOf(Live)' \cup Settled'
    BY <1>3 DEF JobsOf, Settled, Added
  <1>8. trimmed' <= lastId'
    BY <1>3 DEF TypeOK, Added
  <1> QED
    BY <1>2, <1>4, <1>5, <1>6, <1>7, <1>8, StepKeepsInv

LEMMA InitializeStep ==
  ASSUME TypeOK, IInv, Initialize
  PROVE  TypeOK' /\ IInv'
  <1>1. TypeOK'
    BY DEF TypeOK, Initialize, history
  <1>2. Progress /\ Live' = Live
    BY DEF Progress, TypeOK, Initialize, history, Live
  <1> QED
    BY <1>1, <1>2, StepKeepsInv DEF Initialize, history, IInv

LEMMA ReadStep ==
  ASSUME TypeOK, IInv, NEW w \in Worker, Read(w)
  PROVE  TypeOK' /\ IInv'
  <1>1. PICK B \in SUBSET undelivered :
          /\ undelivered' = undelivered \ B
          /\ pending' = pending \cup B
          /\ Hold(w, "main", Fresh(B))
    BY DEF Read
  <1> DEFINE b == Fresh(B)
  <1>2. UNCHANGED <<groupReady, lastId, trimmed, history, faults>>
    BY DEF Read
  <1>3. b \in Batch
    BY <1>1 DEF Fresh, Batch, TypeOK
  <1>4. TypeOK'
    BY <1>1, <1>2, <1>3, HoldLane DEF TypeOK, Loop, history
  <1>5. Live' = Live
    BY <1>1 DEF Live
  <1>6. Progress
    BY <1>2, <1>5 DEF Progress, history, TypeOK
  <1>7. BatchInv(b)
    BY <1>1 DEF BatchInv, IInv, Fresh, Held, Live
  <1>8. BatchInv(b)'
    BY <1>3, <1>4, <1>6, <1>7, BatchKept
  <1>9. \A v \in Worker, l \in Loop :
          lane'[v][l] = lane[v][l] \/ BatchInv(lane[v][l])'
    BY <1>1, <1>3, <1>8, HeldBatchInv DEF Loop
  <1> QED
    BY <1>2, <1>4, <1>5, <1>6, <1>9, StepKeepsInv DEF history, IInv

LEMMA ClaimStep ==
  ASSUME TypeOK, IInv, NEW w \in Worker, Claim(w)
  PROVE  TypeOK' /\ IInv'
  <1>1. PICK C \in SUBSET Claimable : Hold(w, "gc", Fresh(C))
    BY DEF Claim
  <1> DEFINE b == Fresh(C)
  <1>2. UNCHANGED <<stream, history>> /\ faults' \in 0..MaxFaults
    BY StreamWorkerAssumption DEF Claim, Fault, TypeOK
  <1>3. b \in Batch
    BY <1>1 DEF Fresh, Batch, TypeOK, Claimable
  <1>4. TypeOK'
    BY <1>1, <1>2, <1>3, HoldLane DEF TypeOK, Loop, history, stream
  <1>5. Live' = Live
    BY <1>2 DEF Live, stream
  <1>6. Progress
    BY <1>2, <1>5 DEF Progress, history, TypeOK
  <1>7. BatchInv(b)
    BY <1>1 DEF BatchInv, IInv, Fresh, Held, Live, Claimable
  <1>8. BatchInv(b)'
    BY <1>3, <1>4, <1>6, <1>7, BatchKept
  <1>9. \A v \in Worker, l \in Loop :
          lane'[v][l] = lane[v][l] \/ BatchInv(lane[v][l])'
    BY <1>1, <1>3, <1>8, HeldBatchInv DEF Loop
  <1> QED
    BY <1>2, <1>4, <1>5, <1>6, <1>9, StepKeepsInv DEF history, stream, IInv

\* What the moves of an entry e within a batch b do to its parts.
LEMMA MarkOkFields ==
  ASSUME NEW b \in Batch, NEW e \in Entry
  PROVE  /\ MarkOk(b, e) \in Batch
         /\ MarkOk(b, e).todo = b.todo \ {e} /\ MarkOk(b, e).ok = b.ok \cup {e}
         /\ MarkOk(b, e).bad = b.bad /\ MarkOk(b, e).copied = b.copied
  BY DEF Batch, MarkOk

LEMMA MarkBadFields ==
  ASSUME NEW b \in Batch, NEW e \in Entry
  PROVE  /\ MarkBad(b, e) \in Batch
         /\ MarkBad(b, e).todo = b.todo \ {e} /\ MarkBad(b, e).ok = b.ok
         /\ MarkBad(b, e).bad = b.bad \cup {e} /\ MarkBad(b, e).copied = b.copied
  BY DEF Batch, MarkBad

LEMMA MarkCopiedFields ==
  ASSUME NEW b \in Batch, NEW e \in Entry
  PROVE  /\ MarkCopied(b, e) \in Batch
         /\ MarkCopied(b, e).todo = b.todo /\ MarkCopied(b, e).ok = b.ok
         /\ MarkCopied(b, e).bad = b.bad \ {e} /\ MarkCopied(b, e).copied = {e}
  BY DEF Batch, MarkCopied

LEMMA DropBadFields ==
  ASSUME NEW b \in Batch, NEW e \in Entry
  PROVE  /\ DropBad(b, e) \in Batch
         /\ DropBad(b, e).todo = b.todo /\ DropBad(b, e).ok = b.ok
         /\ DropBad(b, e).bad = b.bad \ {e} /\ DropBad(b, e).copied = b.copied
  BY DEF Batch, DropBad

LEMMA DropCopiedFields ==
  ASSUME NEW b \in Batch
  PROVE  /\ DropCopied(b) \in Batch
         /\ DropCopied(b).todo = b.todo /\ DropCopied(b).ok = b.ok
         /\ DropCopied(b).bad = b.bad /\ DropCopied(b).copied = {}
  BY DEF Batch, DropCopied

LEMMA SucceedStep ==
  ASSUME TypeOK, IInv, NEW w \in Worker, NEW k \in Loop, NEW e, Succeed(w, k, e)
  PROVE  TypeOK' /\ IInv'
  <1>1. PICK b \in Batch : b = lane[w][k]
    BY DEF TypeOK
  <1> DEFINE c == MarkOk(b, e)
  <1>2. /\ e \in b.todo
        /\ Hold(w, k, c)
        /\ completed' = completed \cup {e.job}
        /\ UNCHANGED <<stream, submitted, dead, lost, failures, faults>>
    BY <1>1 DEF Succeed, IsFirst
  <1>3. e \in Entry /\ Sound(e) /\ e.job \in Job /\ BatchInv(b)
    BY <1>1, <1>2 DEF IInv, BatchInv, Batch, Held, Entry
  <1>4. c \in Batch /\ c.ok = b.ok \cup {e} /\ c.todo = b.todo \ {e}
        /\ c.bad = b.bad /\ c.copied = b.copied
    BY <1>3, MarkOkFields
  <1> HIDE DEF c
  <1>5. TypeOK'
    BY <1>2, <1>3, <1>4, HoldLane DEF TypeOK, stream
  <1>6. Live' = Live
    BY <1>2 DEF Live, stream
  <1>7. Progress
    BY <1>2, <1>6 DEF Progress, TypeOK
  <1>8. BatchInv(b)'
    BY <1>3, <1>5, <1>7, BatchKept
  <1>9. BatchInv(c)'
    BY <1>2, <1>3, <1>4, <1>8 DEF BatchInv, Held, Sound
  <1>10. \A v \in Worker, l \in Loop :
          lane'[v][l] = lane[v][l] \/ BatchInv(lane[v][l])'
    BY <1>2, <1>4, <1>9, HeldBatchInv
  <1> QED
    BY <1>2, <1>5, <1>6, <1>7, <1>10, StepKeepsInv DEF stream, IInv

LEMMA ThrowStep ==
  ASSUME TypeOK, IInv, NEW w \in Worker, NEW k \in Loop, NEW e, Throw(w, k, e)
  PROVE  TypeOK' /\ IInv'
  <1>1. PICK b \in Batch : b = lane[w][k]
    BY DEF TypeOK
  <1> DEFINE c == MarkBad(b, e)
  <1>2. /\ e \in b.todo
        /\ Hold(w, k, c)
        /\ failures' = [failures EXCEPT ![e.job] = @ + 1]
        /\ UNCHANGED <<stream, submitted, completed, dead, lost, faults>>
    BY <1>1 DEF Throw, IsFirst
  <1>3. e \in Entry /\ Sound(e) /\ e.job \in Job /\ BatchInv(b)
    BY <1>1, <1>2 DEF IInv, BatchInv, Batch, Held, Entry
  <1>4. c \in Batch /\ c.bad = b.bad \cup {e} /\ c.todo = b.todo \ {e}
        /\ c.ok = b.ok /\ c.copied = b.copied
    BY <1>3, MarkBadFields
  <1> HIDE DEF c
  <1>5. failures' \in [Job -> Nat] /\ failures'[e.job] = failures[e.job] + 1
        /\ \A j \in Job : failures[j] <= failures'[j]
    BY <1>2, <1>3 DEF TypeOK
  <1>6. TypeOK'
    BY <1>2, <1>3, <1>4, <1>5, HoldLane DEF TypeOK, stream
  <1>7. Live' = Live
    BY <1>2 DEF Live, stream
  <1>8. Progress
    BY <1>2, <1>5, <1>7 DEF Progress, TypeOK
  <1>9. BatchInv(b)'
    BY <1>3, <1>6, <1>8, BatchKept
  <1>10. Sound(e)' /\ e.attempt < failures'[e.job]
    BY <1>2, <1>3, <1>5 DEF Sound, Entry, TypeOK
  <1>11. BatchInv(c)'
    BY <1>4, <1>9, <1>10 DEF BatchInv, Held
  <1>12. \A v \in Worker, l \in Loop :
          lane'[v][l] = lane[v][l] \/ BatchInv(lane[v][l])'
    BY <1>2, <1>4, <1>11, HeldBatchInv
  <1> QED
    BY <1>2, <1>6, <1>7, <1>8, <1>12, StepKeepsInv DEF stream, IInv

LEMMA RequeueStep ==
  ASSUME TypeOK, IInv, NEW w \in Worker, NEW k \in Loop, NEW e, Requeue(w, k, e)
  PROVE  TypeOK' /\ IInv'
  <1>1. PICK b \in Batch : b = lane[w][k]
    BY DEF TypeOK
  <1> DEFINE c == MarkCopied(b, e)
  <1>2. /\ e \in b.bad
        /\ e.attempt < MaxRetries
        /\ Add(e.job, e.attempt + 1)
        /\ Hold(w, k, c)
        /\ UNCHANGED <<groupReady, submitted, completed, dead, failures, faults>>
    BY <1>1 DEF Requeue, HandlesFailed, IsFirst, CanRetry
  <1>3. e \in Entry /\ e.job \in Job /\ e.attempt \in 0..MaxRetries
        /\ Sound(e) /\ e.attempt < failures[e.job] /\ BatchInv(b)
    BY <1>1, <1>2 DEF IInv, BatchInv, Batch, Held, Entry
  <1>4. c \in Batch /\ c.todo = b.todo /\ c.ok = b.ok /\ c.bad = b.bad \ {e}
        /\ c.copied = {e}
    BY <1>3, MarkCopiedFields
  <1> HIDE DEF c
  <1>5. e.attempt + 1 \in 0..MaxRetries /\ trimmed <= lastId
    BY <1>2, <1>3, StreamWorkerAssumption DEF IInv
  <1>6. Added(e.job, e.attempt + 1)
    BY <1>2, <1>3, <1>5, AddStep
  <1>7. TypeOK'
    BY <1>2, <1>4, <1>6, HoldLane DEF TypeOK, Added
  <1>8. Progress
    BY <1>2, <1>6 DEF Progress, TypeOK, Added, Settled
  <1>9. BatchInv(b)'
    BY <1>3, <1>7, <1>8, BatchKept
  <1>10. Superseded(e)'
    BY <1>3, <1>6 DEF Superseded, Added
  <1>11. BatchInv(c)'
    BY <1>2, <1>4, <1>9, <1>10 DEF BatchInv, Held
  <1>12. \A v \in Worker, l \in Loop :
          lane'[v][l] = lane[v][l] \/ BatchInv(lane[v][l])'
    BY <1>2, <1>4, <1>11, HeldBatchInv
  <1>13. \A f \in Live' \ Live : Sound(f)'
    BY <1>2, <1>3, <1>6 DEF Sound, Added, TypeOK
  <1>14. trimmed' <= lastId'
    BY <1>6 DEF Added, TypeOK
  <1> QED
    BY <1>2, <1>7, <1>8, <1>12, <1>13, <1>14, StepKeepsInv

LEMMA MoveToDLQStep ==
  ASSUME TypeOK, IInv, NEW w \in Worker, NEW k \in Loop, NEW e, MoveToDLQ(w, k, e)
  PROVE  TypeOK' /\ IInv'
  <1>1. PICK b \in Batch : b = lane[w][k]
    BY DEF TypeOK
  <1> DEFINE c == MarkCopied(b, e)
  <1>2. /\ e \in b.bad
        /\ ~(e.attempt < MaxRetries)
        /\ dead' = dead \cup {e.job}
        /\ Hold(w, k, c)
        /\ UNCHANGED <<stream, submitted, completed, lost, failures, faults>>
    BY <1>1 DEF MoveToDLQ, HandlesFailed, IsFirst, CanRetry
  <1>3. e \in Entry /\ e.job \in Job /\ e.attempt \in 0..MaxRetries
        /\ e.attempt < failures[e.job] /\ BatchInv(b)
    BY <1>1, <1>2 DEF IInv, BatchInv, Batch, Held, Entry
  <1>4. c \in Batch /\ c.todo = b.todo /\ c.ok = b.ok /\ c.bad = b.bad \ {e}
        /\ c.copied = {e}
    BY <1>3, MarkCopiedFields
  <1> HIDE DEF c
  <1>5. TypeOK'
    BY <1>2, <1>3, <1>4, HoldLane DEF TypeOK, stream
  <1>6. Live' = Live
    BY <1>2 DEF Live, stream
  <1>7. Progress
    BY <1>2, <1>6 DEF Progress, TypeOK
  <1>8. BatchInv(b)'
    BY <1>3, <1>5, <1>7, BatchKept
  <1>9. BatchInv(c)'
    BY <1>2, <1>4, <1>8 DEF BatchInv, Held, Superseded
  <1>10. \A v \in Worker, l \in Loop :
          lane'[v][l] = lane[v][l] \/ BatchInv(lane[v][l])'
    BY <1>2, <1>4, <1>9, HeldBatchInv
  <1>11. \A j \in dead' \ dead : failures'[j] > MaxRetries
    BY <1>2, <1>3, StreamWorkerAssumption DEF TypeOK
  <1> QED
    BY <1>2, <1>5, <1>6, <1>7, <1>10, <1>11, StepKeepsInv DEF stream, IInv

\* XACK of entries that are settled or superseded by entries it leaves alone.
LEMMA AckProgress ==
  ASSUME TypeOK, NEW S, Ack(S), UNCHANGED history,
         \A e \in S : Superseded(e),
         \A e \in S : e.job \in Settled \/ \A f \in S : e = f
  PROVE  Progress /\ Live' \subseteq Live
  <1>1. Live' \subseteq Live /\ \A e \in Live : e \in S \/ e \in Live'
    BY DEF Live, Ack
  <1>2. Settled' = Settled
    BY DEF Settled, history
  <1>3. Live \subseteq Entry
    BY DEF Live, TypeOK
  <1>4. ASSUME NEW e \in Live, e \in S, e.job \notin Settled
        PROVE  \E g \in Live' : g.job = e.job /\ g.attempt > e.attempt
    <2>1. PICK f \in Live : f.job = e.job /\ f.attempt > e.attempt
      BY <1>4 DEF Superseded, Settled
    <2>2. f # e
      BY <1>3, <2>1 DEF Entry
    <2> QED
      BY <1>1, <1>4, <2>1, <2>2
  <1> QED
    BY <1>1, <1>2, <1>4 DEF Progress, history, TypeOK

LEMMA AckCopiedStep ==
  ASSUME TypeOK, IInv, NEW w \in Worker, NEW k \in Loop, AckCopied(w, k)
  PROVE  TypeOK' /\ IInv'
  <1>1. PICK b \in Batch : b = lane[w][k]
    BY DEF TypeOK
  <1> DEFINE c == DropCopied(b)
  <1>2. Ack(b.copied) /\ Hold(w, k, c) /\ UNCHANGED <<history, faults>>
    BY <1>1 DEF AckCopied
  <1>3. BatchInv(b)
    BY <1>1 DEF IInv
  <1>4. c \in Batch /\ c.todo = b.todo /\ c.ok = b.ok /\ c.bad = b.bad /\ c.copied = {}
    BY DropCopiedFields
  <1> HIDE DEF c
  <1>5. TypeOK'
    BY <1>2, <1>4, HoldLane DEF TypeOK, Ack, history
  <1>6. Progress /\ Live' \subseteq Live
    BY <1>2, <1>3, AckProgress DEF BatchInv
  <1>7. BatchInv(b)'
    BY <1>3, <1>5, <1>6, BatchKept
  <1>8. BatchInv(c)'
    BY <1>4, <1>7 DEF BatchInv, Held
  <1>9. \A v \in Worker, l \in Loop :
          lane'[v][l] = lane[v][l] \/ BatchInv(lane[v][l])'
    BY <1>2, <1>4, <1>8, HeldBatchInv
  <1> QED
    BY <1>2, <1>5, <1>6, <1>9, StepKeepsInv DEF Ack, history, IInv

LEMMA IdleBatch == Idle \in Batch /\ BatchInv(Idle)'
  BY DEF Idle, Fresh, Batch, BatchInv, Held

LEMMA AckProcessedStep ==
  ASSUME TypeOK, IInv, NEW w \in Worker, NEW k \in Loop, AckProcessed(w, k)
  PROVE  TypeOK' /\ IInv'
  <1>1. PICK b \in Batch : b = lane[w][k]
    BY DEF TypeOK
  <1>2. Ack(b.ok) /\ Hold(w, k, Idle) /\ UNCHANGED <<history, faults>>
    BY <1>1 DEF AckProcessed
  <1>3. \A e \in b.ok : e.job \in completed
    BY <1>1 DEF IInv, BatchInv
  <1>4. TypeOK'
    BY <1>2, IdleBatch, HoldLane DEF TypeOK, Ack, history
  <1>5. Progress /\ Live' \subseteq Live
    BY <1>2, <1>3, AckProgress DEF Superseded, Settled
  <1>6. \A v \in Worker, l \in Loop :
          lane'[v][l] = lane[v][l] \/ BatchInv(lane[v][l])'
    BY <1>2, IdleBatch, HeldBatchInv
  <1> QED
    BY <1>2, <1>4, <1>5, <1>6, StepKeepsInv DEF Ack, history, IInv

\* A failed command takes a part of the batch out of hand and nothing else.
LEMMA CommandFailsStep ==
  ASSUME TypeOK, IInv, NEW w \in Worker, NEW k \in Loop, CommandFails(w, k)
  PROVE  TypeOK' /\ IInv'
  <1>1. PICK b \in Batch : b = lane[w][k]
    BY DEF TypeOK
  <1>2. PICK c \in Batch : /\ Hold(w, k, c)
                           /\ Held(c) \subseteq Held(b) /\ c.ok \subseteq b.ok
                           /\ c.bad \subseteq b.bad /\ c.copied \subseteq b.copied
    <2>1. CASE \E e \in b.bad : Hold(w, k, DropBad(b, e))
      <3>1. PICK e \in b.bad : Hold(w, k, DropBad(b, e))
        BY <2>1
      <3>2. e \in Entry
        BY DEF Batch
      <3> QED
        BY <3>1, <3>2, DropBadFields DEF Held
    <2>2. CASE Hold(w, k, DropCopied(b))
      BY <2>2, DropCopiedFields DEF Held
    <2>3. CASE Hold(w, k, Idle)
      BY <2>3, IdleBatch DEF Idle, Fresh, Held
    <2> QED
      BY <1>1, <2>1, <2>2, <2>3 DEF CommandFails
  <1>3. UNCHANGED <<stream, history>> /\ faults' \in 0..MaxFaults
    BY StreamWorkerAssumption DEF CommandFails, Fault, TypeOK
  <1>4. TypeOK'
    BY <1>2, <1>3, HoldLane DEF TypeOK, stream, history
  <1>5. Progress /\ Live' = Live
    BY <1>3 DEF Progress, stream, history, Live, TypeOK
  <1>6. BatchInv(b)'
    BY <1>1, <1>4, <1>5, BatchKept DEF IInv
  <1>7. BatchInv(c)'
    BY <1>2, <1>6 DEF BatchInv
  <1>8. \A v \in Worker, l \in Loop :
          lane'[v][l] = lane[v][l] \/ BatchInv(lane[v][l])'
    BY <1>2, <1>7, HeldBatchInv
  <1> QED
    BY <1>3, <1>4, <1>5, <1>8, StepKeepsInv DEF stream, history, IInv

LEMMA CrashStep ==
  ASSUME TypeOK, IInv, NEW w \in Worker, Crash(w)
  PROVE  TypeOK' /\ IInv'
  <1>1. UNCHANGED <<stream, history>> /\ faults' \in 0..MaxFaults
        /\ lane' = [lane EXCEPT ![w] = [k \in Loop |-> Idle]]
    BY StreamWorkerAssumption DEF Crash, Fault, TypeOK
  <1>2. lane' \in [Worker -> [Loop -> Batch]]
        /\ \A v \in Worker, l \in Loop : lane'[v][l] = IF v = w THEN Idle ELSE lane[v][l]
    BY <1>1, IdleBatch DEF TypeOK
  <1>3. TypeOK'
    BY <1>1, <1>2 DEF TypeOK, stream, history
  <1>4. Progress /\ Live' = Live
    BY <1>1 DEF Progress, stream, history, Live, TypeOK
  <1>5. \A v \in Worker, l \in Loop :
          lane'[v][l] = lane[v][l] \/ BatchInv(lane[v][l])'
    BY <1>2, IdleBatch DEF BatchInv, Held, Sound, Superseded
  <1> QED
    BY <1>1, <1>3, <1>4, <1>5, StepKeepsInv DEF stream, history, IInv

LEMMA StutterStep ==
  ASSUME TypeOK, IInv, UNCHANGED vars
  PROVE  TypeOK' /\ IInv'
  BY DEF vars, stream, history, TypeOK, IInv, NothingDropped, DeadOnlyWhenExhausted,
         BatchInv, Superseded, Sound, Held, Live, JobsOf

LEMMA InitInv == Init => TypeOK /\ IInv
  <1> SUFFICES ASSUME Init
               PROVE  TypeOK /\ IInv
    OBVIOUS
  <1>1. TypeOK
    <2>1. [k \in Loop |-> Idle] \in [Loop -> Batch]
      BY IdleBatch
    <2>2. lane \in [Worker -> [Loop -> Batch]]
      BY <2>1 DEF Init
    <2>3. failures \in [Job -> Nat]
      BY DEF Init
    <2>4. groupReady \in BOOLEAN
      BY Zenon DEF Init
    <2>6. lastId \in Nat /\ trimmed \in Nat /\ faults \in 0..MaxFaults
      <3>1. lastId = 0 /\ trimmed = 0 /\ faults = 0
        BY DEF Init
      <3> QED
        BY <3>1, StreamWorkerAssumption
    <2>5. undelivered = {} /\ pending = {} /\ submitted = {} /\ completed = {}
          /\ dead = {} /\ lost = {}
      BY DEF Init
    <2> QED
      BY <2>2, <2>3, <2>4, <2>5, <2>6 DEF TypeOK
  <1>2. \A w \in Worker, k \in Loop : BatchInv(lane[w][k])
    BY DEF Init, BatchInv, Held, Idle, Fresh
  <1> QED
    BY <1>1, <1>2
    DEF Init, IInv, NothingDropped, DeadOnlyWhenExhausted, Live, JobsOf

LEMMA NextInv ==
  ASSUME TypeOK, IInv, [Next]_vars
  PROVE  TypeOK' /\ IInv'
  <1>1. CASE \E j \in Job : Publish(j)
    BY <1>1, PublishStep
  <1>2. CASE Initialize
    BY <1>2, InitializeStep
  <1>3. ASSUME NEW w \in Worker, Read(w) \/ Claim(w) \/ Crash(w)
        PROVE  TypeOK' /\ IInv'
    BY <1>3, ReadStep, ClaimStep, CrashStep
  <1>4. ASSUME NEW w \in Worker, NEW k \in Loop, NEW e, Handle(w, k, e)
        PROVE  TypeOK' /\ IInv'
    BY <1>4, SucceedStep, ThrowStep DEF Handle
  <1>5. ASSUME NEW w \in Worker, NEW k \in Loop, NEW e, Copy(w, k, e)
        PROVE  TypeOK' /\ IInv'
    BY <1>5, RequeueStep, MoveToDLQStep DEF Copy
  <1>6. ASSUME NEW w \in Worker, NEW k \in Loop, Settle(w, k) \/ CommandFails(w, k)
        PROVE  TypeOK' /\ IInv'
    BY <1>6, AckCopiedStep, AckProcessedStep, CommandFailsStep DEF Settle
  <1>7. CASE UNCHANGED vars
    BY <1>7, StutterStep
  <1> QED
    BY <1>1, <1>2, <1>3, <1>4, <1>5, <1>6, <1>7 DEF Next

-----------------------------------------------------------------------------
(* Theorems *)

\* The variables of the delivery model keep their types in every execution of
\* WorkerBase over a consumer group.
THEOREM TypeCorrect == Spec => []TypeOK
  <1>1. TypeOK /\ IInv /\ [Next]_vars => (TypeOK /\ IInv)'
    BY NextInv
  <1> QED
    BY InitInv, <1>1, PTL DEF Spec

\* The inductive invariant holds in every execution.
THEOREM Inductive == Spec => []IInv
  <1>1. TypeOK /\ IInv /\ [Next]_vars => (TypeOK /\ IInv)'
    BY NextInv
  <1> QED
    BY InitInv, <1>1, PTL DEF Spec

\* WorkerBase drops no published job: processBatch acknowledges an entry only after
\* the handler returned, or after a copy for a later attempt or for the dead-letter
\* stream was written.
THEOREM JobsAreNotDropped == Spec => []NothingDropped
  <1>1. IInv => NothingDropped
    BY DEF IInv
  <1> QED
    BY <1>1, Inductive, PTL

\* handleFailedMessage dead-letters a job only after 1 + maxRetries failed executions.
THEOREM DeadLetteredAfterAllRetries == Spec => []DeadOnlyWhenExhausted
  <1>1. IInv => DeadOnlyWhenExhausted
    BY DEF IInv
  <1> QED
    BY <1>1, Inductive, PTL
-----------------------------------------------------------------------------
(* Refinement *)

\* Adding an entry is taking its job in, giving up the jobs that are no longer owed.
LEMMA AddMaps ==
  ASSUME TypeOK, IInv, NEW j \in Job, NEW a \in 0..MaxRetries, Add(j, a),
         submitted' = submitted \cup {j}, UNCHANGED <<completed, dead>>
  PROVE  Queue!Next
  <1>1. Added(j, a)
    BY AddStep DEF IInv
  <1> DEFINE owed == JobsOf(Live)
             S == (lost' \ lost) \cup ((owed \cup {j}) \ owed')
  <1>2. owed \subseteq submitted
    BY DEF IInv, Sound, JobsOf
  <1>3. S \in SUBSET (submitted \cup {j})
    BY <1>1, <1>2 DEF Added
  <1>4. owed' \subseteq owed \cup {j}
    BY <1>1 DEF Added, JobsOf
  <1>5. (owed \cup {j}) \ owed' \subseteq lost'
    BY <1>1 DEF Added, JobsOf
  <1>6. lost' = lost \cup S
    BY <1>1, <1>5 DEF Added
  <1>7. Queue!Submit(j, S)
    BY <1>4, <1>6 DEF Queue!Submit, Queue!Keeps
  <1> QED
    BY <1>3, <1>7 DEF Queue!Next

\* An acknowledgement that keeps NothingDropped forgets only jobs that are settled.
LEMMA AckMaps ==
  ASSUME TypeOK, IInv, IInv', NEW S, Ack(S), UNCHANGED history
  PROVE  Queue!Next
  <1> DEFINE owed == JobsOf(Live)
             T == owed \ owed'
  <1>1. owed \subseteq submitted /\ owed' \subseteq owed
    BY DEF IInv, Sound, JobsOf, Ack, Live
  <1>2. T \subseteq owed \cap (completed \cup dead \cup lost)
    BY <1>1 DEF IInv, NothingDropped, history
  <1>3. owed' = owed \ T
    BY <1>1
  <1>4. Queue!Settle(T) /\ T \in SUBSET owed
    BY <1>2, <1>3 DEF Queue!Settle, history
  <1> QED
    BY <1>4 DEF Queue!Next

\* A step that leaves the stream and the history alone is a stutter of the queue.
LEMMA QuietMaps ==
  ASSUME Live' = Live, UNCHANGED <<submitted, completed, dead, lost>>
  PROVE  UNCHANGED Queue!vars
  BY DEF Queue!vars, JobsOf

\* A handler runs for an admitted job, and so a copy is made of one.
LEMMA HeldEntry ==
  ASSUME TypeOK, IInv, NEW w \in Worker, NEW k \in Loop,
         NEW e \in lane[w][k].todo \cup lane[w][k].bad
  PROVE  e \in Entry /\ e.job \in Job /\ e.job \in submitted
  <1>1. PICK b \in Batch : b = lane[w][k]
    BY DEF TypeOK
  <1>2. e \in Held(b) /\ Held(b) \subseteq Entry
    BY <1>1 DEF Held, Batch
  <1>3. Sound(e)
    BY <1>1, <1>2 DEF IInv, BatchInv
  <1> QED
    BY <1>2, <1>3 DEF Sound, Entry

LEMMA StepMaps ==
  ASSUME TypeOK, IInv, IInv', [Next]_vars
  PROVE  [Queue!Next]_(Queue!vars)
  <1>1. ASSUME NEW j \in Job, Publish(j)
        PROVE  Queue!Next
    BY <1>1, AddMaps, StreamWorkerAssumption DEF Publish
  <1>2. CASE Initialize
    BY <1>2, QuietMaps DEF Initialize, history, Live
  <1>3. ASSUME NEW w \in Worker, Read(w) \/ Claim(w) \/ Crash(w)
        PROVE  UNCHANGED Queue!vars
    <2>1. Live' = Live
      BY <1>3 DEF Read, Claim, Crash, Live, stream
    <2> QED
      BY <1>3, <2>1, QuietMaps DEF Read, Claim, Crash, history
  <1>4. ASSUME NEW w \in Worker, NEW k \in Loop, NEW e \in lane[w][k].todo,
               Handle(w, k, e)
        PROVE  [Queue!Next]_(Queue!vars)
    <2>1. e.job \in Job /\ e.job \in submitted
      BY HeldEntry
    <2>2. Live' = Live
      BY <1>4 DEF Handle, Succeed, Throw, Live, stream
    <2>3. CASE Succeed(w, k, e)
      <3>1. Queue!Complete({e.job})
        BY <2>2, <2>3 DEF Succeed, Queue!Complete, JobsOf
      <3> QED
        BY <2>1, <3>1 DEF Queue!Next
    <2>4. CASE Throw(w, k, e)
      BY <2>2, <2>4, QuietMaps DEF Throw
    <2> QED
      BY <1>4, <2>3, <2>4 DEF Handle
  <1>5. ASSUME NEW w \in Worker, NEW k \in Loop, NEW e \in lane[w][k].bad,
               Copy(w, k, e)
        PROVE  Queue!Next
    <2>1. e \in Entry /\ e.job \in Job /\ e.job \in submitted
      BY HeldEntry
    <2>2. CASE Requeue(w, k, e)
      <3>1. e.attempt + 1 \in 0..MaxRetries
        BY <2>1, <2>2, StreamWorkerAssumption DEF Requeue, CanRetry, Entry
      <3>2. submitted' = submitted \cup {e.job} /\ UNCHANGED <<completed, dead>>
        BY <2>1, <2>2 DEF Requeue
      <3>3. Add(e.job, e.attempt + 1)
        BY <2>2 DEF Requeue
      <3> QED
        BY <2>1, <3>1, <3>2, <3>3, AddMaps
    <2>3. CASE MoveToDLQ(w, k, e)
      <3>1. Live' = Live
        BY <2>3 DEF MoveToDLQ, Live, stream
      <3>2. Queue!DeadLetter(e.job)
        BY <2>1, <2>3, <3>1 DEF MoveToDLQ, Queue!DeadLetter, Queue!Keeps, JobsOf
      <3> QED
        BY <2>1, <3>2 DEF Queue!Next
    <2> QED
      BY <1>5, <2>2, <2>3 DEF Copy
  <1>6. ASSUME NEW w \in Worker, NEW k \in Loop, Settle(w, k)
        PROVE  Queue!Next
    BY <1>6, AckMaps DEF Settle, AckCopied, AckProcessed
  <1>7. ASSUME NEW w \in Worker, NEW k \in Loop, CommandFails(w, k)
        PROVE  UNCHANGED Queue!vars
    BY <1>7, QuietMaps DEF CommandFails, stream, history, Live
  <1>8. CASE UNCHANGED vars
    BY <1>8, QuietMaps DEF vars, stream, history, Live
  <1> QED
    BY <1>1, <1>2, <1>3, <1>4, <1>5, <1>6, <1>7, <1>8 DEF Next

\* WorkerBase over a Redis stream implements the queue's promise: every execution,
\* with its crashes, failed commands and entries claimed while somebody holds them,
\* is one of JobQueue.
THEOREM StreamImplementsQueue == Spec => ImplementsJobQueue
  <1>1. Init => Queue!Init
    BY DEF Init, Queue!Init, Live, JobsOf
  <1>2. TypeOK /\ IInv /\ IInv' /\ [Next]_vars => [Queue!Next]_(Queue!vars)
    BY StepMaps
  <1> QED
    BY <1>1, <1>2, TypeCorrect, Inductive, PTL DEF Spec, ImplementsJobQueue, Queue!Spec

\* What the abstract queue promises follows from its steps alone: no admitted job is
\* unaccounted for.  With StreamImplementsQueue it holds of anything that implements it.
THEOREM QueueAccounts == Queue!Spec => []Queue!Accounted
  <1>1. Queue!Init => Queue!Accounted
    BY DEF Queue!Init, Queue!Accounted
  <1>2. Queue!Accounted /\ [Queue!Next]_(Queue!vars) => Queue!Accounted'
    <2> SUFFICES ASSUME Queue!Accounted, [Queue!Next]_(Queue!vars)
                 PROVE  Queue!Accounted'
      OBVIOUS
    <2>1. ASSUME NEW j \in Job, NEW S, Queue!Submit(j, S)
          PROVE  Queue!Accounted'
      BY <2>1 DEF Queue!Accounted, Queue!Submit, Queue!Keeps
    <2>2. ASSUME NEW j, NEW S, Queue!Complete(S) \/ Queue!DeadLetter(j)
          PROVE  Queue!Accounted'
      BY <2>2 DEF Queue!Accounted, Queue!Complete, Queue!DeadLetter, Queue!Keeps
    <2>3. ASSUME NEW S, Queue!Settle(S) \/ Queue!GiveUp(S)
          PROVE  Queue!Accounted'
      BY <2>3 DEF Queue!Accounted, Queue!Settle, Queue!GiveUp, Queue!Keeps
    <2>4. CASE UNCHANGED Queue!vars
      BY <2>4 DEF Queue!Accounted, Queue!vars
    <2> QED
      BY <2>1, <2>2, <2>3, <2>4 DEF Queue!Next
  <1> QED
    BY <1>1, <1>2, PTL DEF Queue!Spec
=============================================================================
