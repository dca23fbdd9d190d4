------------------------ MODULE ClickAccountingProofs ------------------------
(***************************************************************************)
(* Theorems about ClickAccounting, for any number of visits, batch size,   *)
(* retries, faults and any limit.                                          *)
(***************************************************************************)
EXTENDS ClickAccounting, FiniteSetTheorems, TLAPS

\* Every set that is counted is finite, and no batch is larger than batchSize.
FiniteInv ==
  /\ IsFiniteSet(admitted)
  /\ IsFiniteSet(rows)
  /\ IsFiniteSet(undelivered)
  /\ IsFiniteSet(pending)
  /\ \A l \in Loop :
       IsFiniteSet(loop[l].batch) /\ Cardinality(loop[l].batch) <= BatchSize

IInv == TypeOK /\ FiniteInv

-----------------------------------------------------------------------------
(* Parts of the invariant *)

VisitsOK ==
  /\ phase \in [Click -> Phase]
  /\ seen \in [Click -> Nat]
  /\ atStart \in [Click -> Nat]
  /\ admitted \subseteq Click /\ IsFiniteSet(admitted)
  /\ emitted \subseteq Click
CountersOK ==
  /\ cachedCount \in Nat \cup {Absent}
  /\ reserved \in Int
  /\ left \in Nat
  /\ faults \in 0..MaxFaults
StreamOK ==
  /\ lastId \in Nat
  /\ undelivered \subseteq Entry /\ IsFiniteSet(undelivered)
  /\ pending \subseteq Entry /\ IsFiniteSet(pending)
StoreOK ==
  /\ clicksCount \in Nat
  /\ rows \subseteq Click /\ IsFiniteSet(rows)
  /\ dead \subseteq Click
BatchOK(B) == B \subseteq Entry /\ IsFiniteSet(B) /\ Cardinality(B) <= BatchSize
LoopOK ==
  /\ loop \in [Loop -> LoopState]
  /\ \A l \in Loop : BatchOK(loop[l].batch)

LEMMA Parts == IInv <=> VisitsOK /\ CountersOK /\ StreamOK /\ StoreOK /\ LoopOK
<1>1. ASSUME NEW l \in Loop, loop \in [Loop -> LoopState]
      PROVE  loop[l].batch \subseteq Entry
  BY <1>1 DEF LoopState
<1>. QED
  BY <1>1 DEF IInv, TypeOK, FiniteInv, VisitsOK, CountersOK, StreamOK, StoreOK, LoopOK,
              BatchOK

LEMMA InitHolds == Init => IInv
<1>2. Idle \in LoopState /\ BatchOK(Idle.batch)
  BY FS_EmptySet, ClickAssumption DEF Idle, LoopState, BatchOK
<1>3. Init => LoopOK
  BY <1>2 DEF Init, LoopOK
<1>4. Init => VisitsOK /\ CountersOK /\ StreamOK /\ StoreOK
  BY FS_EmptySet, ClickAssumption
     DEF Init, VisitsOK, CountersOK, StreamOK, StoreOK, Phase
<1>. QED
  BY <1>3, <1>4, Parts

-----------------------------------------------------------------------------
(* Which part an action leaves alone *)

LEMMA VisitFrame ==
  ASSUME NEW c \in Click, ReadCache(c) \/ Visit(c) \/ VisitFails(c)
  PROVE  UNCHANGED <<pending, store, loop>>
BY DEF ReadCache, Visit, VisitFails, ReadRow, ReadCacheAgain, ReadPending, Fill, Deny,
       Reserve, Emit, Revert, ClearUnsent, PendingUnread, ReserveFails, EmitFails,
       RevertUnanswered, Forgotten, stream, store

LEMMA WorkFrame ==
  ASSUME NEW l \in Loop, Work(l) \/ WorkFails(l)
  PROVE  UNCHANGED visits
BY DEF Work, WorkFails, Commit, AddToCache, Drain, Clear, Ack, HandleFailed, CommitFails,
       EffectFails, DrainFails, Abandon, visits

-----------------------------------------------------------------------------
(* Visits *)

LEMMA GotoType ==
  ASSUME VisitsOK, NEW c \in Click, NEW from, NEW to \in Phase, Goto(c, from, to)
  PROVE  phase' \in [Click -> Phase]
BY DEF Goto, VisitsOK

LEMMA SeenType ==
  ASSUME VisitsOK, NEW c \in Click, NEW n \in Nat, seen' = [seen EXCEPT ![c] = n]
  PROVE  seen' \in [Click -> Nat]
BY DEF VisitsOK

LEMMA VisitsKept ==
  ASSUME IInv, [Next]_vars
  PROVE  VisitsOK'
<1>1. VisitsOK /\ CountersOK /\ StoreOK
  BY Parts
<1>2. CASE UNCHANGED visits
  BY <1>1, <1>2 DEF VisitsOK, visits, history
<1>3. ASSUME NEW c \in Click, ReadCache(c)
      PROVE  VisitsOK'
  <2>1. phase' \in [Click -> Phase]
    BY <1>1, <1>3, GotoType DEF ReadCache, Phase
  <2>2. cachedCount # Absent => cachedCount \in Nat
    BY <1>1 DEF CountersOK
  <2>3. seen' \in [Click -> Nat]
    <3>1. CASE UNCHANGED seen
      BY <1>1, <3>1 DEF VisitsOK
    <3>2. CASE cachedCount # Absent /\ seen' = [seen EXCEPT ![c] = cachedCount]
      BY <1>1, <2>2, <3>2, SeenType
    <3>. QED
      BY <1>3, <3>1, <3>2 DEF ReadCache
  <2>4. atStart' \in [Click -> Nat]
    BY <1>1, <1>3, FS_CardinalityType DEF ReadCache, VisitsOK
  <2>. QED
    BY <1>1, <1>3, <2>1, <2>3, <2>4 DEF ReadCache, VisitsOK
<1>4. ASSUME NEW c \in Click, ReadRow(c) \/ ReadCacheAgain(c)
      PROVE  VisitsOK'
  <2>1. PICK n \in Nat : seen' = [seen EXCEPT ![c] = n]
    BY <1>1, <1>4 DEF ReadRow, ReadCacheAgain, CountersOK, StoreOK
  <2>2. phase' \in [Click -> Phase]
    BY <1>1, <1>4, GotoType DEF ReadRow, ReadCacheAgain, Phase
  <2>. QED
    BY <1>1, <1>4, <2>1, <2>2, SeenType DEF ReadRow, ReadCacheAgain, VisitsOK, history
<1>5. ASSUME NEW c \in Click, ReadPending(c) \/ PendingUnread(c)
      PROVE  VisitsOK'
  <2>1. seen[c] \in Nat /\ seen[c] + (IF reserved > 0 THEN reserved ELSE 0) \in Nat
    BY <1>1 DEF VisitsOK, CountersOK
  <2>2. phase' \in [Click -> Phase]
    BY <1>1, <1>5, GotoType DEF ReadPending, PendingUnread, Phase
  <2>3. seen' \in [Click -> Nat]
    BY <1>1, <1>5, <2>1, SeenType DEF ReadPending, PendingUnread, VisitsOK
  <2>. QED
    BY <1>1, <1>5, <2>2, <2>3 DEF ReadPending, PendingUnread, VisitsOK, history
<1>6. ASSUME NEW c \in Click,
             \/ Fill(c) \/ Deny(c) \/ Emit(c) \/ Revert(c) \/ ClearUnsent(c)
             \/ ReserveFails(c) \/ EmitFails(c) \/ RevertUnanswered(c) \/ Forgotten(c)
      PROVE  VisitsOK'
  <2>1. phase' \in [Click -> Phase]
    BY <1>1, <1>6, GotoType
       DEF Fill, Deny, Emit, Revert, ClearUnsent, ReserveFails, EmitFails, RevertUnanswered,
           Forgotten, Phase
  <2>2. emitted' \subseteq Click /\ UNCHANGED <<seen, atStart, admitted>>
    BY <1>1, <1>6
       DEF Fill, Deny, Emit, Revert, ClearUnsent, ReserveFails, EmitFails, RevertUnanswered,
           Forgotten, AddEvent, VisitsOK, history
  <2>. QED
    BY <1>1, <2>1, <2>2 DEF VisitsOK
<1>7. ASSUME NEW c \in Click, Reserve(c)
      PROVE  VisitsOK'
  <2>1. phase' \in [Click -> Phase]
    BY <1>1, <1>7, GotoType DEF Reserve, Phase
  <2>. QED
    BY <1>1, <1>7, <2>1, FS_AddElement DEF Reserve, VisitsOK
<1>8. CASE \E c \in Click : ReadCache(c) \/ Visit(c) \/ VisitFails(c)
  BY <1>3, <1>4, <1>5, <1>6, <1>7, <1>8 DEF Visit, VisitFails
<1>9. CASE Expire \/ Read \/ Claim \/ Crash \/ UNCHANGED vars
  BY <1>2, <1>9 DEF Expire, Read, Claim, Crash, vars
<1>. QED
  BY <1>2, <1>8, <1>9, WorkFrame DEF Next

-----------------------------------------------------------------------------
(* The worker's loops *)

LEMMA BecomeType ==
  ASSUME LoopOK, NEW l \in Loop, NEW s \in LoopState, BatchOK(s.batch), Become(l, s)
  PROVE  LoopOK'
BY DEF Become, LoopOK, BatchOK

LEMMA SubBatch ==
  ASSUME NEW B, BatchOK(B), NEW C \in SUBSET B
  PROVE  BatchOK(C)
<1>1. IsFiniteSet(C) /\ Cardinality(C) <= Cardinality(B)
  BY FS_Subset DEF BatchOK
<1>. QED
  BY <1>1, FS_CardinalityType, ClickAssumption DEF BatchOK

LEMMA CountedType ==
  ASSUME NEW B, BatchOK(B)
  PROVE  Counted(B) \in 0..BatchSize
<1>. DEFINE N == {e \in B : e.click \notin rows}
<1>1. BatchOK(N)
  BY SubBatch
<1>. QED
  BY <1>1, FS_CardinalityType, ClickAssumption DEF BatchOK, Counted

LEMMA IdleType == Idle \in LoopState /\ BatchOK(Idle.batch)
BY FS_EmptySet, ClickAssumption DEF Idle, LoopState, BatchOK

LEMMA HoldType ==
  ASSUME NEW B, BatchOK(B)
  PROVE  /\ [Idle EXCEPT !.stage = "read", !.batch = B] \in LoopState
         /\ [Idle EXCEPT !.stage = "read", !.batch = B].batch = B
BY IdleType DEF LoopState, BatchOK

LEMMA LoopIs ==
  ASSUME LoopOK, NEW l \in Loop
  PROVE  /\ loop[l] = [stage |-> loop[l].stage, batch |-> loop[l].batch,
                       count |-> loop[l].count, todo |-> loop[l].todo]
         /\ loop[l].stage \in {"idle", "read", "committed", "failed"}
         /\ BatchOK(loop[l].batch)
         /\ loop[l].count \in 0..BatchSize
         /\ loop[l].todo \in SUBSET Effect
BY DEF LoopOK, LoopState

LEMMA LoopKept ==
  ASSUME IInv, [Next]_vars
  PROVE  LoopOK'
<1>1. LoopOK /\ StreamOK
  BY Parts
<1>2. CASE UNCHANGED loop
  BY <1>1, <1>2 DEF LoopOK, BatchOK
<1>3. ASSUME NEW l \in Loop, NEW B, BatchOK(B), Hold(l, B)
      PROVE  LoopOK'
  BY <1>1, <1>3, HoldType, BecomeType DEF Hold
<1>4. CASE Read
  <2>1. PICK B \in SUBSET undelivered : Cardinality(B) <= BatchSize /\ Hold("main", B)
    BY <1>4 DEF Read
  <2>2. BatchOK(B)
    BY <1>1, <2>1, FS_Subset DEF BatchOK, StreamOK
  <2>. QED
    BY <1>3, <2>1, <2>2 DEF Loop
<1>5. CASE Claim
  <2>1. PICK B \in SUBSET pending : Cardinality(B) <= BatchSize /\ Hold("gc", B)
    BY <1>5 DEF Claim
  <2>2. BatchOK(B)
    BY <1>1, <2>1, FS_Subset DEF BatchOK, StreamOK
  <2>. QED
    BY <1>3, <2>1, <2>2 DEF Loop
<1>6. ASSUME NEW l \in Loop, Commit(l)
      PROVE  LoopOK'
  <2>. DEFINE n == Counted(loop[l].batch)
              s == [stage |-> "committed", batch |-> loop[l].batch, count |-> n,
                    todo |-> Effects(n)]
  <2>1. n \in 0..BatchSize /\ BatchOK(loop[l].batch)
    BY <1>1, <1>6, LoopIs, CountedType
  <2>2. s \in LoopState
    BY <2>1 DEF LoopState, BatchOK, Effect, Effects
  <2>3. Become(l, s)
    BY <1>6 DEF Commit
  <2>. QED
    BY <1>1, <2>1, <2>2, <2>3, BecomeType
<1>7. ASSUME NEW l \in Loop, NEW T \in SUBSET Effect,
             Become(l, [loop[l] EXCEPT !.todo = T])
      PROVE  LoopOK'
  <2>1. [loop[l] EXCEPT !.todo = T] \in LoopState
        /\ [loop[l] EXCEPT !.todo = T].batch = loop[l].batch
    BY <1>1 DEF LoopOK, LoopState
  <2>. QED
    BY <1>1, <1>7, <2>1, LoopIs, BecomeType
<1>8. ASSUME NEW l \in Loop, AddToCache(l) \/ Clear(l) \/ EffectFails(l) \/ DrainFails(l)
      PROVE  LoopOK'
  <2>1. PICK x : Become(l, [loop[l] EXCEPT !.todo = loop[l].todo \ {x}])
    BY <1>8 DEF AddToCache, Clear, EffectFails, DrainFails
  <2>2. loop[l].todo \ {x} \in SUBSET Effect
    BY <1>1, LoopIs
  <2>. QED
    BY <1>7, <2>1, <2>2, Zenon
<1>9. ASSUME NEW l \in Loop, Drain(l)
      PROVE  LoopOK'
  <2>. DEFINE T == (loop[l].todo \ {"drain"})
                     \cup (IF MustClear(loop[l].count) THEN {"clear"} ELSE {})
  <2>1. Become(l, [loop[l] EXCEPT !.todo = T])
    BY <1>9 DEF Drain
  <2>2. T \in SUBSET Effect
    BY <1>1, LoopIs DEF Effect
  <2>. QED
    BY <1>7, <2>1, <2>2
<1>10. ASSUME NEW l \in Loop, CommitFails(l)
       PROVE  LoopOK'
  <2>1. Become(l, [loop[l] EXCEPT !.stage = "failed"])
    BY <1>10 DEF CommitFails
  <2>2. [loop[l] EXCEPT !.stage = "failed"] \in LoopState
        /\ [loop[l] EXCEPT !.stage = "failed"].batch = loop[l].batch
    BY <1>1 DEF LoopOK, LoopState
  <2>. QED
    BY <1>1, <2>1, <2>2, LoopIs, BecomeType
<1>11. ASSUME NEW l \in Loop, Ack(l) \/ Abandon(l)
       PROVE  LoopOK'
  BY <1>1, <1>11, IdleType, BecomeType DEF Ack, Abandon
<1>12. ASSUME NEW l \in Loop, NEW e, HandleFailed(l, e)
       PROVE  LoopOK'
  <2>. DEFINE rest == loop[l].batch \ {e}
  <2>1. CASE Become(l, Idle)
    BY <1>1, <2>1, IdleType, BecomeType
  <2>2. CASE Become(l, [loop[l] EXCEPT !.batch = rest])
    <3>1. BatchOK(rest)
      BY <1>1, LoopIs, SubBatch
    <3>2. [loop[l] EXCEPT !.batch = rest] \in LoopState
          /\ [loop[l] EXCEPT !.batch = rest].batch = rest
      BY <1>1, <3>1 DEF LoopOK, LoopState, BatchOK
    <3>. QED
      BY <1>1, <2>2, <3>1, <3>2, BecomeType
  <2>. QED
    BY <1>12, <2>1, <2>2 DEF HandleFailed, PutDown
<1>13. CASE Crash
  BY <1>13, IdleType DEF Crash, LoopOK
<1>14. CASE \E l \in Loop : Work(l) \/ WorkFails(l)
  BY <1>6, <1>8, <1>9, <1>10, <1>11, <1>12, <1>14 DEF Work, WorkFails
<1>15. CASE Expire \/ UNCHANGED vars
  BY <1>2, <1>15 DEF Expire, vars
<1>. QED
  BY <1>2, <1>4, <1>5, <1>13, <1>14, <1>15, VisitFrame DEF Next

-----------------------------------------------------------------------------
(* The stream *)

LEMMA AddType ==
  ASSUME StreamOK, NEW c \in Click, NEW a \in 0..MaxRetries, Add(c, a)
  PROVE  lastId' \in Nat /\ undelivered' \subseteq Entry /\ IsFiniteSet(undelivered')
<1>1. [id |-> lastId + 1, click |-> c, attempt |-> a] \in Entry
  BY DEF Entry, StreamOK
<1>2. IsFiniteSet(undelivered')
  <2>. DEFINE e == [id |-> lastId + 1, click |-> c, attempt |-> a]
  <2>1. undelivered' = undelivered \cup {e}
    BY DEF Add
  <2>2. IsFiniteSet(undelivered \cup {e})
    BY FS_AddElement DEF StreamOK
  <2>. QED
    BY <2>1, <2>2, Zenon
<1>. QED
  BY <1>1, <1>2 DEF Add, StreamOK

LEMMA StreamKept ==
  ASSUME IInv, [Next]_vars
  PROVE  StreamOK' /\ dead' \subseteq Click
<1>1. StreamOK /\ LoopOK /\ dead \subseteq Click
  BY Parts DEF StoreOK
<1>2. CASE UNCHANGED <<stream, dead>>
  BY <1>1, <1>2 DEF StreamOK, stream
<1>3. ASSUME NEW c \in Click, Emit(c) \/ EmitFails(c)
      PROVE  StreamOK' /\ dead' \subseteq Click
  <2>1. 0 \in 0..MaxRetries
    BY ClickAssumption
  <2>2. CASE Add(c, 0)
    BY <1>1, <1>3, <2>1, <2>2, AddType DEF Emit, EmitFails, StreamOK, store
  <2>3. CASE UNCHANGED <<lastId, undelivered>>
    BY <1>2, <1>3, <2>3 DEF Emit, EmitFails, stream, store
  <2>. QED
    BY <1>3, <2>2, <2>3 DEF Emit, EmitFails, AddEvent
<1>4. CASE \E c \in Click : ReadCache(c) \/ Visit(c) \/ VisitFails(c)
  BY <1>2, <1>3, <1>4 DEF ReadCache, Visit, VisitFails, ReadRow, ReadCacheAgain, ReadPending,
     Fill, Deny, Reserve, Revert, ClearUnsent, PendingUnread, ReserveFails,
     RevertUnanswered, Forgotten, store
<1>5. CASE Read
  <2>1. PICK B \in SUBSET undelivered : undelivered' = undelivered \ B
                                        /\ pending' = pending \cup B
    BY <1>5 DEF Read
  <2>2. IsFiniteSet(B) /\ IsFiniteSet(undelivered \ B)
    BY <1>1, FS_Subset DEF StreamOK
  <2>. QED
    BY <1>1, <1>5, <2>1, <2>2, FS_Union DEF Read, StreamOK, store
<1>6. ASSUME NEW l \in Loop, Ack(l)
      PROVE  StreamOK' /\ dead' \subseteq Click
  BY <1>1, <1>6, FS_Subset DEF Ack, StreamOK, store
<1>7. ASSUME NEW l \in Loop, NEW e \in loop[l].batch, HandleFailed(l, e)
      PROVE  StreamOK' /\ dead' \subseteq Click
  <2>1. e \in Entry
    BY <1>1, <1>7, LoopIs DEF BatchOK
  <2>2. lastId' \in Nat /\ undelivered' \subseteq Entry /\ IsFiniteSet(undelivered')
        /\ dead' \subseteq Click
    <3>1. CASE CanRetry(e)
      <4>1. e.click \in Click /\ e.attempt + 1 \in 0..MaxRetries
        BY <2>1, <3>1, ClickAssumption DEF Entry, CanRetry
      <4>. QED
        BY <1>1, <1>7, <3>1, <4>1, AddType DEF HandleFailed, AddAgain
    <3>2. CASE ~CanRetry(e)
      BY <1>1, <1>7, <2>1, <3>2 DEF HandleFailed, AddAgain, Entry, StreamOK
    <3>. QED
      BY <3>1, <3>2
  <2>3. pending' \subseteq pending
    BY <1>7 DEF HandleFailed
  <2>. QED
    BY <1>1, <2>2, <2>3, FS_Subset DEF StreamOK
<1>8. CASE \E l \in Loop : Work(l) \/ WorkFails(l)
  BY <1>2, <1>6, <1>7, <1>8 DEF Work, WorkFails, Commit, Persist, AddToCache, Drain, Clear,
     CommitFails, EffectFails, DrainFails, Abandon, store
<1>9. CASE Expire \/ Claim \/ Crash \/ UNCHANGED vars
  BY <1>2, <1>9 DEF Expire, Claim, Crash, vars, store
<1>. QED
  BY <1>4, <1>5, <1>8, <1>9 DEF Next

-----------------------------------------------------------------------------
(* The counters *)

LEMMA FaultType ==
  ASSUME CountersOK, Fault \/ UNCHANGED faults
  PROVE  faults' \in 0..MaxFaults
BY ClickAssumption DEF CountersOK, Fault

LEMMA Faults ==
  ASSUME [Next]_vars
  PROVE  Fault \/ UNCHANGED faults
<1>1. ASSUME NEW c \in Click, ReadCache(c) \/ Visit(c) \/ VisitFails(c)
      PROVE  Fault \/ UNCHANGED faults
  BY <1>1 DEF ReadCache, Visit, VisitFails, ReadRow, ReadCacheAgain, ReadPending, Fill,
     Deny, Reserve, Emit, Revert, ClearUnsent, PendingUnread, ReserveFails, EmitFails,
     RevertUnanswered, Forgotten
<1>2. ASSUME NEW l \in Loop, Work(l) \/ WorkFails(l)
      PROVE  Fault \/ UNCHANGED faults
  BY <1>2 DEF Work, WorkFails, Commit, AddToCache, Drain, Clear, Ack, HandleFailed,
     CommitFails, EffectFails, DrainFails, Abandon
<1>3. CASE Expire \/ Read \/ Claim \/ Crash \/ UNCHANGED vars
  BY <1>3 DEF Expire, Read, Claim, Crash, vars
<1>. QED
  BY <1>1, <1>2, <1>3 DEF Next

LEMMA CountType ==
  ASSUME LoopOK, NEW l \in Loop
  PROVE  loop[l].count \in Nat /\ ToDrain(l) \in Nat
<1>1. loop[l].count \in 0..BatchSize
  BY LoopIs
<1>. QED
  BY <1>1, ClickAssumption DEF ToDrain

LEMMA WaitingType ==
  ASSUME StoreOK, NEW B, BatchOK(B)
  PROVE  /\ IsFiniteSet(WaitingIn(B)) /\ Cardinality(WaitingIn(B)) \in Nat
         /\ WaitingIn(B) \subseteq ClicksOf({e \in B : e.click \notin rows})
         /\ Cardinality(WaitingIn(B)) <= Counted(B)
<1>. DEFINE N == {e \in B : e.click \notin rows}
            T == ClicksOf(N)
            f == [e \in N |-> e.click]
<1>1. IsFiniteSet(N) /\ Cardinality(N) = Counted(B) /\ Cardinality(N) \in Nat
  BY SubBatch, FS_CardinalityType DEF BatchOK, Counted
<1>2. f \in Surjection(N, T)
  BY DEF Surjection, ClicksOf
<1>3. IsFiniteSet(T) /\ Cardinality(T) <= Cardinality(N) /\ Cardinality(T) \in Nat
  BY <1>1, <1>2, FS_Surjection, FS_CardinalityType
<1>4. WaitingIn(B) \subseteq T
  BY DEF WaitingIn, Waiting, ClicksOf
<1>5. /\ IsFiniteSet(WaitingIn(B)) /\ Cardinality(WaitingIn(B)) \in Nat
      /\ Cardinality(WaitingIn(B)) <= Cardinality(T)
  BY <1>3, <1>4, FS_Subset, FS_CardinalityType
<1>. HIDE DEF N, T, f
<1>6. Cardinality(WaitingIn(B)) <= Counted(B)
  BY <1>1, <1>3, <1>5
<1>. QED
  BY <1>4, <1>5, <1>6 DEF N, T

LEMMA CountersKept ==
  ASSUME IInv, [Next]_vars
  PROVE  CountersOK'
<1>1. CountersOK /\ VisitsOK /\ StoreOK /\ LoopOK
  BY Parts
<1>2. faults' \in 0..MaxFaults
  BY <1>1, Faults, FaultType
<1>3. CASE UNCHANGED <<cachedCount, counter>>
  BY <1>1, <1>2, <1>3 DEF CountersOK, counter
<1>4. ASSUME NEW c \in Click, Fill(c)
      PROVE  CountersOK'
  BY <1>1, <1>2, <1>4 DEF Fill, CountersOK, VisitsOK, counter
<1>5. ASSUME NEW c \in Click,
             \/ Reserve(c) \/ ReserveFails(c) \/ Revert(c) \/ ClearUnsent(c)
             \/ RevertUnanswered(c) \/ Forgotten(c)
      PROVE  CountersOK'
  BY <1>1, <1>2, <1>5
     DEF Reserve, ReserveFails, Revert, ClearUnsent, RevertUnanswered, Forgotten, Decrease,
         CountersOK, counter
<1>6. CASE \E c \in Click : ReadCache(c) \/ Visit(c) \/ VisitFails(c)
  BY <1>3, <1>4, <1>5, <1>6 DEF ReadCache, Visit, VisitFails, ReadRow, ReadCacheAgain,
     ReadPending, Deny, Emit, EmitFails, PendingUnread
<1>7. ASSUME NEW l \in Loop, AddToCache(l) \/ Drain(l) \/ Clear(l) \/ DrainFails(l)
                               \/ Abandon(l)
      PROVE  CountersOK'
  BY <1>1, <1>2, <1>7, CountType
     DEF AddToCache, Drain, Clear, DrainFails, Abandon, Decrease, CountersOK, counter
<1>8. ASSUME NEW l \in Loop, CommitFails(l)
      PROVE  CountersOK'
  <2>1. Cardinality(WaitingIn(loop[l].batch)) \in Nat
    BY <1>1, LoopIs, WaitingType
  <2>2. left' \in Nat
    BY <1>1, <1>8, <2>1 DEF CommitFails, CountersOK
  <2>. QED
    BY <1>1, <1>2, <1>8, <2>2 DEF CommitFails, CountersOK
<1>9. CASE \E l \in Loop : Work(l) \/ WorkFails(l)
  BY <1>3, <1>7, <1>8, <1>9 DEF Work, WorkFails, Commit, Ack, HandleFailed, EffectFails
<1>10. CASE Expire
  BY <1>1, <1>2, <1>10 DEF Expire, CountersOK, counter
<1>11. CASE Read \/ Claim \/ UNCHANGED vars
  BY <1>3, <1>11 DEF Read, Claim, vars
<1>12. CASE Crash
  <2>1. ToDrain("main") \in Nat /\ ToDrain("gc") \in Nat
    BY <1>1, CountType DEF Loop
  <2>. QED
    BY <1>1, <1>2, <1>12, <2>1 DEF Crash, CountersOK
<1>. QED
  BY <1>6, <1>9, <1>10, <1>11, <1>12 DEF Next

-----------------------------------------------------------------------------
(* What a transaction stores and counts *)

New(B) == {e \in B : e.click \notin rows}
NewClicks(B) == ClicksOf(New(B))

\* No batch in hand holds an event twice, as an entry and as the copy made to retry it.
OnceEach(B) == \A e, f \in B : e.click = f.click => e = f
OneEntryPerClick == \A l \in Loop : OnceEach(loop[l].batch)

LEMMA NewAreCounted ==
  ASSUME NEW B, BatchOK(B)
  PROVE  /\ IsFiniteSet(NewClicks(B))
         /\ Cardinality(NewClicks(B)) <= Counted(B)
         /\ OnceEach(B) => Cardinality(NewClicks(B)) = Counted(B)
<1>. DEFINE N == New(B)
            T == NewClicks(B)
            f == [e \in N |-> e.click]
<1>1. IsFiniteSet(N) /\ Cardinality(N) = Counted(B)
  BY SubBatch DEF BatchOK, Counted, New
<1>2. f \in Surjection(N, T)
  BY DEF Surjection, NewClicks, ClicksOf
<1>3. IsFiniteSet(T) /\ Cardinality(T) <= Cardinality(N)
  BY <1>1, <1>2, FS_Surjection
<1>4. ASSUME OnceEach(B)
      PROVE  Cardinality(T) = Cardinality(N)
  <2>1. f \in Injection(N, T)
    BY <1>2, <1>4 DEF Injection, IsInjective, Surjection, OnceEach, New
  <2>2. ExistsBijection(N, T)
    BY <1>2, <2>1 DEF Bijection, ExistsBijection
  <2>. QED
    BY <1>1, <2>2, FS_Bijection
<1>. QED
  BY <1>1, <1>3, <1>4

LEMMA PersistCounts ==
  ASSUME StoreOK, NEW B, BatchOK(B), Persist(B)
  PROVE  /\ StoreOK'
         /\ clicksCount' = clicksCount + Counted(B)
         /\ Cardinality(rows') = Cardinality(rows) + Cardinality(NewClicks(B))
<1>. DEFINE T == NewClicks(B)
<1>1. IsFiniteSet(T) /\ IsFiniteSet(rows)
  BY NewAreCounted DEF StoreOK
<1>2. T \subseteq Click /\ rows \cap T = {}
  BY DEF NewClicks, ClicksOf, New, BatchOK, Entry
<1>3. rows' = rows \cup T
  BY DEF Persist, NewClicks, ClicksOf, New
<1>4. IsFiniteSet(rows \cup T) /\ Cardinality(rows \cup T) = Cardinality(rows) + Cardinality(T)
  <2>1. Cardinality(rows \cap T) = 0
    BY <1>2, FS_EmptySet
  <2>2. Cardinality(rows) \in Nat /\ Cardinality(T) \in Nat
    BY <1>1, FS_CardinalityType
  <2>3. /\ IsFiniteSet(rows \cup T)
        /\ Cardinality(rows \cup T)
             = Cardinality(rows) + Cardinality(T) - Cardinality(rows \cap T)
    BY <1>1, FS_Union, Zenon
  <2>. HIDE DEF T
  <2>. QED
    BY <2>1, <2>2, <2>3
<1>5. Counted(B) \in Nat
  <2>1. Counted(B) \in 0..BatchSize
    BY CountedType
  <2>. QED
    BY <2>1, ClickAssumption
<1>. HIDE DEF T
<1>6. Cardinality(rows') = Cardinality(rows) + Cardinality(T) /\ IsFiniteSet(rows')
  BY <1>3, <1>4
<1>7. StoreOK'
  BY <1>2, <1>3, <1>5, <1>6 DEF Persist, StoreOK
<1>8. clicksCount' = clicksCount + Counted(B)
  BY DEF Persist
<1>. QED
  BY <1>6, <1>7, <1>8 DEF T

\* Only the two ways a transaction commits change what is stored.
LEMMA StoreSteps ==
  ASSUME IInv, [Next]_vars
  PROVE  \/ UNCHANGED <<rows, clicksCount>>
         \/ \E l \in Loop : Persist(loop[l].batch)
<1>1. CASE \E c \in Click : ReadCache(c) \/ Visit(c) \/ VisitFails(c)
  BY <1>1, VisitFrame DEF store
<1>2. CASE \E l \in Loop : Work(l) \/ WorkFails(l)
  BY <1>2 DEF Work, WorkFails, Commit, AddToCache, Drain, Clear, Ack, HandleFailed,
     CommitFails, EffectFails, DrainFails, Abandon, store
<1>3. CASE Expire \/ Read \/ Claim \/ Crash \/ UNCHANGED vars
  BY <1>3 DEF Expire, Read, Claim, Crash, vars, store
<1>. QED
  BY <1>1, <1>2, <1>3 DEF Next

LEMMA StepHolds == IInv /\ [Next]_vars => IInv'
<1>. SUFFICES ASSUME IInv, [Next]_vars
              PROVE  IInv'
  OBVIOUS
<1>1. StoreOK /\ LoopOK
  BY Parts
<1>2. VisitsOK' /\ CountersOK' /\ StreamOK' /\ LoopOK'
  BY VisitsKept, CountersKept, StreamKept, LoopKept
<1>3. StoreOK'
  <2>1. CASE UNCHANGED <<rows, clicksCount>>
    BY <1>1, <2>1, StreamKept DEF StoreOK
  <2>2. CASE \E l \in Loop : Persist(loop[l].batch)
    BY <1>1, <2>2, LoopIs, PersistCounts
  <2>. QED
    BY <2>1, <2>2, StoreSteps
<1>4. (VisitsOK /\ CountersOK /\ StreamOK /\ StoreOK /\ LoopOK)'
  BY <1>2, <1>3
<1>5. IInv' <=> (VisitsOK /\ CountersOK /\ StreamOK /\ StoreOK /\ LoopOK)'
  BY Parts, PTL
<1>. QED
  BY <1>4, <1>5

LEMMA Inductive == Spec => []IInv
BY InitHolds, StepHolds, PTL DEF Spec

-----------------------------------------------------------------------------
(* Theorems *)

\* Visits, counters, stream and worker loops keep their types (TypeOK).
THEOREM TypeCorrect == Spec => []TypeOK
<1>1. IInv => TypeOK
  BY DEF IInv
<1>. QED
  BY <1>1, Inductive, PTL

AtLeastRows == Cardinality(rows) <= clicksCount

LEMMA CountKept ==
  ASSUME IInv, [Next]_vars
  PROVE  /\ AtLeastRows => AtLeastRows'
         /\ CountMatchesRows /\ OneEntryPerClick => CountMatchesRows'
<1>1. StoreOK /\ LoopOK
  BY Parts
<1>2. CASE UNCHANGED <<rows, clicksCount>>
  BY <1>2 DEF AtLeastRows, CountMatchesRows
<1>3. ASSUME NEW l \in Loop, Persist(loop[l].batch)
      PROVE  /\ AtLeastRows => AtLeastRows'
             /\ CountMatchesRows /\ OneEntryPerClick => CountMatchesRows'
  <2>. DEFINE B == loop[l].batch
  <2>1. BatchOK(B)
    BY <1>1, LoopIs
  <2>2. clicksCount' = clicksCount + Counted(B)
        /\ Cardinality(rows') = Cardinality(rows) + Cardinality(NewClicks(B))
    BY <1>1, <1>3, <2>1, PersistCounts
  <2>3. /\ Cardinality(NewClicks(B)) <= Counted(B)
        /\ OneEntryPerClick => Cardinality(NewClicks(B)) = Counted(B)
        /\ Cardinality(NewClicks(B)) \in Nat
    BY <2>1, NewAreCounted, FS_CardinalityType DEF OneEntryPerClick
  <2>4. Counted(B) \in Nat
    <3>1. Counted(B) \in 0..BatchSize
      BY <2>1, CountedType
    <3>. QED
      BY <3>1, ClickAssumption
  <2>5. clicksCount \in Nat /\ Cardinality(rows) \in Nat
    BY <1>1, FS_CardinalityType DEF StoreOK
  <2>. QED
    BY <2>2, <2>3, <2>4, <2>5 DEF AtLeastRows, CountMatchesRows
<1>. QED
  BY <1>2, <1>3, StoreSteps

LEMMA CountInit == Init => AtLeastRows /\ CountMatchesRows
BY FS_EmptySet DEF Init, AtLeastRows, CountMatchesRows

\* With batches of any size, links.clicks_count is the number of stored events
\* (CountMatchesRows) as long as no batch holds an event twice: whatever is delivered
\* again, claimed by both loops, retried, rolled back or committed without an answer.  A
\* batch that holds an entry and its retry copy is the only way to count twice.
THEOREM CountTheorem == Spec /\ []OneEntryPerClick => []CountMatchesRows
<1>1. IInv /\ OneEntryPerClick /\ CountMatchesRows /\ [Next]_vars => CountMatchesRows'
  BY CountKept
<1>. QED
  BY <1>1, CountInit, Inductive, PTL DEF Spec

\* With batches of any size, and whatever they hold, the counter is never below the
\* number of stored events.
THEOREM NeverUndercounts == Spec => [](Cardinality(rows) <= clicksCount)
<1>1. IInv /\ AtLeastRows /\ [Next]_vars => AtLeastRows'
  BY CountKept
<1>2. AtLeastRows <=> Cardinality(rows) <= clicksCount
  BY DEF AtLeastRows
<1>. QED
  BY <1>1, <1>2, CountInit, Inductive, PTL DEF Spec

-----------------------------------------------------------------------------
(* What the flow of events preserves *)

\* An entry is of a visit whose event was emitted, a visit that holds a reservation was
\* admitted, one that has not come to emit has emitted nothing, and a loop has effects to
\* run, and a batch to acknowledge, only of rows that are stored.
EntriesEmitted ==
  /\ \A e \in undelivered \cup pending : e.click \in emitted
  /\ \A l \in Loop : \A e \in loop[l].batch : e.click \in emitted
RowsEmitted == rows \subseteq emitted
HoldersAdmitted ==
  \A c \in Click : phase[c] \in {"reserved", "reverting", "sent"} => c \in admitted
Emitting == {"sent", "reverting", "clearing", "unsent"}
EmittedLate == \A c \in Click : c \in emitted => phase[c] \in Emitting
LoopStored ==
  \A l \in Loop :
    /\ loop[l].stage # "committed" => loop[l].todo = {}
    /\ loop[l].stage = "committed" => ClicksOf(loop[l].batch) \subseteq rows
FlowInv == EntriesEmitted /\ RowsEmitted /\ HoldersAdmitted /\ EmittedLate /\ LoopStored

LEMMA FlowInit == Init => FlowInv
<1>. SUFFICES ASSUME Init PROVE FlowInv
  OBVIOUS
<1>1. \A l \in Loop : loop[l].batch = {} /\ loop[l].stage = "idle" /\ loop[l].todo = {}
  BY DEF Init, Idle
<1>2. \A c \in Click : phase[c] = "new"
  BY DEF Init
<1>. QED
  BY <1>1, <1>2
     DEF Init, FlowInv, EntriesEmitted, RowsEmitted, HoldersAdmitted, EmittedLate, LoopStored

\* What is emitted stays so, and only an XADD for a visit emits.
LEMMA EmittedSteps ==
  ASSUME [Next]_vars
  PROVE  \/ emitted' = emitted
         \/ \E c \in Click : (Emit(c) \/ EmitFails(c)) /\ AddEvent(c)
<1>1. ASSUME NEW c \in Click, ReadCache(c) \/ Visit(c) \/ VisitFails(c)
      PROVE  emitted' = emitted \/ ((Emit(c) \/ EmitFails(c)) /\ AddEvent(c))
  BY <1>1 DEF ReadCache, Visit, VisitFails, ReadRow, ReadCacheAgain, ReadPending, Fill, Deny,
     Reserve, Emit, Revert, ClearUnsent, PendingUnread, ReserveFails, EmitFails,
     RevertUnanswered, Forgotten, history
<1>2. CASE \E l \in Loop : Work(l) \/ WorkFails(l)
  BY <1>2, WorkFrame DEF visits, history
<1>3. CASE Expire \/ Read \/ Claim \/ Crash \/ UNCHANGED vars
  BY <1>3 DEF Expire, Read, Claim, Crash, vars, visits, history
<1>. QED
  BY <1>1, <1>2, <1>3 DEF Next

\* A visit moves on; it reserves when it is admitted, and does not go back from emitting.
LEMMA PhaseSteps ==
  ASSUME IInv, [Next]_vars
  PROVE  \/ UNCHANGED <<phase, admitted, emitted>>
         \/ \E c \in Click :
              /\ phase' = [phase EXCEPT ![c] = phase'[c]]
              /\ admitted \subseteq admitted'
              /\ emitted' \subseteq emitted \cup {c}
              /\ phase'[c] \in {"reserved", "reverting", "sent"}
                   => c \in admitted' \/ phase[c] = "reserved"
              /\ phase[c] \in Emitting => phase'[c] \in Emitting
              /\ c \in emitted' \ emitted => phase'[c] \in Emitting
<1>. DEFINE Moves(c) ==
       /\ phase' = [phase EXCEPT ![c] = phase'[c]]
       /\ admitted \subseteq admitted'
       /\ emitted' \subseteq emitted \cup {c}
       /\ phase'[c] \in {"reserved", "reverting", "sent"}
            => c \in admitted' \/ phase[c] = "reserved"
       /\ phase[c] \in Emitting => phase'[c] \in Emitting
       /\ c \in emitted' \ emitted => phase'[c] \in Emitting
<1>1. phase \in [Click -> Phase]
  BY Parts DEF VisitsOK
<1>2. ASSUME NEW c \in Click, NEW from, NEW to, Goto(c, from, to),
             admitted \subseteq admitted', emitted' \subseteq emitted \cup {c},
             to \in {"reserved", "reverting", "sent"} => c \in admitted' \/ from = "reserved",
             from \in Emitting => to \in Emitting,
             c \in emitted' \ emitted => to \in Emitting
      PROVE  Moves(c)
  <2>1. phase'[c] = to /\ phase[c] = from
    BY <1>1, <1>2 DEF Goto
  <2>2. phase' = [phase EXCEPT ![c] = phase'[c]]
    BY <1>2, <2>1 DEF Goto
  <2>. QED
    BY <1>2, <2>1, <2>2
<1>3. ASSUME NEW c \in Click, ReadCache(c) \/ ReadRow(c) \/ ReadCacheAgain(c) \/ ReadPending(c)
                \/ PendingUnread(c) \/ Fill(c) \/ Deny(c) \/ ReserveFails(c)
      PROVE  Moves(c)
  <2>1. PICK from \in Phase \ Emitting,
             to \in {"hit", "missed", "loaded", "filling", "resolved", "denied", "error"} :
          Goto(c, from, to)
    BY <1>3 DEF ReadCache, ReadRow, ReadCacheAgain, ReadPending, PendingUnread, Fill, Deny,
                ReserveFails, Phase, Emitting
  <2>2. UNCHANGED <<admitted, emitted>>
    BY <1>3 DEF ReadCache, ReadRow, ReadCacheAgain, ReadPending, PendingUnread, Fill, Deny,
                ReserveFails, history
  <2>. QED
    BY <1>2, <2>1, <2>2
<1>4. ASSUME NEW c \in Click, Reserve(c)
      PROVE  Moves(c)
  BY <1>2, <1>4 DEF Reserve, Emitting
<1>5. ASSUME NEW c \in Click, Emit(c) \/ EmitFails(c)
      PROVE  Moves(c)
  <2>1. PICK to \in {"sent", "reverting"} : Goto(c, "reserved", to)
    BY <1>5 DEF Emit, EmitFails
  <2>2. admitted' = admitted /\ emitted' \subseteq emitted \cup {c}
    BY <1>5 DEF Emit, EmitFails, AddEvent
  <2>. QED
    BY <1>2, <2>1, <2>2 DEF Emitting
<1>6. ASSUME NEW c \in Click, Revert(c) \/ ClearUnsent(c) \/ RevertUnanswered(c) \/ Forgotten(c)
      PROVE  Moves(c)
  <2>1. PICK from, to : Goto(c, from, to) /\ to \in {"clearing", "unsent"}
    BY <1>6 DEF Revert, ClearUnsent, RevertUnanswered, Forgotten
  <2>2. UNCHANGED <<admitted, emitted>>
    BY <1>6 DEF Revert, ClearUnsent, RevertUnanswered, Forgotten, history
  <2>. QED
    BY <1>2, <2>1, <2>2 DEF Emitting
<1>. HIDE DEF Moves
<1>7. CASE \E c \in Click : ReadCache(c) \/ Visit(c) \/ VisitFails(c)
  <2>1. PICK c \in Click : Moves(c)
    BY <1>3, <1>4, <1>5, <1>6, <1>7 DEF Visit, VisitFails
  <2>. QED
    BY <2>1 DEF Moves
<1>8. CASE \E l \in Loop : Work(l) \/ WorkFails(l)
  BY <1>8, WorkFrame DEF visits, history
<1>9. CASE Expire \/ Read \/ Claim \/ Crash \/ UNCHANGED vars
  BY <1>9 DEF Expire, Read, Claim, Crash, vars, visits, history
<1>. QED
  BY <1>7, <1>8, <1>9 DEF Next

LEMMA HoldersAdmittedKept ==
  ASSUME IInv, HoldersAdmitted, EmittedLate, [Next]_vars
  PROVE  HoldersAdmitted' /\ EmittedLate'
<1>1. phase \in [Click -> Phase]
  BY Parts DEF VisitsOK
<1>2. CASE UNCHANGED <<phase, admitted, emitted>>
  BY <1>2 DEF HoldersAdmitted, EmittedLate
<1>3. ASSUME NEW c \in Click,
             phase' = [phase EXCEPT ![c] = phase'[c]],
             admitted \subseteq admitted',
             emitted' \subseteq emitted \cup {c},
             phase'[c] \in {"reserved", "reverting", "sent"}
               => c \in admitted' \/ phase[c] = "reserved",
             phase[c] \in Emitting => phase'[c] \in Emitting,
             c \in emitted' \ emitted => phase'[c] \in Emitting
      PROVE  HoldersAdmitted' /\ EmittedLate'
  <2>1. \A d \in Click \ {c} : phase'[d] = phase[d]
    BY <1>1, <1>3
  <2>2. HoldersAdmitted'
    BY <1>3, <2>1 DEF HoldersAdmitted
  <2>3. EmittedLate'
    BY <1>3, <2>1 DEF EmittedLate
  <2>. QED
    BY <2>2, <2>3
<1>. QED
  BY <1>2, <1>3, PhaseSteps

\* A batch in hand is, after a step, part of what it was, or was taken from the stream.
LEMMA BatchSteps ==
  ASSUME IInv, [Next]_vars, NEW m \in Loop
  PROVE  \/ loop'[m].batch \subseteq loop[m].batch
         \/ loop'[m].batch \subseteq undelivered \cup pending
<1>1. LoopOK
  BY Parts
<1>2. ASSUME NEW l \in Loop, NEW s, Become(l, s)
      PROVE  loop'[m] = IF m = l THEN s ELSE loop[m]
  BY <1>1, <1>2 DEF Become, LoopOK
<1>3. CASE UNCHANGED loop
  BY <1>3
<1>4. CASE Read \/ Claim
  <2>1. PICK l \in Loop, B \in SUBSET (undelivered \cup pending) : Hold(l, B)
    BY <1>4 DEF Read, Claim, Loop
  <2>2. [Idle EXCEPT !.stage = "read", !.batch = B].batch = B
    BY DEF Idle
  <2>. QED
    BY <1>2, <2>1, <2>2 DEF Hold
<1>5. ASSUME NEW l \in Loop, Commit(l)
      PROVE  loop'[m].batch \subseteq loop[m].batch
  BY <1>2, <1>5 DEF Commit
<1>6. ASSUME NEW l \in Loop, AddToCache(l) \/ Drain(l) \/ Clear(l) \/ CommitFails(l)
                                \/ EffectFails(l) \/ DrainFails(l)
      PROVE  loop'[m].batch \subseteq loop[m].batch
  <2>1. \A T : [loop[l] EXCEPT !.todo = T].batch = loop[l].batch
        /\ [loop[l] EXCEPT !.stage = T].batch = loop[l].batch
    BY <1>1, LoopIs
  <2>2. PICK T : Become(l, [loop[l] EXCEPT !.todo = T])
                 \/ Become(l, [loop[l] EXCEPT !.stage = T])
    BY <1>6 DEF AddToCache, Drain, Clear, CommitFails, EffectFails, DrainFails
  <2>. QED
    BY <1>2, <2>1, <2>2
<1>7. ASSUME NEW l \in Loop, Ack(l) \/ Abandon(l)
      PROVE  loop'[m].batch \subseteq loop[m].batch
  BY <1>2, <1>7 DEF Ack, Abandon, Idle
<1>8. ASSUME NEW l \in Loop, NEW e, HandleFailed(l, e)
      PROVE  loop'[m].batch \subseteq loop[m].batch
  <2>1. [loop[l] EXCEPT !.batch = loop[l].batch \ {e}].batch = loop[l].batch \ {e}
    BY <1>1, LoopIs
  <2>2. Idle.batch = {}
    BY DEF Idle
  <2>. QED
    BY <1>2, <1>8, <2>1, <2>2 DEF HandleFailed, PutDown
<1>9. CASE Crash
  BY <1>9 DEF Crash, Idle
<1>10. CASE \E l \in Loop : Work(l) \/ WorkFails(l)
  BY <1>5, <1>6, <1>7, <1>8, <1>10 DEF Work, WorkFails
<1>11. CASE Expire \/ UNCHANGED vars
  BY <1>3, <1>11 DEF Expire, vars
<1>. QED
  BY <1>3, <1>4, <1>9, <1>10, <1>11, VisitFrame DEF Next

\* An entry of the stream was there before, or is of a visit just sent, or a copy of one
\* in hand.
LEMMA EntrySteps ==
  ASSUME IInv, [Next]_vars, NEW e \in (undelivered \cup pending)'
  PROVE  \/ e \in undelivered \cup pending
         \/ e.click \in emitted'
         \/ \E l \in Loop : \E f \in loop[l].batch : e.click = f.click
<1>1. CASE UNCHANGED <<undelivered, pending>>
  BY <1>1
<1>2. ASSUME NEW c \in Click, Emit(c) \/ EmitFails(c)
      PROVE  e \in undelivered \cup pending \/ e.click \in emitted'
  <2>1. UNCHANGED <<undelivered, pending>> \/ (AddEvent(c) /\ pending' = pending)
    BY <1>2 DEF Emit, EmitFails
  <2>. QED
    BY <1>1, <2>1 DEF AddEvent, Add
<1>3. CASE \E c \in Click : ReadCache(c) \/ Visit(c) \/ VisitFails(c)
  BY <1>1, <1>2, <1>3 DEF ReadCache, Visit, VisitFails, ReadRow, ReadCacheAgain,
     ReadPending, Fill, Deny, Reserve, Revert, ClearUnsent, PendingUnread, ReserveFails,
     RevertUnanswered, Forgotten, stream
<1>4. CASE Read
  BY <1>4 DEF Read
<1>5. ASSUME NEW l \in Loop, NEW f \in loop[l].batch, HandleFailed(l, f)
      PROVE  e \in undelivered \cup pending \/ e.click = f.click
  BY <1>5 DEF HandleFailed, AddAgain, Add
<1>6. ASSUME NEW l \in Loop, Ack(l)
      PROVE  e \in undelivered \cup pending
  BY <1>6 DEF Ack
<1>7. CASE \E l \in Loop : Work(l) \/ WorkFails(l)
  BY <1>1, <1>5, <1>6, <1>7 DEF Work, WorkFails, Commit, Persist, AddToCache, Drain, Clear,
     CommitFails, EffectFails, DrainFails, Abandon, stream
<1>8. CASE Expire \/ Claim \/ Crash \/ UNCHANGED vars
  BY <1>1, <1>8 DEF Expire, Claim, Crash, vars, stream
<1>. QED
  BY <1>3, <1>4, <1>7, <1>8 DEF Next

LEMMA EntriesEmittedKept ==
  ASSUME IInv, EntriesEmitted, [Next]_vars
  PROVE  EntriesEmitted'
<1>1. emitted \subseteq emitted'
  BY EmittedSteps DEF AddEvent
<1>2. ASSUME NEW e \in (undelivered \cup pending)'
      PROVE  e.click \in emitted'
  BY <1>1, <1>2, EntrySteps DEF EntriesEmitted
<1>3. ASSUME NEW l \in Loop, NEW e \in loop'[l].batch
      PROVE  e.click \in emitted'
  BY <1>1, <1>3, BatchSteps DEF EntriesEmitted
<1>. QED
  BY <1>2, <1>3 DEF EntriesEmitted

LEMMA RowsEmittedKept ==
  ASSUME IInv, EntriesEmitted, RowsEmitted, [Next]_vars
  PROVE  RowsEmitted'
<1>1. emitted \subseteq emitted'
  BY EmittedSteps DEF AddEvent
<1>2. CASE UNCHANGED rows
  BY <1>1, <1>2 DEF RowsEmitted
<1>3. ASSUME NEW l \in Loop, Persist(loop[l].batch)
      PROVE  RowsEmitted'
  <2>1. rows' = rows \cup ClicksOf(loop[l].batch)
    BY <1>3 DEF Persist
  <2>2. ClicksOf(loop[l].batch) \subseteq emitted
    BY DEF EntriesEmitted, ClicksOf
  <2>. QED
    BY <1>1, <2>1, <2>2 DEF RowsEmitted
<1>. QED
  BY <1>2, <1>3, StoreSteps

LEMMA LoopStoredKept ==
  ASSUME IInv, LoopStored, [Next]_vars
  PROVE  LoopStored'
<1>. DEFINE Stored(s) == /\ s.stage # "committed" => s.todo = {}
                         /\ s.stage = "committed" => ClicksOf(s.batch) \subseteq rows'
<1>1. LoopOK
  BY Parts
<1>2. rows \subseteq rows'
  BY StoreSteps DEF Persist
<1>3. \A m \in Loop : Stored(loop[m])
  BY <1>2 DEF LoopStored
<1>4. ASSUME NEW l \in Loop, NEW s, Become(l, s), Stored(s)
      PROVE  LoopStored'
  <2>1. \A m \in Loop : loop'[m] = IF m = l THEN s ELSE loop[m]
    BY <1>1, <1>4 DEF Become, LoopOK
  <2>2. \A m \in Loop : Stored(loop'[m])
    BY <1>3, <1>4, <2>1
  <2>. QED
    BY <2>2 DEF LoopStored, ClicksOf
<1>5. CASE UNCHANGED loop
  BY <1>3, <1>5 DEF LoopStored, ClicksOf
<1>6. Stored(Idle)
  BY DEF Idle
<1>7. CASE Read \/ Claim
  <2>1. PICK l \in Loop, B \in SUBSET (undelivered \cup pending) : Hold(l, B)
    BY <1>7 DEF Read, Claim, Loop
  <2>2. Stored([Idle EXCEPT !.stage = "read", !.batch = B])
    BY DEF Idle
  <2>. QED
    BY <1>4, <2>1, <2>2 DEF Hold
<1>8. ASSUME NEW l \in Loop, Commit(l)
      PROVE  LoopStored'
  <2>. DEFINE s == [stage |-> "committed", batch |-> loop[l].batch,
                    count |-> Counted(loop[l].batch),
                    todo |-> Effects(Counted(loop[l].batch))]
  <2>1. Become(l, s)
    BY <1>8 DEF Commit
  <2>2. ClicksOf(loop[l].batch) \subseteq rows'
    BY <1>8 DEF Commit, Persist
  <2>3. Stored(s)
    BY <2>2
  <2>. QED
    BY <1>4, <2>1, <2>3
<1>9. ASSUME NEW l \in Loop, NEW T \in SUBSET Effect,
             Become(l, [loop[l] EXCEPT !.todo = T]), loop[l].stage = "committed"
      PROVE  LoopStored'
  <2>1. Stored([loop[l] EXCEPT !.todo = T])
    BY <1>1, <1>3, <1>9, LoopIs
  <2>. QED
    BY <1>4, <1>9, <2>1
<1>10. ASSUME NEW l \in Loop, AddToCache(l) \/ Clear(l) \/ Drain(l) \/ EffectFails(l)
                                 \/ DrainFails(l)
       PROVE  LoopStored'
  <2>1. loop[l].stage = "committed"
    BY <1>3, <1>10 DEF AddToCache, Clear, Drain, EffectFails, DrainFails
  <2>2. PICK T \in SUBSET Effect : Become(l, [loop[l] EXCEPT !.todo = T])
    <3>1. loop[l].todo \in SUBSET Effect
      BY <1>1, LoopIs
    <3>2. CASE Drain(l)
      <4>1. (loop[l].todo \ {"drain"})
              \cup (IF MustClear(loop[l].count) THEN {"clear"} ELSE {}) \in SUBSET Effect
        BY <3>1 DEF Effect
      <4>. QED
        BY <3>2, <4>1 DEF Drain
    <3>3. CASE AddToCache(l) \/ Clear(l) \/ EffectFails(l) \/ DrainFails(l)
      BY <3>1, <3>3 DEF AddToCache, Clear, EffectFails, DrainFails
    <3>. QED
      BY <1>10, <3>2, <3>3
  <2>. QED
    BY <1>9, <2>1, <2>2
<1>11. ASSUME NEW l \in Loop, CommitFails(l)
       PROVE  LoopStored'
  <2>1. Become(l, [loop[l] EXCEPT !.stage = "failed"]) /\ loop[l].todo = {}
    BY <1>3, <1>11 DEF CommitFails
  <2>2. Stored([loop[l] EXCEPT !.stage = "failed"])
    BY <1>1, <2>1, LoopIs
  <2>. QED
    BY <1>4, <2>1, <2>2
<1>12. ASSUME NEW l \in Loop, Ack(l) \/ Abandon(l)
       PROVE  LoopStored'
  BY <1>4, <1>6, <1>12 DEF Ack, Abandon
<1>13. ASSUME NEW l \in Loop, NEW e, HandleFailed(l, e)
       PROVE  LoopStored'
  <2>. DEFINE s == [loop[l] EXCEPT !.batch = loop[l].batch \ {e}]
  <2>1. Become(l, Idle) \/ Become(l, s)
    BY <1>13 DEF HandleFailed, PutDown
  <2>2. loop[l].stage = "failed" /\ loop[l].todo = {}
    BY <1>3, <1>13 DEF HandleFailed
  <2>3. Stored(s)
    BY <1>1, <2>2, LoopIs
  <2>. QED
    BY <1>4, <1>6, <2>1, <2>3
<1>14. CASE Crash
  BY <1>6, <1>14 DEF Crash, LoopStored, ClicksOf
<1>15. CASE \E l \in Loop : Work(l) \/ WorkFails(l)
  BY <1>8, <1>10, <1>11, <1>12, <1>13, <1>15 DEF Work, WorkFails
<1>16. CASE Expire \/ UNCHANGED vars
  BY <1>5, <1>16 DEF Expire, vars
<1>. QED
  BY <1>5, <1>7, <1>14, <1>15, <1>16, VisitFrame DEF Next

LEMMA FlowHolds == Spec => []FlowInv
<1>1. IInv /\ FlowInv /\ [Next]_vars => FlowInv'
  BY EntriesEmittedKept, RowsEmittedKept, HoldersAdmittedKept, LoopStoredKept DEF FlowInv
<1>. QED
  BY <1>1, FlowInit, Inductive, PTL DEF Spec

-----------------------------------------------------------------------------
(* Counting while no transaction fails *)

\* No transaction failed, and no event is in the stream or in hand twice.
Entries == undelivered \cup pending \cup InHand
NoneFailed == \A l \in Loop : loop[l].stage # "failed"
SingleEntries == \A e, f \in Entries : e.click = f.click => e = f
NoCommitFails == ~ \E l \in Loop : CommitFails(l)

LEMMA SingleInit == Init => NoneFailed /\ SingleEntries
BY DEF Init, Idle, NoneFailed, SingleEntries, Entries, InHand

LEMMA NoneFailedKept ==
  ASSUME IInv, NoneFailed, [Next]_vars, [NoCommitFails]_vars
  PROVE  NoneFailed'
<1>1. LoopOK
  BY Parts
<1>2. ASSUME NEW l \in Loop, NEW s, Become(l, s), s.stage # "failed"
      PROVE  NoneFailed'
  BY <1>1, <1>2 DEF Become, LoopOK, NoneFailed
<1>3. CASE UNCHANGED loop
  BY <1>3 DEF NoneFailed
<1>4. CASE Read \/ Claim
  <2>1. PICK l \in Loop, B \in SUBSET (undelivered \cup pending) : Hold(l, B)
    BY <1>4 DEF Read, Claim, Loop
  <2>2. [Idle EXCEPT !.stage = "read", !.batch = B].stage = "read"
    BY DEF Idle
  <2>. QED
    BY <1>2, <2>1, <2>2 DEF Hold
<1>5. ASSUME NEW l \in Loop, Commit(l) \/ Ack(l) \/ Abandon(l)
      PROVE  NoneFailed'
  <2>1. Idle.stage # "failed"
    BY DEF Idle
  <2>. QED
    BY <1>2, <1>5, <2>1 DEF Commit, Ack, Abandon
<1>6. ASSUME NEW l \in Loop, AddToCache(l) \/ Drain(l) \/ Clear(l) \/ EffectFails(l)
                                \/ DrainFails(l)
      PROVE  NoneFailed'
  <2>1. PICK T : Become(l, [loop[l] EXCEPT !.todo = T])
    BY <1>6 DEF AddToCache, Drain, Clear, EffectFails, DrainFails
  <2>2. [loop[l] EXCEPT !.todo = T].stage = loop[l].stage
    BY <1>1, LoopIs
  <2>. QED
    BY <1>2, <2>1, <2>2 DEF NoneFailed
<1>7. CASE \E l \in Loop : CommitFails(l)
  BY <1>3, <1>7 DEF NoCommitFails, vars
<1>8. CASE Crash
  BY <1>8 DEF Crash, Idle, NoneFailed
<1>9. CASE \E l \in Loop : Work(l) \/ WorkFails(l)
  BY <1>5, <1>6, <1>7, <1>9 DEF Work, WorkFails, HandleFailed, NoneFailed
<1>10. CASE Expire \/ UNCHANGED vars
  BY <1>3, <1>10 DEF Expire, vars
<1>. QED
  BY <1>3, <1>4, <1>8, <1>9, <1>10, VisitFrame DEF Next

LEMMA SingleEntriesKept ==
  ASSUME IInv, FlowInv, NoneFailed, SingleEntries, [Next]_vars
  PROVE  SingleEntries'
<1>1. InHand' \subseteq Entries
  BY BatchSteps DEF InHand, Entries
<1>2. ASSUME (undelivered \cup pending)' \subseteq undelivered \cup pending
      PROVE  SingleEntries'
  BY <1>1, <1>2 DEF SingleEntries, Entries
<1>3. ASSUME NEW c \in Click, Emit(c) \/ EmitFails(c)
      PROVE  SingleEntries'
  <2>1. \A e \in Entries : e.click \in emitted
    BY DEF FlowInv, EntriesEmitted, Entries, InHand
  <2>2. c \notin emitted
    BY <1>3 DEF Emit, EmitFails, Goto, FlowInv, EmittedLate, Emitting
  <2>3. \/ (undelivered \cup pending)' \subseteq undelivered \cup pending
        \/ AddEvent(c) /\ pending' = pending
    BY <1>3 DEF Emit, EmitFails
  <2>4. CASE AddEvent(c) /\ pending' = pending
    <3>. DEFINE x == [id |-> lastId + 1, click |-> c, attempt |-> 0]
    <3>1. Entries' \subseteq Entries \cup {x} /\ x.click = c
      BY <1>1, <2>4 DEF AddEvent, Add, Entries
    <3>. HIDE DEF x
    <3>. QED
      BY <2>1, <2>2, <3>1 DEF SingleEntries
  <2>. QED
    BY <1>2, <2>3, <2>4
<1>4. CASE \E c \in Click : ReadCache(c) \/ Visit(c) \/ VisitFails(c)
  BY <1>2, <1>3, <1>4 DEF ReadCache, Visit, VisitFails, ReadRow, ReadCacheAgain,
     ReadPending, Fill, Deny, Reserve, Revert, ClearUnsent, PendingUnread, ReserveFails,
     RevertUnanswered, Forgotten, stream
<1>5. CASE \E l \in Loop : Work(l) \/ WorkFails(l)
  BY <1>2, <1>5 DEF Work, WorkFails, NoneFailed, HandleFailed, Ack, Commit, AddToCache,
     Drain, Clear, CommitFails, EffectFails, DrainFails, Abandon, stream
<1>6. CASE Expire \/ Read \/ Claim \/ Crash \/ UNCHANGED vars
  BY <1>2, <1>6 DEF Expire, Read, Claim, Crash, vars, stream
<1>. QED
  BY <1>4, <1>5, <1>6 DEF Next

\* With batches of any size, links.clicks_count is the number of stored events
\* (CountMatchesRows) as long as no transaction of the worker fails: through crashes,
\* entries that both loops claim, failed effects and commands, and deliveries again.
THEOREM CountUnlessCommitFails ==
  Spec /\ [][NoCommitFails]_vars => []CountMatchesRows
<1>1. IInv /\ FlowInv /\ NoneFailed /\ SingleEntries /\ [Next]_vars /\ [NoCommitFails]_vars
        => NoneFailed' /\ SingleEntries'
  BY NoneFailedKept, SingleEntriesKept
<1>2. SingleEntries => OneEntryPerClick
  BY DEF SingleEntries, Entries, InHand, OneEntryPerClick, OnceEach
<1>3. IInv /\ OneEntryPerClick /\ CountMatchesRows /\ [Next]_vars => CountMatchesRows'
  BY CountKept
<1>. QED
  BY <1>1, <1>2, <1>3, CountInit, SingleInit, Inductive, FlowHolds, PTL DEF Spec

-----------------------------------------------------------------------------
(* Refinement *)

\* A step that leaves the stream, the store and what was emitted alone is a stutter.
LEMMA QuietMaps ==
  ASSUME emitted' = emitted, (undelivered \cup pending)' = undelivered \cup pending,
         UNCHANGED <<rows, dead>>
  PROVE  UNCHANGED Queue!vars
<1>1. ClicksOf(undelivered \cup pending)' = ClicksOf(undelivered \cup pending)
  BY DEF ClicksOf
<1>. QED
  BY <1>1 DEF Queue!vars

\* A transaction that commits completes the jobs of its batch.
LEMMA PersistMaps ==
  ASSUME FlowInv, NEW l \in Loop, Persist(loop[l].batch), emitted' = emitted, UNCHANGED stream
  PROVE  Queue!Next
<1>. DEFINE S == ClicksOf(loop[l].batch)
<1>1. S \in SUBSET emitted
  BY DEF FlowInv, EntriesEmitted, ClicksOf
<1>2. ClicksOf(undelivered \cup pending)' = ClicksOf(undelivered \cup pending)
  BY DEF ClicksOf, stream
<1>3. Queue!Complete(S)
  BY <1>2 DEF Queue!Complete, Persist
<1>. QED
  BY <1>1, <1>3 DEF Queue!Next

\* Adding an entry is taking its job in, or in again.
LEMMA AddMaps ==
  ASSUME NEW c \in Click, NEW a, Add(c, a), emitted' = emitted \cup {c},
         pending' \subseteq pending,
         \A e \in pending \ pending' : e.click = c, UNCHANGED <<rows, dead>>
  PROVE  Queue!Next
<1>. DEFINE owed == ClicksOf(undelivered \cup pending)
<1>1. owed' \subseteq owed \cup {c}
  BY DEF Add, ClicksOf
<1>2. owed \cup {c} \subseteq owed'
  <2>1. PICK n \in (undelivered \cup pending)' : n.click = c
    BY DEF Add
  <2>2. c \in owed'
    BY <2>1 DEF ClicksOf
  <2>3. ASSUME NEW e \in undelivered \cup pending
        PROVE  e.click \in owed'
    <3>1. CASE e \in (undelivered \cup pending)'
      BY <3>1 DEF ClicksOf
    <3>2. CASE e \notin (undelivered \cup pending)'
      BY <2>2, <3>2 DEF Add
    <3>. QED
      BY <3>1, <3>2
  <2>. QED
    BY <2>2, <2>3 DEF ClicksOf
<1>. HIDE DEF owed
<1>3. Queue!Keeps(owed \cup {c}, {})
  BY <1>1, <1>2 DEF Queue!Keeps, owed
<1>4. Queue!Submit(c, {})
  BY <1>3 DEF Queue!Submit, owed
<1>. QED
  BY <1>4 DEF Queue!Next

LEMMA StepMaps ==
  ASSUME IInv, FlowInv, [Next]_vars
  PROVE  [Queue!Next]_(Queue!vars)
<1>1. CASE emitted' = emitted /\ UNCHANGED <<undelivered, pending, rows, dead>>
  BY <1>1, QuietMaps
<1>3. ASSUME NEW c \in Click, Emit(c) \/ EmitFails(c), AddEvent(c)
      PROVE  Queue!Next
  <2>1. Add(c, 0) /\ pending' = pending /\ UNCHANGED <<rows, dead>>
    BY <1>3 DEF Emit, EmitFails, AddEvent, store
  <2>. QED
    BY <1>3, <2>1, AddMaps DEF AddEvent
<1>4. ASSUME NEW c \in Click, ReadCache(c) \/ Visit(c) \/ VisitFails(c)
      PROVE  [Queue!Next]_(Queue!vars)
  <2>1. UNCHANGED <<pending, rows, dead>>
    BY <1>4, VisitFrame DEF store
  <2>2. CASE UNCHANGED <<undelivered, emitted>>
    BY <1>1, <2>1, <2>2
  <2>3. CASE ~UNCHANGED <<undelivered, emitted>>
    <3>1. (Emit(c) \/ EmitFails(c)) /\ AddEvent(c)
      BY <1>4, <2>3 DEF ReadCache, Visit, VisitFails, ReadRow, ReadCacheAgain, ReadPending,
         Fill, Deny, Reserve, Emit, Revert, ClearUnsent, PendingUnread, ReserveFails,
         EmitFails, RevertUnanswered, Forgotten, history, stream
    <3>. QED
      BY <1>3, <3>1
  <2>. QED
    BY <2>2, <2>3
<1>5. CASE Read
  <2>1. (undelivered \cup pending)' = undelivered \cup pending
    BY <1>5 DEF Read
  <2>. QED
    BY <1>5, <2>1, QuietMaps DEF Read, visits, history, store
<1>6. ASSUME NEW l \in Loop, Work(l) \/ WorkFails(l)
      PROVE  [Queue!Next]_(Queue!vars)
  <2>1. emitted' = emitted
    BY <1>6, WorkFrame DEF visits, history
  <2>2. CASE Commit(l)
    BY <2>1, <2>2, PersistMaps DEF Commit
  <2>3. CASE CommitFails(l)
    <3>1. CASE UNCHANGED store
      BY <1>1, <2>1, <2>3, <3>1 DEF CommitFails, store, stream
    <3>2. CASE Persist(loop[l].batch)
      BY <2>1, <2>3, <3>2, PersistMaps DEF CommitFails
    <3>. QED
      BY <2>3, <3>1, <3>2 DEF CommitFails
  <2>4. CASE Ack(l)
    <3>. DEFINE B == loop[l].batch
                owed == ClicksOf(undelivered \cup pending)
                T == owed \ owed'
    <3>1. ClicksOf(B) \subseteq rows
      BY <2>4 DEF Ack, FlowInv, LoopStored
    <3>2. owed' \subseteq owed /\ T \subseteq ClicksOf(B)
      BY <2>4 DEF Ack, ClicksOf
    <3>3. UNCHANGED <<rows, dead>>
      BY <2>4 DEF Ack, store
    <3>. HIDE DEF B
    <3>4. Queue!Settle(T)
      BY <2>1, <3>1, <3>2, <3>3 DEF Queue!Settle
    <3>. QED
      BY <3>4 DEF Queue!Next
  <2>5. ASSUME NEW e \in loop[l].batch, HandleFailed(l, e)
        PROVE  Queue!Next
    <3>1. e.click \in Click /\ e.click \in emitted
      BY <2>5, Parts, LoopIs DEF FlowInv, EntriesEmitted, BatchOK, Entry
    <3>2. pending' \subseteq pending /\ \A f \in pending \ pending' : f.click = e.click
      BY <2>5 DEF HandleFailed
    <3>3. CASE CanRetry(e)
      <4>1. Add(e.click, e.attempt + 1) /\ UNCHANGED <<rows, dead>>
        BY <2>5, <3>3 DEF HandleFailed, AddAgain
      <4>2. emitted' = emitted \cup {e.click}
        BY <2>1, <3>1
      <4>. QED
        BY <3>1, <3>2, <4>1, <4>2, AddMaps
    <3>4. CASE ~ CanRetry(e)
      <4>. DEFINE owed == ClicksOf(undelivered \cup pending)
      <4>1. dead' = dead \cup {e.click} /\ undelivered' = undelivered /\ rows' = rows
        BY <2>5, <3>4 DEF HandleFailed, AddAgain
      <4>2. owed' \subseteq owed /\ owed \ owed' \subseteq {e.click}
        BY <3>2, <4>1 DEF ClicksOf
      <4>3. Queue!DeadLetter(e.click)
        BY <2>1, <3>1, <4>1, <4>2 DEF Queue!DeadLetter, Queue!Keeps
      <4>. QED
        BY <3>1, <4>3 DEF Queue!Next
    <3>. QED
      BY <3>3, <3>4
  <2>6. CASE AddToCache(l) \/ Drain(l) \/ Clear(l) \/ EffectFails(l) \/ DrainFails(l)
             \/ Abandon(l)
    BY <1>1, <2>1, <2>6
       DEF AddToCache, Drain, Clear, EffectFails, DrainFails, Abandon, stream, store
  <2>. QED
    BY <1>6, <2>2, <2>3, <2>4, <2>5, <2>6 DEF Work, WorkFails
<1>7. CASE Expire \/ Claim \/ Crash \/ UNCHANGED vars
  BY <1>1, <1>7 DEF Expire, Claim, Crash, vars, visits, history, stream, store
<1>. QED
  BY <1>4, <1>5, <1>6, <1>7 DEF Next

\* The analytics stream implements the queue's promise: every click whose XADD was
\* executed, also one whose answer was lost and whose reservation was reverted, stays
\* owed until its row is stored or it is dead-lettered, and none is lost
\* (ImplementsClickQueue).
THEOREM ClicksImplementQueue == Spec => ImplementsClickQueue
<1>1. Init => Queue!Init
  BY DEF Init, Queue!Init, ClicksOf
<1>2. IInv /\ FlowInv /\ [Next]_vars => [Queue!Next]_(Queue!vars)
  BY StepMaps
<1>. QED
  BY <1>1, <1>2, Inductive, FlowHolds, PTL DEF Spec, ImplementsClickQueue, Queue!Spec
\* So at any time an emitted click is stored, dead-lettered or still in the stream,
\* whatever was claimed twice, retried, rolled back or lost with a process.
THEOREM EmittedClicksAccounted == Spec => []Queue!Accounted
<1>1. Init => Queue!Accounted
  BY DEF Init, Queue!Accounted
<1>2. Queue!Accounted /\ [Queue!Next]_(Queue!vars) => Queue!Accounted'
  BY DEF Queue!Accounted, Queue!Next, Queue!vars, Queue!Submit, Queue!Complete,
         Queue!DeadLetter, Queue!Settle, Queue!GiveUp, Queue!Keeps
<1>3. IInv /\ FlowInv /\ [Next]_vars => [Queue!Next]_(Queue!vars)
  BY StepMaps
<1>. QED
  BY <1>1, <1>2, <1>3, Inductive, FlowHolds, PTL DEF Spec

-----------------------------------------------------------------------------
(* The account of reservations *)

Owing == Cardinality(Outstanding)

LEMMA OwingType ==
  ASSUME IInv, FlowInv
  PROVE  IsFiniteSet(Outstanding) /\ Owing \in Nat
<1>1. Outstanding \subseteq admitted /\ IsFiniteSet(admitted)
  BY Parts DEF Outstanding, Waiting, FlowInv, HoldersAdmitted, VisitsOK
<1>. QED
  BY <1>1, FS_Subset, FS_CardinalityType DEF Owing

\* What the bound adds up, and what it bounds.
AccountOK ==
  /\ Owing \in Nat /\ reserved \in Int /\ left \in Nat
  /\ \A l \in Loop : ToDrain(l) \in Nat

LEMMA AccountType == IInv /\ FlowInv => AccountOK
BY OwingType, CountType, Parts DEF CountersOK, AccountOK

\* The bound is kept by a step that takes at most as much off what the bound adds up, for
\* one loop, the other being left alone, as it takes off the counter; and by one that
\* deletes the counter.
LEMMA BoundStep ==
  ASSUME AccountOK, AccountOK', ReservationsBounded,
         NEW l \in Loop, NEW m \in Loop, l # m, ToDrain(m)' = ToDrain(m),
         \/ reserved' - reserved
              <= (Owing' - Owing) + (ToDrain(l)' - ToDrain(l)) + (left' - left)
         \/ reserved' = 0
  PROVE  ReservationsBounded'
<1>1. PICK r \in Int, o \in Nat, x \in Nat, y \in Nat, f \in Nat :
        r = reserved' /\ o = Owing' /\ x = ToDrain(l)' /\ y = ToDrain(m)' /\ f = left'
  BY DEF AccountOK
<1>2. reserved \in Int /\ Owing \in Nat /\ ToDrain(l) \in Nat /\ y = ToDrain(m) /\ left \in Nat
  BY <1>1 DEF AccountOK
<1>3. (l = "main" /\ m = "gc") \/ (l = "gc" /\ m = "main")
  BY DEF Loop
<1>4. reserved <= Owing + ToDrain(l) + y + left
  <2>1. reserved <= Owing + ToDrain("main") + ToDrain("gc") + left
    BY DEF ReservationsBounded, Owing
  <2>. QED
    BY <1>2, <1>3, <2>1
<1>5. r - reserved <= (o - Owing) + (x - ToDrain(l)) + (f - left) \/ r = 0
  BY <1>1
<1>6. r <= o + x + y + f
  BY <1>1, <1>2, <1>4, <1>5
<1>7. ReservationsBounded' <=> r <= o + ToDrain("main")' + ToDrain("gc")' + f
  BY <1>1 DEF ReservationsBounded, Owing
<1>. QED
  BY <1>1, <1>3, <1>6, <1>7

\* A visit owes from its reservation until it has reverted it; then its click is with
\* the worker, or left in the counter.
LEMMA VisitKeepsBound ==
  ASSUME IInv, FlowInv, AccountOK', ReservationsBounded,
         NEW c \in Click, ReadCache(c) \/ Visit(c) \/ VisitFails(c)
  PROVE  ReservationsBounded'
<1>. DEFINE Holds == {"reserved", "reverting"}
<1>1. phase \in [Click -> Phase] /\ rows' = rows /\ loop' = loop /\ AccountOK
  BY Parts, VisitFrame, AccountType DEF VisitsOK, store
<1>2. ToDrain("main")' = ToDrain("main") /\ ToDrain("gc")' = ToDrain("gc")
  BY <1>1 DEF ToDrain
<1>3. /\ Owing \in Nat /\ reserved \in Int /\ left \in Nat /\ ToDrain("main") \in Nat
      /\ ToDrain("main")' - ToDrain("main") = 0
  BY <1>1, <1>2 DEF AccountOK, Loop
<1>4. ASSUME NEW d \in Int, NEW o \in Int, NEW f \in Int,
             reserved' = reserved + d, Owing' = Owing + o, left' = left + f, d <= o + f
      PROVE  ReservationsBounded'
  <2>1. /\ reserved' - reserved = d /\ Owing' - Owing = o /\ left' - left = f
    BY <1>3, <1>4
  <2>2. d <= o + 0 + f
    BY <1>4
  <2>. QED
    BY <1>1, <1>2, <1>3, <2>1, <2>2, BoundStep DEF Loop
<1>5. ASSUME NEW from, NEW to, Goto(c, from, to)
      PROVE  /\ from \notin Holds \cup {"sent"} /\ to \notin Holds \cup {"sent"}
                  => Owing' = Owing + 0
             /\ from \in Holds /\ to \in Holds => Owing' = Owing + 0
             /\ from = "reserved" /\ to = "sent" /\ c \notin rows => Owing' = Owing + 0
             /\ from \notin Holds \cup {"sent"} /\ to \in Holds => Owing' = Owing + 1
             /\ from \in Holds /\ to \notin Holds \cup {"sent"} => Owing' = Owing + (-1)
  <2>1. phase[c] = from /\ phase'[c] = to /\ \A b \in Click \ {c} : phase'[b] = phase[b]
    BY <1>1, <1>5 DEF Goto
  <2>2. \A b \in Click \ {c} : b \in Outstanding' <=> b \in Outstanding
    BY <1>1, <2>1 DEF Outstanding, Waiting
  <2>3. c \in Outstanding <=> from \in Holds \/ (from = "sent" /\ c \notin rows)
    BY <2>1 DEF Outstanding, Waiting
  <2>4. c \in Outstanding' <=> to \in Holds \/ (to = "sent" /\ c \notin rows)
    BY <1>1, <2>1 DEF Outstanding, Waiting
  <2>5. Outstanding \subseteq Click /\ Outstanding' \subseteq Click
    BY DEF Outstanding
  <2>6. (c \in Outstanding <=> c \in Outstanding') => Owing' = Owing + 0
    <3>1. (c \in Outstanding <=> c \in Outstanding') => Outstanding' = Outstanding
      BY <2>2, <2>5
    <3>. QED
      BY <1>3, <3>1 DEF Owing
  <2>7. c \notin Outstanding /\ c \in Outstanding' => Owing' = Owing + 1
    <3>1. c \in Outstanding' => Outstanding' = Outstanding \cup {c}
      BY <2>2, <2>5
    <3>. QED
      BY <3>1, OwingType, FS_AddElement DEF Owing
  <2>8. c \in Outstanding /\ c \notin Outstanding' => Owing' = Owing + (-1)
    <3>1. c \notin Outstanding' => Outstanding' = Outstanding \ {c}
      BY <2>2, <2>5
    <3>2. c \in Outstanding /\ c \notin Outstanding' => Owing' = Owing - 1
      BY <3>1, OwingType, FS_RemoveElement DEF Owing
    <3>. QED
      BY <1>3, <3>2
  <2>. QED
    BY <2>3, <2>4, <2>6, <2>7, <2>8
<1>6. ASSUME reserved' = reserved, left' = left
      PROVE  reserved' = reserved + 0 /\ left' = left + 0
  BY <1>3, <1>6
<1>7. CASE Reserve(c)
  <2>1. Owing' = Owing + 1 /\ reserved' = reserved + 1 /\ left' = left
    BY <1>5, <1>7 DEF Reserve
  <2>2. left' = left + 0
    BY <1>3, <2>1
  <2>. QED
    BY <1>4, <2>1, <2>2
<1>8. CASE Emit(c)
  <2>1. c \notin rows
    BY <1>8 DEF Emit, Goto, FlowInv, RowsEmitted, EmittedLate, Emitting
  <2>2. Owing' = Owing + 0 /\ reserved' = reserved /\ left' = left
    BY <1>5, <1>8, <2>1 DEF Emit, counter
  <2>. QED
    BY <1>4, <1>6, <2>2
<1>9. CASE EmitFails(c)
  <2>1. Owing' = Owing + 0 /\ reserved' = reserved /\ left' = left
    BY <1>5, <1>9 DEF EmitFails, counter
  <2>. QED
    BY <1>4, <1>6, <2>1
<1>10. CASE Revert(c) \/ RevertUnanswered(c)
  <2>1. Owing' = Owing + (-1)
    BY <1>5, <1>10 DEF Revert, RevertUnanswered
  <2>2. reserved' = reserved - 1 /\ left' = left
    BY <1>10 DEF Revert, RevertUnanswered, Decrease
  <2>3. reserved' = reserved + (-1) /\ left' = left + 0
    BY <1>3, <2>2
  <2>. QED
    BY <1>4, <2>1, <2>3
<1>11. CASE ClearUnsent(c)
  <2>1. reserved' = 0
    BY <1>11 DEF ClearUnsent
  <2>. QED
    BY <1>1, <1>2, <2>1, BoundStep DEF Loop
<1>12. CASE Forgotten(c)
  <2>1. CASE phase[c] = "clearing"
    <3>1. Owing' = Owing + 0
      BY <1>5, <1>12, <2>1 DEF Forgotten
    <3>2. reserved' = reserved + 0 /\ left' = left + 0
      BY <1>3, <1>12, <2>1 DEF Forgotten
    <3>. QED
      BY <1>4, <3>1, <3>2
  <2>2. CASE phase[c] \in Holds
    <3>1. Owing' = Owing + (-1)
      BY <1>5, <1>12, <2>2 DEF Forgotten
    <3>2. reserved' = reserved + 0 /\ left' = left + 1
      BY <1>3, <1>12, <2>2 DEF Forgotten
    <3>. QED
      BY <1>4, <3>1, <3>2
  <2>. QED
    BY <1>12, <2>1, <2>2 DEF Forgotten
<1>13. CASE ReserveFails(c)
  <2>1. Owing' = Owing + 0
    BY <1>5, <1>13 DEF ReserveFails
  <2>2. CASE UNCHANGED counter
    BY <1>4, <1>6, <2>1, <2>2 DEF counter
  <2>3. CASE reserved' = reserved + 1 /\ left' = left + 1
    BY <1>4, <2>1, <2>3
  <2>. QED
    BY <1>13, <2>2, <2>3 DEF ReserveFails
<1>14. CASE ReadCache(c) \/ ReadRow(c) \/ ReadCacheAgain(c) \/ ReadPending(c)
            \/ PendingUnread(c) \/ Fill(c) \/ Deny(c)
  <2>1. PICK from, to : /\ Goto(c, from, to) /\ from \notin Holds \cup {"sent"}
                        /\ to \notin Holds \cup {"sent"}
    BY <1>14 DEF ReadCache, ReadRow, ReadCacheAgain, ReadPending, PendingUnread, Fill, Deny
  <2>2. reserved' = reserved /\ left' = left
    BY <1>14 DEF ReadCache, ReadRow, ReadCacheAgain, ReadPending, PendingUnread, Fill, Deny,
                 counter
  <2>. QED
    BY <1>4, <1>5, <1>6, <2>1, <2>2
<1>. QED
  BY <1>7, <1>8, <1>9, <1>10, <1>11, <1>12, <1>13, <1>14 DEF Visit, VisitFails

\* A transaction takes over what its clicks owed.
LEMMA CommitOwes ==
  ASSUME IInv, FlowInv, NEW l \in Loop, Persist(loop[l].batch), UNCHANGED phase
  PROVE  /\ Owing' = Owing - Cardinality(WaitingIn(loop[l].batch))
         /\ Cardinality(WaitingIn(loop[l].batch)) \in Nat
         /\ Cardinality(WaitingIn(loop[l].batch)) <= Counted(loop[l].batch)
         /\ Counted(loop[l].batch) \in 0..BatchSize
<1>. DEFINE B == loop[l].batch
            T == WaitingIn(B)
<1>1. BatchOK(B) /\ StoreOK
  BY Parts, LoopIs
<1>2. T \subseteq Outstanding
  BY <1>1 DEF WaitingIn, Waiting, ClicksOf, Outstanding, BatchOK, Entry
<1>3. Outstanding' = Outstanding \ T
  BY DEF Persist, Outstanding, WaitingIn, Waiting
<1>4. Outstanding \cap T = T
  BY <1>2
<1>5. Cardinality(Outstanding \ T) = Cardinality(Outstanding) - Cardinality(T)
  BY <1>4, OwingType, FS_Difference
<1>6. Cardinality(T) \in Nat /\ Cardinality(T) <= Counted(B) /\ Counted(B) \in 0..BatchSize
  BY <1>1, WaitingType, CountedType
<1>. QED
  BY <1>3, <1>5, <1>6 DEF Owing

LEMMA WorkKeepsBound ==
  ASSUME IInv, FlowInv, AccountOK', ReservationsBounded,
         NEW l \in Loop, Work(l) \/ WorkFails(l)
  PROVE  ReservationsBounded'
<1>1. PICK m \in Loop : l # m
  BY DEF Loop
<1>2. phase' = phase /\ LoopOK /\ AccountOK
  BY Parts, WorkFrame, AccountType DEF visits
<1>3. ToDrain(m)' = ToDrain(m)
  <2>1. PICK s : Become(l, s)
    BY DEF Work, WorkFails, Commit, AddToCache, Drain, Clear, Ack, HandleFailed, PutDown,
           CommitFails, EffectFails, DrainFails, Abandon
  <2>2. loop'[m] = loop[m]
    BY <1>1, <1>2, <2>1 DEF Become, LoopOK
  <2>. QED
    BY <2>2 DEF ToDrain
<1>4. /\ Owing \in Nat /\ reserved \in Int /\ left \in Nat /\ ToDrain(l) \in Nat
      /\ loop[l].count \in Nat
  BY <1>2, CountType DEF AccountOK
<1>5. ASSUME NEW s, Become(l, s)
      PROVE  loop'[l] = s
  BY <1>2, <1>5 DEF Become, LoopOK
<1>6. ASSUME NEW d \in Int, NEW o \in Int, NEW t \in Nat, NEW f \in Int,
             reserved' = reserved + d, Owing' = Owing + o, ToDrain(l)' = t, left' = left + f,
             d <= o + (t - ToDrain(l)) + f
      PROVE  ReservationsBounded'
  <2>1. /\ reserved' - reserved = d /\ Owing' - Owing = o /\ left' - left = f
    BY <1>4, <1>6
  <2>. QED
    BY <1>1, <1>2, <1>3, <1>6, <2>1, BoundStep
<1>7. ASSUME rows' = rows
      PROVE  Owing' = Owing + 0
  BY <1>2, <1>4, <1>7 DEF Owing, Outstanding, Waiting
<1>8. ASSUME rows' = rows, reserved' = reserved, left' = left, ToDrain(l)' = ToDrain(l)
      PROVE  ReservationsBounded'
  <2>1. reserved' = reserved + 0 /\ left' = left + 0 /\ 0 <= 0 + (ToDrain(l) - ToDrain(l)) + 0
    BY <1>4, <1>8
  <2>. QED
    BY <1>4, <1>6, <1>7, <1>8, <2>1
<1>9. CASE Commit(l)
  <2>. DEFINE B == loop[l].batch
              n == Counted(B)
              s == [stage |-> "committed", batch |-> B, count |-> n, todo |-> Effects(n)]
  <2>1. ToDrain(l) = 0
    BY <1>9 DEF Commit, FlowInv, LoopStored, ToDrain
  <2>2. Persist(B) /\ Become(l, s) /\ UNCHANGED counter
    BY <1>9 DEF Commit
  <2>3. PICK k \in Nat : Owing' = Owing - k /\ k <= n /\ n \in 0..BatchSize
    BY <1>2, <2>2, CommitOwes
  <2>4. ToDrain(l)' = n
    <3>1. loop'[l] = s
      BY <1>5, <2>2
    <3>2. ToDrain(l)' = IF "drain" \in Effects(n) THEN n ELSE 0
      BY <3>1 DEF ToDrain
    <3>. QED
      BY <2>3, <3>2, ClickAssumption DEF Effects
  <2>. HIDE DEF n
  <2>5. n \in Nat /\ -k \in Int
    BY <2>3, ClickAssumption
  <2>6. reserved' = reserved + 0 /\ left' = left + 0 /\ Owing' = Owing + (-k)
    BY <1>4, <2>2, <2>3 DEF counter
  <2>7. 0 <= -k + (n - ToDrain(l)) + 0
    BY <2>1, <2>3, <2>5
  <2>. QED
    BY <1>6, <2>4, <2>5, <2>6, <2>7
<1>10. CASE CommitFails(l)
  <2>1. /\ reserved' = reserved /\ Become(l, [loop[l] EXCEPT !.stage = "failed"])
        /\ loop[l].todo = {}
    BY <1>10 DEF CommitFails, FlowInv, LoopStored
  <2>2. ToDrain(l)' = 0 /\ ToDrain(l) = 0
    <3>1. [loop[l] EXCEPT !.stage = "failed"].todo = {}
      BY <1>2, <2>1, LoopIs
    <3>. QED
      BY <1>5, <2>1, <3>1 DEF ToDrain
  <2>3. CASE UNCHANGED <<store, left>>
    BY <1>8, <2>1, <2>2, <2>3 DEF store
  <2>4. CASE /\ Persist(loop[l].batch)
             /\ left' = left + Cardinality(WaitingIn(loop[l].batch))
    <3>1. PICK k \in Nat : Owing' = Owing - k /\ left' = left + k
      BY <1>2, <2>4, CommitOwes
    <3>2. /\ Owing' = Owing + (-k) /\ reserved' = reserved + 0 /\ -k \in Int
          /\ 0 <= -k + (0 - ToDrain(l)) + k
      BY <1>4, <2>1, <2>2, <3>1
    <3>. QED
      BY <1>6, <2>2, <3>1, <3>2
  <2>. QED
    BY <1>10, <2>3, <2>4 DEF CommitFails
<1>11. ASSUME NEW T, Become(l, [loop[l] EXCEPT !.todo = T])
       PROVE  ToDrain(l)' = IF "drain" \in T THEN loop[l].count ELSE 0
  <2>1. [loop[l] EXCEPT !.todo = T].todo = T /\ [loop[l] EXCEPT !.todo = T].count = loop[l].count
    BY <1>2, LoopIs
  <2>. QED
    BY <1>5, <1>11, <2>1 DEF ToDrain
<1>12. CASE Drain(l) \/ DrainFails(l)
  <2>. DEFINE n == loop[l].count
  <2>1. ToDrain(l) = n /\ rows' = rows
    BY <1>12 DEF Drain, DrainFails, ToDrain, store
  <2>2. ToDrain(l)' = 0
    <3>1. PICK T : "drain" \notin T /\ Become(l, [loop[l] EXCEPT !.todo = T])
      <4>1. CASE Drain(l)
        <5>. DEFINE T == (loop[l].todo \ {"drain"})
                           \cup (IF MustClear(loop[l].count) THEN {"clear"} ELSE {})
        <5>1. "drain" \notin T /\ Become(l, [loop[l] EXCEPT !.todo = T])
          BY <4>1 DEF Drain
        <5>. QED
          BY <5>1, Zenon
      <4>2. CASE DrainFails(l)
        <5>. DEFINE T == loop[l].todo \ {"drain"}
        <5>1. "drain" \notin T /\ Become(l, [loop[l] EXCEPT !.todo = T])
          BY <4>2 DEF DrainFails
        <5>. QED
          BY <5>1, Zenon
      <4>. QED
        BY <1>12, <4>1, <4>2
    <3>. QED
      BY <1>11, <3>1
  <2>3. \/ reserved' = reserved - n /\ left' = left
        \/ reserved' = reserved /\ left' = left + n
    BY <1>12, <2>1 DEF Drain, DrainFails, Decrease
  <2>. HIDE DEF n
  <2>4. n \in Nat /\ -n \in Int
    BY <1>4 DEF n
  <2>5. \/ reserved' = reserved + (-n) /\ left' = left + 0 /\ -n <= 0 + (0 - ToDrain(l)) + 0
        \/ reserved' = reserved + 0 /\ left' = left + n /\ 0 <= 0 + (0 - ToDrain(l)) + n
    BY <1>4, <2>1, <2>3, <2>4
  <2>. QED
    BY <1>6, <1>7, <2>1, <2>2, <2>4, <2>5
<1>13. CASE Clear(l)
  <2>1. reserved' = 0
    BY <1>13 DEF Clear
  <2>. QED
    BY <1>1, <1>2, <1>3, <2>1, BoundStep
<1>14. CASE AddToCache(l) \/ EffectFails(l)
  <2>1. PICK x \in {"cache", "clear"} \cup (loop[l].todo \ {"drain"}) :
          Become(l, [loop[l] EXCEPT !.todo = loop[l].todo \ {x}])
    BY <1>14 DEF AddToCache, EffectFails
  <2>2. ToDrain(l)' = ToDrain(l)
    BY <1>11, <2>1 DEF ToDrain
  <2>3. UNCHANGED <<rows, reserved, left>>
    BY <1>14 DEF AddToCache, EffectFails, counter, store
  <2>. QED
    BY <1>8, <2>2, <2>3
<1>15. ASSUME NEW s, Become(l, s), s.todo = {}
       PROVE  ToDrain(l)' = 0
  BY <1>5, <1>15 DEF ToDrain
<1>16. CASE Abandon(l)
  <2>1. Become(l, Idle) /\ left' = left + ToDrain(l) /\ reserved' = reserved /\ rows' = rows
    BY <1>16 DEF Abandon, store
  <2>2. ToDrain(l)' = 0
    BY <1>15, <2>1 DEF Idle
  <2>3. reserved' = reserved + 0 /\ 0 <= 0 + (0 - ToDrain(l)) + ToDrain(l)
    BY <1>4, <2>1
  <2>. QED
    BY <1>4, <1>6, <1>7, <2>1, <2>2, <2>3
<1>17. CASE Ack(l)
  <2>1. loop[l].todo = {} /\ Become(l, Idle) /\ UNCHANGED <<rows, reserved, left>>
    BY <1>17 DEF Ack, store, counter
  <2>2. ToDrain(l)' = ToDrain(l)
    BY <1>15, <2>1 DEF ToDrain, Idle
  <2>. QED
    BY <1>8, <2>1, <2>2
<1>18. ASSUME NEW e, HandleFailed(l, e)
       PROVE  ReservationsBounded'
  <2>1. loop[l].todo = {}
    BY <1>18 DEF HandleFailed, FlowInv, LoopStored
  <2>2. [loop[l] EXCEPT !.batch = loop[l].batch \ {e}].todo = {} /\ Idle.todo = {}
    BY <1>2, <2>1, LoopIs DEF Idle
  <2>3. ToDrain(l)' = ToDrain(l)
    BY <1>15, <1>18, <2>1, <2>2 DEF HandleFailed, PutDown, ToDrain
  <2>4. rows' = rows /\ reserved' = reserved /\ left' = left
    BY <1>18 DEF HandleFailed, counter
  <2>. QED
    BY <1>8, <2>3, <2>4
<1>. QED
  BY <1>9, <1>10, <1>12, <1>13, <1>14, <1>16, <1>17, <1>18 DEF Work, WorkFails

\* Taking a batch does not touch the account; a crash leaves what both loops had to drain.
LEMMA OtherKeepsBound ==
  ASSUME IInv, FlowInv, AccountOK', ReservationsBounded,
         Read \/ Claim \/ Crash \/ Expire \/ UNCHANGED vars
  PROVE  ReservationsBounded'
<1>1. Owing' = Owing
  BY DEF Read, Claim, Crash, Expire, vars, visits, store, Owing, Outstanding, Waiting
<1>2. /\ Owing \in Nat /\ reserved \in Int /\ left \in Nat
      /\ ToDrain("main") \in Nat /\ ToDrain("gc") \in Nat
  BY AccountType DEF AccountOK, Loop
<1>3. LoopOK
  BY Parts
<1>4. reserved <= Owing + ToDrain("main") + ToDrain("gc") + left
  BY DEF ReservationsBounded, Owing
<1>5. CASE Crash
  <2>1. ToDrain("main")' = 0 /\ ToDrain("gc")' = 0
    BY <1>5 DEF Crash, ToDrain, Idle, Loop
  <2>2. left' = left + ToDrain("main") + ToDrain("gc") /\ reserved' = reserved
    BY <1>5 DEF Crash
  <2>3. reserved <= Owing + 0 + 0 + (left + ToDrain("main") + ToDrain("gc"))
    BY <1>2, <1>4
  <2>. QED
    BY <1>1, <2>1, <2>2, <2>3 DEF ReservationsBounded, Owing
<1>6. ASSUME ToDrain("main")' = ToDrain("main"), ToDrain("gc")' = ToDrain("gc"),
             UNCHANGED counter
      PROVE  ReservationsBounded'
  BY <1>1, <1>4, <1>6 DEF ReservationsBounded, Owing, counter
<1>7. CASE Read \/ Claim
  <2>1. PICK l \in Loop, B \in SUBSET (undelivered \cup pending) :
          Hold(l, B) /\ loop[l].stage = "idle"
    BY <1>7 DEF Read, Claim, Loop
  <2>2. loop[l].todo = {}
    BY <2>1 DEF FlowInv, LoopStored
  <2>3. \A m \in Loop : loop'[m] = IF m = l THEN [Idle EXCEPT !.stage = "read", !.batch = B]
                                          ELSE loop[m]
    BY <1>3, <2>1 DEF Hold, Become, LoopOK
  <2>4. [Idle EXCEPT !.stage = "read", !.batch = B].todo = {}
    BY DEF Idle
  <2>5. \A m \in Loop : ToDrain(m)' = ToDrain(m)
    BY <2>2, <2>3, <2>4 DEF ToDrain
  <2>6. UNCHANGED counter
    BY <1>7 DEF Read, Claim
  <2>. QED
    BY <1>6, <2>5, <2>6 DEF Loop
<1>8. CASE Expire \/ UNCHANGED vars
  BY <1>6, <1>8 DEF Expire, vars, ToDrain
<1>. QED
  BY <1>5, <1>7, <1>8

\* The pending counter of a link never exceeds the clicks on their way (reserved, being
\* reverted, or emitted and not stored), those stored and not drained, and those that a
\* failure left in it, each counted once (ReservationsBounded).
THEOREM ReservationsTheorem == Spec => []ReservationsBounded
<1>1. Init => ReservationsBounded
  <2>. SUFFICES ASSUME Init PROVE ReservationsBounded
    OBVIOUS
  <2>1. Outstanding = {}
    BY DEF Init, Outstanding, Waiting
  <2>2. ToDrain("main") = 0 /\ ToDrain("gc") = 0
    BY DEF Init, ToDrain, Idle, Loop
  <2>. QED
    BY <2>1, <2>2, FS_EmptySet DEF Init, ReservationsBounded
<1>2. AccountOK' /\ IInv /\ FlowInv /\ ReservationsBounded /\ [Next]_vars
        => ReservationsBounded'
  BY VisitKeepsBound, WorkKeepsBound, OtherKeepsBound DEF Next
<1>3. IInv /\ FlowInv => AccountOK
  BY AccountType
<1>. QED
  BY <1>1, <1>2, <1>3, Inductive, FlowHolds, PTL DEF Spec

=============================================================================
