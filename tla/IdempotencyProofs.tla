-------------------------- MODULE IdempotencyProofs --------------------------
(***************************************************************************)
(* Theorems about Idempotency, for any requests, payloads and processes.    *)
(***************************************************************************)
EXTENDS Idempotency, TLAPS, FiniteSetTheorems

(* A record names a committed link; a request that has not inserted is not   *)
(* among the links nor excused.                                              *)
LinkInv ==
    /\ record # NoRequest => record \in links
    /\ \A r \in Request :
          /\ At(r, "store") => r \in links
          /\ request[r].pc \in {"idle", "check", "checkLock", "acquire", "create"}
                => r \notin links
          /\ request[r].pc \in {"idle", "check", "checkLock", "acquire"}
                => r \notin excused
          /\ At(r, "abort") /\ r \in links => r \in excused

(* A retry stays one only as long as the record stands, and passes the       *)
(* look-up only blindly.                                                     *)
RetryInv ==
    \A r \in Request : request[r].retry =>
        /\ record # NoRequest
        /\ request[r].pc \in {"acquire"} \cup Working => request[r].blind
        /\ request[r].pc # "checkLock"
        /\ r \in links => request[r].blind

One(b) == IF b THEN 1 ELSE 0

(* The lock in Redis pays for one worker, each end of a TTL and each request *)
(* without the lock for one more.                                            *)
WorkersInv ==
    Cardinality(Workers) <= One(lock # NoRequest) + expirations + Cardinality(excused)

(* A link that nothing excuses has left a record that stands. *)
RecordInv ==
    ~lapsed => \A r \in links \ excused : ~At(r, "store") => record # NoRequest

(* Those that have created or may create, against what may let them in: an   *)
(* excused request pays when it has gone, by releasing what is not its own.  *)
Counted == (Workers \cup links) \ excused
Gone == excused \ Workers

LinksInv ==
    ~lapsed => Cardinality(Counted)
                  <= One(lock # NoRequest \/ record # NoRequest)
                     + expirations + Cardinality(Gone)
-----------------------------------------------------------------------------
LEMMA PcsAre ==
  Pcs = {"idle", "check", "checkLock", "acquire", "create", "store", "release",
         "abort", "created", "failed", "replayed", "conflict", "busy"}
  BY DEF Pcs, Working, Final

LEMMA InitType == Init => TypeOK
<1>. SUFFICES ASSUME Init
              PROVE  TypeOK
  OBVIOUS
<1>1. NotBegun \in [pc: Pcs, got: MaybeRequest, retry: BOOLEAN, blind: BOOLEAN]
  <2>1. "idle" \in Pcs /\ NoRequest \in MaybeRequest
    BY PcsAre DEF MaybeRequest
  <2>2. \A b \in BOOLEAN :
          [pc |-> "idle", got |-> NoRequest, retry |-> b, blind |-> b]
            \in [pc: Pcs, got: MaybeRequest, retry: BOOLEAN, blind: BOOLEAN]
    BY <2>1
  <2>. QED
    BY <2>2, Zenon DEF NotBegun
<1>2. 0 \in 0..MaxFaults /\ 0 \in Nat
  BY RequestAssumption
<1>. QED
  BY <1>1, <1>2, Zenon DEF Init, TypeOK, MaybeRequest

LEMMA NextType == TypeOK /\ [Next]_vars => TypeOK'
<1>. SUFFICES ASSUME TypeOK, [Next]_vars
              PROVE  TypeOK'
  OBVIOUS
<1>. USE RequestAssumption, PcsAre
<1>2. CASE \E r \in Request : Begin(r)
  <2>1. PICK r \in Request : Begin(r)
    BY <1>2
  <2>2. PICK b \in BOOLEAN :
          request' = [request EXCEPT ![r].pc = "check", ![r].retry = b]
    BY <2>1 DEF Begin
  <2>3. request' \in [Request -> [pc: Pcs, got: MaybeRequest,
                                 retry: BOOLEAN, blind: BOOLEAN]]
    <3>1. [request[r] EXCEPT !.pc = "check", !.retry = b]
            \in [pc: Pcs, got: MaybeRequest, retry: BOOLEAN, blind: BOOLEAN]
      BY DEF TypeOK
    <3>2. request' = [request EXCEPT ![r] = [request[r] EXCEPT !.pc = "check", !.retry = b]]
      BY <2>2, Zenon DEF TypeOK
    <3>. QED
      BY <3>1, <3>2 DEF TypeOK
  <2>. QED
    BY <2>1, <2>3 DEF Begin, redisVars, history, TypeOK
<1>3. CASE \E r \in Request : CheckRecord(r)
  BY <1>3 DEF CheckRecord, Replay, At, Move, OpensGate, ClosesGate, redisVars, history, TypeOK, MaybeRequest
<1>4. CASE \E r \in Request : CheckLock(r)
  BY <1>4 DEF CheckLock, At, Move, OpensGate, ClosesGate, redisVars, history, TypeOK, MaybeRequest
<1>5. CASE \E r \in Request : AcquireLock(r)
  BY <1>5 DEF AcquireLock, At, Move, OpensGate, ClosesGate, redisVars, history, TypeOK, MaybeRequest
<1>6. CASE \E r \in Request : CreateLink(r)
  BY <1>6 DEF CreateLink, At, Move, OpensGate, ClosesGate, redisVars, history, TypeOK, MaybeRequest
<1>7. CASE \E r \in Request : StoreRecord(r)
  BY <1>7 DEF StoreRecord, At, Move, OpensGate, ClosesGate, redisVars, history, TypeOK, MaybeRequest
<1>8. CASE \E r \in Request : ReleaseLock(r)
  BY <1>8 DEF ReleaseLock, Answered, At, Move, OpensGate, ClosesGate, redisVars, history, TypeOK, MaybeRequest
<1>9. CASE \E r \in Request : SkipRedis(r)
  BY <1>9 DEF SkipRedis, Answered, At, Move, OpensGate, ClosesGate, redisVars, history, TypeOK, MaybeRequest
<1>10. CASE \E r \in Request : RedisFails(r)
  BY <1>10 DEF RedisFails, Answered, Fault, At, Move, OpensGate, ClosesGate, redisVars, history, TypeOK, MaybeRequest
<1>11. CASE \E r \in Request : CreateLost(r)
  BY <1>11 DEF CreateLost, Fault, At, Move, OpensGate, ClosesGate, redisVars, history, TypeOK, MaybeRequest
<1>12. CASE \E p \in Process : Crash(p)
  BY <1>12 DEF Crash, Fault, At, Move, OpensGate, ClosesGate, redisVars, history, TypeOK, MaybeRequest
<1>13. CASE \E p \in Process : Reopen(p)
  BY <1>13 DEF Reopen, At, Move, OpensGate, ClosesGate, redisVars, history, TypeOK, MaybeRequest
<1>14. CASE ExpireLock
  BY <1>14 DEF ExpireLock, At, Move, OpensGate, ClosesGate, redisVars, history, TypeOK, MaybeRequest
<1>15. CASE ExpireRecord
  BY <1>15, ZenonT(40) DEF ExpireRecord, At, Move, OpensGate, ClosesGate, redisVars, history, TypeOK, MaybeRequest
<1>16. CASE UNCHANGED vars
  BY <1>16 DEF vars, history, At, Move, OpensGate, ClosesGate, redisVars, history, TypeOK, MaybeRequest
<1>. QED
  BY <1>2, <1>3, <1>4, <1>5, <1>6, <1>7, <1>8, <1>9, <1>10, <1>11, <1>12, <1>13, <1>14, <1>15, <1>16 DEF Next, Step

(* Every variable keeps its type (TypeOK). *)
THEOREM TypeCorrect == Spec => []TypeOK
  BY InitType, NextType, PTL DEF Spec

LEMMA LinkKept ==
  ASSUME TypeOK, LinkInv, [Next]_vars
  PROVE  LinkInv'
<1>. USE RequestAssumption
<1>1. CASE \E r \in Request : Begin(r)
  BY <1>1 DEF Begin, LinkInv, TypeOK, MaybeRequest, At, Move, redisVars, history
<1>2. CASE \E r \in Request : CheckRecord(r)
  BY <1>2 DEF CheckRecord, Replay, LinkInv, TypeOK, MaybeRequest, At, Move, redisVars, history
<1>3. CASE \E r \in Request : CheckLock(r)
  BY <1>3 DEF CheckLock, LinkInv, TypeOK, MaybeRequest, At, Move, redisVars, history
<1>4. CASE \E r \in Request : AcquireLock(r)
  BY <1>4 DEF AcquireLock, LinkInv, TypeOK, MaybeRequest, At, Move, redisVars, history
<1>5. CASE \E r \in Request : CreateLink(r)
  BY <1>5 DEF CreateLink, LinkInv, TypeOK, MaybeRequest, At, Move, redisVars, history
<1>6. CASE \E r \in Request : StoreRecord(r)
  BY <1>6 DEF StoreRecord, LinkInv, TypeOK, MaybeRequest, At, Move, redisVars, history
<1>7. CASE \E r \in Request : ReleaseLock(r)
  BY <1>7 DEF ReleaseLock, Answered, LinkInv, TypeOK, MaybeRequest, At, Move, redisVars, history
<1>8. CASE \E r \in Request : SkipRedis(r)
  BY <1>8 DEF SkipRedis, Answered, LinkInv, TypeOK, MaybeRequest, At, Move, redisVars, history
<1>9. CASE \E r \in Request : RedisFails(r)
  BY <1>9 DEF RedisFails, Answered, LinkInv, TypeOK, MaybeRequest, At, Move, redisVars, history
<1>10. CASE \E r \in Request : CreateLost(r)
  BY <1>10 DEF CreateLost, LinkInv, TypeOK, MaybeRequest, At, Move, redisVars, history
<1>11. CASE \E p \in Process : Crash(p)
  BY <1>11 DEF Crash, Final, Working, LinkInv, TypeOK, MaybeRequest, At, Move, redisVars, history
<1>12. CASE \E p \in Process : Reopen(p)
  BY <1>12 DEF Reopen, LinkInv, TypeOK, MaybeRequest, At, Move, redisVars, history
<1>13. CASE ExpireLock
  BY <1>13 DEF ExpireLock, LinkInv, TypeOK, MaybeRequest, At, Move, redisVars, history
<1>14. CASE ExpireRecord
  BY <1>14 DEF ExpireRecord, LinkInv, TypeOK, MaybeRequest, At, Move, redisVars, history
<1>15. CASE UNCHANGED vars
  BY <1>15 DEF vars, history, LinkInv, TypeOK, MaybeRequest, At, Move, redisVars, history
<1>. QED
  BY <1>1, <1>2, <1>3, <1>4, <1>5, <1>6, <1>7, <1>8, <1>9, <1>10, <1>11, <1>12, <1>13, <1>14, <1>15 DEF Next, Step

LEMMA RetryKept ==
  ASSUME TypeOK, LinkInv, RetryInv, [Next]_vars
  PROVE  RetryInv'
<1>. USE RequestAssumption DEF Working
<1>1. CASE \E r \in Request : Begin(r)
  BY <1>1 DEF Begin, LinkInv, RetryInv, TypeOK, MaybeRequest, At, Move, redisVars, history
<1>2. CASE \E r \in Request : CheckRecord(r)
  <2>1. PICK r \in Request : CheckRecord(r)
    BY <1>2
  <2>2. CASE record = NoRequest
    BY <2>1, <2>2 DEF CheckRecord, Replay, RetryInv, TypeOK, Move, redisVars
  <2>3. CASE record # NoRequest
    <3>1. /\ request'[r].pc \in {"replayed", "conflict", "failed"}
          /\ request'[r].retry = request[r].retry
          /\ request'[r].blind = request[r].blind
          /\ \A q \in Request \ {r} : request'[q] = request[q]
      BY <2>1, <2>3 DEF CheckRecord, Replay, TypeOK, Move
    <3>2. r \notin links
      BY <2>1 DEF CheckRecord, Replay, At, LinkInv
    <3>. QED
      BY <2>1, <2>3, <3>1, <3>2 DEF CheckRecord, Replay, RetryInv, TypeOK, redisVars
  <2>. QED
    BY <2>2, <2>3
<1>3. CASE \E r \in Request : CheckLock(r)
  BY <1>3 DEF CheckLock, LinkInv, RetryInv, TypeOK, MaybeRequest, At, Move, redisVars, history
<1>4. CASE \E r \in Request : AcquireLock(r)
  BY <1>4 DEF AcquireLock, LinkInv, RetryInv, TypeOK, MaybeRequest, At, Move, redisVars, history
<1>5. CASE \E r \in Request : CreateLink(r)
  BY <1>5 DEF CreateLink, LinkInv, RetryInv, TypeOK, MaybeRequest, At, Move, redisVars, history
<1>6. CASE \E r \in Request : StoreRecord(r)
  BY <1>6 DEF StoreRecord, LinkInv, RetryInv, TypeOK, MaybeRequest, At, Move, redisVars, history
<1>7. CASE \E r \in Request : ReleaseLock(r)
  BY <1>7 DEF ReleaseLock, Answered, LinkInv, RetryInv, TypeOK, MaybeRequest, At, Move, redisVars, history
<1>8. CASE \E r \in Request : SkipRedis(r)
  BY <1>8 DEF SkipRedis, Answered, LinkInv, RetryInv, TypeOK, MaybeRequest, At, Move, redisVars, history
<1>9. CASE \E r \in Request : RedisFails(r)
  BY <1>9 DEF RedisFails, Answered, LinkInv, RetryInv, TypeOK, MaybeRequest, At, Move, redisVars, history
<1>10. CASE \E r \in Request : CreateLost(r)
  BY <1>10 DEF CreateLost, LinkInv, RetryInv, TypeOK, MaybeRequest, At, Move, redisVars, history
<1>11. CASE \E p \in Process : Crash(p)
  BY <1>11 DEF Crash, Final, Working, LinkInv, RetryInv, TypeOK, MaybeRequest, At, Move, redisVars, history
<1>12. CASE \E p \in Process : Reopen(p)
  BY <1>12 DEF Reopen, LinkInv, RetryInv, TypeOK, MaybeRequest, At, Move, redisVars, history
<1>13. CASE ExpireLock
  BY <1>13 DEF ExpireLock, LinkInv, RetryInv, TypeOK, MaybeRequest, At, Move, redisVars, history
<1>14. CASE ExpireRecord
  BY <1>14 DEF ExpireRecord, LinkInv, RetryInv, TypeOK, MaybeRequest, At, Move, redisVars, history
<1>15. CASE UNCHANGED vars
  BY <1>15 DEF vars, history, LinkInv, RetryInv, TypeOK, MaybeRequest, At, Move, redisVars, history
<1>. QED
  BY <1>1, <1>2, <1>3, <1>4, <1>5, <1>6, <1>7, <1>8, <1>9, <1>10, <1>11, <1>12, <1>13, <1>14, <1>15 DEF Next, Step

LEMMA ReplayKept ==
  ASSUME TypeOK, LinkInv, ReplayIsFaithful, [Next]_vars
  PROVE  ReplayIsFaithful'
<1>. USE RequestAssumption
<1>1. CASE \E r \in Request : Begin(r)
  BY <1>1 DEF Begin, LinkInv, ReplayIsFaithful, TypeOK, MaybeRequest, At, Move, redisVars, history
<1>2. CASE \E r \in Request : CheckRecord(r)
  BY <1>2 DEF CheckRecord, Replay, LinkInv, ReplayIsFaithful, TypeOK, MaybeRequest, At, Move, redisVars, history
<1>3. CASE \E r \in Request : CheckLock(r)
  BY <1>3 DEF CheckLock, LinkInv, ReplayIsFaithful, TypeOK, MaybeRequest, At, Move, redisVars, history
<1>4. CASE \E r \in Request : AcquireLock(r)
  BY <1>4 DEF AcquireLock, LinkInv, ReplayIsFaithful, TypeOK, MaybeRequest, At, Move, redisVars, history
<1>5. CASE \E r \in Request : CreateLink(r)
  BY <1>5 DEF CreateLink, LinkInv, ReplayIsFaithful, TypeOK, MaybeRequest, At, Move, redisVars, history
<1>6. CASE \E r \in Request : StoreRecord(r)
  BY <1>6 DEF StoreRecord, LinkInv, ReplayIsFaithful, TypeOK, MaybeRequest, At, Move, redisVars, history
<1>7. CASE \E r \in Request : ReleaseLock(r)
  BY <1>7 DEF ReleaseLock, Answered, LinkInv, ReplayIsFaithful, TypeOK, MaybeRequest, At, Move, redisVars, history
<1>8. CASE \E r \in Request : SkipRedis(r)
  BY <1>8 DEF SkipRedis, Answered, LinkInv, ReplayIsFaithful, TypeOK, MaybeRequest, At, Move, redisVars, history
<1>9. CASE \E r \in Request : RedisFails(r)
  BY <1>9 DEF RedisFails, Answered, LinkInv, ReplayIsFaithful, TypeOK, MaybeRequest, At, Move, redisVars, history
<1>10. CASE \E r \in Request : CreateLost(r)
  BY <1>10 DEF CreateLost, LinkInv, ReplayIsFaithful, TypeOK, MaybeRequest, At, Move, redisVars, history
<1>11. CASE \E p \in Process : Crash(p)
  BY <1>11 DEF Crash, Final, Working, LinkInv, ReplayIsFaithful, TypeOK, MaybeRequest, At, Move, redisVars, history
<1>12. CASE \E p \in Process : Reopen(p)
  BY <1>12 DEF Reopen, LinkInv, ReplayIsFaithful, TypeOK, MaybeRequest, At, Move, redisVars, history
<1>13. CASE ExpireLock
  BY <1>13 DEF ExpireLock, LinkInv, ReplayIsFaithful, TypeOK, MaybeRequest, At, Move, redisVars, history
<1>14. CASE ExpireRecord
  BY <1>14, SMTT(40) DEF ExpireRecord, LinkInv, ReplayIsFaithful, TypeOK, MaybeRequest, At, Move, redisVars, history
<1>15. CASE UNCHANGED vars
  BY <1>15 DEF vars, history, LinkInv, ReplayIsFaithful, TypeOK, MaybeRequest, At, Move, redisVars, history
<1>. QED
  BY <1>1, <1>2, <1>3, <1>4, <1>5, <1>6, <1>7, <1>8, <1>9, <1>10, <1>11, <1>12, <1>13, <1>14, <1>15 DEF Next, Step

-----------------------------------------------------------------------------
(* What a step does to the workers, the links and the excused.               *)

Quiet ==
    /\ Workers' \subseteq Workers
    /\ links' \subseteq links \cup Workers
    /\ excused \subseteq excused'
    /\ lock' = lock \/ lock' # NoRequest
    /\ record' = record \/ record' # NoRequest \/ lapsed'
    /\ expirations' = expirations
    /\ lapsed => lapsed'

Enters(r) ==
    /\ r \notin Workers \cup links \cup excused
    /\ Workers' = Workers \cup {r}
    /\ UNCHANGED <<links, record, expirations, lapsed>>

EntersWithLock(r) ==
    /\ Enters(r)
    /\ lock = NoRequest /\ lock' # NoRequest
    /\ IF record = NoRequest THEN UNCHANGED excused ELSE excused' = excused \cup {r}

EntersWithoutLock(r) ==
    /\ Enters(r)
    /\ lock' = lock \/ lock' # NoRequest
    /\ excused' = excused \cup {r}

Leaves(r) ==
    /\ r \in Workers
    /\ ~At(r, "store")
    /\ Workers' = Workers \ {r}
    /\ UNCHANGED <<links, record, expirations, lapsed, excused>>

LockEnds ==
    /\ expirations' = expirations + 1
    /\ UNCHANGED <<Workers, links, record, lapsed, excused>>

Effect ==
    \/ Quiet
    \/ \E r \in Request : EntersWithLock(r) \/ EntersWithoutLock(r) \/ Leaves(r)
    \/ LockEnds

(* A request goes on in the way its new program counter says. *)
LEMMA WorkersAfter ==
  ASSUME TypeOK, NEW r \in Request,
         \A q \in Request \ {r} : request'[q].pc = request[q].pc
  PROVE  Workers' = IF request'[r].pc \in Working THEN Workers \cup {r}
                    ELSE Workers \ {r}
  BY DEF Workers

LEMMA MoveIs ==
  ASSUME TypeOK, NEW r \in Request, NEW pc, Move(r, pc)
  PROVE  /\ request'[r].pc = pc
         /\ \A q \in Request \ {r} : request'[q].pc = request[q].pc
  BY DEF Move, TypeOK

LEMMA StepEffect ==
  ASSUME TypeOK, LinkInv, [Next]_vars
  PROVE  Effect
<1>. USE RequestAssumption DEF At, Working, redisVars, history
<1>1. ASSUME NEW r \in Request, Begin(r) \/ CheckRecord(r) \/ CheckLock(r)
      PROVE  Effect
  <2>1. /\ request[r].pc \notin Working /\ request'[r].pc \notin Working
        /\ \A q \in Request \ {r} : request'[q].pc = request[q].pc
    BY <1>1 DEF Begin, CheckRecord, Replay, CheckLock, Move, TypeOK
  <2>2. Workers' = Workers
    BY <2>1 DEF Workers
  <2>. QED
    BY <1>1, <2>2 DEF Begin, CheckRecord, Replay, CheckLock, Effect, Quiet
<1>2. ASSUME NEW r \in Request, AcquireLock(r)
      PROVE  Effect
  <2>1. r \notin Workers \cup links \cup excused
    BY <1>2 DEF AcquireLock, LinkInv, Workers
  <2>2. CASE lock = NoRequest
    <3>1. Workers' = Workers \cup {r}
      BY <1>2, <2>2, MoveIs, WorkersAfter DEF AcquireLock
    <3>. QED
      BY <1>2, <2>1, <2>2, <3>1 DEF AcquireLock, Effect, EntersWithLock, Enters
  <2>3. CASE lock # NoRequest
    <3>1. Workers' = Workers \ {r}
      BY <1>2, <2>3, MoveIs, WorkersAfter DEF AcquireLock
    <3>. QED
      BY <1>2, <2>3, <3>1 DEF AcquireLock, Effect, Quiet
  <2>. QED
    BY <2>2, <2>3
<1>3. ASSUME NEW r \in Request, CreateLink(r) \/ StoreRecord(r) \/ CreateLost(r)
      PROVE  Effect
  <2>1. r \in Workers
    BY <1>3 DEF CreateLink, StoreRecord, CreateLost, Workers
  <2>2. Workers' = Workers \cup {r}
    BY <1>3, MoveIs, WorkersAfter DEF CreateLink, StoreRecord, CreateLost
  <2>. QED
    BY <1>3, <2>1, <2>2 DEF CreateLink, StoreRecord, CreateLost, Effect, Quiet
<1>4. ASSUME NEW r \in Request, ReleaseLock(r)
      PROVE  Effect
  <2>1. Workers' = Workers \ {r}
    BY <1>4, MoveIs, WorkersAfter DEF ReleaseLock, Answered
  <2>. QED
    BY <1>4, <2>1 DEF ReleaseLock, Workers, Effect, Leaves
<1>5. ASSUME NEW r \in Request, SkipRedis(r) \/ RedisFails(r)
      PROVE  Effect
  <2>1. CASE request[r].pc \in {"check", "checkLock"}
    <3>1. /\ request'[r].pc \notin Working
          /\ \A q \in Request \ {r} : request'[q].pc = request[q].pc
      BY <1>5, <2>1 DEF SkipRedis, RedisFails, TypeOK
    <3>2. Workers' = Workers
      BY <2>1, <3>1 DEF Workers
    <3>. QED
      BY <1>5, <2>1, <3>2 DEF SkipRedis, RedisFails, Effect, Quiet
  <2>2. CASE At(r, "acquire")
    <3>1. r \notin Workers \cup links \cup excused
      BY <2>2 DEF LinkInv, Workers
    <3>2. Workers' = Workers \cup {r}
      BY <1>5, <2>2, MoveIs, WorkersAfter DEF SkipRedis, RedisFails
    <3>. QED
      BY <1>5, <2>2, <3>1, <3>2
         DEF SkipRedis, RedisFails, Effect, EntersWithoutLock, Enters
  <2>3. CASE At(r, "store")
    <3>1. Workers' = Workers \cup {r}
      BY <1>5, <2>3, MoveIs, WorkersAfter DEF SkipRedis, RedisFails
    <3>. QED
      BY <1>5, <2>3, <3>1 DEF SkipRedis, RedisFails, Workers, Effect, Quiet
  <2>4. CASE request[r].pc \in {"release", "abort"}
    <3>1. Workers' = Workers \ {r}
      BY <1>5, <2>4, MoveIs, WorkersAfter DEF SkipRedis, RedisFails, Answered
    <3>2. CASE lock' = lock
      BY <1>5, <2>4, <3>1, <3>2 DEF SkipRedis, RedisFails, Effect, Quiet
    <3>3. CASE lock' = NoRequest
      BY <1>5, <2>4, <3>1, <3>3 DEF SkipRedis, RedisFails, Workers, Effect, Leaves
    <3>. QED
      BY <1>5, <2>4, <3>2, <3>3 DEF SkipRedis, RedisFails
  <2>. QED
    BY <1>5, <2>1, <2>2, <2>3, <2>4 DEF SkipRedis, RedisFails
<1>6. ASSUME NEW p \in Process, Crash(p)
      PROVE  Effect
  <2>1. \A q \in Request : request'[q].pc \in {request[q].pc, "failed"}
    BY <1>6 DEF Crash, TypeOK
  <2>2. Workers' \subseteq Workers
    BY <2>1 DEF Workers
  <2>. QED
    BY <1>6, <2>2 DEF Crash, Effect, Quiet
<1>7. CASE (\E p \in Process : Reopen(p)) \/ UNCHANGED vars
  BY <1>7 DEF Reopen, vars, Workers, Effect, Quiet
<1>8. CASE ExpireLock
  BY <1>8 DEF ExpireLock, Workers, Effect, LockEnds
<1>9. CASE ExpireRecord
  <2>1. \A q \in Request : request'[q].pc = request[q].pc
    BY <1>9 DEF ExpireRecord, TypeOK
  <2>2. Workers' = Workers
    BY <2>1 DEF Workers
  <2>. QED
    BY <1>9, <2>2 DEF ExpireRecord, Effect, Quiet
<1>. QED
  BY <1>1, <1>2, <1>3, <1>4, <1>5, <1>6, <1>7, <1>8, <1>9 DEF Next, Step

-----------------------------------------------------------------------------
(* The two counting invariants. *)

LEMMA Finite ==
  ASSUME TypeOK, NEW S \in SUBSET Request
  PROVE  IsFiniteSet(S) /\ Cardinality(S) \in Nat
  BY RequestAssumption, FS_Subset, FS_CardinalityType

LEMMA Monotone ==
  ASSUME TypeOK, NEW S \in SUBSET Request, NEW T \in SUBSET S
  PROVE  Cardinality(T) <= Cardinality(S)
  BY Finite, FS_Subset

LEMMA OneMore ==
  ASSUME TypeOK, NEW S \in SUBSET Request, NEW r \in Request
  PROVE  Cardinality(S \cup {r}) =
           IF r \in S THEN Cardinality(S) ELSE Cardinality(S) + 1
  BY Finite, FS_AddElement

LEMMA OneLess ==
  ASSUME TypeOK, NEW S \in SUBSET Request, NEW r \in Request
  PROVE  Cardinality(S \ {r}) =
           IF r \in S THEN Cardinality(S) - 1 ELSE Cardinality(S)
  BY Finite, FS_RemoveElement

LEMMA WorkersKept ==
  ASSUME TypeOK, TypeOK', WorkersInv, Effect
  PROVE  WorkersInv'
<1>1. /\ Workers \in SUBSET Request /\ Workers' \in SUBSET Request
      /\ excused \in SUBSET Request /\ excused' \in SUBSET Request
      /\ expirations \in Nat /\ expirations' \in Nat
  BY DEF Workers, TypeOK
<1>2. /\ Cardinality(Workers) \in Nat /\ Cardinality(Workers') \in Nat
      /\ Cardinality(excused) \in Nat /\ Cardinality(excused') \in Nat
  BY <1>1, Finite
<1>3. CASE Quiet
  <2>1. /\ Cardinality(Workers') <= Cardinality(Workers)
        /\ Cardinality(excused) <= Cardinality(excused')
    BY <1>1, <1>3, Monotone DEF Quiet
  <2>. QED
    BY <1>1, <1>2, <1>3, <2>1 DEF Quiet, WorkersInv, One
<1>4. ASSUME NEW r \in Request, EntersWithLock(r)
      PROVE  WorkersInv'
  <2>1. Cardinality(Workers') = Cardinality(Workers) + 1
    BY <1>1, <1>4, OneMore DEF EntersWithLock, Enters
  <2>2. Cardinality(excused) <= Cardinality(excused')
    BY <1>1, <1>4, Monotone DEF EntersWithLock
  <2>. QED
    BY <1>1, <1>2, <1>4, <2>1, <2>2 DEF EntersWithLock, Enters, WorkersInv, One
<1>5. ASSUME NEW r \in Request, EntersWithoutLock(r)
      PROVE  WorkersInv'
  <2>1. /\ Cardinality(Workers') = Cardinality(Workers) + 1
        /\ Cardinality(excused') = Cardinality(excused) + 1
    BY <1>1, <1>5, OneMore DEF EntersWithoutLock, Enters
  <2>. QED
    BY <1>1, <1>2, <1>5, <2>1 DEF EntersWithoutLock, Enters, WorkersInv, One
<1>6. ASSUME NEW r \in Request, Leaves(r)
      PROVE  WorkersInv'
  <2>1. Cardinality(Workers') = Cardinality(Workers) - 1
    BY <1>1, <1>6, OneLess DEF Leaves
  <2>. QED
    BY <1>1, <1>2, <1>6, <2>1 DEF Leaves, WorkersInv, One
<1>7. CASE LockEnds
  BY <1>1, <1>2, <1>7 DEF LockEnds, WorkersInv, One
<1>. QED
  BY <1>3, <1>4, <1>5, <1>6, <1>7 DEF Effect

LEMMA RecordKept ==
  ASSUME TypeOK, LinkInv, RecordInv, [Next]_vars
  PROVE  RecordInv'
<1>. USE RequestAssumption
<1>1. CASE \E r \in Request : Begin(r)
  BY <1>1 DEF Begin, LinkInv, RecordInv, TypeOK, MaybeRequest, At, Move, redisVars, history
<1>2. CASE \E r \in Request : CheckRecord(r)
  BY <1>2 DEF CheckRecord, Replay, LinkInv, RecordInv, TypeOK, MaybeRequest, At, Move, redisVars, history
<1>3. CASE \E r \in Request : CheckLock(r)
  BY <1>3 DEF CheckLock, LinkInv, RecordInv, TypeOK, MaybeRequest, At, Move, redisVars, history
<1>4. CASE \E r \in Request : AcquireLock(r)
  BY <1>4 DEF AcquireLock, LinkInv, RecordInv, TypeOK, MaybeRequest, At, Move, redisVars, history
<1>5. CASE \E r \in Request : CreateLink(r)
  BY <1>5 DEF CreateLink, LinkInv, RecordInv, TypeOK, MaybeRequest, At, Move, redisVars, history
<1>6. CASE \E r \in Request : StoreRecord(r)
  BY <1>6 DEF StoreRecord, LinkInv, RecordInv, TypeOK, MaybeRequest, At, Move, redisVars, history
<1>7. CASE \E r \in Request : ReleaseLock(r)
  BY <1>7 DEF ReleaseLock, Answered, LinkInv, RecordInv, TypeOK, MaybeRequest, At, Move, redisVars, history
<1>8. CASE \E r \in Request : SkipRedis(r)
  BY <1>8 DEF SkipRedis, Answered, LinkInv, RecordInv, TypeOK, MaybeRequest, At, Move, redisVars, history
<1>9. CASE \E r \in Request : RedisFails(r)
  BY <1>9 DEF RedisFails, Answered, LinkInv, RecordInv, TypeOK, MaybeRequest, At, Move, redisVars, history
<1>10. CASE \E r \in Request : CreateLost(r)
  BY <1>10 DEF CreateLost, LinkInv, RecordInv, TypeOK, MaybeRequest, At, Move, redisVars, history
<1>11. CASE \E p \in Process : Crash(p)
  BY <1>11 DEF Crash, Final, Working, LinkInv, RecordInv, TypeOK, MaybeRequest, At, Move, redisVars, history
<1>12. CASE \E p \in Process : Reopen(p)
  BY <1>12 DEF Reopen, LinkInv, RecordInv, TypeOK, MaybeRequest, At, Move, redisVars, history
<1>13. CASE ExpireLock
  BY <1>13 DEF ExpireLock, LinkInv, RecordInv, TypeOK, MaybeRequest, At, Move, redisVars, history
<1>14. CASE ExpireRecord
  BY <1>14 DEF ExpireRecord, LinkInv, RecordInv, TypeOK, MaybeRequest, At, Move, redisVars, history
<1>15. CASE UNCHANGED vars
  BY <1>15 DEF vars, history, LinkInv, RecordInv, TypeOK, MaybeRequest, At, Move, redisVars, history
<1>. QED
  BY <1>1, <1>2, <1>3, <1>4, <1>5, <1>6, <1>7, <1>8, <1>9, <1>10, <1>11, <1>12, <1>13, <1>14, <1>15 DEF Next, Step

LEMMA LinksKept ==
  ASSUME TypeOK, TypeOK', RecordInv, LinksInv, Effect
  PROVE  LinksInv'
<1>. SUFFICES ASSUME ~lapsed'
              PROVE  Cardinality(Counted')
                       <= One(lock' # NoRequest \/ record' # NoRequest)
                          + expirations' + Cardinality(Gone')
  BY DEF LinksInv
<1>1. /\ Counted \in SUBSET Request /\ Counted' \in SUBSET Request
      /\ Gone \in SUBSET Request /\ Gone' \in SUBSET Request
      /\ expirations \in Nat /\ expirations' \in Nat
  BY DEF Counted, Gone, Workers, TypeOK
<1>2. /\ Cardinality(Counted) \in Nat /\ Cardinality(Counted') \in Nat
      /\ Cardinality(Gone) \in Nat /\ Cardinality(Gone') \in Nat
  BY <1>1, Finite
<1>3. ~lapsed
  BY DEF Effect, Quiet, EntersWithLock, EntersWithoutLock, Enters, Leaves, LockEnds
<1>4. Cardinality(Counted) <= One(lock # NoRequest \/ record # NoRequest)
                                + expirations + Cardinality(Gone)
  BY <1>3 DEF LinksInv
<1>5. CASE Quiet
  <2>1. Counted' \subseteq Counted /\ Gone \subseteq Gone'
    BY <1>5 DEF Quiet, Counted, Gone
  <2>2. /\ Cardinality(Counted') <= Cardinality(Counted)
        /\ Cardinality(Gone) <= Cardinality(Gone')
    BY <1>1, <2>1, Monotone
  <2>. QED
    BY <1>1, <1>2, <1>4, <1>5, <2>2 DEF Quiet, One
<1>6. ASSUME NEW r \in Request, EntersWithLock(r)
      PROVE  Cardinality(Counted')
               <= One(lock' # NoRequest \/ record' # NoRequest)
                  + expirations' + Cardinality(Gone')
  <2>1. Gone' = Gone
    BY <1>6 DEF EntersWithLock, Enters, Gone
  <2>2. CASE record = NoRequest
    <3>1. Counted' = Counted \cup {r} /\ r \notin Counted
      BY <1>6, <2>2 DEF EntersWithLock, Enters, Counted
    <3>2. Cardinality(Counted') = Cardinality(Counted) + 1
      BY <1>1, <3>1, OneMore
    <3>. QED
      BY <1>1, <1>2, <1>4, <1>6, <2>1, <2>2, <3>2 DEF EntersWithLock, Enters, One
  <2>3. CASE record # NoRequest
    <3>1. Counted' = Counted
      BY <1>6, <2>3 DEF EntersWithLock, Enters, Counted
    <3>. QED
      BY <1>1, <1>2, <1>4, <1>6, <2>1, <2>3, <3>1 DEF EntersWithLock, Enters, One
  <2>. QED
    BY <2>2, <2>3
<1>7. ASSUME NEW r \in Request, EntersWithoutLock(r)
      PROVE  Cardinality(Counted')
               <= One(lock' # NoRequest \/ record' # NoRequest)
                  + expirations' + Cardinality(Gone')
  <2>1. Counted' = Counted /\ Gone' = Gone
    BY <1>7 DEF EntersWithoutLock, Enters, Counted, Gone
  <2>. QED
    BY <1>1, <1>2, <1>4, <1>7, <2>1 DEF EntersWithoutLock, Enters, One
<1>8. ASSUME NEW r \in Request, Leaves(r)
      PROVE  Cardinality(Counted')
               <= One(lock' # NoRequest \/ record' # NoRequest)
                  + expirations' + Cardinality(Gone')
  <2>1. CASE r \in excused
    <3>1. Counted' = Counted /\ Gone' = Gone \cup {r} /\ r \notin Gone
      BY <1>8, <2>1 DEF Leaves, Counted, Gone
    <3>2. Cardinality(Gone') = Cardinality(Gone) + 1
      BY <1>1, <3>1, OneMore
    <3>. QED
      BY <1>1, <1>2, <1>4, <1>8, <3>1, <3>2 DEF Leaves, One
  <2>2. CASE r \notin excused /\ r \in links
    <3>1. Counted' = Counted /\ Gone' = Gone
      BY <1>8, <2>2 DEF Leaves, Counted, Gone
    <3>2. record # NoRequest
      BY <1>3, <1>8, <2>2 DEF Leaves, RecordInv
    <3>. QED
      BY <1>1, <1>2, <1>4, <1>8, <3>1, <3>2 DEF Leaves, One
  <2>3. CASE r \notin excused /\ r \notin links
    <3>1. Counted' = Counted \ {r} /\ r \in Counted /\ Gone' = Gone
      BY <1>8, <2>3 DEF Leaves, Counted, Gone
    <3>2. Cardinality(Counted') = Cardinality(Counted) - 1
      BY <1>1, <3>1, OneLess
    <3>. QED
      BY <1>1, <1>2, <1>4, <1>8, <3>1, <3>2 DEF Leaves, One
  <2>. QED
    BY <2>1, <2>2, <2>3
<1>9. CASE LockEnds
  <2>1. Counted' = Counted /\ Gone' = Gone
    BY <1>9 DEF LockEnds, Counted, Gone
  <2>. QED
    BY <1>1, <1>2, <1>4, <1>9, <2>1 DEF LockEnds, One
<1>. QED
  BY <1>5, <1>6, <1>7, <1>8, <1>9 DEF Effect

-----------------------------------------------------------------------------
IInv == LinkInv /\ RetryInv /\ ReplayIsFaithful /\ WorkersInv /\ RecordInv /\ LinksInv

LEMMA InitInv == Init => IInv
<1>. SUFFICES ASSUME Init
              PROVE  IInv
  OBVIOUS
<1>1. \A r \in Request : request[r].pc = "idle" /\ ~request[r].retry
  BY DEF Init, NotBegun
<1>2. Workers = {}
  BY <1>1 DEF Workers, Working
<1>3. Counted = {} /\ Gone = {}
  BY <1>2 DEF Init, Counted, Gone
<1>4. LinkInv /\ RetryInv /\ ReplayIsFaithful /\ RecordInv
  BY <1>1 DEF Init, LinkInv, RetryInv, ReplayIsFaithful, RecordInv, At
<1>5. WorkersInv /\ LinksInv
  BY <1>2, <1>3, FS_EmptySet DEF Init, WorkersInv, LinksInv, One
<1>. QED
  BY <1>4, <1>5 DEF IInv

LEMMA StepInv == TypeOK /\ IInv /\ [Next]_vars => IInv'
<1>. SUFFICES ASSUME TypeOK, IInv, [Next]_vars
              PROVE  IInv'
  OBVIOUS
<1>1. TypeOK' /\ Effect
  BY NextType, StepEffect DEF IInv
<1>. QED
  BY <1>1, LinkKept, RetryKept, ReplayKept, WorkersKept, RecordKept, LinksKept DEF IInv

(* Both invariants together are inductive. *)
THEOREM InvHolds == Spec => [](TypeOK /\ IInv)
<1>1. Init => TypeOK /\ IInv
  BY InitType, InitInv
<1>2. TypeOK /\ IInv /\ [Next]_vars => (TypeOK /\ IInv)'
  BY NextType, StepInv
<1>. QED
  BY <1>1, <1>2, PTL DEF Spec

(* A replay answers with a committed link of the same payload. *)
THEOREM ReplayTheorem == Spec => []ReplayIsFaithful
<1>1. IInv => ReplayIsFaithful
  BY DEF IInv
<1>. QED
  BY <1>1, InvHolds, PTL

(* A retry that begins while the record stands creates nothing (RetryIsSafe). *)
THEOREM RetryTheorem == Spec => []RetryIsSafe
<1>1. IInv => RetryIsSafe
  BY DEF IInv, RetryInv, RetryIsSafe
<1>. QED
  BY <1>1, InvHolds, PTL

(* The bound on the requests at work under one key. *)
THEOREM WorkersTheorem == Spec => []WorkersBounded
<1>1. TypeOK /\ IInv => WorkersBounded
  <2>. SUFFICES ASSUME TypeOK, IInv
                PROVE  WorkersBounded
    OBVIOUS
  <2>1. Workers \in SUBSET Request /\ excused \in SUBSET Request /\ expirations \in Nat
    BY DEF Workers, TypeOK
  <2>2. Cardinality(Workers) \in Nat /\ Cardinality(excused) \in Nat
    BY <2>1, Finite
  <2>. QED
    BY <2>1, <2>2 DEF IInv, WorkersInv, WorkersBounded, One
<1>. QED
  BY <1>1, InvHolds, PTL

(* Within the life of the record every further link has a cause. *)
THEOREM LinksTheorem == Spec => []LinksBounded
<1>1. TypeOK /\ IInv => LinksBounded
  <2>. SUFFICES ASSUME TypeOK, IInv, ~lapsed
                PROVE  Cardinality(links \ excused)
                         <= 1 + expirations + Cardinality(excused)
    BY DEF LinksBounded
  <2>1. /\ Counted \in SUBSET Request /\ links \ excused \in SUBSET Counted
        /\ excused \in SUBSET Request /\ Gone \in SUBSET excused
        /\ expirations \in Nat
    BY DEF Workers, Counted, Gone, TypeOK
  <2>2. /\ Cardinality(links \ excused) <= Cardinality(Counted)
        /\ Cardinality(Gone) <= Cardinality(excused)
    BY <2>1, Monotone
  <2>3. /\ Cardinality(links \ excused) \in Nat /\ Cardinality(Counted) \in Nat
        /\ Cardinality(Gone) \in Nat /\ Cardinality(excused) \in Nat
    BY <2>1, Finite
  <2>. QED
    BY <2>1, <2>2, <2>3 DEF IInv, LinksInv, One
<1>. QED
  BY <1>1, InvHolds, PTL
-----------------------------------------------------------------------------
(* What clients see (CreationApi). *)

(* Whoever holds the lock was let in, and so was whoever created a link.      *)
ApiInv ==
    /\ lock # NoRequest => lock \in Tried
    /\ links \subseteq Tried
    /\ \A r \in Request : At(r, "release") => r \in links

Answers == [r \in Request |-> Answer(r)]
Named == [r \in Request |-> request[r].got]
Outside == {"idle", "check", "checkLock", "acquire"}

(* One request goes from one program counter to another. *)
Goes(r, from, to) ==
    /\ request[r].pc = from
    /\ request'[r].pc = to
    /\ \A q \in Request \ {r} : request'[q].pc = request[q].pc
    /\ \A q \in Request : request'[q].got = request[q].got

LEMMA MoveGoes ==
  ASSUME TypeOK, NEW r \in Request, NEW to, Move(r, to)
  PROVE  Goes(r, request[r].pc, to)
BY DEF TypeOK, Move, Goes

LEMMA TriedAfter ==
  ASSUME TypeOK, NEW r \in Request,
         \A q \in Request \ {r} : request'[q].pc = request[q].pc
  PROVE  Tried' = IF request'[r].pc \in Working \cup {"created", "failed"}
                  THEN Tried \cup {r} ELSE Tried \ {r}
BY DEF Tried

LEMMA AnswersAfter ==
  ASSUME TypeOK, NEW r \in Request,
         \A q \in Request \ {r} : request'[q].pc = request[q].pc
  PROVE  Answers' = [Answers EXCEPT ![r] = Answer(r)']
<1>1. \A q \in Request : Answers'[q] = IF q = r THEN Answer(r)' ELSE Answers[q]
  BY DEF Answers, Answer
<1>. QED
  BY <1>1 DEF Answers

LEMMA Kinds ==
  /\ \A pc \in Pcs : pc \in Outside \/ pc \in Working \/ pc \in Final
  /\ \A pc \in Outside : pc \notin Working \cup Final
  /\ \A pc \in Working : pc \notin Final \cup Outside
  /\ "none" \notin Final
  /\ \A pc \in Final : pc \notin Working \cup Outside
BY DEF Pcs, Outside, Working, Final

(* A step from one kind of program counter to the same shows nothing. *)
LEMMA GoesUnseen ==
  ASSUME TypeOK, NEW r \in Request, NEW from, NEW to, Goes(r, from, to),
         (from \in Outside /\ to \in Outside) \/ (from \in Working /\ to \in Working)
  PROVE  UNCHANGED <<Tried, Answers, Named>>
<1>1. Tried' = Tried
  BY TriedAfter, Kinds DEF Goes, Tried, Outside
<1>2. \A q \in Request : Answer(q)' = Answer(q)
  BY Kinds DEF Goes, Answer
<1>3. Named' = Named
  BY DEF Goes, Named
<1>. QED
  BY <1>1, <1>2, <1>3 DEF Answers

LEMMA GoesIn ==
  ASSUME TypeOK, NEW r \in Request, NEW from \in Outside, NEW to \in Working,
         Goes(r, from, to), UNCHANGED links
  PROVE  Api!Try(r)
<1>1. Tried' = Tried \cup {r}
  BY TriedAfter DEF Goes
<1>2. \A q \in Request : Answer(q)' = Answer(q)
  BY Kinds DEF Goes, Answer
<1>3. Named' = Named
  BY DEF Goes, Named
<1>4. Answer(r) = "none"
  BY Kinds DEF Goes, Answer
<1>. QED
  BY <1>1, <1>2, <1>3, <1>4 DEF Api!Try, Api!Open, Named

LEMMA GoesCommitted ==
  ASSUME TypeOK, NEW r \in Request, NEW from \in Working, NEW to \in Working,
         Goes(r, from, to), links' = links \cup {r}
  PROVE  Api!Commit(r)
<1>1. UNCHANGED <<Tried, Answers, Named>>
  BY GoesUnseen
<1>2. Answer(r) = "none" /\ r \in Tried
  BY Kinds DEF Goes, Answer, Tried
<1>. QED
  BY <1>1, <1>2 DEF Api!Commit, Api!Open, Answers, Named

(* The answer of a request that was let in. *)
LEMMA GoesAnswered ==
  ASSUME TypeOK, NEW r \in Request, NEW from \in Working, NEW to \in {"created", "failed"},
         Goes(r, from, to), UNCHANGED links, to = "created" => r \in links
  PROVE  Api!Created(r) \/ Api!GiveUp({r})
<1>1. Tried' = Tried /\ r \in Tried
  BY TriedAfter DEF Goes, Tried
<1>2. Answers' = [Answers EXCEPT ![r] = to]
  BY AnswersAfter DEF Goes, Answer, Final
<1>3. Named' = Named
  BY DEF Goes, Named
<1>4. Answer(r) = "none"
  BY Kinds DEF Goes, Answer
<1>5. CASE to = "created"
  BY <1>1, <1>2, <1>3, <1>4, <1>5 DEF Api!Created, Api!Open, Api!AnswerIs, Answers, Named
<1>6. CASE to = "failed"
  <2>1. Answers' = [q \in Request |-> IF q \in {r} THEN "failed" ELSE Answers[q]]
    BY <1>2, <1>6 DEF Answers
  <2>. QED
    BY <1>1, <2>1, <1>3, <1>4 DEF Api!GiveUp, Api!Open, Answers, Named
<1>. QED
  BY <1>5, <1>6

(* A request that is turned away. *)
LEMMA GoesAway ==
  ASSUME TypeOK, NEW r \in Request, NEW from \in Outside,
         NEW to \in {"conflict", "busy", "replayed"},
         request[r].pc = from, request'[r].pc = to,
         \A q \in Request \ {r} : request'[q].pc = request[q].pc, UNCHANGED links
  PROVE  Api!TurnAway(r, to) /\ Tried' = Tried /\ r \notin Tried
<1>1. Tried' = Tried /\ r \notin Tried
  BY TriedAfter DEF Tried, Outside, Working
<1>2. Answers' = [Answers EXCEPT ![r] = to]
  BY AnswersAfter DEF Answer, Final
<1>3. Answer(r) = "none"
  BY Kinds DEF Answer
<1>. QED
  BY <1>1, <1>2, <1>3 DEF Api!TurnAway, Api!Open, Api!AnswerIs, Answers

(* A request whose answer is an error before it was let in. *)
LEMMA GoesLost ==
  ASSUME TypeOK, NEW r \in Request, NEW from \in Outside, Goes(r, from, "failed"),
         UNCHANGED links
  PROVE  Api!GiveUp({r})
<1>1. Tried' = Tried \cup {r}
  BY TriedAfter DEF Goes, Tried, Outside, Working
<1>2. Answers' = [Answers EXCEPT ![r] = "failed"]
  BY AnswersAfter DEF Goes, Answer, Final
<1>3. Named' = Named
  BY DEF Goes, Named
<1>4. Answer(r) = "none"
  BY Kinds DEF Goes, Answer
<1>5. Answers' = [q \in Request |-> IF q \in {r} THEN "failed" ELSE Answers[q]]
  BY <1>2 DEF Answers
<1>. QED
  BY <1>1, <1>3, <1>4, <1>5 DEF Api!GiveUp, Api!Open, Answers, Named

LEMMA CheckRecordMaps ==
  ASSUME TypeOK, LinkInv, ApiInv, NEW r \in Request, CheckRecord(r)
  PROVE  Api!Next \/ UNCHANGED Api!vars
<1>1. request[r].pc = "check" /\ UNCHANGED links
  BY DEF CheckRecord, Replay, At
<1>2. CASE record = NoRequest
  BY <1>1, <1>2, MoveGoes, GoesUnseen DEF CheckRecord, Replay, Outside, Api!vars, Answers, Named
<1>3. CASE record # NoRequest /\ PayloadOf[record] = PayloadOf[r]
  <2>1. CASE request' = [request EXCEPT ![r].pc = "replayed", ![r].got = record]
    <3>1. /\ request'[r].pc = "replayed" /\ request'[r].got = record
          /\ \A q \in Request \ {r} : request'[q] = request[q]
      BY <2>1 DEF TypeOK
    <3>2. Api!TurnAway(r, "replayed")
      BY <1>1, <3>1, GoesAway DEF Outside
    <3>3. Named' = [Named EXCEPT ![r] = record]
      BY <3>1 DEF Named
    <3>4. record \in links /\ record \in Request
      BY <1>3 DEF LinkInv, TypeOK
    <3>. QED
      BY <1>3, <3>2, <3>3, <3>4 DEF Api!Next, Api!Replay, Named
  <2>2. CASE Move(r, "failed")
    <3>1. Goes(r, "check", "failed")
      BY <1>1, <2>2, MoveGoes
    <3>2. Api!GiveUp({r})
      BY <1>1, <3>1, GoesLost DEF Outside
    <3>. QED
      BY <3>2 DEF Api!Next
  <2>. QED
    BY <1>3, <2>1, <2>2 DEF CheckRecord, Replay
<1>4. CASE record # NoRequest /\ PayloadOf[record] # PayloadOf[r]
  <2>1. Goes(r, "check", "conflict")
    BY <1>1, <1>4, MoveGoes DEF CheckRecord
  <2>2. Api!TurnAway(r, "conflict")
    BY <1>1, <2>1, GoesAway DEF Outside, Goes
  <2>3. Named' = Named
    BY <2>1 DEF Goes, Named
  <2>4. record \in Tried
    BY <1>4 DEF LinkInv, ApiInv
  <2>. QED
    BY <1>4, <2>2, <2>3, <2>4 DEF Api!Next, Api!Conflict, Named
<1>. QED
  BY <1>2, <1>3, <1>4

LEMMA CheckLockMaps ==
  ASSUME TypeOK, ApiInv, NEW r \in Request, CheckLock(r)
  PROVE  Api!Next \/ UNCHANGED Api!vars
<1>1. request[r].pc = "checkLock" /\ UNCHANGED links
  BY DEF CheckLock, At
<1>2. PICK to \in {"acquire", "busy", "conflict"} :
        /\ Goes(r, "checkLock", to)
        /\ to # "acquire" => lock # NoRequest
        /\ to = "conflict" => PayloadOf[lock] # PayloadOf[r]
  BY <1>1, MoveGoes DEF CheckLock
<1>3. CASE to = "acquire"
  BY <1>1, <1>2, <1>3, GoesUnseen DEF Outside, Api!vars, Answers, Named
<1>4. CASE to # "acquire"
  <2>1. Api!TurnAway(r, to)
    BY <1>1, <1>2, <1>4, GoesAway DEF Outside, Goes
  <2>2. Named' = Named
    BY <1>2 DEF Goes, Named
  <2>3. lock \in Tried
    BY <1>2, <1>4 DEF ApiInv
  <2>. QED
    BY <1>2, <1>4, <2>1, <2>2, <2>3 DEF Api!Next, Api!Conflict, Api!Busy, Named
<1>. QED
  BY <1>3, <1>4

LEMMA AcquireMaps ==
  ASSUME TypeOK, ApiInv, NEW r \in Request, AcquireLock(r)
  PROVE  Api!Next \/ UNCHANGED Api!vars
<1>1. request[r].pc = "acquire" /\ UNCHANGED links
  BY DEF AcquireLock, At
<1>2. CASE lock = NoRequest
  BY <1>1, <1>2, MoveGoes, GoesIn DEF AcquireLock, Outside, Working, Api!Next
<1>3. CASE lock # NoRequest
  <2>1. Goes(r, "acquire", "busy")
    BY <1>1, <1>3, MoveGoes DEF AcquireLock
  <2>2. Api!TurnAway(r, "busy")
    BY <1>1, <2>1, GoesAway DEF Outside, Goes
  <2>3. Named' = Named
    BY <2>1 DEF Goes, Named
  <2>. QED
    BY <1>3, <2>2, <2>3 DEF ApiInv, Api!Next, Api!Busy, Named
<1>. QED
  BY <1>2, <1>3

LEMMA WorkingMaps ==
  ASSUME TypeOK, ApiInv, NEW r \in Request,
         CreateLink(r) \/ StoreRecord(r) \/ ReleaseLock(r) \/ CreateLost(r)
  PROVE  Api!Next \/ UNCHANGED Api!vars
<1>1. CASE CreateLink(r)
  <2>1. PICK to \in {"store", "abort"} :
          /\ Goes(r, "create", to)
          /\ links' = links \cup {r} \/ links' = links
    BY <1>1, MoveGoes DEF CreateLink, At
  <2>2. CASE links' = links \cup {r}
    BY <2>1, <2>2, GoesCommitted DEF Working, Api!Next
  <2>3. CASE links' = links
    BY <2>1, <2>3, GoesUnseen DEF Working, Api!vars, Answers, Named
  <2>. QED
    BY <2>1, <2>2, <2>3
<1>2. CASE StoreRecord(r)
  BY <1>2, MoveGoes, GoesUnseen DEF StoreRecord, At, Working, Api!vars, Answers, Named
<1>3. CASE ReleaseLock(r)
  <2>1. request[r].pc \in {"release", "abort"} /\ links' = links
        /\ Goes(r, request[r].pc, Answered(r))
    BY <1>3, MoveGoes DEF ReleaseLock
  <2>2. Answered(r) \in {"created", "failed"} /\ (Answered(r) = "created" => r \in links)
    BY DEF Answered, ApiInv
  <2>. QED
    BY <2>1, <2>2, GoesAnswered DEF Working, Api!Next
<1>4. CASE CreateLost(r)
  BY <1>4, MoveGoes, GoesCommitted DEF CreateLost, At, Working, Api!Next
<1>. QED
  BY <1>1, <1>2, <1>3, <1>4

LEMMA DegradedMaps ==
  ASSUME TypeOK, ApiInv, NEW r \in Request, SkipRedis(r) \/ RedisFails(r)
  PROVE  Api!Next \/ UNCHANGED Api!vars
<1>1. UNCHANGED links
  BY DEF SkipRedis, RedisFails, redisVars
<1>2. CASE request[r].pc \in {"check", "checkLock"}
  <2>1. request' = [request EXCEPT ![r].pc = "acquire", ![r].blind = TRUE]
    BY <1>2 DEF SkipRedis, RedisFails, At
  <2>2. Goes(r, request[r].pc, "acquire")
    BY <2>1 DEF Goes, TypeOK
  <2>. QED
    BY <1>1, <1>2, <2>2, GoesUnseen DEF Outside, Api!vars, Answers, Named
<1>3. CASE At(r, "acquire")
  BY <1>1, <1>3, MoveGoes, GoesIn DEF SkipRedis, RedisFails, At, Outside, Working, Api!Next
<1>4. CASE At(r, "store")
  BY <1>1, <1>4, MoveGoes, GoesUnseen
     DEF SkipRedis, RedisFails, At, Working, Api!vars, Answers, Named
<1>5. CASE request[r].pc \in {"release", "abort"}
  <2>1. Goes(r, request[r].pc, Answered(r))
    BY <1>5, MoveGoes DEF SkipRedis, RedisFails, At
  <2>2. Answered(r) \in {"created", "failed"} /\ (Answered(r) = "created" => r \in links)
    BY DEF Answered, ApiInv
  <2>. QED
    BY <1>1, <1>5, <2>1, <2>2, GoesAnswered DEF Working, Api!Next
<1>6. request[r].pc \in {"check", "checkLock", "acquire", "store", "release", "abort"}
  BY DEF SkipRedis, RedisFails, At
<1>. QED
  BY <1>2, <1>3, <1>4, <1>5, <1>6 DEF At

LEMMA CrashMaps ==
  ASSUME TypeOK, NEW p \in Process, Crash(p)
  PROVE  Api!Next
<1>. DEFINE dead == {r \in Request : ProcessOf[r] = p /\ request[r].pc \notin Final \cup {"idle"}}
<1>1. /\ \A r \in dead : request'[r].pc = "failed" /\ request'[r].got = request[r].got
      /\ \A r \in Request \ dead : request'[r] = request[r]
      /\ links' = links
  BY DEF Crash, TypeOK
<1>2. Tried' = Tried \cup dead
  BY <1>1 DEF Tried
<1>3. \A r \in Request : Answer(r)' = IF r \in dead THEN "failed" ELSE Answer(r)
  BY <1>1 DEF Answer, Final
<1>4. Named' = Named
  BY <1>1 DEF Named
<1>5. \A r \in dead : Answers[r] = "none"
  BY DEF Answer, Answers
<1>6. Answers' = [r \in Request |-> IF r \in dead THEN "failed" ELSE Answers[r]]
  BY <1>3 DEF Answers
<1>7. dead \in SUBSET Request
  OBVIOUS
<1>. HIDE DEF dead
<1>8. Api!GiveUp(dead)
  BY <1>1, <1>2, <1>4, <1>5, <1>6, <1>7 DEF Api!GiveUp, Api!Open, Answers, Named
<1>. QED
  BY <1>7, <1>8 DEF Api!Next

(* What goes on behind the requests' backs. *)
LEMMA UnseenSteps ==
  ASSUME TypeOK,
         \/ \E r \in Request : Begin(r)
         \/ \E p \in Process : Reopen(p)
         \/ ExpireLock \/ ExpireRecord \/ UNCHANGED vars
  PROVE  UNCHANGED Api!vars
<1>1. ASSUME NEW r \in Request, Begin(r)
      PROVE  UNCHANGED Api!vars
  <2>1. Goes(r, "idle", "check") /\ links' = links
    BY <1>1 DEF Begin, At, Goes, TypeOK
  <2>. QED
    BY <2>1, GoesUnseen DEF Outside, Api!vars, Answers, Named
<1>2. CASE (\E p \in Process : Reopen(p)) \/ ExpireLock \/ UNCHANGED vars
  BY <1>2 DEF Reopen, ExpireLock, vars, Tried, Answer, Api!vars
<1>3. CASE ExpireRecord
  <2>1. \A r \in Request : request'[r].pc = request[r].pc /\ request'[r].got = request[r].got
    BY <1>3 DEF ExpireRecord, TypeOK
  <2>2. Tried' = Tried /\ Answers' = Answers /\ Named' = Named
    BY <2>1 DEF Tried, Answers, Answer, Named
  <2>. QED
    BY <1>3, <2>2 DEF ExpireRecord, Api!vars, Answers, Named
<1>. QED
  BY <1>1, <1>2, <1>3

LEMMA StepMaps ==
  ASSUME TypeOK, LinkInv, ApiInv, [Next]_vars
  PROVE  [Api!Next]_(Api!vars)
BY CheckRecordMaps, CheckLockMaps, AcquireMaps, WorkingMaps, DegradedMaps, CrashMaps,
   UnseenSteps DEF Next, Step

(* Where a request about to release its lock, and a lock, come from. *)
LEMMA ReleasedBefore ==
  ASSUME TypeOK, [Next]_vars, NEW r \in Request, request'[r].pc = "release"
  PROVE  request[r].pc \in {"release", "store"}
<1>1. ASSUME NEW q \in Request, Begin(q) \/ CheckRecord(q) \/ CheckLock(q) \/ AcquireLock(q)
      PROVE  request[r].pc \in {"release", "store"}
  BY <1>1 DEF Begin, CheckRecord, Replay, CheckLock, AcquireLock, Move, TypeOK
<1>2. ASSUME NEW q \in Request, CreateLink(q) \/ StoreRecord(q) \/ CreateLost(q)
      PROVE  request[r].pc \in {"release", "store"}
  BY <1>2 DEF CreateLink, StoreRecord, CreateLost, At, Move, TypeOK
<1>3. ASSUME NEW q \in Request, ReleaseLock(q) \/ SkipRedis(q) \/ RedisFails(q)
      PROVE  request[r].pc \in {"release", "store"}
  BY <1>3 DEF ReleaseLock, SkipRedis, RedisFails, Answered, At, Move, TypeOK
<1>4. CASE (\E p \in Process : Crash(p) \/ Reopen(p)) \/ ExpireLock \/ ExpireRecord
           \/ UNCHANGED vars
  BY <1>4 DEF Crash, Reopen, ExpireLock, ExpireRecord, vars, TypeOK
<1>. QED
  BY <1>1, <1>2, <1>3, <1>4 DEF Next, Step

LEMMA LockTaken ==
  ASSUME TypeOK, [Next]_vars
  PROVE  \/ lock' \in {lock, NoRequest}
         \/ \E r \in Request : lock' = r /\ request'[r].pc = "create"
<1>1. ASSUME NEW r \in Request, AcquireLock(r) \/ RedisFails(r)
      PROVE  lock' \in {lock, NoRequest} \/ (lock' = r /\ request'[r].pc = "create")
  <2>1. CASE AcquireLock(r)
    BY <2>1, MoveIs DEF AcquireLock
  <2>2. CASE RedisFails(r) /\ At(r, "acquire")
    BY <2>2, MoveIs DEF RedisFails, At
  <2>3. CASE RedisFails(r) /\ ~At(r, "acquire")
    BY <2>3 DEF RedisFails, redisVars
  <2>. QED
    BY <1>1, <2>1, <2>2, <2>3
<1>. QED
  BY <1>1 DEF Next, Step, Begin, CheckRecord, CheckLock, CreateLink, StoreRecord,
              ReleaseLock, SkipRedis, CreateLost, Crash, Reopen, ExpireLock,
              ExpireRecord, vars, redisVars

LEMMA ApiKept ==
  ASSUME TypeOK, LinkInv, ApiInv, [Next]_vars
  PROVE  ApiInv'
<1>1. \A r \in Tried : r \in Tried'
  <2>1. Tried' = Tried \/ \E S \in SUBSET Request : Tried' = Tried \cup S
    BY StepMaps DEF Api!Next, Api!vars, Api!Try, Api!Commit, Api!Created, Api!GiveUp,
                    Api!TurnAway, Api!Replay, Api!Conflict, Api!Busy
  <2>. QED
    BY <2>1
<1>2. links' \subseteq Tried'
  <2>1. links' = links \/ \E r \in Tried : links' = links \cup {r}
    BY StepMaps DEF Api!Next, Api!vars, Api!Try, Api!Commit, Api!Created, Api!GiveUp,
                    Api!TurnAway, Api!Replay, Api!Conflict, Api!Busy
  <2>. QED
    BY <1>1, <2>1 DEF ApiInv
<1>3. \A r \in Request : At(r, "release")' => r \in links'
  <2>. SUFFICES ASSUME NEW r \in Request, request'[r].pc = "release"
                PROVE  r \in links'
    BY DEF At
  <2>1. links \subseteq links'
    BY DEF Next, Step, Begin, CheckRecord, CheckLock, AcquireLock, CreateLink, StoreRecord,
           ReleaseLock, SkipRedis, RedisFails, CreateLost, Crash, Reopen, ExpireLock,
           ExpireRecord, vars
  <2>2. request[r].pc \in {"release", "store"}
    BY ReleasedBefore
  <2>. QED
    BY <2>1, <2>2 DEF LinkInv, ApiInv, At
<1>4. lock' # NoRequest => lock' \in Tried'
  <2>1. \/ lock' \in {lock, NoRequest}
        \/ \E r \in Request : lock' = r /\ request'[r].pc = "create"
    BY LockTaken
  <2>. QED
    BY <1>1, <2>1 DEF ApiInv, Tried, Working
<1>. QED
  BY <1>2, <1>3, <1>4 DEF ApiInv

(* Initially nobody was let in or answered. *)
LEMMA ApiInit == Init => ApiInv /\ Api!Init
<1>. SUFFICES ASSUME Init
              PROVE  ApiInv /\ Api!Init
  OBVIOUS
<1>1. \A r \in Request : request[r].pc = "idle" /\ request[r].got = NoRequest
  BY DEF Init, NotBegun
<1>2. Tried = {} /\ \A r \in Request : Answer(r) = "none"
  BY <1>1 DEF Tried, Answer, Working, Final
<1>. QED
  BY <1>1, <1>2 DEF Init, ApiInv, Api!Init, At

(* The requests with one key, their record, lock and links implement what     *)
(* clients are promised (CreationApi), under every failure of Redis.          *)
THEOREM ApiTheorem == Spec => ImplementsApi
<1>1. TypeOK /\ IInv /\ ApiInv /\ [Next]_vars => ApiInv' /\ [Api!Next]_(Api!vars)
  BY ApiKept, StepMaps DEF IInv
<1>. QED
  BY <1>1, ApiInit, InvHolds, PTL DEF Spec, ImplementsApi, Api!Spec

(* A request that is turned away or answered with another's link creates no   *)
(* link, then or later.                                                       *)
THEOREM TurnedAwayTheorem ==
  Spec => [](\A r \in links : request[r].pc \notin {"replayed", "conflict", "busy"})
<1>1. TypeOK /\ ApiInv => \A r \in links : request[r].pc \notin {"replayed", "conflict", "busy"}
  BY DEF ApiInv, Tried, Working
<1>2. TypeOK /\ IInv /\ ApiInv /\ [Next]_vars => ApiInv'
  BY ApiKept DEF IInv
<1>. QED
  BY <1>1, <1>2, ApiInit, InvHolds, PTL DEF Spec
=============================================================================
