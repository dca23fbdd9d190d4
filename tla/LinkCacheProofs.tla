--------------------------- MODULE LinkCacheProofs ---------------------------
(***************************************************************************)
(* Theorems about LinkCache, for any visitors, processes, writers and       *)
(* bounds.                                                                  *)
(***************************************************************************)
EXTENDS LinkCache, TLAPS, FiniteSetTheorems

One(b) == IF b THEN 1 ELSE 0

Holders == {v \in Client : visit[v].pc \in {"read", "fill", "unlock"}}

(* The lock in Redis stands for one holder, each TTL that ended for one more. *)
HoldersInv == Cardinality(Holders) <= One(lock # NoClient) + expirations

(* A process remembers only tokens of its own requests. *)
HeldInv == \A p \in Process : held[p] # NoClient => ProcessOf[held[p]] = p

(* Which operations reach which step. *)
OpInv ==
    \A w \in Writer :
        /\ OpAt(w, "commit") => op[w].kind \in AdminKinds
        /\ OpAt(w, "mark") => op[w].kind \in {"delete", "renameAway", "ban"}

(* A key that contradicts the row is left by a race, or its invalidation is   *)
(* still to come, or it is the marker of a ban of this link that is still to  *)
(* be committed.                                                              *)
PendingInv ==
    \A k \in Disagreement(cache, row) \ raced :
        \/ \E w \in Writer : OpAt(w, "purge") /\ op[w].kind \notin AdminKinds
        \/ k = "banned" /\ \E w \in Writer :
                              OpAt(w, "commit") /\ op[w].kind = "ban" /\ SameLink(w)

(* Between an invalidation inside a transaction and its commit, every key is  *)
(* tainted but the marker of a ban that is the only such transaction.         *)
TaintInv ==
    \A k \in Present \ raced : \A u \in Uncommitted :
        /\ k = "banned"
        /\ op[u].kind = "ban" /\ OpAt(u, "commit")
        /\ Uncommitted = {u}

(* After a complete ban, what a visitor may still read does not redirect once *)
(* the marker has gone.                                                       *)
SealInv ==
    sealed =>
        /\ \A w \in Writer : OpAt(w, "idle")
        /\ ~Redirects(row)
        /\ ~cache.banned =>
              /\ ~Redirects(cache.link)
              /\ \A v \in Client : At(v, "fill") => ~Redirects(visit[v].got)

MaskOK(v) ==
    visit[v].masked =>
        /\ sealed
        /\ visit[v].pc # "redirect"
        /\ visit[v].pc \in {"lookLink", "wait", "read", "fill", "unlock", "forget"}
              => ~cache.banned
        /\ visit[v].pc \in {"unlock", "forget"} => visit[v].after # "redirect"
MaskInv == \A v \in Client : MaskOK(v)

-----------------------------------------------------------------------------
(* Types *)

VisitType == [pc: VisitPcs, got: MaybeRow, after: {"redirect", "refuse", "direct"},
              masked: BOOLEAN]
OpType == [kind: Kinds, saw: MaybeRow, pc: {"idle", "write", "purge", "mark", "commit"}]
CacheType == [link: MaybeRow, notFound: BOOLEAN, banned: BOOLEAN]

LEMMA OutcomeType == \A r : Outcome(r) \in {"redirect", "refuse"}
  BY DEF Outcome

LEMMA FreshType == \A n \in Nat : Fresh(n) \in Row
<1>1. ASSUME NEW n \in Nat, NEW a \in BOOLEAN, NEW b \in BOOLEAN
      PROVE  [id |-> n, rev |-> 0, isActive |-> a, isBanned |-> b, isDeleted |-> b] \in Row
  BY DEF Row
<1>2. ASSUME NEW n \in Nat
      PROVE  Fresh(n) \in Row
  <2>1. [id |-> n, rev |-> 0, isActive |-> TRUE, isBanned |-> FALSE, isDeleted |-> FALSE] \in Row
    BY <1>1, Zenon
  <2>. QED
    BY <2>1 DEF Fresh
<1>. QED
  BY <1>2

LEMMA InsertedType ==
  ASSUME TypeOK, NEW kind, NEW r \in Inserted(kind)
  PROVE  r \in Row
<1>1. Fresh(ops) \in Row
  BY FreshType, BoundsAssumption DEF TypeOK
<1>2. ASSUME NEW a \in BOOLEAN, NEW b \in BOOLEAN
      PROVE  [Fresh(ops) EXCEPT !.isActive = a, !.isBanned = b] \in Row
  BY <1>1 DEF Row
<1>3. CASE kind = "renameTo"
  <2>1. PICK flags \in [isActive: BOOLEAN, isBanned: BOOLEAN] :
          r = [Fresh(ops) EXCEPT !.isActive = flags.isActive, !.isBanned = flags.isBanned]
    BY <1>3 DEF Inserted
  <2>2. flags.isActive \in BOOLEAN /\ flags.isBanned \in BOOLEAN
    OBVIOUS
  <2>. QED
    BY <1>2, <2>1, <2>2
<1>4. CASE kind # "renameTo"
  BY <1>1, <1>4 DEF Inserted
<1>. QED
  BY <1>3, <1>4

LEMMA UpdatedType ==
  ASSUME NEW kind \in Kinds \ InsertKinds, NEW saw \in MaybeRow, NEW r \in Row
  PROVE  Updated(kind, saw, r) \in MaybeRow
<1>1. ASSUME NEW a \in BOOLEAN, NEW b \in BOOLEAN, NEW n \in Nat
      PROVE  /\ [r EXCEPT !.rev = n] \in Row
             /\ [r EXCEPT !.isActive = a] \in Row
             /\ [r EXCEPT !.isDeleted = a, !.isActive = b] \in Row
             /\ [r EXCEPT !.isBanned = a, !.isActive = b] \in Row
  BY DEF Row
<1>2. r.rev + 1 \in Nat
  BY DEF Row
<1>3. (~saw.isActive) \in BOOLEAN
  OBVIOUS
<1>4. kind \in {"update", "toggle", "delete", "restore", "renameAway", "ban", "unban"}
  BY DEF Kinds, InsertKinds, OwnerKinds, AdminKinds
<1>5. CASE kind = "update"
  BY <1>1, <1>2, <1>5 DEF Updated, MaybeRow
<1>6. CASE kind = "toggle"
  BY <1>1, <1>3, <1>6, Zenon DEF Updated, MaybeRow
<1>7. CASE kind = "delete"
  BY <1>1, <1>7 DEF Updated, MaybeRow
<1>8. CASE kind = "restore"
  BY <1>1, <1>8 DEF Updated, MaybeRow
<1>9. CASE kind = "renameAway"
  BY <1>9 DEF Updated, MaybeRow
<1>10. CASE kind = "ban"
  BY <1>1, <1>10 DEF Updated, MaybeRow
<1>11. CASE kind = "unban"
  BY <1>1, <1>11 DEF Updated, MaybeRow
<1>. QED
  BY <1>4, <1>5, <1>6, <1>7, <1>8, <1>9, <1>10, <1>11

(* TypeOK, one conjunct for each part of the state. *)
RowOK == row \in MaybeRow
CacheOK == cache \in CacheType
LockOK == lock \in Client \cup {NoClient, LostToken} /\ held \in [Process -> Client \cup {NoClient}]
VisitOK == visit \in [Client -> VisitType]
OpOK == op \in [Writer -> OpType]
CountsOK == ops \in 0..MaxOps /\ faults \in 0..MaxFaults /\ expirations \in 0..MaxExpirations
HistoryOK == raced \subseteq Key /\ sealed \in BOOLEAN

LEMMA TypeParts ==
  TypeOK <=> /\ RowOK /\ CacheOK /\ LockOK /\ VisitOK /\ OpOK /\ CountsOK
             /\ HistoryOK
  BY DEF TypeOK, RowOK, CacheOK, LockOK, VisitOK, OpOK, CountsOK, HistoryOK,
         CacheType, VisitType, OpType

LEMMA InitType == Init => TypeOK
<1>. SUFFICES ASSUME Init
              PROVE  TypeOK
  OBVIOUS
<1>1. RowOK
  BY FreshType DEF Init, MaybeRow, RowOK
<1>2. NoRow \in MaybeRow
  BY DEF MaybeRow
<1>3. \A b \in BOOLEAN :
        /\ [pc |-> "idle", got |-> NoRow, after |-> "direct", masked |-> b] \in VisitType
        /\ [link |-> NoRow, notFound |-> b, banned |-> b] \in CacheType
  BY <1>2 DEF VisitPcs, VisitType, CacheType
<1>4. VisitOK /\ CacheOK
  BY <1>3, Zenon DEF Init, Idle, VisitOK, CacheOK
<1>5. OpOK
  BY <1>2 DEF Init, NoOp, Kinds, InsertKinds, OpOK, OpType
<1>6. CountsOK
  BY BoundsAssumption DEF Init, CountsOK
<1>7. LockOK
  BY DEF Init, LockInit, LockOK
<1>8. HistoryOK
  BY Zenon DEF Init, HistoryOK
<1>. QED
  BY <1>1, <1>4, <1>5, <1>6, <1>7, <1>8, TypeParts

LEMMA IdleType == Idle \in VisitType
<1>1. NoRow \in MaybeRow
  BY DEF MaybeRow
<1>2. \A b \in BOOLEAN :
        [pc |-> "idle", got |-> NoRow, after |-> "direct", masked |-> b] \in VisitType
  BY <1>1 DEF VisitPcs, VisitType
<1>. QED
  BY <1>2, Zenon DEF Idle

LEMMA MoveType ==
  ASSUME VisitOK, NEW v \in Client, NEW pc \in VisitPcs, Move(v, pc)
  PROVE  VisitOK'
  BY DEF Move, VisitOK, VisitType

LEMMA AnswerType ==
  ASSUME VisitOK, NEW v \in Client, NEW r, Answer(v, r)
  PROVE  VisitOK'
  BY OutcomeType, MoveType DEF Answer, VisitPcs

LEMMA UnlockType ==
  ASSUME VisitOK, NEW v \in Client, NEW a \in {"redirect", "refuse", "direct"},
         visit' = [visit EXCEPT ![v].pc = "unlock", ![v].got = NoRow, ![v].after = a]
  PROVE  VisitOK'
<1>1. visit[v] \in VisitType
  BY DEF VisitOK
<1>2. NoRow \in MaybeRow /\ "unlock" \in VisitPcs
  BY DEF MaybeRow, VisitPcs
<1>3. [pc |-> "unlock", got |-> NoRow, after |-> a, masked |-> visit[v].masked] \in VisitType
  BY <1>1, <1>2 DEF VisitType
<1>4. visit'[v] = [pc |-> "unlock", got |-> NoRow, after |-> a, masked |-> visit[v].masked]
  BY <1>1 DEF VisitOK, VisitType
<1>5. visit' = [visit EXCEPT ![v] = visit'[v]]
  BY DEF VisitOK
<1>. QED
  BY <1>3, <1>4, <1>5 DEF VisitOK

LEMMA OpMoveType ==
  ASSUME OpOK, NEW w \in Writer, NEW pc \in {"idle", "write", "purge", "mark", "commit"},
         OpMove(w, pc)
  PROVE  OpOK'
  BY DEF OpMove, OpOK, OpType

LEMMA FinishType ==
  ASSUME OpOK, NEW w \in Writer, Finish(w)
  PROVE  OpOK'
<1>1. NoOp \in OpType
  BY DEF NoOp, OpType, Kinds, InsertKinds, MaybeRow
<1>. QED
  BY <1>1 DEF Finish, OpOK

(* A failure ends in the release of the lock, in a direct read or in an error. *)
LEMMA FailureMoves ==
  ASSUME NEW v \in Client, VisitFails(v)
  PROVE  \/ /\ visit[v].pc \in {"read", "fill"}
            /\ \E a \in {"refuse", "direct"} :
                 visit' = [visit EXCEPT ![v].pc = "unlock", ![v].got = NoRow, ![v].after = a]
         \/ /\ visit[v].pc \notin {"read", "fill"}
            /\ Move(v, "direct") \/ Answer(v, NoRow)
<1>1. AfterFailure(v) \in {"refuse", "direct"}
  BY DEF AfterFailure
<1>2. CASE CommandFails(v)
  BY <1>1, <1>2 DEF CommandFails, GoUnlock, At, Releases
<1>3. CASE LockUnanswered(v) \/ ReleaseUnanswered(v)
  BY <1>3 DEF LockUnanswered, ReleaseUnanswered, Releases, At
<1>4. CASE FillUnanswered(v)
  BY <1>1, <1>4 DEF FillUnanswered, GoUnlock, At
<1>. QED
  BY <1>2, <1>3, <1>4 DEF VisitFails

LEMMA VisitTypeKept ==
  ASSUME TypeOK, [Next]_vars
  PROVE  VisitOK'
<1>. USE DEF VisitPcs
<1>1. VisitOK /\ RowOK /\ CacheOK
  BY TypeParts
<1>2. ASSUME NEW v \in Client, Visit(v)
      PROVE  VisitOK'
  <2>1. PICK pc \in VisitPcs, b \in BOOLEAN :
          visit' = [visit EXCEPT ![v].pc = pc, ![v].masked = b]
    <3>1. sealed \in BOOLEAN
      BY DEF TypeOK
    <3>2. (IF cache.notFound THEN "refuse" ELSE "lookBanned") \in VisitPcs
      OBVIOUS
    <3>. QED
      BY <1>2, <3>1, <3>2 DEF Visit
  <2>. QED
    BY <1>1, <2>1, ZenonT(40) DEF VisitOK, VisitType
<1>3. ASSUME NEW v \in Client,
             LookBanned(v) \/ HitLink(v) \/ TryLock(v) \/ WaitedLook(v) \/ DirectRead(v)
      PROVE  VisitOK'
  BY <1>1, <1>3, MoveType, AnswerType
     DEF LookBanned, HitLink, TryLock, WaitedLook, DirectRead
<1>4. ASSUME NEW v \in Client, ReadRow(v)
      PROVE  VisitOK'
  BY <1>1, <1>4, ZenonT(40) DEF ReadRow, VisitOK, VisitType, RowOK
<1>5. ASSUME NEW v \in Client, Fill(v)
      PROVE  VisitOK'
  <2>2. PICK a \in {"redirect", "refuse"} :
          visit' = [visit EXCEPT ![v].pc = "unlock", ![v].got = NoRow, ![v].after = a]
    BY <1>5, OutcomeType DEF Fill, GoUnlock
  <2>. QED
    BY <1>1, <2>2, UnlockType
<1>6. ASSUME NEW v \in Client, ReleaseLock(v) \/ ForgetToken(v)
      PROVE  VisitOK'
  <2>1. visit[v].after \in VisitPcs
    BY <1>1 DEF VisitOK, VisitType
  <2>. QED
    BY <1>1, <1>6, <2>1, MoveType DEF ReleaseLock, ForgetToken
<1>7. ASSUME NEW v \in Client, Leave(v)
      PROVE  VisitOK'
  BY <1>1, <1>7, IdleType DEF Leave, VisitOK
<1>8. ASSUME NEW v \in Client, VisitFails(v)
      PROVE  VisitOK'
  BY <1>1, <1>8, FailureMoves, UnlockType, MoveType, AnswerType
<1>9. ASSUME NEW p \in Process, Crash(p)
      PROVE  VisitOK'
  BY <1>1, <1>9, IdleType DEF Crash, VisitOK
<1>10. ASSUME NEW w \in Writer, NEW kind \in Kinds, StartOp(w, kind)
       PROVE  VisitOK'
  <2>1. \A b \in BOOLEAN : \A v \in Client : [visit[v] EXCEPT !.masked = b] \in VisitType
    BY <1>1 DEF VisitOK, VisitType
  <2>2. \A v \in Client : [visit[v] EXCEPT !.masked = FALSE] \in VisitType
    BY <2>1, Zenon
  <2>. QED
    BY <1>10, <2>2 DEF StartOp, VisitOK
<1>11. ASSUME UNCHANGED visit
       PROVE  VisitOK'
  BY <1>1, <1>11 DEF VisitOK
<1>12. ASSUME NEW w \in Writer, WriterStep(w) \/ WriterFails(w)
       PROVE  UNCHANGED visit
  BY <1>12 DEF WriterStep, WriterFails, InsertRow, UpdateRow, ModerateRow, Purge, Mark,
               Commit, PurgeFails, MarkFails, RollBack
<1>13. CASE \/ EraseUser \/ ExpireLink \/ ExpireNotFound \/ ExpireBanned \/ ExpireLock
           \/ UNCHANGED vars
  BY <1>13, <1>11 DEF EraseUser, ExpireLink, ExpireNotFound, ExpireBanned, ExpireLock,
                     OnlyKeys, vars
<1>. QED
  BY <1>2, <1>3, <1>4, <1>5, <1>6, <1>7, <1>8, <1>9, <1>10, <1>11, <1>12, <1>13
     DEF Next, VisitStep, Holding

LEMMA VisitsOnly ==
  ASSUME NEW v \in Client, Visit(v) \/ VisitStep(v) \/ VisitFails(v)
  PROVE  UNCHANGED <<row, op, ops, sealed>>
  BY DEF Visit, VisitStep, Holding, LookBanned, HitLink, TryLock, ReadRow, Fill, ReleaseLock,
         ForgetToken, WaitedLook, DirectRead, Leave, VisitFails, CommandFails, LockUnanswered,
         FillUnanswered, ReleaseUnanswered, Store, OnlyVisit, history

LEMMA FillsOrNot ==
  ASSUME NEW v \in Client, Visit(v) \/ VisitStep(v) \/ VisitFails(v)
  PROVE  \/ At(v, "fill") /\ Store(v)
         \/ UNCHANGED <<cache, raced>>
<1>1. CASE Fill(v) \/ FillUnanswered(v)
  BY <1>1 DEF Fill, FillUnanswered
<1>2. CASE ~Fill(v) /\ ~FillUnanswered(v)
  BY <1>2 DEF Visit, VisitStep, Holding, LookBanned, HitLink, TryLock, ReadRow, ReleaseLock,
              ForgetToken, WaitedLook, DirectRead, Leave, VisitFails, CommandFails,
              LockUnanswered, ReleaseUnanswered, OnlyVisit, history, redisVars
<1>. QED
  BY <1>1, <1>2

LEMMA OpTypeKept ==
  ASSUME TypeOK, [Next]_vars
  PROVE  OpOK'
<1>1. OpOK /\ RowOK
  BY TypeParts
<1>2. ASSUME UNCHANGED op
      PROVE  OpOK'
  BY <1>1, <1>2 DEF OpOK
<1>3. ASSUME NEW w \in Writer, NEW kind \in Kinds, StartOp(w, kind)
      PROVE  OpOK'
  <2>1. [kind |-> kind, pc |-> "write", saw |-> row] \in OpType
    BY <1>1 DEF OpType, RowOK
  <2>. QED
    BY <1>1, <1>3, <2>1 DEF StartOp, OpOK
<1>4. ASSUME NEW w \in Writer, WriterStep(w) \/ WriterFails(w)
      PROVE  OpOK'
  <2>1. \A k : AfterPurge(k) \in {"idle", "write", "purge", "mark", "commit"}
    BY DEF AfterPurge
  <2>2. OpMove(w, "purge") \/ OpMove(w, "commit") \/ Finish(w)
           \/ OpMove(w, AfterPurge(op[w].kind))
    BY <1>4 DEF WriterStep, WriterFails, InsertRow, UpdateRow, ModerateRow, Purge, Mark,
                Commit, PurgeFails, MarkFails, RollBack
  <2>. QED
    BY <1>1, <2>1, <2>2, OpMoveType, FinishType
<1>5. CASE \/ EraseUser \/ ExpireLink \/ ExpireNotFound \/ ExpireBanned \/ ExpireLock
          \/ (\E p \in Process : Crash(p)) \/ UNCHANGED vars
  BY <1>2, <1>5 DEF EraseUser, ExpireLink, ExpireNotFound, ExpireBanned, ExpireLock,
                    Crash, OnlyKeys, vars
<1>. QED
  BY <1>2, <1>3, <1>4, <1>5, VisitsOnly DEF Next

LEMMA RowTypeKept ==
  ASSUME TypeOK, OpInv, [Next]_vars
  PROVE  RowOK'
<1>1. RowOK /\ OpOK
  BY TypeParts
<1>2. ASSUME UNCHANGED row
      PROVE  RowOK'
  BY <1>1, <1>2 DEF RowOK
<1>3. ASSUME NEW w \in Writer, row' = Written(w), op[w].kind \notin InsertKinds
      PROVE  RowOK'
  <2>1. op[w].kind \in Kinds \ InsertKinds /\ op[w].saw \in MaybeRow
    BY <1>1, <1>3 DEF OpOK, OpType
  <2>2. CASE SameLink(w)
    <3>1. row \in Row
      BY <1>1, <2>2 DEF SameLink, RowOK, MaybeRow
    <3>. QED
      BY <1>3, <2>1, <2>2, <3>1, UpdatedType DEF Written, RowOK
  <2>3. CASE ~SameLink(w)
    BY <1>2, <1>3, <2>3 DEF Written
  <2>. QED
    BY <2>2, <2>3
<1>4. ASSUME NEW w \in Writer, NEW kind \in Kinds, StartOp(w, kind)
      PROVE  RowOK'
  BY <1>2, <1>4 DEF StartOp
<1>5. ASSUME NEW w \in Writer, InsertRow(w)
      PROVE  RowOK'
  BY <1>2, <1>5, InsertedType DEF InsertRow, RowOK, MaybeRow
<1>6. ASSUME NEW w \in Writer, UpdateRow(w)
      PROVE  RowOK'
  <2>1. op[w].kind \notin InsertKinds
    BY <1>6 DEF UpdateRow, OwnerKinds, InsertKinds
  <2>. QED
    BY <1>3, <1>6, <2>1 DEF UpdateRow
<1>7. ASSUME NEW w \in Writer, Commit(w)
      PROVE  RowOK'
  <2>1. op[w].kind \notin InsertKinds
    BY <1>7 DEF Commit, OpInv, AdminKinds, InsertKinds
  <2>. QED
    BY <1>3, <1>7, <2>1 DEF Commit
<1>8. ASSUME NEW w \in Writer,
             ModerateRow(w) \/ Purge(w) \/ Mark(w) \/ WriterFails(w)
      PROVE  RowOK'
  BY <1>2, <1>8 DEF WriterFails, ModerateRow, Purge, Mark, PurgeFails, MarkFails, RollBack
<1>9. CASE EraseUser
  BY <1>9 DEF EraseUser, RowOK, MaybeRow
<1>10. CASE \/ ExpireLink \/ ExpireNotFound \/ ExpireBanned \/ ExpireLock
           \/ (\E p \in Process : Crash(p)) \/ UNCHANGED vars
  BY <1>2, <1>10 DEF ExpireLink, ExpireNotFound, ExpireBanned, ExpireLock, Crash, OnlyKeys,
                     vars
<1>. QED
  BY <1>2, <1>4, <1>5, <1>6, <1>7, <1>8, <1>9, <1>10, VisitsOnly DEF Next, WriterStep

LEMMA CacheTypeKept ==
  ASSUME TypeOK, [Next]_vars
  PROVE  CacheOK' /\ HistoryOK'
<1>1. CacheOK /\ RowOK /\ VisitOK /\ HistoryOK
  BY TypeParts
<1>2. ASSUME UNCHANGED <<cache, raced>>
      PROVE  CacheOK' /\ raced' \subseteq Key
  BY <1>1, <1>2 DEF CacheOK, HistoryOK
<1>3. \A c, r : Disagreement(c, r) \subseteq Key
  BY DEF Disagreement
<1>4. NoRow \in MaybeRow
  BY DEF MaybeRow
<1>5. \A b \in BOOLEAN :
        /\ [link |-> NoRow, notFound |-> b, banned |-> b] \in CacheType
        /\ [cache EXCEPT !.notFound = b] \in CacheType
        /\ [cache EXCEPT !.banned = b] \in CacheType
  BY <1>1, <1>4 DEF CacheType, CacheOK
<1>6. /\ [link |-> NoRow, notFound |-> FALSE, banned |-> FALSE] \in CacheType
      /\ [cache EXCEPT !.notFound = TRUE] \in CacheType
      /\ [cache EXCEPT !.banned = TRUE] \in CacheType
      /\ [cache EXCEPT !.notFound = FALSE] \in CacheType
      /\ [cache EXCEPT !.banned = FALSE] \in CacheType
  BY <1>5, Zenon
<1>7. \A r \in MaybeRow : [cache EXCEPT !.link = r] \in CacheType
  BY <1>1 DEF CacheType, CacheOK
<1>8. ASSUME NEW v \in Client, Store(v)
      PROVE  CacheOK' /\ raced' \subseteq Key
  <2>1. visit[v].got \in MaybeRow
    BY <1>1 DEF VisitOK, VisitType
  <2>2. CacheOK'
    BY <1>6, <1>7, <1>8, <2>1 DEF Store, CacheOK
  <2>3. raced' \subseteq Key
    BY <1>1, <1>8 DEF Store, HistoryOK, Key
  <2>. QED
    BY <2>2, <2>3
<1>9. ASSUME NEW v \in Client, Visit(v) \/ VisitStep(v) \/ VisitFails(v)
      PROVE  Store(v) \/ UNCHANGED <<cache, raced>>
  BY <1>9, FillsOrNot
<1>10. ASSUME NEW w \in Writer,
              (\E kind \in Kinds : StartOp(w, kind)) \/ UpdateRow(w) \/ ModerateRow(w)
                \/ Commit(w) \/ MarkFails(w)
       PROVE  UNCHANGED <<cache, raced>>
  BY <1>10 DEF StartOp, UpdateRow, ModerateRow, Commit, MarkFails, redisVars, history
<1>11. ASSUME NEW w \in Writer, InsertRow(w) \/ RollBack(w)
       PROVE  CacheOK' /\ raced' \subseteq Key
  <2>1. UNCHANGED cache
    BY <1>11 DEF InsertRow, RollBack, redisVars
  <2>2. raced' \subseteq Key
    BY <1>1, <1>3, <1>11 DEF InsertRow, RollBack, HistoryOK
  <2>. QED
    BY <1>1, <2>1, <2>2 DEF CacheOK
<1>12. ASSUME NEW w \in Writer, Purge(w)
       PROVE  CacheOK' /\ raced' \subseteq Key
  BY <1>6, <1>12 DEF Purge, CacheOK
<1>13. ASSUME NEW w \in Writer, PurgeFails(w)
       PROVE  CacheOK' /\ raced' \subseteq Key
  <2>1. PICK kept \in SUBSET Present :
          /\ cache' = [link     |-> IF "link" \in kept THEN cache.link ELSE NoRow,
                       notFound |-> "notFound" \in kept,
                       banned   |-> "banned" \in kept]
          /\ raced' = kept
    BY <1>13 DEF PurgeFails
  <2>2. (IF "link" \in kept THEN cache.link ELSE NoRow) \in MaybeRow
    BY <1>1, <1>4 DEF CacheOK, CacheType
  <2>3. \A r \in MaybeRow : \A a \in BOOLEAN : \A b \in BOOLEAN :
          [link |-> r, notFound |-> a, banned |-> b] \in CacheType
    BY DEF CacheType
  <2>4. ("notFound" \in kept) \in BOOLEAN /\ ("banned" \in kept) \in BOOLEAN
    OBVIOUS
  <2>5. \A a \in BOOLEAN : \A b \in BOOLEAN :
          [link |-> IF "link" \in kept THEN cache.link ELSE NoRow,
           notFound |-> a, banned |-> b] \in CacheType
    BY <2>2, <2>3
  <2>6. CacheOK'
    BY <2>1, <2>4, <2>5, Zenon DEF CacheOK
  <2>. QED
    BY <2>1, <2>6 DEF Present
<1>14. ASSUME NEW w \in Writer, Mark(w)
       PROVE  CacheOK' /\ raced' \subseteq Key
  <2>1. PICK k \in {"notFound", "banned"} :
          /\ cache' = [cache EXCEPT ![k] = TRUE]
          /\ raced' = raced \cup {k} \/ raced' = raced \ {k}
    BY <1>14 DEF Mark, MarkedBy
  <2>2. CacheOK'
    BY <1>6, <2>1 DEF CacheOK
  <2>. QED
    BY <1>1, <2>1, <2>2 DEF HistoryOK, Key
<1>15. CASE ExpireLink \/ ExpireNotFound \/ ExpireBanned
  BY <1>1, <1>4, <1>6, <1>7, <1>15
     DEF ExpireLink, ExpireNotFound, ExpireBanned, OnlyKeys, CacheOK, HistoryOK
<1>16. CASE EraseUser
  <2>1. CacheOK'
    BY <1>1, <1>16 DEF EraseUser, redisVars, CacheOK
  <2>. QED
    BY <1>1, <1>3, <1>16, <2>1 DEF EraseUser, HistoryOK
<1>17. CASE ExpireLock \/ (\E p \in Process : Crash(p)) \/ UNCHANGED vars
  BY <1>2, <1>1, <1>17 DEF ExpireLock, Crash, vars, history, HistoryOK
<1>18. CacheOK' /\ raced' \subseteq Key
  <2>1. ASSUME NEW v \in Client, Visit(v) \/ VisitStep(v) \/ VisitFails(v)
        PROVE  CacheOK' /\ raced' \subseteq Key
    BY <1>2, <1>8, <1>9, <2>1
  <2>2. ASSUME NEW w \in Writer, NEW kind \in Kinds, StartOp(w, kind)
        PROVE  CacheOK' /\ raced' \subseteq Key
    BY <1>2, <1>10, <2>2
  <2>3. ASSUME NEW w \in Writer, WriterStep(w) \/ WriterFails(w)
        PROVE  CacheOK' /\ raced' \subseteq Key
    BY <1>2, <1>10, <1>11, <1>12, <1>13, <1>14, <2>3 DEF WriterStep, WriterFails
  <2>. QED
    BY <1>15, <1>16, <1>17, <2>1, <2>2, <2>3 DEF Next, HistoryOK
<1>19. sealed' \in BOOLEAN
  <2>1. sealed \in BOOLEAN
    BY <1>1 DEF HistoryOK
  <2>2. ASSUME NEW w \in Writer, Commit(w)
        PROVE  sealed' \in BOOLEAN
    BY <2>2, Zenon DEF Commit
  <2>3. ASSUME NEW w \in Writer, NEW kind \in Kinds, StartOp(w, kind)
        PROVE  sealed' \in BOOLEAN
    BY <2>3, Zenon DEF StartOp
  <2>4. ASSUME UNCHANGED sealed
        PROVE  sealed' \in BOOLEAN
    BY <2>1, <2>4
  <2>5. ASSUME NEW w \in Writer,
               InsertRow(w) \/ UpdateRow(w) \/ ModerateRow(w) \/ Purge(w) \/ Mark(w)
                 \/ WriterFails(w)
        PROVE  UNCHANGED sealed
    BY <2>5 DEF InsertRow, UpdateRow, ModerateRow, Purge, Mark, WriterFails, PurgeFails,
                MarkFails, RollBack, history
  <2>6. ASSUME \/ EraseUser \/ ExpireLink \/ ExpireNotFound \/ ExpireBanned \/ ExpireLock
               \/ (\E p \in Process : Crash(p)) \/ UNCHANGED vars
        PROVE  UNCHANGED sealed
    BY <2>6 DEF EraseUser, ExpireLink, ExpireNotFound, ExpireBanned, ExpireLock, Crash,
                OnlyKeys, vars, history
  <2>. QED
    BY <2>2, <2>3, <2>4, <2>5, <2>6, VisitsOnly DEF Next, WriterStep
<1>. QED
  BY <1>18, <1>19 DEF HistoryOK

LEMMA LockTypeKept ==
  ASSUME TypeOK, [Next]_vars
  PROVE  LockOK'
<1>1. LockOK
  BY TypeParts
<1>2. ASSUME UNCHANGED lockVars
      PROVE  LockOK'
  BY <1>1, <1>2 DEF lockVars, LockOK
<1>3. ASSUME NEW v \in Client, TryLock(v)
      PROVE  LockOK'
  BY <1>1, <1>2, <1>3, ClientAssumption DEF TryLock, Acquire, LockOK
<1>4. ASSUME NEW v \in Client, ReleaseLock(v)
      PROVE  LockOK'
  BY <1>1, <1>4 DEF ReleaseLock, Unlock, LockOK
<1>5. ASSUME NEW v \in Client, ForgetToken(v)
      PROVE  LockOK'
  BY <1>1, <1>5, ClientAssumption DEF ForgetToken, Forget, LockOK
<1>6. ASSUME NEW v \in Client,
             \/ Visit(v) \/ LookBanned(v) \/ HitLink(v) \/ ReadRow(v) \/ Fill(v)
             \/ WaitedLook(v) \/ DirectRead(v) \/ Leave(v) \/ CommandFails(v)
             \/ FillUnanswered(v)
      PROVE  UNCHANGED lockVars
  BY <1>6 DEF Visit, LookBanned, HitLink, ReadRow, Fill, WaitedLook, DirectRead, Leave,
              CommandFails, FillUnanswered, Store, OnlyVisit, redisVars, lockVars
<1>7. ASSUME NEW w \in Writer,
             (\E kind \in Kinds : StartOp(w, kind)) \/ WriterStep(w) \/ WriterFails(w)
      PROVE  UNCHANGED lockVars
  BY <1>7 DEF StartOp, WriterStep, WriterFails, InsertRow, UpdateRow, ModerateRow, Purge,
              Mark, Commit, PurgeFails, MarkFails, RollBack, redisVars, lockVars
<1>8. ASSUME NEW p \in Process, Crash(p)
      PROVE  LockOK'
  BY <1>1, <1>8 DEF Crash, LockOK
<1>9. CASE ExpireLock
  BY <1>1, <1>9 DEF ExpireLock, LockExpires, LockOK
<1>10. CASE EraseUser \/ ExpireLink \/ ExpireNotFound \/ ExpireBanned \/ UNCHANGED vars
  BY <1>2, <1>10 DEF EraseUser, ExpireLink, ExpireNotFound, ExpireBanned, OnlyKeys, vars,
                     redisVars, lockVars
<1>11. ASSUME NEW v \in Client, LockUnanswered(v) \/ ReleaseUnanswered(v)
       PROVE  LockOK'
  BY <1>1, <1>11 DEF LockUnanswered, AcquireUnanswered, ReleaseUnanswered, Unlock, LockOK
<1>12. ASSUME NEW v \in Client, Visit(v) \/ VisitStep(v) \/ VisitFails(v)
       PROVE  LockOK'
  BY <1>2, <1>3, <1>4, <1>5, <1>6, <1>11, <1>12 DEF VisitStep, VisitFails, Holding
<1>. QED
  BY <1>2, <1>7, <1>8, <1>9, <1>10, <1>12 DEF Next

LEMMA CountsKept ==
  ASSUME TypeOK, [Next]_vars
  PROVE  CountsOK'
<1>. USE BoundsAssumption
<1>1. CountsOK
  BY TypeParts
<1>2. ASSUME UNCHANGED <<ops, faults, expirations>>
      PROVE  CountsOK'
  BY <1>1, <1>2 DEF CountsOK
<1>3. ASSUME Fault, UNCHANGED <<ops, expirations>>
      PROVE  CountsOK'
  BY <1>1, <1>3 DEF Fault, CountsOK
<1>4. ASSUME NEW v \in Client, Visit(v) \/ VisitStep(v)
      PROVE  UNCHANGED <<ops, faults, expirations>>
  BY <1>4 DEF Visit, VisitStep, Holding, LookBanned, HitLink, TryLock, ReadRow, Fill,
              ReleaseLock, ForgetToken, WaitedLook, DirectRead, Leave, Store, OnlyVisit,
              history
<1>5. ASSUME NEW w \in Writer, WriterStep(w)
      PROVE  UNCHANGED <<ops, faults, expirations>>
  BY <1>5 DEF WriterStep, InsertRow, UpdateRow, ModerateRow, Purge, Mark, Commit, history
<1>6. ASSUME (\E v \in Client : VisitFails(v)) \/ (\E w \in Writer : WriterFails(w))
               \/ (\E p \in Process : Crash(p))
      PROVE  Fault /\ UNCHANGED <<ops, expirations>>
  BY <1>6 DEF VisitFails, CommandFails, LockUnanswered, FillUnanswered, ReleaseUnanswered,
              Store, WriterFails, PurgeFails, MarkFails, RollBack, Crash, history
<1>7. ASSUME (\E w \in Writer, kind \in Kinds : StartOp(w, kind)) \/ EraseUser
      PROVE  CountsOK'
  BY <1>1, <1>7 DEF StartOp, EraseUser, CountsOK
<1>8. CASE ExpireLock
  BY <1>1, <1>8 DEF ExpireLock, CountsOK
<1>9. CASE ExpireLink \/ ExpireNotFound \/ ExpireBanned \/ UNCHANGED vars
  BY <1>2, <1>9 DEF ExpireLink, ExpireNotFound, ExpireBanned, OnlyKeys, vars, history
<1>. QED
  BY <1>2, <1>3, <1>4, <1>5, <1>6, <1>7, <1>8, <1>9 DEF Next

LEMMA OpKept ==
  ASSUME TypeOK, OpInv, [Next]_vars
  PROVE  OpInv'
<1>1. OpOK
  BY TypeParts
<1>2. ASSUME UNCHANGED op
      PROVE  OpInv'
  BY <1>2 DEF OpInv, OpAt
<1>3. ASSUME NEW w \in Writer, NEW kind \in Kinds, StartOp(w, kind)
      PROVE  OpInv'
  BY <1>1, <1>3 DEF StartOp, OpInv, OpAt, OpOK
<1>4. ASSUME NEW w \in Writer, Finish(w)
      PROVE  OpInv'
  BY <1>1, <1>4 DEF Finish, NoOp, OpInv, OpAt, OpOK
<1>5. ASSUME NEW w \in Writer, OpMove(w, "purge")
      PROVE  OpInv'
  BY <1>1, <1>5 DEF OpMove, OpInv, OpAt, OpOK, OpType
<1>6. ASSUME NEW w \in Writer, OpMove(w, "commit"), op[w].kind \in AdminKinds
      PROVE  OpInv'
  BY <1>1, <1>6 DEF OpMove, OpInv, OpAt, OpOK, OpType
<1>7. ASSUME NEW w \in Writer, OpMove(w, AfterPurge(op[w].kind))
      PROVE  OpInv'
  BY <1>1, <1>7 DEF OpMove, AfterPurge, AdminKinds, OpInv, OpAt, OpOK, OpType
<1>8. ASSUME NEW w \in Writer, WriterStep(w) \/ WriterFails(w)
      PROVE  \/ Finish(w) \/ OpMove(w, "purge") \/ OpMove(w, AfterPurge(op[w].kind))
             \/ OpMove(w, "commit") /\ op[w].kind \in AdminKinds
  BY <1>8 DEF WriterStep, WriterFails, InsertRow, UpdateRow, ModerateRow, Purge, Mark,
              Commit, PurgeFails, MarkFails, RollBack, AdminKinds
<1>9. CASE \/ EraseUser \/ ExpireLink \/ ExpireNotFound \/ ExpireBanned \/ ExpireLock
          \/ (\E p \in Process : Crash(p)) \/ UNCHANGED vars
  BY <1>2, <1>9 DEF EraseUser, ExpireLink, ExpireNotFound, ExpireBanned, ExpireLock,
                    Crash, OnlyKeys, vars
<1>10. ASSUME NEW w \in Writer, WriterStep(w) \/ WriterFails(w)
       PROVE  OpInv'
  BY <1>4, <1>5, <1>6, <1>7, <1>8, <1>10
<1>. QED
  BY <1>2, <1>3, <1>9, <1>10, VisitsOnly DEF Next

LEMMA NextType == TypeOK /\ OpInv /\ [Next]_vars => TypeOK' /\ OpInv'
<1>. SUFFICES ASSUME TypeOK, OpInv, [Next]_vars
              PROVE  TypeOK' /\ OpInv'
  OBVIOUS
<1>1. RowOK' /\ CacheOK' /\ LockOK' /\ VisitOK' /\ OpOK' /\ CountsOK' /\ HistoryOK'
  BY VisitTypeKept, OpTypeKept, RowTypeKept, CacheTypeKept, LockTypeKept, CountsKept
<1>2. TypeOK'
  BY <1>1 DEF TypeOK, RowOK, CacheOK, LockOK, VisitOK, OpOK, CountsOK, HistoryOK,
              CacheType, VisitType, OpType
<1>. QED
  BY <1>2, OpKept

THEOREM TypesHold == Spec => [](TypeOK /\ OpInv)
<1>1. Init => TypeOK /\ OpInv
  BY InitType DEF Init, OpInv, OpAt, NoOp
<1>. QED
  BY <1>1, NextType, PTL DEF Spec

(* Every variable keeps its type (TypeOK). *)
THEOREM TypeCorrect == Spec => []TypeOK
  BY TypesHold, PTL

-----------------------------------------------------------------------------
(* The lock *)

LEMMA HoldersAfter ==
  ASSUME VisitOK, NEW v \in Client,
         \A u \in Client \ {v} : visit'[u].pc = visit[u].pc
  PROVE  Holders' = IF visit'[v].pc \in {"read", "fill", "unlock"} THEN Holders \cup {v}
                    ELSE Holders \ {v}
  BY DEF Holders

LEMMA MoveIs ==
  ASSUME VisitOK, NEW v \in Client, NEW pc, Move(v, pc)
  PROVE  /\ visit'[v].pc = pc
         /\ \A u \in Client \ {v} : visit'[u].pc = visit[u].pc
  BY DEF Move, VisitOK

(* No holder more, and the lock is not taken away: a TTL, an entry and an exit *)
(* are the steps that are left.                                                *)
NoEntry ==
    /\ Holders' \subseteq Holders
    /\ lock # NoClient => lock' # NoClient
    /\ expirations' = expirations
Entry(v) ==
    /\ v \notin Holders /\ Holders' = Holders \cup {v}
    /\ lock = NoClient /\ lock' # NoClient /\ expirations' = expirations
Exit(v) ==
    /\ v \in Holders /\ Holders' = Holders \ {v}
    /\ expirations' = expirations

LEMMA HolderSteps ==
  ASSUME TypeOK, [Next]_vars
  PROVE  \/ NoEntry
         \/ \E v \in Client : Entry(v) \/ Exit(v)
         \/ Holders' = Holders /\ expirations' = expirations + 1
<1>. USE DEF At
<1>1. VisitOK
  BY TypeParts
<1>2. ASSUME UNCHANGED visit
      PROVE  Holders' = Holders
  BY <1>2 DEF Holders
<1>3. ASSUME NEW v \in Client, Visit(v) \/ Leave(v)
      PROVE  NoEntry
  <2>1. /\ visit'[v].pc \notin {"read", "fill", "unlock"}
        /\ \A u \in Client \ {v} : visit'[u].pc = visit[u].pc
    <3>1. CASE Visit(v)
      <4>1. PICK pc \in {"refuse", "lookBanned"}, b \in BOOLEAN :
              visit' = [visit EXCEPT ![v].pc = pc, ![v].masked = b]
        <5>1. sealed \in BOOLEAN
          BY DEF TypeOK
        <5>2. (IF cache.notFound THEN "refuse" ELSE "lookBanned") \in {"refuse", "lookBanned"}
          OBVIOUS
        <5>. QED
          BY <3>1, <5>1, <5>2 DEF Visit
      <4>. QED
        BY <1>1, <4>1 DEF VisitOK, VisitType
    <3>2. CASE Leave(v)
      <4>1. \A b \in BOOLEAN :
              [pc |-> "idle", got |-> NoRow, after |-> "direct", masked |-> b].pc = "idle"
        OBVIOUS
      <4>2. Idle.pc = "idle"
        BY <4>1, Zenon DEF Idle
      <4>. QED
        BY <1>1, <3>2, <4>2 DEF Leave, VisitOK
    <3>. QED
      BY <1>3, <3>1, <3>2
  <2>2. Holders' = Holders \ {v}
    BY <1>1, <2>1, HoldersAfter
  <2>. QED
    BY <1>3, <2>2 DEF Visit, Leave, OnlyVisit, redisVars, history, NoEntry
<1>4. ASSUME NEW v \in Client,
             LookBanned(v) \/ HitLink(v) \/ WaitedLook(v) \/ DirectRead(v) \/ ForgetToken(v)
      PROVE  NoEntry
  <2>1. v \notin Holders
    BY <1>4 DEF LookBanned, HitLink, WaitedLook, DirectRead, ForgetToken, Holders
  <2>2. PICK pc \in {"redirect", "refuse", "direct", "lookLink"} : Move(v, pc)
    <3>1. visit[v].after \in {"redirect", "refuse", "direct"}
      BY <1>1 DEF VisitOK, VisitType
    <3>. QED
      BY <1>4, <3>1, OutcomeType
         DEF LookBanned, HitLink, WaitedLook, DirectRead, ForgetToken, Answer
  <2>3. Holders' = Holders \ {v}
    BY <1>1, <2>2, MoveIs, HoldersAfter
  <2>. QED
    BY <1>4, <2>3 DEF LookBanned, HitLink, WaitedLook, DirectRead, ForgetToken, Forget,
                      OnlyVisit, redisVars, history, NoEntry
<1>5. ASSUME NEW v \in Client, TryLock(v)
      PROVE  NoEntry \/ Entry(v)
  <2>1. v \notin Holders
    BY <1>5 DEF TryLock, Holders
  <2>2. CASE Move(v, "read") /\ Acquire(v)
    <3>1. Holders' = Holders \cup {v}
      BY <1>1, <2>2, MoveIs, HoldersAfter
    <3>. QED
      BY <1>5, <2>1, <2>2, <3>1, ClientAssumption DEF TryLock, Acquire, history, Entry
  <2>3. CASE Move(v, "wait") /\ UNCHANGED lockVars
    <3>1. Holders' = Holders \ {v}
      BY <1>1, <2>3, MoveIs, HoldersAfter
    <3>. QED
      BY <1>5, <2>3, <3>1 DEF TryLock, lockVars, history, NoEntry
  <2>. QED
    BY <1>5, <2>2, <2>3 DEF TryLock
<1>6. ASSUME NEW v \in Client, ReadRow(v) \/ Fill(v)
      PROVE  NoEntry
  <2>1. v \in Holders
    BY <1>6 DEF ReadRow, Fill, Holders
  <2>2. /\ visit'[v].pc \in {"read", "fill", "unlock"}
        /\ \A u \in Client \ {v} : visit'[u].pc = visit[u].pc
    BY <1>1, <1>6 DEF ReadRow, Fill, GoUnlock, VisitOK, VisitType
  <2>3. Holders' = Holders
    BY <1>1, <2>1, <2>2, HoldersAfter
  <2>. QED
    BY <1>6, <2>3 DEF ReadRow, Fill, Store, OnlyVisit, redisVars, lockVars, history, NoEntry
<1>7. ASSUME NEW v \in Client, ReleaseLock(v)
      PROVE  Exit(v)
  <2>1. v \in Holders
    BY <1>7 DEF ReleaseLock, Holders
  <2>2. PICK pc \in {"redirect", "refuse", "direct", "forget"} : Move(v, pc)
    <3>1. visit[v].after \in {"redirect", "refuse", "direct"}
      BY <1>1 DEF VisitOK, VisitType
    <3>. QED
      BY <1>7, <3>1 DEF ReleaseLock
  <2>3. Holders' = Holders \ {v}
    BY <1>1, <2>2, MoveIs, HoldersAfter
  <2>. QED
    BY <1>7, <2>1, <2>3 DEF ReleaseLock, history, Exit
<1>8. ASSUME NEW v \in Client, VisitFails(v)
      PROVE  NoEntry \/ Exit(v)
  <2>1. CASE ReleaseUnanswered(v)
    <3>1. v \in Holders
      BY <2>1 DEF ReleaseUnanswered, Releases, Holders
    <3>2. Holders' = Holders \ {v}
      BY <1>1, <2>1, MoveIs, HoldersAfter DEF ReleaseUnanswered
    <3>. QED
      BY <2>1, <3>1, <3>2 DEF ReleaseUnanswered, history, Exit
  <2>2. CASE ~ReleaseUnanswered(v)
    <3>1. (lock # NoClient => lock' # NoClient) /\ expirations' = expirations
      BY <1>8, <2>2, ClientAssumption
         DEF VisitFails, CommandFails, LockUnanswered, AcquireUnanswered, FillUnanswered,
             Store, redisVars, lockVars, history
    <3>2. CASE visit[v].pc \in {"read", "fill"}
      <4>1. /\ visit'[v].pc = "unlock"
            /\ \A u \in Client \ {v} : visit'[u].pc = visit[u].pc
        BY <1>1, <1>8, <3>2, FailureMoves DEF VisitOK, VisitType
      <4>2. Holders' = Holders \cup {v} /\ v \in Holders
        BY <1>1, <3>2, <4>1, HoldersAfter DEF Holders
      <4>. QED
        BY <3>1, <4>2 DEF NoEntry
    <3>3. CASE visit[v].pc \notin {"read", "fill"}
      <4>1. PICK pc \in {"direct", "redirect", "refuse"} : Move(v, pc)
        BY <1>8, <3>3, OutcomeType, FailureMoves DEF Answer
      <4>2. Holders' = Holders \ {v}
        BY <1>1, <4>1, MoveIs, HoldersAfter
      <4>. QED
        BY <3>1, <4>2 DEF NoEntry
    <3>. QED
      BY <3>2, <3>3
  <2>. QED
    BY <2>1, <2>2
<1>9. ASSUME NEW p \in Process, Crash(p)
      PROVE  NoEntry
  <2>1. \A v \in Client : visit'[v].pc \in {visit[v].pc, "idle"}
    BY <1>1, <1>9 DEF Crash, Idle, VisitOK
  <2>2. Holders' \subseteq Holders
    BY <2>1 DEF Holders
  <2>. QED
    BY <1>9, <2>2 DEF Crash, history, NoEntry
<1>10. ASSUME NEW w \in Writer, NEW kind \in Kinds, StartOp(w, kind)
       PROVE  NoEntry
  <2>1. \A v \in Client : visit'[v].pc = visit[v].pc
    BY <1>1, <1>10 DEF StartOp, VisitOK, VisitType
  <2>2. Holders' = Holders
    BY <2>1 DEF Holders
  <2>. QED
    BY <1>10, <2>2 DEF StartOp, redisVars, history, NoEntry
<1>11. ASSUME NEW w \in Writer, WriterStep(w) \/ WriterFails(w)
       PROVE  UNCHANGED <<visit, lock, expirations>>
  BY <1>11 DEF WriterStep, WriterFails, InsertRow, UpdateRow, ModerateRow, Purge, Mark,
               Commit, PurgeFails, MarkFails, RollBack, redisVars, lockVars, history
<1>12. ASSUME EraseUser \/ ExpireLink \/ ExpireNotFound \/ ExpireBanned \/ UNCHANGED vars
       PROVE  UNCHANGED <<visit, lock, expirations>>
  BY <1>12 DEF EraseUser, ExpireLink, ExpireNotFound, ExpireBanned, OnlyKeys, vars,
               redisVars, lockVars, history
<1>13. CASE ExpireLock
  BY <1>2, <1>13 DEF ExpireLock
<1>14. ASSUME UNCHANGED <<visit, lock, expirations>>
       PROVE  NoEntry
  BY <1>2, <1>14 DEF NoEntry
<1>15. ASSUME NEW v \in Client, Visit(v) \/ VisitStep(v) \/ VisitFails(v)
       PROVE  NoEntry \/ Entry(v) \/ Exit(v)
  BY <1>3, <1>4, <1>5, <1>6, <1>7, <1>8, <1>15 DEF VisitStep, Holding
<1>. QED
  BY <1>9, <1>10, <1>11, <1>12, <1>13, <1>14, <1>15 DEF Next

LEMMA HoldersKept ==
  ASSUME TypeOK, TypeOK', HoldersInv, [Next]_vars
  PROVE  HoldersInv'
<1>1. /\ Holders \in SUBSET Client /\ Holders' \in SUBSET Client /\ IsFiniteSet(Client)
      /\ expirations \in Nat /\ expirations' \in Nat
  BY ClientAssumption, BoundsAssumption DEF Holders, TypeOK
<1>2. /\ IsFiniteSet(Holders) /\ IsFiniteSet(Holders')
      /\ Cardinality(Holders) \in Nat /\ Cardinality(Holders') \in Nat
  BY <1>1, FS_Subset, FS_CardinalityType
<1>3. CASE NoEntry
  <2>1. Cardinality(Holders') <= Cardinality(Holders)
    BY <1>2, <1>3, FS_Subset DEF NoEntry
  <2>. QED
    BY <1>1, <1>2, <1>3, <2>1 DEF NoEntry, HoldersInv, One
<1>4. ASSUME NEW v \in Client, Entry(v)
      PROVE  HoldersInv'
  <2>1. Cardinality(Holders') = Cardinality(Holders) + 1
    BY <1>2, <1>4, FS_AddElement DEF Entry
  <2>. QED
    BY <1>1, <1>2, <1>4, <2>1 DEF Entry, HoldersInv, One
<1>5. ASSUME NEW v \in Client, Exit(v)
      PROVE  HoldersInv'
  <2>1. Cardinality(Holders') = Cardinality(Holders) - 1
    BY <1>2, <1>5, FS_RemoveElement DEF Exit
  <2>. QED
    BY <1>1, <1>2, <1>5, <2>1 DEF Exit, HoldersInv, One
<1>6. CASE Holders' = Holders /\ expirations' = expirations + 1
  BY <1>1, <1>2, <1>6 DEF HoldersInv, One
<1>. QED
  BY <1>3, <1>4, <1>5, <1>6, HolderSteps

(* At most one request reads the row for the cache, and one more for each TTL *)
(* of the lock that ended (StampedeBounded).                                   *)
THEOREM StampedeTheorem == Spec => []StampedeBounded
<1>1. Init => HoldersInv
  <2>. SUFFICES ASSUME Init
                PROVE  HoldersInv
    OBVIOUS
  <2>1. Holders = {}
    BY DEF Init, Idle, Holders
  <2>. QED
    BY <2>1, FS_EmptySet DEF Init, LockInit, HoldersInv, One
<1>2. TypeOK /\ TypeOK' /\ HoldersInv /\ [Next]_vars => HoldersInv'
  BY HoldersKept
<1>3. TypeOK /\ HoldersInv => StampedeBounded
  <2>. SUFFICES ASSUME TypeOK, HoldersInv
                PROVE  Cardinality(Holders) <= 1 + expirations
    BY DEF StampedeBounded, Holders
  <2>1. expirations \in Nat /\ Holders \in SUBSET Client
    BY BoundsAssumption DEF TypeOK, Holders
  <2>2. Cardinality(Holders) \in Nat
    BY <2>1, ClientAssumption, FS_Subset, FS_CardinalityType
  <2>. QED
    BY <2>1, <2>2 DEF HoldersInv, One
<1>. QED
  BY <1>1, <1>2, <1>3, TypeCorrect, PTL DEF Spec

LEMMA HeldKept ==
  ASSUME TypeOK, HeldInv, [Next]_vars
  PROVE  HeldInv'
<1>1. ASSUME UNCHANGED held
      PROVE  HeldInv'
  BY <1>1 DEF HeldInv
<1>2. ASSUME NEW v \in Client, TryLock(v)
      PROVE  HeldInv'
  BY <1>2, ClientAssumption DEF TryLock, Acquire, lockVars, HeldInv, TypeOK
<1>3. ASSUME NEW v \in Client, ForgetToken(v)
      PROVE  HeldInv'
  BY <1>3, ClientAssumption DEF ForgetToken, Forget, HeldInv, TypeOK
<1>4. ASSUME NEW v \in Client,
             \/ Visit(v) \/ LookBanned(v) \/ HitLink(v) \/ ReadRow(v) \/ Fill(v)
             \/ ReleaseLock(v) \/ WaitedLook(v) \/ DirectRead(v) \/ Leave(v)
             \/ VisitFails(v)
      PROVE  UNCHANGED held
  BY <1>4 DEF Visit, LookBanned, HitLink, ReadRow, Fill, ReleaseLock, Unlock, WaitedLook,
              DirectRead, Leave, VisitFails, CommandFails, LockUnanswered, AcquireUnanswered,
              FillUnanswered, ReleaseUnanswered, Store, OnlyVisit, redisVars, lockVars
<1>5. ASSUME NEW w \in Writer,
             (\E kind \in Kinds : StartOp(w, kind)) \/ WriterStep(w) \/ WriterFails(w)
      PROVE  UNCHANGED held
  BY <1>5 DEF StartOp, WriterStep, WriterFails, InsertRow, UpdateRow, ModerateRow, Purge,
              Mark, Commit, PurgeFails, MarkFails, RollBack, redisVars, lockVars
<1>6. ASSUME NEW p \in Process, Crash(p)
      PROVE  HeldInv'
  BY <1>6 DEF Crash, HeldInv, TypeOK
<1>7. CASE \/ EraseUser \/ ExpireLink \/ ExpireNotFound \/ ExpireBanned \/ ExpireLock
          \/ UNCHANGED vars
  BY <1>1, <1>7 DEF EraseUser, ExpireLink, ExpireNotFound, ExpireBanned, ExpireLock,
                    LockExpires, OnlyKeys, vars, redisVars, lockVars
<1>8. ASSUME NEW v \in Client, Visit(v) \/ VisitStep(v) \/ VisitFails(v)
      PROVE  HeldInv'
  BY <1>1, <1>2, <1>3, <1>4, <1>8 DEF VisitStep, Holding
<1>. QED
  BY <1>1, <1>5, <1>6, <1>7, <1>8 DEF Next

(* A release frees only a lock that a request of the same process took. *)
THEOREM ReleaseTheorem == Spec => ReleasesOwn
<1>1. Init => HeldInv
  BY DEF Init, LockInit, HeldInv
<1>2. TypeOK /\ HeldInv /\ [Next]_vars => HeldInv'
  BY HeldKept
<1>3. TypeOK /\ HeldInv => \A v \in Client :
        (ReleaseLock(v) \/ ReleaseUnanswered(v)) /\ lock' # lock
          => lock \in Client /\ ProcessOf[lock] = ProcessOf[v]
  BY ClientAssumption DEF TypeOK, HeldInv, ReleaseLock, ReleaseUnanswered, Unlock
<1>. QED
  BY <1>1, <1>2, <1>3, TypeCorrect, PTL DEF Spec, ReleasesOwn
-----------------------------------------------------------------------------
(* Bans *)

Others(v) == \A u \in Client \ {v} : visit'[u] = visit[u]

LEMMA NoRowRefused == ~Redirects(NoRow) /\ Outcome(NoRow) = "refuse"
  BY DEF Redirects, Outcome

LEMMA MoveKeeps ==
  ASSUME VisitOK, NEW v \in Client, NEW pc, Move(v, pc)
  PROVE  /\ visit'[v].pc = pc
         /\ visit'[v].masked = visit[v].masked
         /\ visit'[v].after = visit[v].after
         /\ Others(v)
  BY DEF Move, VisitOK, VisitType, Others

LEMMA UnlockKeeps ==
  ASSUME VisitOK, NEW v \in Client, NEW a,
         visit' = [visit EXCEPT ![v].pc = "unlock", ![v].got = NoRow, ![v].after = a]
  PROVE  /\ visit'[v].pc = "unlock"
         /\ visit'[v].masked = visit[v].masked
         /\ visit'[v].after = a
         /\ Others(v)
  BY DEF VisitOK, VisitType, Others

(* Only a read of the row leads to a fill. *)
LEMMA FillsAfter ==
  ASSUME TypeOK, [Next]_vars, NEW v \in Client, At(v, "fill")'
  PROVE  \/ At(v, "fill") /\ visit'[v].got = visit[v].got
         \/ visit'[v].got = row
<1>. USE DEF At
<1>1. VisitOK
  BY TypeParts
<1>2. CASE UNCHANGED visit
  BY <1>2
<1>3. ASSUME NEW u \in Client, NEW pc \in VisitPcs \ {"fill"}, Move(u, pc)
      PROVE  At(v, "fill") /\ visit'[v].got = visit[v].got
  BY <1>1, <1>3 DEF Move, VisitOK
<1>4. ASSUME NEW u \in Client, NEW a,
             visit' = [visit EXCEPT ![u].pc = "unlock", ![u].got = NoRow, ![u].after = a]
      PROVE  At(v, "fill") /\ visit'[v].got = visit[v].got
  BY <1>1, <1>4 DEF VisitOK, VisitType
<1>5. ASSUME NEW u \in Client, NEW pc \in VisitPcs \ {"fill"}, NEW b \in BOOLEAN,
             visit' = [visit EXCEPT ![u].pc = pc, ![u].masked = b]
      PROVE  At(v, "fill") /\ visit'[v].got = visit[v].got
  BY <1>1, <1>5 DEF VisitOK, VisitType
<1>6. Idle.pc = "idle"
  <2>1. \A b \in BOOLEAN :
          [pc |-> "idle", got |-> NoRow, after |-> "direct", masked |-> b].pc = "idle"
    OBVIOUS
  <2>. QED
    BY <2>1, Zenon DEF Idle
<1>7. ASSUME NEW u \in Client, Visit(u)
      PROVE  At(v, "fill") /\ visit'[v].got = visit[v].got
  <2>1. sealed \in BOOLEAN
    BY DEF TypeOK
  <2>2. (IF cache.notFound THEN "refuse" ELSE "lookBanned") \in VisitPcs \ {"fill"}
    BY DEF VisitPcs
  <2>. QED
    BY <1>5, <1>7, <2>1, <2>2 DEF Visit
<1>8. ASSUME NEW u \in Client,
             \/ LookBanned(u) \/ HitLink(u) \/ TryLock(u) \/ ReleaseLock(u)
             \/ ForgetToken(u) \/ WaitedLook(u) \/ DirectRead(u)
      PROVE  At(v, "fill") /\ visit'[v].got = visit[v].got
  <2>1. visit[u].after \in {"redirect", "refuse", "direct"}
    BY <1>1 DEF VisitOK, VisitType
  <2>2. PICK pc \in {"redirect", "refuse", "direct", "lookLink", "read", "wait", "forget"} :
          Move(u, pc)
    BY <1>8, <2>1, OutcomeType DEF LookBanned, HitLink, TryLock, ReleaseLock, ForgetToken,
       WaitedLook, DirectRead, Answer
  <2>3. pc \in VisitPcs \ {"fill"}
    BY DEF VisitPcs
  <2>. QED
    BY <1>3, <2>2, <2>3
<1>9. ASSUME NEW u \in Client, Fill(u)
      PROVE  At(v, "fill") /\ visit'[v].got = visit[v].got
  BY <1>4, <1>9 DEF Fill, GoUnlock
<1>10. ASSUME NEW u \in Client, VisitFails(u)
       PROVE  At(v, "fill") /\ visit'[v].got = visit[v].got
  <2>1. CASE visit[u].pc \in {"read", "fill"}
    BY <1>4, <1>10, <2>1, FailureMoves
  <2>2. CASE visit[u].pc \notin {"read", "fill"}
    <3>1. PICK pc \in {"direct", "redirect", "refuse"} : Move(u, pc)
      BY <1>10, <2>2, OutcomeType, FailureMoves DEF Answer
    <3>. QED
      BY <1>3, <3>1 DEF VisitPcs
  <2>. QED
    BY <2>1, <2>2
<1>11. ASSUME NEW u \in Client, ReadRow(u)
       PROVE  \/ At(v, "fill") /\ visit'[v].got = visit[v].got
              \/ visit'[v].got = row
  BY <1>1, <1>11 DEF ReadRow, VisitOK, VisitType
<1>12. ASSUME NEW u \in Client, Leave(u)
       PROVE  At(v, "fill") /\ visit'[v].got = visit[v].got
  BY <1>1, <1>6, <1>12 DEF Leave, VisitOK
<1>13. ASSUME NEW p \in Process, Crash(p)
       PROVE  At(v, "fill") /\ visit'[v].got = visit[v].got
  BY <1>1, <1>6, <1>13 DEF Crash, VisitOK
<1>14. ASSUME NEW w \in Writer, NEW kind \in Kinds, StartOp(w, kind)
       PROVE  At(v, "fill") /\ visit'[v].got = visit[v].got
  BY <1>1, <1>14 DEF StartOp, VisitOK, VisitType
<1>15. ASSUME NEW w \in Writer, WriterStep(w) \/ WriterFails(w)
       PROVE  UNCHANGED visit
  BY <1>15 DEF WriterStep, WriterFails, InsertRow, UpdateRow, ModerateRow, Purge, Mark,
               Commit, PurgeFails, MarkFails, RollBack
<1>16. ASSUME EraseUser \/ ExpireLink \/ ExpireNotFound \/ ExpireBanned \/ ExpireLock
                \/ UNCHANGED vars
       PROVE  UNCHANGED visit
  BY <1>16 DEF EraseUser, ExpireLink, ExpireNotFound, ExpireBanned, ExpireLock, OnlyKeys,
               vars
<1>17. ASSUME NEW u \in Client, Visit(u) \/ VisitStep(u) \/ VisitFails(u)
       PROVE  \/ At(v, "fill") /\ visit'[v].got = visit[v].got
              \/ visit'[v].got = row
  BY <1>7, <1>8, <1>9, <1>10, <1>11, <1>12, <1>17 DEF VisitStep, Holding
<1>. QED
  BY <1>2, <1>13, <1>14, <1>15, <1>16, <1>17 DEF Next

LEMMA BannedRefused == \A saw, r : r \in Row => ~Redirects(Updated("ban", saw, r))
  BY DEF Redirects, Updated, Row

LEMMA SealKept ==
  ASSUME TypeOK, SealInv, [Next]_vars
  PROVE  SealInv'
<1>1. ASSUME sealed', sealed, UNCHANGED op, ~Redirects(row'),
             cache'.banned = cache.banned,
             ~cache.banned => ~Redirects(cache'.link)
      PROVE  SealInv'
  BY <1>1, FillsAfter DEF SealInv, OpAt, At, Redirects
<1>2. ASSUME NEW v \in Client, Visit(v) \/ VisitStep(v) \/ VisitFails(v)
      PROVE  SealInv'
  <2>. SUFFICES ASSUME sealed'
                PROVE  SealInv'
    BY DEF SealInv
  <2>1. sealed /\ UNCHANGED <<op, row>>
    BY <1>2, VisitsOnly
  <2>2. CASE UNCHANGED cache
    BY <1>1, <2>1, <2>2 DEF SealInv
  <2>3. CASE At(v, "fill") /\ Store(v)
    <3>1. /\ cache'.banned = cache.banned
          /\ cache'.link \in {cache.link, visit[v].got}
      BY <2>3 DEF Store, TypeOK
    <3>. QED
      BY <1>1, <2>1, <2>3, <3>1 DEF SealInv
  <2>. QED
    BY <1>2, <2>2, <2>3, FillsOrNot
<1>3. ASSUME NEW w \in Writer, WriterStep(w) \/ WriterFails(w), ~Commit(w)
      PROVE  SealInv'
  <2>1. op[w].pc # "idle" /\ sealed' = sealed
    BY <1>3 DEF WriterStep, WriterFails, InsertRow, UpdateRow, ModerateRow, Purge, Mark,
                PurgeFails, MarkFails, RollBack, OpAt, Moderating, history
  <2>. QED
    BY <2>1 DEF SealInv, OpAt
<1>4. ASSUME NEW w \in Writer, Commit(w)
      PROVE  SealInv'
  <2>. SUFFICES ASSUME sealed'
                PROVE  SealInv'
    BY DEF SealInv
  <2>1. op[w].kind = "ban" /\ SameLink(w) /\ cache.banned /\ Alone(w)
    BY <1>4 DEF Commit
  <2>2. \A u \in Writer : op'[u].pc = "idle"
    BY <1>4, <2>1 DEF Commit, Finish, Alone, OpAt, NoOp, TypeOK
  <2>3. ~Redirects(row')
    BY <1>4, <2>1, BannedRefused DEF Commit, Written, SameLink, TypeOK, MaybeRow
  <2>4. cache' = cache
    BY <1>4 DEF Commit, redisVars
  <2>. QED
    BY <2>1, <2>2, <2>3, <2>4 DEF SealInv, OpAt
<1>5. ASSUME NEW w \in Writer, NEW kind \in Kinds, StartOp(w, kind)
      PROVE  SealInv'
  BY <1>5 DEF StartOp, SealInv
<1>6. ASSUME NEW p \in Process, Crash(p)
      PROVE  SealInv'
  BY <1>1, <1>6 DEF Crash, history, SealInv
<1>7. CASE EraseUser
  BY <1>1, <1>7, NoRowRefused DEF EraseUser, redisVars, SealInv
<1>8. CASE ExpireLink
  <2>1. cache'.link = NoRow /\ cache'.banned = cache.banned
    BY <1>8 DEF ExpireLink, TypeOK
  <2>. QED
    BY <1>1, <1>8, <2>1, NoRowRefused DEF ExpireLink, OnlyKeys, SealInv
<1>9. CASE ExpireNotFound
  <2>1. cache'.link = cache.link /\ cache'.banned = cache.banned
    BY <1>9 DEF ExpireNotFound, TypeOK
  <2>. QED
    BY <1>1, <1>9, <2>1 DEF ExpireNotFound, OnlyKeys, SealInv
<1>10. CASE ExpireBanned
  <2>1. cache'.link = NoRow
    BY <1>10 DEF ExpireBanned, TypeOK
  <2>. QED
    BY <1>10, <2>1, NoRowRefused DEF ExpireBanned, OnlyKeys, SealInv, OpAt, At
<1>11. CASE ExpireLock
  BY <1>1, <1>11 DEF ExpireLock, SealInv
<1>12. CASE UNCHANGED vars
  BY <1>1, <1>12 DEF vars, history, SealInv
<1>. QED
  BY <1>2, <1>3, <1>4, <1>5, <1>6, <1>7, <1>8, <1>9, <1>10, <1>11, <1>12 DEF Next
LEMMA MaskedVisit ==
  ASSUME TypeOK, SealInv, MaskInv,
         NEW v \in Client, Visit(v) \/ VisitStep(v) \/ VisitFails(v)
  PROVE  MaskInv'
<1>. USE DEF At
<1>1. VisitOK /\ MaskOK(v)
  BY TypeParts DEF MaskInv
<1>2. sealed' = sealed /\ cache'.banned = cache.banned
  <2>1. CASE Store(v)
    BY <2>1 DEF Store, TypeOK
  <2>. QED
    BY <2>1, VisitsOnly, FillsOrNot
<1>3. ASSUME Others(v), MaskOK(v)'
      PROVE  MaskInv'
  BY <1>2, <1>3 DEF Others, MaskInv, MaskOK
<1>4. CASE Visit(v)
  <2>1. PICK pc \in {"refuse", "lookBanned"} :
          visit' = [visit EXCEPT ![v].pc = pc, ![v].masked = sealed]
    <3>1. (IF cache.notFound THEN "refuse" ELSE "lookBanned") \in {"refuse", "lookBanned"}
      OBVIOUS
    <3>. QED
      BY <1>4, <3>1 DEF Visit
  <2>2. sealed \in BOOLEAN
    BY DEF TypeOK
  <2>3. \A b \in BOOLEAN : visit' = [visit EXCEPT ![v].pc = pc, ![v].masked = b] =>
           visit'[v].pc = pc /\ visit'[v].masked = b /\ Others(v)
    BY <1>1 DEF VisitOK, VisitType, Others
  <2>4. visit'[v].pc = pc /\ visit'[v].masked = sealed /\ Others(v)
    BY <2>1, <2>2, <2>3
  <2>. QED
    BY <1>2, <1>3, <2>4 DEF MaskOK
<1>5. CASE LookBanned(v)
  <2>1. CASE cache.banned
    BY <1>1, <1>2, <1>3, <1>5, <2>1, MoveKeeps, NoRowRefused DEF LookBanned, Answer, MaskOK
  <2>2. CASE ~cache.banned
    BY <1>1, <1>2, <1>3, <1>5, <2>2, MoveKeeps DEF LookBanned, MaskOK
  <2>. QED
    BY <2>1, <2>2
<1>6. ASSUME NEW r, Answer(v, r), visit[v].masked => ~Redirects(r)
      PROVE  MaskInv'
  <2>1. /\ visit'[v].pc = Outcome(r)
        /\ visit'[v].masked = visit[v].masked
        /\ Others(v)
    BY <1>1, <1>6, MoveKeeps DEF Answer
  <2>2. visit[v].masked => Outcome(r) = "refuse"
    BY <1>6 DEF Outcome
  <2>. QED
    BY <1>1, <1>2, <1>3, <2>1, <2>2 DEF MaskOK
<1>7. CASE HitLink(v)
  BY <1>1, <1>6, <1>7 DEF HitLink, MaskOK, SealInv
<1>8. CASE TryLock(v)
  <2>1. PICK pc \in {"read", "wait"} : Move(v, pc)
    BY <1>8 DEF TryLock
  <2>2. visit[v].pc = "lookLink"
    BY <1>8 DEF TryLock
  <2>. QED
    BY <1>1, <1>2, <1>3, <2>1, <2>2, MoveKeeps DEF MaskOK
<1>9. CASE ReadRow(v)
  <2>1. /\ visit'[v].pc = "fill" /\ visit[v].pc = "read"
        /\ visit'[v].masked = visit[v].masked /\ Others(v)
    BY <1>1, <1>9 DEF ReadRow, VisitOK, VisitType, Others
  <2>. QED
    BY <1>1, <1>2, <1>3, <2>1 DEF MaskOK
<1>10. CASE Fill(v)
  <2>1. visit[v].masked => Outcome(visit[v].got) = "refuse"
    BY <1>1, <1>10 DEF Fill, MaskOK, SealInv, Outcome
  <2>2. /\ visit'[v].pc = "unlock" /\ visit'[v].masked = visit[v].masked
        /\ visit'[v].after = Outcome(visit[v].got) /\ Others(v)
    BY <1>1, <1>10, UnlockKeeps DEF Fill, GoUnlock
  <2>. QED
    BY <1>1, <1>2, <1>3, <1>10, <2>1, <2>2 DEF Fill, MaskOK
<1>11. CASE ReleaseLock(v) \/ ForgetToken(v)
  <2>1. visit[v].pc \in {"unlock", "forget"}
    BY <1>11 DEF ReleaseLock, ForgetToken
  <2>2. visit[v].after \in {"redirect", "refuse", "direct"}
    BY <1>1 DEF VisitOK, VisitType
  <2>3. PICK pc \in {visit[v].after, "forget"} : Move(v, pc)
    BY <1>11 DEF ReleaseLock, ForgetToken
  <2>. QED
    BY <1>1, <1>2, <1>3, <2>1, <2>2, <2>3, MoveKeeps DEF MaskOK
<1>12. CASE WaitedLook(v)
  <2>1. CASE cache.link # NoRow /\ Answer(v, cache.link)
    BY <1>1, <1>6, <1>12, <2>1 DEF WaitedLook, MaskOK, SealInv
  <2>2. CASE Move(v, "direct")
    BY <1>1, <1>2, <1>3, <2>2, MoveKeeps DEF MaskOK
  <2>. QED
    BY <1>12, <2>1, <2>2 DEF WaitedLook
<1>13. CASE DirectRead(v)
  BY <1>1, <1>6, <1>13 DEF DirectRead, MaskOK, SealInv
<1>14. CASE Leave(v)
  <2>1. /\ [pc |-> "idle", got |-> NoRow, after |-> "direct", masked |-> FALSE].masked = FALSE
    BY Zenon
  <2>2. visit'[v].masked = FALSE /\ Others(v)
    BY <1>1, <1>14, <2>1 DEF Leave, Idle, VisitOK, Others
  <2>. QED
    BY <1>3, <2>2 DEF MaskOK
<1>15. CASE VisitFails(v)
  <2>1. CASE visit[v].pc \in {"read", "fill"}
    <3>1. PICK a \in {"refuse", "direct"} :
            visit' = [visit EXCEPT ![v].pc = "unlock", ![v].got = NoRow, ![v].after = a]
      BY <1>15, <2>1, FailureMoves
    <3>. QED
      BY <1>1, <1>2, <1>3, <2>1, <3>1, UnlockKeeps DEF MaskOK
  <2>2. CASE visit[v].pc \notin {"read", "fill"}
    <3>1. CASE Answer(v, NoRow)
      BY <1>6, <3>1, NoRowRefused
    <3>2. CASE Move(v, "direct")
      BY <1>1, <1>2, <1>3, <3>2, MoveKeeps DEF MaskOK
    <3>. QED
      BY <1>15, <2>2, <3>1, <3>2, FailureMoves
  <2>. QED
    BY <2>1, <2>2
<1>. QED
  BY <1>4, <1>5, <1>7, <1>8, <1>9, <1>10, <1>11, <1>12, <1>13, <1>14, <1>15
     DEF VisitStep, Holding

LEMMA MaskKept ==
  ASSUME TypeOK, SealInv, MaskInv, [Next]_vars
  PROVE  MaskInv'
<1>1. VisitOK
  BY TypeParts
<1>2. ASSUME UNCHANGED <<visit, sealed>>, cache'.banned => cache.banned,
             ~cache.banned => ~cache'.banned
      PROVE  MaskInv'
  BY <1>2 DEF MaskInv, MaskOK
<1>3. ASSUME NEW w \in Writer, WriterStep(w) \/ WriterFails(w)
      PROVE  MaskInv'
  <2>1. op[w].pc # "idle" /\ visit' = visit
    BY <1>3 DEF WriterStep, WriterFails, InsertRow, UpdateRow, ModerateRow, Purge, Mark,
                Commit, PurgeFails, MarkFails, RollBack, OpAt, Moderating
  <2>2. \A v \in Client : ~visit[v].masked
    BY <2>1, <1>1 DEF MaskInv, MaskOK, SealInv, OpAt
  <2>. QED
    BY <2>1, <2>2 DEF MaskInv, MaskOK
<1>4. ASSUME NEW w \in Writer, NEW kind \in Kinds, StartOp(w, kind)
      PROVE  MaskInv'
  <2>1. \A b \in BOOLEAN : \A v \in Client : [visit[v] EXCEPT !.masked = b].masked = b
    BY <1>1 DEF VisitOK, VisitType
  <2>2. \A v \in Client : visit'[v].masked = FALSE
    BY <1>4, <2>1, Zenon DEF StartOp
  <2>. QED
    BY <2>2 DEF MaskInv, MaskOK
<1>5. ASSUME NEW p \in Process, Crash(p)
      PROVE  MaskInv'
  <2>1. /\ [pc |-> "idle", got |-> NoRow, after |-> "direct", masked |-> FALSE].masked = FALSE
    BY Zenon
  <2>2. \A v \in Client : visit'[v] = visit[v] \/ visit'[v].masked = FALSE
    BY <1>5, <2>1 DEF Crash, Idle
  <2>. QED
    BY <1>5, <2>2 DEF Crash, history, MaskInv, MaskOK
<1>6. CASE EraseUser \/ ExpireLock \/ UNCHANGED vars
  BY <1>2, <1>6 DEF EraseUser, ExpireLock, redisVars, history, vars
<1>7. CASE ExpireLink \/ ExpireNotFound \/ ExpireBanned
  <2>1. cache'.banned => cache.banned
    BY <1>7 DEF ExpireLink, ExpireNotFound, ExpireBanned, TypeOK
  <2>. QED
    BY <1>2, <1>7, <2>1 DEF ExpireLink, ExpireNotFound, ExpireBanned, OnlyKeys
<1>. QED
  BY <1>3, <1>4, <1>5, <1>6, <1>7, MaskedVisit DEF Next

(* A visit that begins after a complete ban is not redirected while nobody     *)
(* else changes the link, whatever a fill of before the ban leaves (BanHolds). *)
THEOREM BanTheorem == Spec => []BanHolds
<1>1. Init => SealInv /\ MaskInv
  <2>. SUFFICES ASSUME Init
                PROVE  MaskInv
    BY Zenon DEF Init, SealInv
  <2>1. [pc |-> "idle", got |-> NoRow, after |-> "direct", masked |-> FALSE].masked = FALSE
    BY Zenon
  <2>2. \A v \in Client : visit[v].masked = FALSE
    BY <2>1 DEF Init, Idle
  <2>. QED
    BY <2>2 DEF MaskInv, MaskOK
<1>2. TypeOK /\ SealInv /\ MaskInv /\ [Next]_vars => SealInv' /\ MaskInv'
  BY SealKept, MaskKept
<1>3. MaskInv => BanHolds
  BY DEF MaskInv, MaskOK, BanHolds, At
<1>. QED
  BY <1>1, <1>2, <1>3, TypeCorrect, PTL DEF Spec
-----------------------------------------------------------------------------
(* Coherence *)

LEMMA OpMoveIs ==
  ASSUME OpOK, NEW w \in Writer, NEW pc, OpMove(w, pc)
  PROVE  /\ op'[w].pc = pc /\ op'[w].kind = op[w].kind /\ op'[w].saw = op[w].saw
         /\ \A u \in Writer \ {w} : op'[u] = op[u]
  BY DEF OpMove, OpOK, OpType

LEMMA FinishIs ==
  ASSUME OpOK, NEW w \in Writer, Finish(w)
  PROVE  /\ op'[w].pc = "idle" /\ op'[w].kind \notin AdminKinds
         /\ \A u \in Writer \ {w} : op'[u] = op[u]
  BY DEF Finish, OpOK, NoOp, AdminKinds

LEMMA DisagreePresent ==
  Disagreement(cache, row) \subseteq Present /\ Disagreement(cache', row') \subseteq Present'
  BY DEF Disagreement, Present, Key

(* Without an unraced key there is nothing to show. *)
LEMMA NoneLeft ==
  ASSUME Present' \subseteq raced'
  PROVE  PendingInv' /\ TaintInv'
  BY DisagreePresent DEF PendingInv, TaintInv

(* Steps that taint no key and touch no transaction. *)
LEMMA Quiet ==
  ASSUME TypeOK, PendingInv, TaintInv, row' = row,
         \A u \in Writer : \/ op'[u] = op[u]
                           \/ /\ op[u].pc \in {"idle", "write"}
                              /\ op'[u].pc \in {"idle", "write", "purge"},
         Disagreement(cache', row') \ raced' \subseteq Disagreement(cache, row) \ raced,
         Present' \ raced' \subseteq Present \ raced \/ Uncommitted = {}
  PROVE  PendingInv' /\ TaintInv'
<1>1. Uncommitted' = Uncommitted
  BY DEF Uncommitted, Moderating
<1>2. TaintInv'
  BY <1>1 DEF TaintInv, OpAt, Uncommitted, Moderating
<1>3. PendingInv'
  BY DEF PendingInv, OpAt, SameLink
<1>. QED
  BY <1>2, <1>3

(* A key is written: it is tainted if it contradicts the row or if some       *)
(* transaction has invalidated without having committed.                      *)
LEMMA FillTaints ==
  ASSUME TypeOK, PendingInv, TaintInv, NEW v \in Client, Store(v), op' = op
  PROVE  PendingInv' /\ TaintInv'
<1>1. PICK k \in {"link", "notFound"} :
        /\ k = IF visit[v].got = NoRow THEN "notFound" ELSE "link"
        /\ raced' = IF k \in Disagreement(cache', row) \/ Uncommitted # {}
                    THEN raced \cup {k} ELSE raced \ {k}
  BY DEF Store
<1>2. /\ k = "link" => cache'.notFound = cache.notFound
      /\ k = "notFound" => cache'.link = cache.link
      /\ cache'.banned = cache.banned
      /\ row' = row /\ op' = op
  BY <1>1 DEF Store, TypeOK
<1>3. \A j \in Key \ {k} : /\ j \in Disagreement(cache', row') <=> j \in Disagreement(cache, row)
                           /\ j \in Present' <=> j \in Present
  BY <1>2 DEF Disagreement, Present, Key
<1>4. Disagreement(cache', row') \ raced' \subseteq Disagreement(cache, row) \ raced
  BY <1>1, <1>2, <1>3 DEF Disagreement
<1>5. Present' \ raced' \subseteq Present \ raced \/ Uncommitted = {}
  BY <1>1, <1>3 DEF Present
<1>. QED
  BY <1>2, <1>4, <1>5, Quiet

LEMMA ExpiryQuiet ==
  ASSUME TypeOK, PendingInv, TaintInv, ExpireLink \/ ExpireNotFound \/ ExpireBanned
  PROVE  PendingInv' /\ TaintInv'
<1>1. UNCHANGED <<row, op>>
  BY DEF ExpireLink, ExpireNotFound, ExpireBanned, OnlyKeys
<1>2. PICK k \in Key :
        /\ raced' = raced \ {k}
        /\ k # "link" => cache'.link = cache.link
        /\ k # "notFound" => cache'.notFound = cache.notFound
        /\ k # "banned" => cache'.banned = cache.banned
        /\ k = "link" => cache'.link = NoRow
        /\ k = "notFound" => ~cache'.notFound
        /\ k = "banned" => ~cache'.banned
  <2>1. CASE ExpireLink
    BY <2>1 DEF ExpireLink, TypeOK, Key
  <2>2. CASE ExpireNotFound
    BY <2>2 DEF ExpireNotFound, TypeOK, Key
  <2>3. CASE ExpireBanned
    BY <2>3 DEF ExpireBanned, TypeOK, Key
  <2>. QED
    BY <2>1, <2>2, <2>3
<1>3. Disagreement(cache', row') \ raced' \subseteq Disagreement(cache, row) \ raced
  BY <1>1, <1>2 DEF Disagreement
<1>4. Present' \ raced' \subseteq Present \ raced
  BY <1>2 DEF Present
<1>. QED
  BY <1>1, <1>3, <1>4, Quiet

LEMMA WriteKeeps ==
  ASSUME TypeOK, PendingInv, TaintInv, NEW w \in Writer,
         InsertRow(w) \/ UpdateRow(w) \/ ModerateRow(w)
  PROVE  PendingInv' /\ TaintInv'
<1>. USE DEF OpAt
<1>1. OpOK
  BY TypeParts
<1>2. cache' = cache /\ op[w].pc = "write"
  BY DEF InsertRow, UpdateRow, ModerateRow, redisVars
<1>3. ASSUME op'[w].pc \in {"idle", "purge"}, \A u \in Writer \ {w} : op'[u] = op[u],
             raced \subseteq raced'
      PROVE  TaintInv'
  <2>1. Uncommitted' = Uncommitted
    BY <1>2, <1>3 DEF Uncommitted, Moderating
  <2>. QED
    BY <1>2, <1>3, <2>1 DEF TaintInv, Present, Uncommitted, Moderating
<1>4. ASSUME OpMove(w, "purge"), op[w].kind \notin AdminKinds, raced' = raced
      PROVE  PendingInv' /\ TaintInv'
  <2>1. op'[w].pc = "purge" /\ op'[w].kind \notin AdminKinds
    BY <1>1, <1>4, OpMoveIs
  <2>2. TaintInv'
    BY <1>1, <1>3, <1>4, OpMoveIs
  <2>. QED
    BY <2>1, <2>2 DEF PendingInv
<1>5. CASE InsertRow(w) /\ row = NoRow /\ op[w].kind # "duplicate"
  BY <1>4, <1>5 DEF InsertRow, InsertKinds, AdminKinds
<1>6. CASE InsertRow(w) /\ row = NoRow /\ op[w].kind = "duplicate"
  <2>1. Finish(w) /\ raced' = raced \cup Disagreement(cache', row')
    BY <1>2, <1>6 DEF InsertRow
  <2>2. PendingInv'
    BY <2>1 DEF PendingInv
  <2>3. TaintInv'
    BY <1>1, <1>3, <2>1, FinishIs
  <2>. QED
    BY <2>2, <2>3
<1>7. CASE InsertRow(w) /\ row # NoRow
  BY <1>1, <1>2, <1>7, FinishIs, Quiet DEF InsertRow, Present
<1>8. CASE UpdateRow(w)
  BY <1>4, <1>8 DEF UpdateRow, OwnerKinds, AdminKinds, history
<1>9. CASE ModerateRow(w)
  BY <1>1, <1>2, <1>9, OpMoveIs, Quiet DEF ModerateRow, history, Present
<1>. QED
  BY <1>5, <1>6, <1>7, <1>8, <1>9

LEMMA PurgeKeeps ==
  ASSUME NEW w \in Writer, Purge(w) \/ PurgeFails(w)
  PROVE  PendingInv' /\ TaintInv'
<1>1. CASE Purge(w)
  BY <1>1, NoneLeft DEF Purge, Present
<1>2. CASE PurgeFails(w)
  <2>1. PICK kept \in SUBSET Present :
          /\ cache' = [link     |-> IF "link" \in kept THEN cache.link ELSE NoRow,
                       notFound |-> "notFound" \in kept,
                       banned   |-> "banned" \in kept]
          /\ raced' = kept
    BY <1>2 DEF PurgeFails
  <2>2. /\ cache'.link # NoRow => "link" \in kept
        /\ cache'.notFound => "notFound" \in kept
        /\ cache'.banned => "banned" \in kept
    BY <2>1, Zenon
  <2>. QED
    BY <2>1, <2>2, NoneLeft DEF Present
<1>. QED
  BY <1>1, <1>2

(* A transaction that has invalidated and not yet marked leaves no key untainted. *)
LEMMA MarkTaints ==
  ASSUME TaintInv, NEW w \in Writer, OpAt(w, "mark"), op[w].kind \in AdminKinds
  PROVE  Present \subseteq raced
<1>1. w \in Uncommitted
  BY DEF Uncommitted, Moderating, OpAt
<1>. QED
  BY <1>1 DEF TaintInv, OpAt

LEMMA MarkKeeps ==
  ASSUME TypeOK, OpInv, PendingInv, TaintInv, NEW w \in Writer, Mark(w)
  PROVE  PendingInv' /\ TaintInv'
<1>. USE DEF OpAt
<1>1. OpOK /\ op[w].pc = "mark" /\ row' = row
  BY TypeParts DEF Mark
<1>2. CASE op[w].kind # "ban"
  <2>1. op[w].kind \notin AdminKinds /\ MarkedBy(op[w].kind) = "notFound"
    BY <1>1, <1>2 DEF OpInv, AdminKinds, MarkedBy
  <2>2. /\ cache' = [cache EXCEPT !["notFound"] = TRUE]
        /\ raced' = IF "notFound" \in Disagreement(cache', row) \/ Uncommitted \ {w} # {}
                    THEN raced \cup {"notFound"} ELSE raced \ {"notFound"}
        /\ Finish(w)
    BY <1>2, <2>1 DEF Mark
  <2>3. cache'.link = cache.link /\ cache'.banned = cache.banned
    BY <2>2 DEF TypeOK
  <2>4. /\ op'[w].pc = "idle" /\ op'[w].kind \notin AdminKinds
        /\ \A u \in Writer \ {w} : op'[u] = op[u]
    BY <1>1, <2>2, FinishIs
  <2>5. w \notin Uncommitted /\ Uncommitted' = Uncommitted /\ Uncommitted \subseteq Writer
    BY <2>1, <2>4 DEF Uncommitted, Moderating
  <2>6. \A j \in {"link", "banned"} :
           /\ j \in Disagreement(cache', row') <=> j \in Disagreement(cache, row)
           /\ j \in Present' <=> j \in Present
    BY <1>1, <2>3 DEF Disagreement, Present
  <2>7. TaintInv'
    BY <2>2, <2>4, <2>5, <2>6 DEF TaintInv, Present, Key
  <2>8. Disagreement(cache', row') \ raced' \subseteq Disagreement(cache, row) \ raced
    BY <1>1, <2>2, <2>6 DEF Disagreement, Key
  <2>9. PendingInv'
    BY <1>1, <2>4, <2>8 DEF PendingInv, SameLink
  <2>. QED
    BY <2>7, <2>9
<1>3. CASE op[w].kind = "ban"
  <2>1. /\ cache' = [cache EXCEPT !["banned"] = TRUE]
        /\ raced' = IF "banned" \in Disagreement(cache', Written(w)) \/ Uncommitted \ {w} # {}
                    THEN raced \cup {"banned"} ELSE raced \ {"banned"}
        /\ OpMove(w, "commit")
    BY <1>3 DEF Mark, MarkedBy
  <2>2. Present \subseteq raced
    BY <1>1, <1>3, MarkTaints DEF AdminKinds
  <2>3. cache'.link = cache.link /\ cache'.notFound = cache.notFound
    BY <2>1 DEF TypeOK
  <2>4. Present' \subseteq Present \cup {"banned"}
    BY <2>3 DEF Present, Key
  <2>5. CASE "banned" \in raced'
    <3>1. Present' \subseteq raced'
      BY <2>1, <2>2, <2>4, <2>5
    <3>. QED
      BY <3>1, NoneLeft
  <2>6. CASE "banned" \notin raced'
    <3>1. /\ "banned" \notin Disagreement(cache', Written(w))
          /\ Uncommitted \ {w} = {} /\ Present' \ raced' \subseteq {"banned"}
      BY <2>1, <2>2, <2>4, <2>6
    <3>2. /\ op'[w].pc = "commit" /\ op'[w].kind = "ban" /\ op'[w].saw = op[w].saw
          /\ \A u \in Writer \ {w} : op'[u] = op[u]
      BY <1>1, <1>3, <2>1, OpMoveIs
    <3>3. Uncommitted' = {w}
      BY <1>3, <3>1, <3>2 DEF Uncommitted, Moderating, AdminKinds
    <3>4. TaintInv'
      BY <3>1, <3>2, <3>3 DEF TaintInv
    <3>5. "banned" \in Disagreement(cache', row') => SameLink(w)'
      BY <1>1, <3>1, <3>2 DEF Written, SameLink
    <3>6. PendingInv'
      BY <3>1, <3>2, <3>5, DisagreePresent DEF PendingInv
    <3>. QED
      BY <3>4, <3>6
  <2>. QED
    BY <2>5, <2>6
<1>. QED
  BY <1>2, <1>3

LEMMA MarkFailsKeeps ==
  ASSUME TypeOK, OpInv, PendingInv, TaintInv, NEW w \in Writer, MarkFails(w)
  PROVE  PendingInv' /\ TaintInv'
<1>. USE DEF OpAt
<1>1. OpOK /\ op[w].pc = "mark" /\ UNCHANGED <<row, cache, raced>>
  BY TypeParts DEF MarkFails, redisVars, history
<1>2. CASE op[w].kind = "ban"
  BY <1>1, <1>2, MarkTaints, NoneLeft DEF AdminKinds, Present
<1>3. CASE op[w].kind # "ban"
  <2>1. op[w].kind \notin AdminKinds
    BY <1>1, <1>3 DEF OpInv, AdminKinds
  <2>2. /\ op'[w].pc = "idle" /\ op'[w].kind \notin AdminKinds
        /\ \A u \in Writer \ {w} : op'[u] = op[u]
    BY <1>1, <1>3, FinishIs DEF MarkFails
  <2>3. Uncommitted' = Uncommitted /\ w \notin Uncommitted /\ Uncommitted \subseteq Writer
    BY <2>1, <2>2 DEF Uncommitted, Moderating
  <2>4. TaintInv'
    BY <1>1, <2>2, <2>3 DEF TaintInv, Present
  <2>5. PendingInv'
    BY <1>1, <2>2 DEF PendingInv, SameLink
  <2>. QED
    BY <2>4, <2>5
<1>. QED
  BY <1>2, <1>3
LEMMA CommitKeeps ==
  ASSUME TypeOK, OpInv, PendingInv, TaintInv, NEW w \in Writer, Commit(w)
  PROVE  PendingInv' /\ TaintInv'
<1>. USE DEF OpAt
<1>1. OpOK /\ op[w].pc = "commit" /\ op[w].kind \in AdminKinds /\ UNCHANGED <<cache, raced>>
  BY TypeParts DEF Commit, OpInv, redisVars
<1>2. /\ op'[w].pc = "idle" /\ op'[w].kind \notin AdminKinds
      /\ \A u \in Writer \ {w} : op'[u] = op[u]
  BY <1>1, FinishIs DEF Commit
<1>3. w \in Uncommitted /\ Uncommitted' = Uncommitted \ {w} /\ Uncommitted \subseteq Writer
  BY <1>1, <1>2 DEF Uncommitted, Moderating
<1>4. TaintInv'
  BY <1>1, <1>2, <1>3 DEF TaintInv, Present
<1>5. ASSUME NEW k \in Disagreement(cache', row') \ raced'
      PROVE  \E u \in Writer : op'[u].pc = "purge" /\ op'[u].kind \notin AdminKinds
  <2>1. k = "banned" /\ op[w].kind = "ban" /\ Uncommitted = {w}
    BY <1>1, <1>3, <1>5, DisagreePresent DEF TaintInv, Present
  <2>2. ~SameLink(w)
    <3>. SUFFICES ASSUME SameLink(w)
                  PROVE  FALSE
      OBVIOUS
    <3>1. row \in Row /\ row' = Updated("ban", op[w].saw, row)
      BY <2>1 DEF SameLink, Commit, Written, TypeOK, MaybeRow
    <3>2. row'.isBanned /\ row' \in Row
      <4>1. \A b \in BOOLEAN, c \in BOOLEAN :
               /\ [row EXCEPT !.isBanned = b, !.isActive = c] \in Row
               /\ [row EXCEPT !.isBanned = b, !.isActive = c].isBanned = b
        BY <3>1 DEF Row
      <4>. QED
        BY <3>1, <4>1, Zenon DEF Updated
    <3>3. row' # NoRow
      BY <3>2, NoRowAssumption
    <3>. QED
      BY <1>5, <2>1, <3>2, <3>3 DEF Disagreement
  <2>3. row' = row
    BY <2>2 DEF Commit, Written
  <2>4. PICK u \in Writer : op[u].pc = "purge" /\ op[u].kind \notin AdminKinds
    <3>1. k \in Disagreement(cache, row) \ raced
      BY <1>1, <1>5, <2>3
    <3>2. ASSUME NEW u \in Writer, op[u].pc = "commit", op[u].kind = "ban"
          PROVE  u = w
      BY <2>1, <3>2 DEF Uncommitted, Moderating, AdminKinds
    <3>. QED
      BY <2>2, <3>1, <3>2 DEF PendingInv
  <2>. QED
    BY <1>1, <1>2, <2>4
<1>6. PendingInv'
  BY <1>5 DEF PendingInv
<1>. QED
  BY <1>4, <1>6

LEMMA RollBackKeeps ==
  ASSUME TypeOK, PendingInv, TaintInv, NEW w \in Writer, RollBack(w)
  PROVE  PendingInv' /\ TaintInv'
<1>. USE DEF OpAt
<1>1. OpOK /\ UNCHANGED <<row, cache>> /\ raced' = raced \cup Disagreement(cache', row')
  BY TypeParts DEF RollBack, redisVars
<1>2. /\ op'[w].kind \notin AdminKinds
      /\ \A u \in Writer \ {w} : op'[u] = op[u]
  BY <1>1, FinishIs DEF RollBack
<1>3. Uncommitted' = Uncommitted \ {w} /\ Uncommitted \subseteq Writer
  BY <1>2 DEF Uncommitted, Moderating
<1>4. TaintInv'
  BY <1>1, <1>2, <1>3 DEF TaintInv, Present
<1>5. PendingInv'
  BY <1>1 DEF PendingInv
<1>. QED
  BY <1>4, <1>5

LEMMA CoherenceKept ==
  ASSUME TypeOK, OpInv, PendingInv, TaintInv, [Next]_vars
  PROVE  PendingInv' /\ TaintInv'
<1>1. ASSUME UNCHANGED <<row, cache, op, raced>>
      PROVE  PendingInv' /\ TaintInv'
  BY <1>1, Quiet DEF Present
<1>2. ASSUME NEW v \in Client, Visit(v) \/ VisitStep(v) \/ VisitFails(v)
      PROVE  UNCHANGED <<row, op>> /\ (Store(v) \/ UNCHANGED <<cache, raced>>)
  BY <1>2, VisitsOnly, FillsOrNot
<1>3. ASSUME NEW v \in Client, Visit(v) \/ VisitStep(v) \/ VisitFails(v)
      PROVE  PendingInv' /\ TaintInv'
  BY <1>1, <1>2, <1>3, FillTaints
<1>4. ASSUME NEW w \in Writer, NEW kind \in Kinds, StartOp(w, kind)
      PROVE  PendingInv' /\ TaintInv'
  <2>1. op' = [op EXCEPT ![w] = [kind |-> kind, pc |-> "write", saw |-> row]]
        /\ UNCHANGED <<row, cache, raced>> /\ op[w].pc = "idle"
    BY <1>4 DEF StartOp, OpAt, redisVars
  <2>2. op'[w].pc = "write" /\ \A u \in Writer \ {w} : op'[u] = op[u]
    BY <2>1 DEF TypeOK
  <2>. QED
    BY <2>1, <2>2, Quiet DEF Present
<1>5. ASSUME NEW w \in Writer, WriterStep(w) \/ WriterFails(w)
      PROVE  PendingInv' /\ TaintInv'
  BY <1>5, WriteKeeps, PurgeKeeps, MarkKeeps, MarkFailsKeeps, CommitKeeps, RollBackKeeps
     DEF WriterStep, WriterFails
<1>6. ASSUME NEW p \in Process, Crash(p)
      PROVE  PendingInv' /\ TaintInv'
  BY <1>1, <1>6 DEF Crash, history
<1>7. CASE EraseUser
  <2>1. UNCHANGED <<cache, op>> /\ raced' = raced \cup Disagreement(cache', row')
    BY <1>7 DEF EraseUser, redisVars
  <2>2. Uncommitted' = Uncommitted
    BY <2>1 DEF Uncommitted, Moderating
  <2>. QED
    BY <2>1, <2>2 DEF PendingInv, TaintInv, Present, OpAt
<1>8. CASE ExpireLink \/ ExpireNotFound \/ ExpireBanned
  BY <1>8, ExpiryQuiet
<1>9. CASE ExpireLock \/ UNCHANGED vars
  BY <1>1, <1>9 DEF ExpireLock, vars, redisVars, history
<1>. QED
  BY <1>3, <1>4, <1>5, <1>6, <1>7, <1>8, <1>9 DEF Next

(* When no operation is in progress, every key that contradicts the row is the *)
(* trace of a race, of a failure or of a missing invalidation (Coherent).      *)
THEOREM CoherentTheorem == Spec => []Coherent
<1>1. Init => PendingInv /\ TaintInv
  <2>. SUFFICES ASSUME Init
                PROVE  Disagreement(cache, row) = {} /\ Uncommitted = {}
    BY DEF PendingInv, TaintInv
  <2>1. Uncommitted = {}
    BY DEF Init, NoOp, Uncommitted, Moderating
  <2>2. \A b \in BOOLEAN : cache = [link |-> NoRow, notFound |-> b, banned |-> b] =>
           cache.link = NoRow /\ cache.notFound = b /\ cache.banned = b
    OBVIOUS
  <2>3. cache.link = NoRow /\ cache.notFound = FALSE /\ cache.banned = FALSE
    BY <2>2, Zenon DEF Init
  <2>. QED
    BY <2>1, <2>3 DEF Disagreement
<1>2. TypeOK /\ OpInv /\ PendingInv /\ TaintInv /\ [Next]_vars => PendingInv' /\ TaintInv'
  BY CoherenceKept
<1>3. PendingInv => Coherent
  BY DEF PendingInv, Coherent, OpAt
<1>. QED
  BY <1>1, <1>2, <1>3, TypesHold, PTL DEF Spec
-----------------------------------------------------------------------------
(* A settled cache *)

(* Between operations only a fill writes a key, and an expiry takes one away. *)
LEMMA SettledKeys ==
  ASSUME TypeOK, Settled, [Next]_vars, ops' = ops
  PROVE  /\ UNCHANGED <<row, op>>
         /\ Disagreement(cache', row) = {}
<1>. USE DEF OpAt
<1>1. \A w \in Writer : op[w].pc = "idle"
  BY DEF Settled
<1>2. ASSUME UNCHANGED <<row, op, cache>>
      PROVE  /\ UNCHANGED <<row, op>>
             /\ Disagreement(cache', row) = {}
  BY <1>2 DEF Settled
<1>3. ASSUME NEW v \in Client, Visit(v) \/ VisitStep(v) \/ VisitFails(v)
      PROVE  /\ UNCHANGED <<row, op>>
             /\ (At(v, "fill") /\ Store(v)) \/ UNCHANGED cache
  BY <1>3, VisitsOnly, FillsOrNot
<1>4. ASSUME NEW v \in Client, At(v, "fill"), Store(v), UNCHANGED <<row, op>>
      PROVE  /\ UNCHANGED <<row, op>>
             /\ Disagreement(cache', row) = {}
  <2>1. visit[v].got = row /\ UNCHANGED <<row, op>>
    BY <1>4 DEF Settled
  <2>2. cache' = IF row = NoRow THEN [cache EXCEPT !.notFound = TRUE]
                 ELSE [cache EXCEPT !.link = row]
    BY <1>4, <2>1 DEF Store
  <2>3. /\ cache'.link \in {cache.link, row}
        /\ cache'.notFound => cache.notFound \/ row = NoRow
        /\ cache'.banned = cache.banned
    BY <2>2 DEF TypeOK
  <2>. QED
    BY <2>1, <2>3 DEF Settled, Disagreement, Key
<1>5. ASSUME NEW w \in Writer, WriterStep(w) \/ WriterFails(w)
      PROVE  FALSE
  BY <1>1, <1>5 DEF WriterStep, WriterFails, InsertRow, UpdateRow, ModerateRow, Purge, Mark,
                    Commit, PurgeFails, MarkFails, RollBack, Moderating
<1>6. ASSUME NEW w \in Writer, NEW kind \in Kinds, StartOp(w, kind)
      PROVE  FALSE
  BY <1>6 DEF StartOp, TypeOK
<1>7. ASSUME EraseUser
      PROVE  FALSE
  BY <1>7 DEF EraseUser, TypeOK
<1>8. CASE ExpireLink \/ ExpireNotFound \/ ExpireBanned
  <2>1. /\ UNCHANGED <<row, op>>
        /\ cache'.link \in {cache.link, NoRow}
        /\ cache'.notFound => cache.notFound
        /\ cache'.banned => cache.banned
    BY <1>8 DEF ExpireLink, ExpireNotFound, ExpireBanned, OnlyKeys, TypeOK
  <2>. QED
    BY <2>1 DEF Settled, Disagreement, Key
<1>9. CASE (\E p \in Process : Crash(p)) \/ ExpireLock \/ UNCHANGED vars
  BY <1>2, <1>9 DEF Crash, ExpireLock, vars, redisVars
<1>. QED
  BY <1>2, <1>3, <1>4, <1>5, <1>6, <1>7, <1>8, <1>9 DEF Next

LEMMA SettledKept ==
  ASSUME TypeOK, Settled, [Next]_vars, ops' = ops
  PROVE  Settled'
<1>1. UNCHANGED <<row, op>> /\ Disagreement(cache', row) = {}
  BY SettledKeys
<1>2. \A v \in Client : At(v, "fill")' => visit'[v].got = row
  BY FillsAfter DEF Settled
<1>. QED
  BY <1>1, <1>2 DEF Settled, OpAt

(* A cache that agrees with the row, with no operation and no late fill on the *)
(* way, agrees with it until the next operation (StaysSettled).                *)
THEOREM SettledTheorem == Spec => StaysSettled
<1>1. TypeOK /\ [Next]_vars => [Settled /\ ops' = ops => Settled']_vars
  BY SettledKept
<1>. QED
  BY <1>1, TypeCorrect, PTL DEF Spec, StaysSettled
=============================================================================
