----------------------------- MODULE LinkCache -----------------------------
(***************************************************************************)
(* One short code: its row in PostgreSQL, the three Redis keys the redirect *)
(* path reads (link:{code}, link:404:{code}, link:banned:{code}), the       *)
(* stampede lock, the visitors that resolve the code and the operations     *)
(* that change the row and invalidate the keys.                             *)
(*                                                                         *)
(* Of a row the model keeps what validateLink and the writers look at: its  *)
(* identity, the three flags, and a revision that stands for every other    *)
(* column.  A TTL is an action that may end the key at any time, except     *)
(* that the 24 hours of the banned marker outlast the hour of a link copy.  *)
(* The DEL commands of one invalidation are one step.                       *)
(***************************************************************************)
EXTENDS DistributedLock

CONSTANTS Writer,          \* API requests and admin requests in progress
          NoRow,
          MaxOps,          \* bound: operations on the row
          MaxFaults,       \* bound: failed commands, crashes and rollbacks
          MaxExpirations   \* bound: lock TTLs that end

ASSUME BoundsAssumption ==
    MaxOps \in Nat /\ MaxFaults \in Nat /\ MaxExpirations \in Nat

VARIABLES row,             \* the committed row with this short code
          cache,           \* the three keys
          visit,           \* each visitor's progress in getLink
          op,              \* each writer's operation
          ops,             \* operations begun, bounded by MaxOps
          faults,          \* commands that failed, bounded by MaxFaults
          expirations,     \* history: TTLs of the lock that ended
          raced,           \* history: keys whose content was left by a race
          sealed           \* history: the link is banned, marked, and untouched since

redisVars == <<cache, lock, held>>
history == <<expirations, raced, sealed>>
vars == <<row, cache, lockVars, visit, op, ops, faults, history>>

Key == {"link", "notFound", "banned"}

Row == [id: Nat, rev: Nat, isActive: BOOLEAN, isBanned: BOOLEAN,
        isDeleted: BOOLEAN]
MaybeRow == Row \cup {NoRow}

ASSUME NoRowAssumption == NoRow \notin Row

InsertKinds == {"create", "duplicate", "renameTo"}
OwnerKinds == {"update", "toggle", "delete", "restore", "renameAway"}
AdminKinds == {"ban", "unban"}
Kinds == InsertKinds \cup OwnerKinds \cup AdminKinds

Idle == [pc |-> "idle", got |-> NoRow, after |-> "direct", masked |-> FALSE]
NoOp == [kind |-> "create", pc |-> "idle", saw |-> NoRow]

VisitPcs == {"idle", "lookBanned", "lookLink", "wait", "read", "fill",
             "unlock", "forget", "direct", "redirect", "refuse"}

(* validateLink: an inactive or banned link does not redirect. *)
Redirects(r) == r # NoRow /\ r.isActive /\ ~r.isBanned
Outcome(r) == IF Redirects(r) THEN "redirect" ELSE "refuse"

(* The keys whose content contradicts row r. *)
Disagreement(c, r) ==
    {k \in Key :
        \/ k = "link" /\ c.link \notin {NoRow, r}
        \/ k = "notFound" /\ c.notFound /\ r # NoRow /\ ~r.isDeleted
        \/ k = "banned" /\ c.banned /\ (r = NoRow \/ ~r.isBanned)}

Present == {k \in Key :
    \/ k = "link" /\ cache.link # NoRow
    \/ k = "notFound" /\ cache.notFound
    \/ k = "banned" /\ cache.banned}

(* A moderation transaction holds the lock of its link from the UPDATE to the *)
(* COMMIT; its invalidation lies between the two.                             *)
Moderating == {w \in Writer :
    op[w].kind \in AdminKinds /\ op[w].pc \in {"purge", "mark", "commit"}}
Uncommitted == {w \in Moderating : op[w].pc # "purge"}
SameLink(w) == row # NoRow /\ op[w].saw # NoRow /\ row.id = op[w].saw.id
RowLocked == \E w \in Moderating : SameLink(w)

(* The code is free, or a link has it. *)
Fresh(id) == [id |-> id, rev |-> 0, isActive |-> TRUE, isBanned |-> FALSE,
              isDeleted |-> FALSE]

Init ==
    /\ row \in {NoRow, Fresh(0)}
    /\ cache = [link |-> NoRow, notFound |-> FALSE, banned |-> FALSE]
    /\ LockInit
    /\ visit = [v \in Client |-> Idle]
    /\ op = [w \in Writer |-> NoOp]
    /\ ops = 0
    /\ faults = 0
    /\ expirations = 0
    /\ raced = {}
    /\ sealed = FALSE
-----------------------------------------------------------------------------
(* A visitor resolves the code: getLink and fetchWithStampedeProtection.    *)

At(v, pc) == visit[v].pc = pc
Move(v, pc) == visit' = [visit EXCEPT ![v].pc = pc]
Answer(v, r) == Move(v, Outcome(r))
OnlyVisit == UNCHANGED <<row, redisVars, op, ops, faults, history>>

(* getLinkState reads the three keys one after the other; a visit begins     *)
(* with the negative marker, which ends it.                                   *)
Visit(v) ==
    /\ At(v, "idle")
    /\ visit' = [visit EXCEPT ![v].pc = IF cache.notFound THEN "refuse"
                                         ELSE "lookBanned",
                              ![v].masked = sealed]
    /\ OnlyVisit

(* The banned marker answers with a link that validateLink refuses. *)
LookBanned(v) ==
    /\ At(v, "lookBanned")
    /\ IF cache.banned THEN Answer(v, NoRow) ELSE Move(v, "lookLink")
    /\ OnlyVisit

HitLink(v) ==
    /\ At(v, "lookLink")
    /\ cache.link # NoRow
    /\ Answer(v, cache.link)
    /\ OnlyVisit

(* A miss, which the early refresh also makes of a hit, tries the lock. *)
TryLock(v) ==
    /\ At(v, "lookLink")
    /\ \/ Acquire(v) /\ Move(v, "read")
       \/ lock # NoClient /\ Move(v, "wait") /\ UNCHANGED lockVars
    /\ UNCHANGED <<row, cache, op, ops, faults, history>>

(* findByCode: the committed row with this code, deleted or not. *)
ReadRow(v) ==
    /\ At(v, "read")
    /\ visit' = [visit EXCEPT ![v].pc = "fill", ![v].got = row]
    /\ OnlyVisit

(* Not the code: the negative marker is set for a link that is not active. *)
FillInactiveAsMissing(v) ==
    /\ At(v, "fill")
    /\ cache' = IF ~Redirects(visit[v].got)
                THEN [cache EXCEPT !.notFound = TRUE]
                ELSE [cache EXCEPT !.link = visit[v].got]
    /\ raced' = raced \cup Disagreement(cache', row)
    /\ visit' = [visit EXCEPT ![v].pc = "unlock", ![v].got = NoRow,
                              ![v].after = Outcome(visit[v].got)]
    /\ UNCHANGED <<row, lockVars, op, ops, faults, expirations, sealed>>

(* setLink, or setNotFound when there is no row. *)
Store(v) ==
    /\ cache' = IF visit[v].got = NoRow
                THEN [cache EXCEPT !.notFound = TRUE]
                ELSE [cache EXCEPT !.link = visit[v].got]
    /\ LET k == IF visit[v].got = NoRow THEN "notFound" ELSE "link"
       IN  raced' = IF k \in Disagreement(cache', row) \/ Uncommitted # {}
                    THEN raced \cup {k} ELSE raced \ {k}
    /\ UNCHANGED <<row, lockVars, op, ops, expirations, sealed>>

GoUnlock(v, after) ==
    visit' = [visit EXCEPT ![v].pc = "unlock", ![v].got = NoRow, ![v].after = after]

Fill(v) ==
    /\ At(v, "fill")
    /\ Store(v)
    /\ GoUnlock(v, Outcome(visit[v].got))
    /\ UNCHANGED faults

ReleaseLock(v) ==
    /\ At(v, "unlock")
    /\ Unlock(v)
    /\ Move(v, IF held[ProcessOf[v]] = NoClient THEN visit[v].after ELSE "forget")
    /\ UNCHANGED <<row, cache, op, ops, faults, history>>

ForgetToken(v) ==
    /\ At(v, "forget")
    /\ Forget(v)
    /\ Move(v, visit[v].after)
    /\ UNCHANGED <<row, cache, op, ops, faults, history>>

(* After the pause the waiter reads link:{code} only, then the database. *)
WaitedLook(v) ==
    /\ At(v, "wait")
    /\ \/ cache.link # NoRow /\ Answer(v, cache.link)
       \/ Move(v, "direct")
    /\ OnlyVisit

DirectRead(v) ==
    /\ At(v, "direct")
    /\ Answer(v, row)
    /\ OnlyVisit

Leave(v) ==
    /\ visit[v].pc \in {"redirect", "refuse"}
    /\ visit' = [visit EXCEPT ![v] = Idle]
    /\ OnlyVisit

Fault == faults < MaxFaults /\ faults' = faults + 1

(* setNotFound swallows the error that setLink throws. *)
AfterFailure(v) == IF At(v, "fill") /\ visit[v].got = NoRow THEN "refuse" ELSE "direct"

(* Without a remembered token releaseLock sends nothing that could fail. *)
Releases(v) == At(v, "unlock") /\ held[ProcessOf[v]] # NoClient

(* Outside the lock an error leads to a direct read; a failed read or a       *)
(* failed setLink releases the lock first; a failed release leaves the lock   *)
(* and the token; a failed direct read is an error answer, which redirects    *)
(* nobody.                                                                    *)
CommandFails(v) ==
    /\ Fault
    /\ \/ /\ visit[v].pc \in {"lookBanned", "lookLink", "wait"} \/ Releases(v)
          /\ Move(v, "direct")
       \/ visit[v].pc \in {"read", "fill"} /\ GoUnlock(v, AfterFailure(v))
       \/ At(v, "direct") /\ Answer(v, NoRow)
    /\ UNCHANGED <<row, redisVars, op, ops, history>>

(* A command is executed and its answer lost: the lock stands until its TTL   *)
(* ends; the key is written; the lock is free and the token still remembered. *)
LockUnanswered(v) ==
    /\ At(v, "lookLink")
    /\ Fault
    /\ AcquireUnanswered
    /\ Move(v, "direct")
    /\ UNCHANGED <<row, cache, op, ops, history>>

FillUnanswered(v) ==
    /\ At(v, "fill")
    /\ Fault
    /\ Store(v)
    /\ GoUnlock(v, AfterFailure(v))

ReleaseUnanswered(v) ==
    /\ Releases(v)
    /\ Fault
    /\ Unlock(v)
    /\ Move(v, "direct")
    /\ UNCHANGED <<row, cache, op, ops, history>>

(* A web process dies: its requests end, its token map is gone. *)
Crash(p) ==
    /\ Fault
    /\ visit' = [v \in Client |-> IF ProcessOf[v] = p THEN Idle ELSE visit[v]]
    /\ held' = [held EXCEPT ![p] = NoClient]
    /\ UNCHANGED <<row, cache, lock, op, ops, history>>
-----------------------------------------------------------------------------
(* A writer reads the row, writes it by id and invalidates the keys.         *)

OpAt(w, pc) == op[w].pc = pc
OpMove(w, pc) == op' = [op EXCEPT ![w].pc = pc]
Finish(w) == op' = [op EXCEPT ![w] = NoOp]

(* What the reads of each operation require. *)
MayStart(kind) ==
    CASE kind \in InsertKinds -> row = NoRow
      [] kind = "restore"     -> row # NoRow /\ row.isDeleted
      [] kind \in AdminKinds  -> row # NoRow
      [] OTHER                -> row # NoRow /\ ~row.isDeleted

StartOp(w, kind) ==
    /\ OpAt(w, "idle")
    /\ ops < MaxOps
    /\ MayStart(kind)
    /\ op' = [op EXCEPT ![w] = [kind |-> kind, pc |-> "write", saw |-> row]]
    /\ ops' = ops + 1
    /\ sealed' = FALSE
    /\ visit' = [v \in Client |-> [visit[v] EXCEPT !.masked = FALSE]]
    /\ UNCHANGED <<row, redisVars, faults, expirations, raced>>

(* The row the UPDATE of an operation makes of row r, which it found by id. *)
Updated(kind, saw, r) ==
    CASE kind = "update"     -> [r EXCEPT !.rev = r.rev + 1]
      [] kind = "toggle"     -> [r EXCEPT !.isActive = ~saw.isActive]
      [] kind = "delete"     -> [r EXCEPT !.isDeleted = TRUE, !.isActive = FALSE]
      [] kind = "restore"    -> [r EXCEPT !.isDeleted = FALSE, !.isActive = TRUE]
      [] kind = "renameAway" -> NoRow
      [] kind = "ban"        -> [r EXCEPT !.isBanned = TRUE, !.isActive = FALSE]
      [] kind = "unban"      -> [r EXCEPT !.isBanned = FALSE, !.isActive = TRUE]

Written(w) == IF SameLink(w) THEN Updated(op[w].kind, op[w].saw, row) ELSE row

(* A new link is active; one that is renamed to this code keeps its flags. *)
Inserted(kind) ==
    IF kind = "renameTo"
    THEN {[Fresh(ops) EXCEPT !.isActive = flags.isActive, !.isBanned = flags.isBanned] :
             flags \in [isActive: BOOLEAN, isBanned: BOOLEAN]}
    ELSE {Fresh(ops)}

(* The unique index refuses a second row with the code.  duplicateLink does  *)
(* not invalidate, so a negative marker survives it.                         *)
InsertRow(w) ==
    /\ OpAt(w, "write") /\ op[w].kind \in InsertKinds
    /\ \/ row # NoRow /\ Finish(w) /\ UNCHANGED <<row, raced>>
       \/ /\ row = NoRow
          /\ row' \in Inserted(op[w].kind)
          /\ IF op[w].kind = "duplicate"
             THEN Finish(w) /\ raced' = raced \cup Disagreement(cache, row')
             ELSE OpMove(w, "purge") /\ UNCHANGED raced
    /\ UNCHANGED <<redisVars, visit, ops, faults, expirations, sealed>>

(* The UPDATE of an owner's operation commits at once; it waits for the row  *)
(* lock, and touches the row that has the id, if it still has this code.     *)
UpdateRow(w) ==
    /\ OpAt(w, "write") /\ op[w].kind \in OwnerKinds
    /\ ~RowLocked
    /\ row' = Written(w)
    /\ OpMove(w, "purge")
    /\ UNCHANGED <<redisVars, visit, ops, faults, history>>

(* The UPDATE of a ban or an unban stays uncommitted. *)
ModerateRow(w) ==
    /\ OpAt(w, "write") /\ op[w].kind \in AdminKinds
    /\ \A u \in Moderating : op[u].saw.id # op[w].saw.id
    /\ OpMove(w, "purge")
    /\ UNCHANGED <<row, redisVars, visit, ops, faults, history>>

AfterPurge(kind) ==
    CASE kind \in {"delete", "renameAway", "ban"} -> "mark"
      [] kind = "unban"                           -> "commit"
      [] OTHER                                    -> "idle"

(* Not the code: link:404:{code} is left out of the keys to delete. *)
PurgeKeeps404(w) ==
    /\ OpAt(w, "purge")
    /\ cache' = [cache EXCEPT !.link = NoRow, !.banned = FALSE]
    /\ raced' = raced \cap {"notFound"}
    /\ IF AfterPurge(op[w].kind) = "idle" THEN Finish(w)
       ELSE OpMove(w, AfterPurge(op[w].kind))
    /\ UNCHANGED <<row, lockVars, visit, ops, faults, expirations, sealed>>

(* invalidateLink deletes the keys of the code. *)
Purge(w) ==
    /\ OpAt(w, "purge")
    /\ cache' = [link |-> NoRow, notFound |-> FALSE, banned |-> FALSE]
    /\ raced' = {}
    /\ IF AfterPurge(op[w].kind) = "idle" THEN Finish(w)
       ELSE OpMove(w, AfterPurge(op[w].kind))
    /\ UNCHANGED <<row, lockVars, visit, ops, faults, expirations, sealed>>

(* Some of the DELs fail, or the process dies before them: an owner's request *)
(* fails with its row written, a creation succeeds, a ban or an unban goes on *)
(* to its COMMIT.                                                             *)
PurgeFails(w) ==
    /\ OpAt(w, "purge")
    /\ Fault
    /\ \E kept \in SUBSET Present :
          /\ cache' = [link     |-> IF "link" \in kept THEN cache.link ELSE NoRow,
                       notFound |-> "notFound" \in kept,
                       banned   |-> "banned" \in kept]
          /\ raced' = kept
    /\ IF op[w].kind \in AdminKinds THEN OpMove(w, "commit") ELSE Finish(w)
    /\ UNCHANGED <<row, lockVars, visit, ops, expirations, sealed>>

MarkedBy(kind) == IF kind = "ban" THEN "banned" ELSE "notFound"

(* setNotFound after a deletion or a rename, setBanned inside the ban. *)
Mark(w) ==
    /\ OpAt(w, "mark")
    /\ LET k == MarkedBy(op[w].kind)
           r == IF op[w].kind = "ban" THEN Written(w) ELSE row
       IN  /\ cache' = [cache EXCEPT ![k] = TRUE]
           /\ raced' = IF k \in Disagreement(cache', r) \/ Uncommitted \ {w} # {}
                       THEN raced \cup {k} ELSE raced \ {k}
    /\ IF op[w].kind = "ban" THEN OpMove(w, "commit") ELSE Finish(w)
    /\ UNCHANGED <<row, lockVars, visit, ops, faults, expirations, sealed>>

(* setNotFound and setBanned swallow the error of Redis. *)
MarkFails(w) ==
    /\ OpAt(w, "mark")
    /\ Fault
    /\ IF op[w].kind = "ban" THEN OpMove(w, "commit") ELSE Finish(w)
    /\ UNCHANGED <<row, redisVars, visit, ops, history>>

Alone(w) == \A u \in Writer \ {w} : OpAt(u, "idle")

Commit(w) ==
    /\ OpAt(w, "commit")
    /\ row' = Written(w)
    /\ sealed' = (op[w].kind = "ban" /\ SameLink(w) /\ cache.banned /\ Alone(w))
    /\ Finish(w)
    /\ UNCHANGED <<redisVars, visit, ops, faults, expirations, raced>>

(* The transaction rolls back, also when the audit row cannot be written or   *)
(* the process dies; a marker that is already set stays.                      *)
RollBack(w) ==
    /\ w \in Moderating
    /\ Fault
    /\ raced' = raced \cup Disagreement(cache, row)
    /\ Finish(w)
    /\ UNCHANGED <<row, redisVars, visit, ops, expirations, sealed>>

(* The deletion worker deletes the links of a user and no Redis key. *)
EraseUser ==
    /\ row # NoRow
    /\ ops < MaxOps
    /\ ~RowLocked
    /\ row' = NoRow
    /\ ops' = ops + 1
    /\ raced' = raced \cup Disagreement(cache, NoRow)
    /\ UNCHANGED <<redisVars, visit, op, faults, expirations, sealed>>
-----------------------------------------------------------------------------
(* Redis ends the keys.                                                      *)

OnlyKeys == UNCHANGED <<row, lockVars, visit, op, ops, faults, expirations, sealed>>

ExpireLink ==
    /\ cache.link # NoRow
    /\ cache' = [cache EXCEPT !.link = NoRow]
    /\ raced' = raced \ {"link"}
    /\ OnlyKeys

(* Not the code: the negative marker is stored without a TTL. *)
ExpireNotFoundNever == FALSE /\ UNCHANGED vars

ExpireNotFound ==
    /\ cache.notFound
    /\ cache' = [cache EXCEPT !.notFound = FALSE]
    /\ raced' = raced \ {"notFound"}
    /\ OnlyKeys

(* Not the code: the marker may end before the copies it hides. *)
ExpireBannedEarly ==
    /\ cache.banned
    /\ cache' = [cache EXCEPT !.banned = FALSE]
    /\ raced' = raced \ {"banned"}
    /\ OnlyKeys

(* The marker lives 24 hours, a copy one: while the marker stands nobody     *)
(* begins a fill, so the copies that are older than the marker end first.    *)
ExpireBanned ==
    /\ cache.banned
    /\ cache.link = NoRow
    /\ \A v \in Client : ~At(v, "fill")
    /\ cache' = [cache EXCEPT !.banned = FALSE]
    /\ raced' = raced \ {"banned"}
    /\ OnlyKeys

ExpireLock ==
    /\ LockExpires
    /\ expirations < MaxExpirations
    /\ expirations' = expirations + 1
    /\ UNCHANGED <<row, cache, visit, op, ops, faults, raced, sealed>>
-----------------------------------------------------------------------------
Holding(v) ==
    \/ TryLock(v) \/ ReadRow(v) \/ Fill(v) \/ ReleaseLock(v) \/ ForgetToken(v)

VisitStep(v) ==
    \/ LookBanned(v) \/ HitLink(v)
    \/ Holding(v)
    \/ WaitedLook(v) \/ DirectRead(v) \/ Leave(v)

VisitFails(v) ==
    \/ CommandFails(v)
    \/ LockUnanswered(v) \/ FillUnanswered(v) \/ ReleaseUnanswered(v)

WriterStep(w) ==
    \/ InsertRow(w) \/ UpdateRow(w) \/ ModerateRow(w)
    \/ Purge(w) \/ Mark(w) \/ Commit(w)

WriterFails(w) == PurgeFails(w) \/ MarkFails(w) \/ RollBack(w)

Next ==
    \/ \E v \in Client : Visit(v) \/ VisitStep(v) \/ VisitFails(v)
    \/ \E w \in Writer :
          \/ \E kind \in Kinds : StartOp(w, kind)
          \/ WriterStep(w) \/ WriterFails(w)
    \/ \E p \in Process : Crash(p)
    \/ EraseUser
    \/ ExpireLink \/ ExpireNotFound \/ ExpireBanned \/ ExpireLock

Spec == Init /\ [][Next]_vars

(* A request that runs goes on, and every key has a TTL. *)
Fairness ==
    /\ \A v \in Client : WF_vars(VisitStep(v))
    /\ \A w \in Writer : WF_vars(WriterStep(w))
    /\ WF_vars(ExpireLink) /\ WF_vars(ExpireNotFound) /\ WF_vars(ExpireBanned)

FairSpec == Spec /\ Fairness
-----------------------------------------------------------------------------
TypeOK ==
    /\ row \in MaybeRow
    /\ cache \in [link: MaybeRow, notFound: BOOLEAN, banned: BOOLEAN]
    /\ lock \in Client \cup {NoClient, LostToken}
    /\ held \in [Process -> Client \cup {NoClient}]
    /\ visit \in [Client -> [pc: VisitPcs, got: MaybeRow,
                             after: {"redirect", "refuse", "direct"}, masked: BOOLEAN]]
    /\ op \in [Writer -> [kind: Kinds, saw: MaybeRow,
                          pc: {"idle", "write", "purge", "mark", "commit"}]]
    /\ ops \in 0..MaxOps
    /\ faults \in 0..MaxFaults
    /\ expirations \in 0..MaxExpirations
    /\ raced \subseteq Key
    /\ sealed \in BOOLEAN

(* Coherence of the cache (fetcher.ts, invalidateLink and its callers): when   *)
(* no operation is in progress, a key contradicts the row only if a fill or a  *)
(* marker was written late, an invalidation failed or is missing in the code,  *)
(* or a transaction was rolled back.  An operation that succeeds undisturbed   *)
(* leaves nothing stale behind, whatever was cached before it.                 *)
Coherent ==
    (\A w \in Writer : OpAt(w, "idle")) => Disagreement(cache, row) \subseteq raced

(* A visit that begins after a ban is complete is not redirected, as long as   *)
(* nobody else has begun to change the link: also not by a copy that a slow    *)
(* fill of before the ban has left (admin-links.service.ts, cache-service.ts). *)
BanHolds ==
    \A v \in Client : visit[v].masked => ~At(v, "redirect")

(* Stampede protection: the requests between the lock and its release are at   *)
(* most one, and one more for every TTL of the lock that ended early.          *)
StampedeBounded ==
    Cardinality({v \in Client : visit[v].pc \in {"read", "fill", "unlock"}})
        <= 1 + expirations

(* The compare-and-delete script: a release never frees a lock that a request  *)
(* of another process holds (distributed-lock.ts).                             *)
ReleasesOwn ==
    [][\A v \in Client :
          (ReleaseLock(v) \/ ReleaseUnanswered(v)) /\ lock' # lock
              => lock \in Client /\ ProcessOf[lock] = ProcessOf[v]]_vars

(* What a settled cache answers stays right until the row is written again: no *)
(* visit, expiry, failure or crash makes a key stale, however late a fill or a *)
(* release comes (fetcher.ts).                                                 *)
Settled ==
    /\ \A w \in Writer : OpAt(w, "idle")
    /\ Disagreement(cache, row) = {}
    /\ \A v \in Client : At(v, "fill") => visit[v].got = row
StaysSettled == [][Settled /\ ops' = ops => Settled']_vars

(* Once the operations stop, the cache comes to agree with the row for good:   *)
(* every late fill, failed invalidation and orphan marker ends with its TTL.   *)
Converges == <>[](Disagreement(cache, row) = {})
=============================================================================
