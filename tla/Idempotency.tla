---------------------------- MODULE Idempotency ----------------------------
(***************************************************************************)
(* POST /links with an Idempotency-Key: the requests that carry ONE key of  *)
(* one principal, the record and the lock of that key in Redis, and the     *)
(* links the requests create.                                               *)
(*                                                                         *)
(* A link is identified with the request that created it, and so is the     *)
(* record that names it.  The lock's value is the hash of a payload; the    *)
(* model keeps the request that set it and compares PayloadOf of it.        *)
(* Every Redis command of idempotency.ts fails open, and is skipped while   *)
(* the health gate of its process is closed.                                *)
(***************************************************************************)
EXTENDS Naturals, FiniteSets

CONSTANTS Request, Payload, PayloadOf,
          Process,         \* API server processes
          ProcessOf,       \* the process that serves a request
          NoRequest,
          MaxFaults        \* bound: failed commands, lost answers and crashes

ASSUME RequestAssumption ==
    /\ IsFiniteSet(Request)
    /\ NoRequest \notin Request
    /\ PayloadOf \in [Request -> Payload]
    /\ ProcessOf \in [Request -> Process]
    /\ MaxFaults \in Nat

VARIABLES record,          \* idempotency:{...}: the request whose link it names
          lock,            \* idempotency:lock:{...}: the request that set it
          links,           \* the requests whose INSERT is committed
          request,         \* each request's progress
          degraded,        \* processes whose health gate is closed
          faults,          \* failures so far, bounded by MaxFaults
          expirations,     \* history: TTLs of the lock that ended
          lapsed,          \* history: the TTL of a record has ended
          excused          \* history: requests that worked without the lock, beside
                           \* an existing record, or without leaving a record

redisVars == <<record, lock>>
history == <<expirations, lapsed, excused>>
vars == <<record, lock, links, request, degraded, faults, history>>

MaybeRequest == Request \cup {NoRequest}

Working == {"create", "store", "release", "abort"}
Final == {"created", "failed", "replayed", "conflict", "busy"}
Pcs == {"idle", "check", "checkLock", "acquire"} \cup Working \cup Final

(* got: the link a replay answers with; retry: the record existed when the    *)
(* request began; blind: its look-up was skipped or failed.                   *)
NotBegun == [pc |-> "idle", got |-> NoRequest, retry |-> FALSE, blind |-> FALSE]

Workers == {r \in Request : request[r].pc \in Working}

Init ==
    /\ record = NoRequest
    /\ lock = NoRequest
    /\ links = {}
    /\ request = [r \in Request |-> NotBegun]
    /\ degraded = {}
    /\ faults = 0
    /\ expirations = 0
    /\ lapsed = FALSE
    /\ excused = {}
-----------------------------------------------------------------------------
At(r, pc) == request[r].pc = pc
Move(r, pc) == request' = [request EXCEPT ![r].pc = pc]

(* markRedisCommandSuccess and markRedisCommandFailure: the gate is shared by *)
(* everything a process does.                                                 *)
GateOpen(r) == ProcessOf[r] \notin degraded
OpensGate(r) == degraded' = degraded \ {ProcessOf[r]}
ClosesGate(r) == degraded' = degraded \cup {ProcessOf[r]}
Fault == faults < MaxFaults /\ faults' = faults + 1

Begin(r) ==
    /\ At(r, "idle")
    /\ request' = [request EXCEPT ![r].pc = "check",
                                  ![r].retry = (record # NoRequest)]
    /\ UNCHANGED <<redisVars, links, degraded, faults, history>>

(* A hit: the link is read again for the answer; an error when it is gone, or  *)
(* the read fails.                                                             *)
Replay(r) ==
    \/ request' = [request EXCEPT ![r].pc = "replayed", ![r].got = record]
    \/ Move(r, "failed")

(* Not the code: a record answers whatever the payload is. *)
CheckRecordUnhashed(r) ==
    /\ At(r, "check")
    /\ GateOpen(r)
    /\ \/ record = NoRequest /\ Move(r, "checkLock") /\ UNCHANGED degraded
       \/ /\ record # NoRequest
          /\ OpensGate(r)
          /\ Replay(r)
    /\ UNCHANGED <<redisVars, links, faults, history>>

(* Not the code: a record of another payload is taken as a miss. *)
CheckRecordOrMiss(r) ==
    /\ At(r, "check")
    /\ GateOpen(r)
    /\ IF record # NoRequest /\ PayloadOf[record] = PayloadOf[r]
       THEN /\ OpensGate(r)
            /\ Replay(r)
       ELSE Move(r, "checkLock") /\ UNCHANGED degraded
    /\ UNCHANGED <<redisVars, links, faults, history>>

(* The first GET of checkIdempotency. *)
CheckRecord(r) ==
    /\ At(r, "check")
    /\ GateOpen(r)
    /\ \/ record = NoRequest /\ Move(r, "checkLock") /\ UNCHANGED degraded
       \/ /\ record # NoRequest
          /\ OpensGate(r)
          /\ IF PayloadOf[record] = PayloadOf[r] THEN Replay(r) ELSE Move(r, "conflict")
    /\ UNCHANGED <<redisVars, links, faults, history>>

(* Not the code: the hash in the lock is not compared. *)
CheckLockUnhashed(r) ==
    /\ At(r, "checkLock")
    /\ OpensGate(r)
    /\ Move(r, IF lock = NoRequest THEN "acquire" ELSE "conflict")
    /\ UNCHANGED <<redisVars, links, faults, history>>

(* The second GET, of the lock. *)
CheckLock(r) ==
    /\ At(r, "checkLock")
    /\ OpensGate(r)
    /\ Move(r, IF lock = NoRequest THEN "acquire"
               ELSE IF PayloadOf[lock] = PayloadOf[r] THEN "busy" ELSE "conflict")
    /\ UNCHANGED <<redisVars, links, faults, history>>

(* Not the code: SET without NX. *)
AcquireAnyway(r) ==
    /\ At(r, "acquire")
    /\ GateOpen(r)
    /\ lock' = r
    /\ Move(r, "create")
    /\ excused' = IF record # NoRequest THEN excused \cup {r} ELSE excused
    /\ UNCHANGED <<record, links, degraded, faults, expirations, lapsed>>

(* SET NX EX.  The record is not looked at again. *)
AcquireLock(r) ==
    /\ At(r, "acquire")
    /\ GateOpen(r)
    /\ \/ /\ lock = NoRequest
          /\ lock' = r
          /\ Move(r, "create")
          /\ excused' = IF record # NoRequest THEN excused \cup {r} ELSE excused
       \/ lock # NoRequest /\ Move(r, "busy") /\ UNCHANGED <<lock, excused>>
    /\ UNCHANGED <<record, links, degraded, faults, expirations, lapsed>>

(* createLink commits its row, or throws without one. *)
CreateLink(r) ==
    /\ At(r, "create")
    /\ \/ links' = links \cup {r} /\ Move(r, "store")
       \/ Move(r, "abort") /\ UNCHANGED links
    /\ UNCHANGED <<redisVars, degraded, faults, history>>

(* Not the code: the hash is stored in place of the link. *)
StoreHash(r) ==
    /\ At(r, "store")
    /\ GateOpen(r)
    /\ record' = PayloadOf[r]
    /\ Move(r, "release")
    /\ UNCHANGED <<lock, links, degraded, faults, history>>

(* Not the code: the record is stored under another key. *)
StoreElsewhere(r) ==
    /\ At(r, "store")
    /\ GateOpen(r)
    /\ Move(r, "release")
    /\ UNCHANGED <<redisVars, links, degraded, faults, history>>

(* setIdempotency overwrites. *)
StoreRecord(r) ==
    /\ At(r, "store")
    /\ GateOpen(r)
    /\ record' = r
    /\ Move(r, "release")
    /\ UNCHANGED <<lock, links, degraded, faults, history>>

Answered(r) == IF At(r, "release") THEN "created" ELSE "failed"

(* releaseIdempotencyLock: DEL, whoever set the lock. *)
ReleaseLock(r) ==
    /\ request[r].pc \in {"release", "abort"}
    /\ GateOpen(r)
    /\ lock' = NoRequest
    /\ Move(r, Answered(r))
    /\ UNCHANGED <<record, links, degraded, faults, history>>
-----------------------------------------------------------------------------
(* The gate is closed: look-up and lock are taken as a miss and as acquired,  *)
(* store and release are left out.                                            *)
SkipRedis(r) ==
    /\ ~GateOpen(r)
    /\ \/ /\ At(r, "check")
          /\ request' = [request EXCEPT ![r].pc = "acquire", ![r].blind = TRUE]
          /\ UNCHANGED excused
       \/ At(r, "acquire") /\ Move(r, "create") /\ excused' = excused \cup {r}
       \/ At(r, "store") /\ Move(r, "release") /\ excused' = excused \cup {r}
       \/ /\ request[r].pc \in {"release", "abort"}
          /\ Move(r, Answered(r))
          /\ UNCHANGED excused
    /\ UNCHANGED <<redisVars, links, degraded, faults, expirations, lapsed>>

(* A command fails, or has its effect and its answer is lost; the request     *)
(* goes on as if it had been skipped.                                         *)
RedisFails(r) ==
    /\ Fault
    /\ ClosesGate(r)
    /\ \/ /\ request[r].pc \in {"check", "checkLock"}
          /\ request' = [request EXCEPT ![r].pc = "acquire", ![r].blind = TRUE]
          /\ UNCHANGED <<redisVars, excused>>
       \/ /\ At(r, "acquire")
          /\ Move(r, "create")
          /\ excused' = excused \cup {r}
          /\ lock' \in {lock, IF lock = NoRequest THEN r ELSE lock}
          /\ UNCHANGED record
       \/ /\ At(r, "store")
          /\ Move(r, "release")
          /\ excused' = excused \cup {r}
          /\ record' \in {record, r}
          /\ UNCHANGED lock
       \/ /\ request[r].pc \in {"release", "abort"}
          /\ Move(r, Answered(r))
          /\ lock' \in {lock, NoRequest}
          /\ UNCHANGED <<record, excused>>
    /\ UNCHANGED <<links, expirations, lapsed>>

(* The INSERT commits and its answer is lost: no record is stored. *)
CreateLost(r) ==
    /\ At(r, "create")
    /\ Fault
    /\ links' = links \cup {r}
    /\ excused' = excused \cup {r}
    /\ Move(r, "abort")
    /\ UNCHANGED <<redisVars, degraded, expirations, lapsed>>

(* A process dies: its requests are not answered, its gate starts open. *)
Crash(p) ==
    /\ Fault
    /\ LET dead == {r \in Request : ProcessOf[r] = p /\ request[r].pc \notin Final \cup {"idle"}}
       IN  /\ request' = [r \in Request |->
                             IF r \in dead THEN [request[r] EXCEPT !.pc = "failed"]
                             ELSE request[r]]
           /\ excused' = excused \cup {r \in dead : At(r, "store")}
    /\ degraded' = degraded \ {p}
    /\ UNCHANGED <<redisVars, links, expirations, lapsed>>

(* The degraded window of a process ends. *)
Reopen(p) ==
    /\ p \in degraded
    /\ degraded' = degraded \ {p}
    /\ UNCHANGED <<redisVars, links, request, faults, history>>

(* 30 seconds have passed. *)
ExpireLock ==
    /\ lock # NoRequest
    /\ lock' = NoRequest
    /\ expirations' = expirations + 1
    /\ UNCHANGED <<record, links, request, degraded, faults, lapsed, excused>>

(* 24 hours have passed. *)
ExpireRecord ==
    /\ record # NoRequest
    /\ record' = NoRequest
    /\ lapsed' = TRUE
    /\ request' = [r \in Request |-> [request[r] EXCEPT !.retry = FALSE]]
    /\ UNCHANGED <<lock, links, degraded, faults, expirations, excused>>
-----------------------------------------------------------------------------
Step(r) ==
    \/ Begin(r) \/ CheckRecord(r) \/ CheckLock(r) \/ AcquireLock(r)
    \/ CreateLink(r) \/ StoreRecord(r) \/ ReleaseLock(r)
    \/ SkipRedis(r) \/ RedisFails(r) \/ CreateLost(r)

Next ==
    \/ \E r \in Request : Step(r)
    \/ \E p \in Process : Crash(p) \/ Reopen(p)
    \/ ExpireLock \/ ExpireRecord

Spec == Init /\ [][Next]_vars
-----------------------------------------------------------------------------
TypeOK ==
    /\ record \in MaybeRequest
    /\ lock \in MaybeRequest
    /\ links \subseteq Request
    /\ request \in [Request -> [pc: Pcs, got: MaybeRequest,
                                retry: BOOLEAN, blind: BOOLEAN]]
    /\ degraded \subseteq Process
    /\ faults \in 0..MaxFaults
    /\ expirations \in Nat
    /\ lapsed \in BOOLEAN
    /\ excused \subseteq Request

(* A replay answers with a link that was really created under the key, from   *)
(* the same payload, also when the record was overwritten by a duplicate or   *)
(* stored by a command whose answer was lost (idempotency.ts).                *)
ReplayIsFaithful ==
    \A r \in Request : At(r, "replayed") =>
        /\ request[r].got \in links
        /\ PayloadOf[request[r].got] = PayloadOf[r]

(* The requests between the lock and its release: one, and one more for every *)
(* lock TTL that ended and every request let in without the lock.  The        *)
(* release does not compare, so it may free the lock of the next holder; yet  *)
(* every such chain begins with one lock that ended or one unlocked request.  *)
WorkersBounded ==
    Cardinality(Workers) <= 1 + expirations + Cardinality(excused)

(* Within the 24 hours of the record every link beyond the first has a cause:  *)
(* a lock whose TTL ended, or a request that Redis failed or that took the     *)
(* lock after a look-up that was out of date.                                  *)
LinksBounded ==
    ~lapsed => Cardinality(links \ excused) <= 1 + expirations + Cardinality(excused)

(* A retry that begins while the record stands creates nothing as long as it  *)
(* stands, unless the look-up itself could not be made.                       *)
RetryIsSafe ==
    \A r \in Request : request[r].retry /\ r \in links => request[r].blind

(* Clients see one answer per request, and a true one: 409s name a payload     *)
(* that was really sent or a request that was really let in, and neither they  *)
(* nor replays leave a link behind (idempotency.ts, links-protected).          *)
Tried == {r \in Request : request[r].pc \in Working \cup {"created", "failed"}}
Answer(r) == IF request[r].pc \in Final THEN request[r].pc ELSE "none"
Api == INSTANCE CreationApi WITH
         tried <- Tried, rows <- links,
         answer <- [r \in Request |-> Answer(r)],
         named <- [r \in Request |-> request[r].got]
ImplementsApi == Api!Spec

(* What the tests say of the key: concurrent requests create one link.  No    *)
(* command failed and no TTL ended.                                           *)
OneLinkPerKey ==
    faults = 0 /\ expirations = 0 /\ ~lapsed => Cardinality(links) <= 1
=============================================================================
