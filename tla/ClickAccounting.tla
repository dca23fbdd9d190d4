---------------------------- MODULE ClickAccounting ----------------------------
(***************************************************************************)
(* The clicks of one link with a click limit: the redirect handler admits  *)
(* a visitor on what it reads of the cached link, of the links row and of  *)
(* the pending counter in Redis (route.ts, fetcher.ts, realtime-clicks.ts),*)
(* reserves the click and emits an event; the analytics worker             *)
(* (analytics-click.worker.ts) stores each event once, adds to             *)
(* links.clicks_count and then moves the click from the pending counter to *)
(* the cached link.                                                        *)
(*                                                                         *)
(* Each action is one command to Redis or one database statement or        *)
(* transaction with the local computation that follows its answer.         *)
(* Delivery is that of StreamWorker, for one process with its two loops, a *)
(* group that exists and no eviction.                                      *)
(***************************************************************************)
EXTENDS Integers, FiniteSets

CONSTANTS
  Click,       \* visits to the link
  MaxClicks,   \* links.max_clicks
  MaxRetries,  \* config.maxRetries of the worker
  BatchSize,   \* config.batchSize of the worker
  MaxFaults    \* bound on failed commands, crashes and entries claimed while held

ASSUME ClickAssumption ==
  /\ MaxClicks \in Nat \ {0}
  /\ MaxRetries \in Nat
  /\ BatchSize \in Nat \ {0}
  /\ MaxFaults \in Nat

VARIABLES
  phase,        \* where each visit is
  seen,         \* the count a visit has read so far
  atStart,      \* history: visits admitted when this one started
  admitted,     \* history: visits sent to the destination
  cachedCount,  \* clicksCount of the cached link, Absent when it is not cached
  emitted,      \* history: visits whose XADD was executed, answered or not
  reserved,     \* the pending counter of the link, 0 when the key is absent
  left,         \* history: clicks that failures left in the pending counter
  clicksCount,  \* links.clicks_count
  rows,         \* visits with a row in analytics_events
  lastId,       \* id of the newest entry of the stream
  undelivered,  \* entries the group has not delivered yet
  pending,      \* entries delivered and not acknowledged
  dead,         \* visits whose event is in the dead-letter stream
  loop,         \* what each worker loop is doing
  faults        \* faults so far, at most MaxFaults

history == <<atStart, admitted, emitted>>
visits == <<phase, seen, history>>
counter == <<reserved, left>>
stream == <<lastId, undelivered, pending>>
store == <<rows, clicksCount, dead>>
vars == <<visits, cachedCount, counter, stream, store, loop, faults>>

Absent == -1
Phase == {"new", "hit", "missed", "loaded", "filling", "resolved", "denied",
          "reserved", "sent", "reverting", "clearing", "unsent", "error"}
\* The event of a visit carries its eventId; a copy made for a retry keeps it.
Entry == [id : Nat, click : Click, attempt : 0..MaxRetries]
\* A loop: nothing in hand; a batch to persist; effects left after the commit of
\* "count" clicks; a batch whose transaction failed.
Loop == {"main", "gc"}
Effect == {"cache", "drain", "clear"}
LoopState ==
  [stage : {"idle", "read", "committed", "failed"}, batch : SUBSET Entry,
   count : 0..BatchSize, todo : SUBSET Effect]
Idle == [stage |-> "idle", batch |-> {}, count |-> 0, todo |-> {}]

TypeOK ==
  /\ phase \in [Click -> Phase]
  /\ seen \in [Click -> Nat]
  /\ atStart \in [Click -> Nat]
  /\ admitted \subseteq Click
  /\ emitted \subseteq Click
  /\ cachedCount \in Nat \cup {Absent}
  /\ reserved \in Int
  /\ left \in Nat
  /\ clicksCount \in Nat
  /\ rows \subseteq Click
  /\ lastId \in Nat
  /\ undelivered \subseteq Entry
  /\ pending \subseteq Entry
  /\ dead \subseteq Click
  /\ loop \in [Loop -> LoopState]
  /\ faults \in 0..MaxFaults

Init ==
  /\ phase = [c \in Click |-> "new"]
  /\ seen = [c \in Click |-> 0]
  /\ atStart = [c \in Click |-> 0]
  /\ admitted = {}
  /\ emitted = {}
  /\ cachedCount = Absent
  /\ reserved = 0
  /\ left = 0
  /\ clicksCount = 0
  /\ rows = {}
  /\ lastId = 0
  /\ undelivered = {}
  /\ pending = {}
  /\ dead = {}
  /\ loop = [l \in Loop |-> Idle]
  /\ faults = 0

Fault ==
  /\ faults < MaxFaults
  /\ faults' = faults + 1

Goto(c, from, to) ==
  /\ phase[c] = from
  /\ phase' = [phase EXCEPT ![c] = to]

-----------------------------------------------------------------------------
(* Admission *)

\* getLinkState(): the cached link, or a miss.  Early refresh may make a cached link
\* that is about to expire a miss.
ReadCache(c) ==
  /\ \/ Goto(c, "new", "missed") /\ UNCHANGED seen
     \/ /\ cachedCount # Absent
        /\ Goto(c, "new", "hit")
        /\ seen' = [seen EXCEPT ![c] = cachedCount]
  /\ atStart' = [atStart EXCEPT ![c] = Cardinality(admitted)]
  /\ UNCHANGED <<admitted, emitted, cachedCount, counter, stream, store, loop, faults>>

\* findByCode().
ReadRow(c) ==
  /\ Goto(c, "missed", "loaded")
  /\ seen' = [seen EXCEPT ![c] = clicksCount]
  /\ UNCHANGED <<history, cachedCount, counter, stream, store, loop, faults>>

\* Another visit holds the stampede lock: after a wait the cache is read again.
ReadCacheAgain(c) ==
  /\ cachedCount # Absent
  /\ Goto(c, "missed", "hit")
  /\ seen' = [seen EXCEPT ![c] = cachedCount]
  /\ UNCHANGED <<history, cachedCount, counter, stream, store, loop, faults>>

\* applyPendingClicksForEnforcement(): a counter that is not positive counts for
\* nothing.  What was read from the database goes to the cache next.
ReadPending(c) ==
  /\ phase[c] \in {"hit", "loaded"}
  /\ Goto(c, phase[c], IF phase[c] = "hit" THEN "resolved" ELSE "filling")
  /\ seen' = [seen EXCEPT ![c] = @ + (IF reserved > 0 THEN reserved ELSE 0)]
  /\ UNCHANGED <<history, cachedCount, counter, stream, store, loop, faults>>

\* getPendingClicks() answers 0 when the GET fails.
PendingUnread(c) ==
  /\ phase[c] \in {"hit", "loaded"}
  /\ Goto(c, phase[c], IF phase[c] = "hit" THEN "resolved" ELSE "filling")
  /\ Fault
  /\ UNCHANGED <<seen, history, cachedCount, counter, stream, store, loop>>

\* setLink() by the holder of the stampede lock, of the sum; others do not fill.
Fill(c) ==
  /\ Goto(c, "filling", "resolved")
  /\ cachedCount' \in {cachedCount, seen[c]}
  /\ UNCHANGED <<seen, atStart, admitted, emitted, counter, stream, store, loop, faults>>

\* The cached link expires, or is invalidated.
Expire ==
  /\ cachedCount' = Absent
  /\ UNCHANGED <<visits, counter, stream, store, loop, faults>>

\* validateLink() refuses: MAX_CLICKS.
Deny(c) ==
  /\ seen[c] >= MaxClicks
  /\ Goto(c, "resolved", "denied")
  /\ UNCHANGED <<seen, history, cachedCount, counter, stream, store, loop, faults>>

\* incrementPendingClicks(): INCRBY, and the visitor is redirected.
Reserve(c) ==
  /\ seen[c] < MaxClicks
  /\ Goto(c, "resolved", "reserved")
  /\ reserved' = reserved + 1
  /\ admitted' = admitted \cup {c}
  /\ UNCHANGED <<seen, atStart, emitted, cachedCount, left, stream, store, loop, faults>>

\* The INCRBY fails, or it succeeds and the EXPIRE after it fails: no redirect.
ReserveFails(c) ==
  /\ seen[c] < MaxClicks
  /\ Goto(c, "resolved", "error")
  /\ Fault
  /\ \/ UNCHANGED counter
     \/ reserved' = reserved + 1 /\ left' = left + 1
  /\ UNCHANGED <<seen, history, cachedCount, stream, store, loop>>

\* XADD.
Add(c, a) ==
  /\ lastId' = lastId + 1
  /\ undelivered' = undelivered \cup {[id |-> lastId + 1, click |-> c, attempt |-> a]}
AddEvent(c) == Add(c, 0) /\ emitted' = emitted \cup {c}

\* enqueueRedirectAnalytics(), after the response.
Emit(c) ==
  /\ Goto(c, "reserved", "sent")
  /\ AddEvent(c)
  /\ UNCHANGED <<seen, atStart, admitted, cachedCount, counter, pending, store, loop,
                 faults>>

\* (mutation: the reservation is not reverted)
EmitFailsUnreverted(c) ==
  /\ Goto(c, "reserved", "unsent")
  /\ Fault
  /\ UNCHANGED <<seen, history, cachedCount, counter, stream, store, loop>>

\* It fails, or the XADD is executed and its answer lost: the reservation is reverted
\* next, whether or not the event is in the stream.
EmitFails(c) ==
  /\ Goto(c, "reserved", "reverting")
  /\ Fault
  /\ AddEvent(c) \/ UNCHANGED <<lastId, undelivered, emitted>>
  /\ UNCHANGED <<seen, atStart, admitted, cachedCount, counter, pending, store, loop>>

\* (mutation: the key is deleted at zero only)
MustClearAtZero(n) == reserved - n = 0

\* drainPendingClicks(): DECRBY, and DEL of a counter that is not positive then.
Decrease(n) == reserved' = reserved - n /\ UNCHANGED left
MustClear(n) == reserved - n <= 0

\* revertRedirectPendingClick().
Revert(c) ==
  /\ Goto(c, "reverting", IF MustClear(1) THEN "clearing" ELSE "unsent")
  /\ Decrease(1)
  /\ UNCHANGED <<seen, history, cachedCount, stream, store, loop, faults>>

ClearUnsent(c) ==
  /\ Goto(c, "clearing", "unsent")
  /\ reserved' = 0
  /\ UNCHANGED <<seen, history, cachedCount, left, stream, store, loop, faults>>

\* The DECRBY is executed and its answer lost: no DEL.
RevertUnanswered(c) ==
  /\ Goto(c, "reverting", "unsent")
  /\ Fault
  /\ Decrease(1)
  /\ UNCHANGED <<seen, history, cachedCount, stream, store, loop>>

\* The DECRBY or the DEL fails, and drainPendingClicks() swallows the error; or the
\* process of the visit dies first.  Nobody gives the reservation back after that.
Forgotten(c) ==
  /\ phase[c] \in {"reserved", "reverting", "clearing"}
  /\ Goto(c, phase[c], "unsent")
  /\ Fault
  /\ left' = left + (IF phase[c] = "clearing" THEN 0 ELSE 1)
  /\ UNCHANGED <<seen, history, cachedCount, reserved, stream, store, loop>>

-----------------------------------------------------------------------------
(* The analytics worker *)

Become(l, s) == loop' = [loop EXCEPT ![l] = s]
Hold(l, B) == Become(l, [Idle EXCEPT !.stage = "read", !.batch = B])
InHand == UNION {loop[l].batch : l \in Loop}

\* XREADGROUP of the oldest undelivered entries, as many as fit the batch.
Read ==
  /\ loop["main"].stage = "idle"
  /\ \E B \in SUBSET undelivered :
       /\ B # {} /\ Cardinality(B) <= BatchSize
       /\ Cardinality(B) < BatchSize => B = undelivered
       /\ \A e \in B, f \in undelivered \ B : e.id < f.id
       /\ undelivered' = undelivered \ B
       /\ pending' = pending \cup B
       /\ Hold("main", B)
  /\ UNCHANGED <<visits, cachedCount, counter, lastId, store, faults>>

\* XAUTOCLAIM of entries long idle, of any age, perhaps while the main loop
\* still holds some of them.
Claim ==
  /\ loop["gc"].stage = "idle"
  /\ \E B \in SUBSET pending :
       /\ B # {} /\ Cardinality(B) <= BatchSize
       /\ IF B \cap InHand # {} THEN Fault ELSE UNCHANGED faults
       /\ Hold("gc", B)
  /\ UNCHANGED <<visits, cachedCount, counter, stream, store>>

ClicksOf(B) == {e.click : e \in B}

\* (mutation: clicks are counted whether or not the row was inserted)
CountedAll(B) == Cardinality(B)

\* buildLinkClickCounts(): the entries of the batch whose eventId was inserted.
Counted(B) == Cardinality({e \in B : e.click \notin rows})

\* The transaction: INSERT ... ON CONFLICT DO NOTHING RETURNING, and the UPDATE of
\* links.clicks_count.
Persist(B) ==
  /\ rows' = rows \cup ClicksOf(B)
  /\ clicksCount' = clicksCount + Counted(B)
  /\ UNCHANGED dead

\* Without a new row there are no effects to run.
Effects(n) == IF n > 0 THEN {"cache", "drain"} ELSE {}

Commit(l) ==
  LET B == loop[l].batch
      n == Counted(B) IN
  /\ loop[l].stage = "read"
  /\ Persist(B)
  /\ Become(l, [stage |-> "committed", batch |-> B, count |-> n, todo |-> Effects(n)])
  /\ UNCHANGED <<visits, cachedCount, counter, stream, faults>>

\* The clicks of a batch that hold a reservation until their row is stored.
Waiting(c) == phase[c] = "sent" /\ c \notin rows
WaitingIn(B) == {c \in ClicksOf(B) : Waiting(c)}

\* It is rolled back; or it commits and the answer is lost: the events are duplicates
\* when they are tried again, and nobody drains their reservations.
CommitFails(l) ==
  LET B == loop[l].batch IN
  /\ loop[l].stage = "read"
  /\ Fault
  /\ \/ UNCHANGED <<store, left>>
     \/ Persist(B) /\ left' = left + Cardinality(WaitingIn(B))
  /\ Become(l, [loop[l] EXCEPT !.stage = "failed"])
  /\ UNCHANGED <<visits, cachedCount, reserved, stream>>

\* incrementClicksCount(): the script adds to a link that is cached.
AddToCache(l) ==
  /\ "cache" \in loop[l].todo
  /\ cachedCount' = IF cachedCount = Absent THEN Absent ELSE cachedCount + loop[l].count
  /\ Become(l, [loop[l] EXCEPT !.todo = @ \ {"cache"}])
  /\ UNCHANGED <<visits, counter, stream, store, faults>>

Drain(l) ==
  /\ "drain" \in loop[l].todo
  /\ Decrease(loop[l].count)
  /\ Become(l, [loop[l] EXCEPT
                !.todo = (@ \ {"drain"})
                  \cup (IF MustClear(loop[l].count) THEN {"clear"} ELSE {})])
  /\ UNCHANGED <<visits, cachedCount, stream, store, faults>>

Clear(l) ==
  /\ "clear" \in loop[l].todo
  /\ reserved' = 0
  /\ Become(l, [loop[l] EXCEPT !.todo = @ \ {"clear"}])
  /\ UNCHANGED <<visits, cachedCount, left, stream, store, faults>>

\* A failed effect is logged and left at that.
EffectFails(l) ==
  /\ \E x \in loop[l].todo \ {"drain"} : Become(l, [loop[l] EXCEPT !.todo = @ \ {x}])
  /\ Fault
  /\ UNCHANGED <<visits, cachedCount, counter, stream, store>>

\* The clicks of a batch committed and not drained.
ToDrain(l) == IF "drain" \in loop[l].todo THEN loop[l].count ELSE 0

\* So is a failed DECRBY, executed or not; the DEL is not sent then.
DrainFails(l) ==
  /\ "drain" \in loop[l].todo
  /\ Become(l, [loop[l] EXCEPT !.todo = @ \ {"drain"}])
  /\ Fault
  /\ \/ Decrease(loop[l].count)
     \/ UNCHANGED reserved /\ left' = left + ToDrain(l)
  /\ UNCHANGED <<visits, cachedCount, stream, store>>

\* (mutation: a batch whose transaction failed is acknowledged too)
AckWhateverHappened(l) ==
  /\ loop[l].stage \in {"committed", "failed"} /\ loop[l].todo = {}
  /\ pending' = pending \ loop[l].batch
  /\ Become(l, Idle)
  /\ UNCHANGED <<visits, cachedCount, counter, lastId, undelivered, store, faults>>

\* The XACK of the batch.
Ack(l) ==
  /\ loop[l].stage = "committed" /\ loop[l].todo = {}
  /\ pending' = pending \ loop[l].batch
  /\ Become(l, Idle)
  /\ UNCHANGED <<visits, cachedCount, counter, lastId, undelivered, store, faults>>

PutDown(l, e) ==
  LET rest == loop[l].batch \ {e} IN
  Become(l, IF rest = {} THEN Idle ELSE [loop[l] EXCEPT !.batch = rest])

\* (mutations: one retry too many; the copy is never written)
CanRetryOnceMore(e) == e.attempt <= MaxRetries
AddNothing(e) == UNCHANGED <<lastId, undelivered, dead>>

CanRetry(e) == e.attempt < MaxRetries

\* handleFailedMessage(): a copy for the next attempt, or the dead-letter stream.
AddAgain(e) ==
  IF CanRetry(e)
  THEN Add(e.click, e.attempt + 1) /\ UNCHANGED dead
  ELSE dead' = dead \cup {e.click} /\ UNCHANGED <<lastId, undelivered>>

\* Each failed entry in turn; when the XACK after the copy fails, it stays pending.
HandleFailed(l, e) ==
  /\ loop[l].stage = "failed"
  /\ e \in loop[l].batch /\ \A f \in loop[l].batch : e.id <= f.id
  /\ AddAgain(e)
  /\ \/ pending' = pending \ {e} /\ UNCHANGED faults
     \/ UNCHANGED pending /\ Fault
  /\ PutDown(l, e)
  /\ UNCHANGED <<visits, cachedCount, counter, rows, clicksCount>>

\* An XADD or XACK fails: what the loop has in hand stays pending.
Abandon(l) ==
  /\ loop[l].stage # "idle"
  /\ Fault
  /\ Become(l, Idle)
  /\ left' = left + ToDrain(l)
  /\ UNCHANGED <<visits, cachedCount, reserved, stream, store>>

\* The process dies with both loops.
Crash ==
  /\ \A l \in Loop : loop[l].stage # "idle"
  /\ Fault
  /\ loop' = [l \in Loop |-> Idle]
  /\ left' = left + ToDrain("main") + ToDrain("gc")
  /\ UNCHANGED <<visits, cachedCount, reserved, stream, store>>

-----------------------------------------------------------------------------
Visit(c) ==
  \/ ReadRow(c) \/ ReadCacheAgain(c) \/ ReadPending(c) \/ Fill(c) \/ Deny(c) \/ Reserve(c)
  \/ Emit(c) \/ Revert(c) \/ ClearUnsent(c)
VisitFails(c) ==
  \/ PendingUnread(c) \/ ReserveFails(c) \/ EmitFails(c) \/ RevertUnanswered(c)
  \/ Forgotten(c)

Work(l) ==
  \/ Commit(l) \/ AddToCache(l) \/ Drain(l) \/ Clear(l) \/ Ack(l)
  \/ \E e \in loop[l].batch : HandleFailed(l, e)
WorkFails(l) == CommitFails(l) \/ EffectFails(l) \/ DrainFails(l) \/ Abandon(l)

Next ==
  \/ \E c \in Click : ReadCache(c) \/ Visit(c) \/ VisitFails(c)
  \/ Expire
  \/ Read \/ Claim
  \/ \E l \in Loop : Work(l) \/ WorkFails(l)
  \/ Crash

Spec == Init /\ [][Next]_vars

\* A visit that began is carried on, and the loops keep working.
Fairness ==
  /\ \A c \in Click : WF_vars(Visit(c))
  /\ WF_vars(Read) /\ WF_vars(Claim)
  /\ \A l \in Loop : WF_vars(Work(l))

FairSpec == Spec /\ Fairness

-----------------------------------------------------------------------------
(* Properties *)

\* Only events actually inserted are counted, not conflicted duplicates
\* (analytics-click.worker.ts:147,235): links.clicks_count is the number of stored
\* events, however often an event is delivered.
CountMatchesRows == clicksCount = Cardinality(rows)

\* The clicks still in the pending counter with somebody to take them out of it: the
\* visit, as long as it may emit or revert, then the worker, until the row is stored.  (A
\* dead-lettered click stays in the counter until the key expires.)
Outstanding == {c \in Click : phase[c] \in {"reserved", "reverting"} \/ Waiting(c)}

\* The pending counter is a number of visits on their way, which the worker gives back
\* as it stores them (realtime-clicks.ts:45-66).  What it counts beyond those, and beyond
\* batches committed and not drained, is what a failure left in it, each click once: one
\* of a visitor turned away after the INCRBY, of a visit nobody reverts, of a batch whose
\* commit was not answered, or of one not drained - however the INCRBY of visits, the
\* DECRBY and the DEL interleave.  A link is not denied for clicks nobody made.
ReservationsBounded ==
  reserved <= Cardinality(Outstanding) + ToDrain("main") + ToDrain("gc") + left

\* The events of clicks are jobs of a queue: an event whose XADD was executed, answered
\* or not, stays in the stream until it is stored or dead-lettered.  A transaction may
\* complete a batch of them.
Queue == INSTANCE JobQueue WITH Job <- Click, submitted <- emitted,
           owed <- ClicksOf(undelivered \cup pending), completed <- rows, lost <- {}
ImplementsClickQueue == Queue!Spec

\* A visit whose event reached the stream is stored or dead-lettered.
ClicksAreStored ==
  \A c \in Click : c \in emitted ~> c \in rows \cup dead

\* As long as nothing fails, the pending counter returns to zero: each reservation is
\* drained once, however the INCRBY of visits falls between the DECRBY of the worker
\* and the DEL that follows it.
ReservationsDrain == [](faults = 0) => <>[](reserved = 0)

\* Reserving the click before the response makes recent redirects visible to the next
\* resolver call (route.ts:163-166): a visit that starts after others were
\* admitted reads a count that includes them.
RecentRedirectsVisible ==
  \A c \in Click : phase[c] = "resolved" => seen[c] >= atStart[c]
=============================================================================
