--------------------------- MODULE AnalyticsStore ---------------------------
(***************************************************************************)
(* The stored click events of one link and what is done with them: a daily *)
(* job sums a day up (aggregation-stream.worker.ts), a weekly job creates   *)
(* the monthly partitions to come and drops the old ones                    *)
(* (partition-manager.ts, cleanup-stream.worker.ts).                        *)
(*                                                                         *)
(* Time is a day number; a month is DaysPerMonth of them.  A sum is the set *)
(* of events it counts.  The three breakdowns (country, device, browser)    *)
(* have the same code and are one; the events have the same value in it.    *)
(* Bot events, which every sum leaves out, are not modelled.                *)
(***************************************************************************)
EXTENDS Naturals, FiniteSets

CONSTANTS Event,
          Executor,        \* loops that process aggregation jobs
          DaysPerMonth,
          Retention,       \* retentionDays
          LookAhead,       \* lookaheadMonths
          Kept, Ahead,     \* months before and after the current one in the migration
          JobAge,          \* environment: days until an aggregation job is over
          MaxDay,          \* bound: days
          MaxFaults        \* bound: failures and crashes

ASSUME CalendarAssumption ==
    /\ DaysPerMonth \in Nat \ {0}
    /\ {Retention, LookAhead, Kept, Ahead, JobAge, MaxDay, MaxFaults} \subseteq Nat
    /\ 0 < JobAge /\ JobAge <= Retention
    /\ Kept * DaysPerMonth <= MaxDay

Day == 0..MaxDay
Month(d) == d \div DaysPerMonth
EndDate(m) == (m + 1) * DaysPerMonth

VARIABLES now,
          place,           \* where each event is
          day,             \* the day of each event
          dated,           \* months that have a partition of their own
          jobs,            \* days with an entry in the aggregation stream
          agg,             \* each executor's job
          total, parts,    \* for each day: what its sum, its breakdown counts
          clean,           \* the cleanup job
          faults,
          begun, done,     \* history: days whose aggregation has begun, has succeeded
          early,           \* history: events stored before that
          covered          \* history: the last month of a complete creation

table == <<place, day, dated>>
daily == <<jobs, agg, total, parts, begun, done>>
vars == <<now, table, daily, clean, faults, early, covered>>

Places == {"unborn", "queued", "default", "dated", "dropped"}
NoJob == [pc |-> "idle", day |-> 0, total |-> {}, parts |-> {}]
NoCleanup == [pc |-> "idle", at |-> 0, existing |-> {}, next |-> 0, whole |-> TRUE]

Rows(d) == {e \in Event : place[e] \in {"default", "dated"} /\ day[e] = d}

(* The migration creates the default partition and the months around today. *)
Init ==
    /\ now = Kept * DaysPerMonth
    /\ place = [e \in Event |-> "unborn"]
    /\ day = [e \in Event |-> 0]
    /\ dated = 0..(Kept + Ahead)
    /\ jobs = {}
    /\ agg = [x \in Executor |-> NoJob]
    /\ total = [d \in Day |-> {}]
    /\ parts = [d \in Day |-> {}]
    /\ clean = NoCleanup
    /\ faults = 0
    /\ begun = {}
    /\ done = {}
    /\ early = {}
    /\ covered = Kept + Ahead

Fault == faults < MaxFaults /\ faults' = faults + 1
-----------------------------------------------------------------------------
(* Clicks                                                                    *)

Click(e) ==
    /\ place[e] = "unborn"
    /\ place' = [place EXCEPT ![e] = "queued"]
    /\ day' = [day EXCEPT ![e] = now]
    /\ UNCHANGED <<now, dated, daily, clean, faults, early, covered>>

(* The row goes to the partition of its month; the default one takes the rest. *)
Store(e) ==
    /\ place[e] = "queued"
    /\ place' = [place EXCEPT ![e] = IF Month(day[e]) \in dated THEN "dated" ELSE "default"]
    /\ early' = IF day[e] \in begun THEN early ELSE early \cup {e}
    /\ UNCHANGED <<now, day, dated, daily, clean, faults, covered>>
-----------------------------------------------------------------------------
(* Daily aggregation                                                         *)

(* At 02:00 the scheduler publishes a job for yesterday, or fails to.  The   *)
(* environment: no job is older than JobAge days.                            *)
NextDay ==
    /\ now < MaxDay
    /\ \A d \in jobs \cup {agg[x].day : x \in {y \in Executor : agg[y].pc # "idle"}} :
          now < d + JobAge
    /\ now' = now + 1
    /\ \/ jobs' = jobs \cup {now} /\ UNCHANGED faults
       \/ Fault /\ UNCHANGED jobs
    /\ UNCHANGED <<table, agg, total, parts, begun, done, clean, early, covered>>

AggAt(x, pc) == agg[x].pc = pc
AggMove(x, pc) == agg' = [agg EXCEPT ![x].pc = pc]
OnlyAgg == UNCHANGED <<now, table, jobs, total, parts, clean, faults, begun, done, early,
                       covered>>

(* The main loop takes a job; a collector takes one that another still works on. *)
StartJob(x, d) ==
    /\ AggAt(x, "idle")
    /\ d \in jobs
    /\ agg' = [agg EXCEPT ![x] = [NoJob EXCEPT !.pc = "find", !.day = d]]
    /\ begun' = begun \cup {d}
    /\ UNCHANGED <<now, table, jobs, total, parts, clean, faults, done, early, covered>>

(* A day without rows has no link to aggregate. *)
FindLinks(x) ==
    /\ AggAt(x, "find")
    /\ AggMove(x, IF Rows(agg[x].day) = {} THEN "ack" ELSE "read")
    /\ OnlyAgg

(* The SELECTs run in parallel, each with a snapshot of its own. *)
ReadTotal(x) ==
    /\ agg[x].pc \in {"read", "readTotal"}
    /\ agg' = [agg EXCEPT ![x].pc = IF AggAt(x, "read") THEN "readParts" ELSE "writeTotal",
                          ![x].total = Rows(agg[x].day)]
    /\ OnlyAgg

ReadParts(x) ==
    /\ agg[x].pc \in {"read", "readParts"}
    /\ agg' = [agg EXCEPT ![x].pc = IF AggAt(x, "read") THEN "readTotal" ELSE "writeTotal",
                          ![x].parts = Rows(agg[x].day)]
    /\ OnlyAgg

WriteTotal(x) ==
    /\ AggAt(x, "writeTotal")
    /\ total' = [total EXCEPT ![agg[x].day] = agg[x].total]
    /\ AggMove(x, "writeParts")
    /\ UNCHANGED <<now, table, jobs, parts, clean, faults, begun, done, early, covered>>

(* Only the values that were read are written. *)
WriteParts(x) ==
    /\ AggAt(x, "writeParts")
    /\ parts' = [parts EXCEPT ![agg[x].day] = IF agg[x].parts = {} THEN @ ELSE agg[x].parts]
    /\ AggMove(x, "ack")
    /\ UNCHANGED <<now, table, jobs, total, clean, faults, begun, done, early, covered>>

Ack(x) ==
    /\ AggAt(x, "ack")
    /\ jobs' = jobs \ {agg[x].day}
    /\ done' = done \cup {agg[x].day}
    /\ agg' = [agg EXCEPT ![x] = NoJob]
    /\ UNCHANGED <<now, table, total, parts, clean, faults, begun, early, covered>>

(* Not the code: a failed upsert is logged, and the job counts as done. *)
JobFailsQuietly(x) ==
    /\ agg[x].pc \notin {"idle", "ack"}
    /\ Fault
    /\ AggMove(x, "ack")
    /\ UNCHANGED <<now, table, jobs, total, parts, clean, begun, done, early, covered>>

(* A statement or the XACK fails, or the process dies: the job is executed   *)
(* again, or dead-lettered after its last retry.                             *)
JobFails(x) ==
    /\ agg[x].pc # "idle"
    /\ Fault
    /\ jobs' \in {jobs, jobs \ {agg[x].day}}
    /\ agg' = [agg EXCEPT ![x] = NoJob]
    /\ UNCHANGED <<now, table, total, parts, clean, begun, done, early, covered>>
-----------------------------------------------------------------------------
(* Partitions: runMaintenance                                                *)

CleanAt(pc) == clean.pc = pc
OnlyClean == UNCHANGED <<now, table, daily, faults, early, covered>>

(* Not the code: only partitions of today and later are listed. *)
ListPartitionsAhead ==
    /\ CleanAt("idle")
    /\ clean' = [NoCleanup EXCEPT !.pc = "create", !.at = now,
                                  !.existing = {m \in dated : m >= Month(now)}]
    /\ UNCHANGED <<now, table, daily, faults, early, covered>>

(* listPartitions returns nothing when its query fails, and leaves the       *)
(* default partition out, which has no bounds.                               *)
ListPartitions ==
    /\ CleanAt("idle")
    /\ \/ clean' = [NoCleanup EXCEPT !.pc = "create", !.at = now, !.existing = dated]
          /\ UNCHANGED faults
       \/ clean' = [NoCleanup EXCEPT !.pc = "create", !.at = now]
          /\ Fault
    /\ UNCHANGED <<now, table, daily, early, covered>>

NextMonth == Month(clean.at) + clean.next
Refused(m) == \E e \in Event : place[e] = "default" /\ Month(day[e]) = m

(* Not the code: the loop begins with the month after the current one. *)
CreatePartitionLate ==
    /\ CleanAt("create") /\ clean.next < LookAhead
    /\ dated' = dated \cup {NextMonth + 1}
    /\ clean' = [clean EXCEPT !.next = clean.next + 1]
    /\ UNCHANGED <<now, place, day, daily, faults, early, covered>>

(* Not the code: the loop runs once more than lookaheadMonths. *)
CreatePartitionOnceMore ==
    /\ CleanAt("create") /\ clean.next <= LookAhead
    /\ dated' = dated \cup {NextMonth}
    /\ clean' = [clean EXCEPT !.next = clean.next + 1]
    /\ UNCHANGED <<now, place, day, daily, faults, early, covered>>

(* PostgreSQL refuses a partition while the default one holds a row of it;   *)
(* that error and any other is logged, and the loop goes on.                 *)
CreatePartition ==
    /\ CleanAt("create") /\ clean.next < LookAhead
    /\ \/ /\ NextMonth \in clean.existing \cup dated \/ ~Refused(NextMonth)
          /\ dated' = IF NextMonth \in clean.existing THEN dated ELSE dated \cup {NextMonth}
          /\ clean' = [clean EXCEPT !.next = clean.next + 1]
          /\ UNCHANGED faults
       \/ /\ NextMonth \notin clean.existing
          /\ \/ NextMonth \notin dated /\ Refused(NextMonth) /\ UNCHANGED faults
             \/ Fault
          /\ clean' = [clean EXCEPT !.next = clean.next + 1, !.whole = FALSE]
          /\ UNCHANGED dated
    /\ UNCHANGED <<now, place, day, daily, early, covered>>

(* dropOldPartitions takes its own time for the cut-off. *)
BeginDrops ==
    /\ CleanAt("create") /\ clean.next = LookAhead
    /\ clean' = [clean EXCEPT !.pc = "drop", !.at = now]
    /\ covered' = IF clean.whole /\ LookAhead > 0 THEN Month(clean.at) + LookAhead - 1
                  ELSE covered
    /\ UNCHANGED <<now, table, daily, faults, early>>

(* Not the code: the age of a partition is that of its first day. *)
IsOldByStart(m) == m * DaysPerMonth + Retention < clean.at

IsOld(m) == EndDate(m) + Retention < clean.at

Old == {m \in clean.existing : IsOld(m)}

DropPartition(m) ==
    /\ CleanAt("drop") /\ m \in Old
    /\ \/ /\ dated' = dated \ {m}
          /\ place' = [e \in Event |->
                         IF place[e] = "dated" /\ Month(day[e]) = m THEN "dropped"
                         ELSE place[e]]
          /\ UNCHANGED faults
       \/ Fault /\ UNCHANGED <<dated, place>>
    /\ clean' = [clean EXCEPT !.existing = clean.existing \ {m}]
    /\ UNCHANGED <<now, day, daily, early, covered>>

EndCleanup ==
    /\ CleanAt("drop") /\ Old = {}
    /\ clean' = NoCleanup
    /\ OnlyClean

(* The topology check fails, or the process dies. *)
CleanupFails ==
    /\ ~CleanAt("idle")
    /\ Fault
    /\ clean' = NoCleanup
    /\ UNCHANGED <<now, table, daily, early, covered>>
-----------------------------------------------------------------------------
AggStep(x) ==
    \/ FindLinks(x) \/ ReadTotal(x) \/ ReadParts(x)
    \/ WriteTotal(x) \/ WriteParts(x) \/ Ack(x)

CleanStep ==
    \/ ListPartitions \/ CreatePartition \/ BeginDrops
    \/ \E m \in clean.existing : DropPartition(m)
    \/ EndCleanup

Next ==
    \/ \E e \in Event : Click(e) \/ Store(e)
    \/ NextDay
    \/ \E x \in Executor : (\E d \in jobs : StartJob(x, d)) \/ AggStep(x) \/ JobFails(x)
    \/ CleanStep \/ CleanupFails

Spec == Init /\ [][Next]_vars

(* The cleanup job is published every week and its worker runs. *)
FairSpec == Spec /\ WF_vars(CleanStep)
-----------------------------------------------------------------------------
TypeOK ==
    /\ now \in Day
    /\ place \in [Event -> Places]
    /\ day \in [Event -> Day]
    /\ dated \subseteq Nat
    /\ jobs \subseteq Day
    /\ agg \in [Executor -> [pc: {"idle", "find", "read", "readTotal", "readParts",
                                  "writeTotal", "writeParts", "ack"},
                             day: Day, total: SUBSET Event, parts: SUBSET Event]]
    /\ total \in [Day -> SUBSET Event]
    /\ parts \in [Day -> SUBSET Event]
    /\ clean \in [pc: {"idle", "create", "drop"}, at: Day, existing: SUBSET Nat,
                  next: 0..LookAhead, whole: BOOLEAN]
    /\ faults \in 0..MaxFaults
    /\ begun \subseteq Day /\ done \subseteq Day
    /\ early \subseteq Event
    /\ covered \in Nat

(* "Maintains aggregated data after 90 days": an event that was stored before  *)
(* the aggregation of its day began is counted in the sum and the breakdown of *)
(* the day for good once a job for the day has succeeded: whatever failed on   *)
(* the way, however executions overlap, and after its partition is dropped.    *)
EarlyRowsCounted ==
    \A e \in early : day[e] \in done => e \in total[day[e]] \cap parts[day[e]]

(* Retention of 90 days: a maintenance that lists, creates and drops at        *)
(* different times never removes an event that is younger.                     *)
NeverDropsYoung ==
    [][\A e \in Event :
          place[e] = "dated" /\ place'[e] = "dropped" => now > day[e] + Retention]_vars

(* From a complete creation on, and for the months it was made for, a click    *)
(* of today finds a partition of its month, which retention can drop later     *)
(* (createFuturePartitions looks ahead, dropOldPartitions looks back).         *)
MonthsAheadExist == Month(now)..covered \subseteq dated

(* A row in a monthly partition is removed in the end, once the last day of    *)
(* its month is older than the retention, whatever failed meanwhile.           *)
OldRowsGo ==
    \A e \in Event :
        (place[e] = "dated" /\ EndDate(Month(day[e])) + Retention < now)
            ~> place[e] = "dropped"
=============================================================================
