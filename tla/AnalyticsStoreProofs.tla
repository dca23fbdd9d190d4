------------------------ MODULE AnalyticsStoreProofs ------------------------
(***************************************************************************)
(* Theorems about AnalyticsStore, for any calendar, retention, look-ahead,  *)
(* events and executors.                                                    *)
(***************************************************************************)
EXTENDS AnalyticsStore, TLAPS

-----------------------------------------------------------------------------
(* Months *)

LEMMA MonthType == \A d \in Nat : Month(d) \in Nat
  BY CalendarAssumption DEF Month

LEMMA MonthBounds ==
  \A d \in Nat : Month(d) * DaysPerMonth <= d /\ d < (Month(d) + 1) * DaysPerMonth
  BY CalendarAssumption, Z3 DEF Month

LEMMA LongerMonths == \A a, b \in Nat : a <= b => a * DaysPerMonth <= b * DaysPerMonth
  BY CalendarAssumption, Z3

LEMMA MonthMonotone == \A a, b \in Nat : a <= b => Month(a) <= Month(b)
  BY CalendarAssumption, MonthBounds, MonthType, LongerMonths, Z3 DEF Month

(* A day after the end of a month lies in a later month. *)
LEMMA AfterEnd == \A m, d \in Nat : EndDate(m) <= d => m < Month(d)
<1>. SUFFICES ASSUME NEW m \in Nat, NEW d \in Nat, EndDate(m) <= d, ~(m < Month(d))
              PROVE  FALSE
  OBVIOUS
<1>1. Month(d) \in Nat /\ Month(d) + 1 <= m + 1
  BY MonthType
<1>2. (Month(d) + 1) * DaysPerMonth <= (m + 1) * DaysPerMonth
  BY <1>1, LongerMonths
<1>3. d < (Month(d) + 1) * DaysPerMonth
  BY MonthBounds
<1>4. /\ (Month(d) + 1) * DaysPerMonth \in Nat
      /\ (m + 1) * DaysPerMonth \in Nat
  BY <1>1, CalendarAssumption
<1>. QED
  BY <1>2, <1>3, <1>4 DEF EndDate

LEMMA BeforeEnd == \A d \in Nat : d < EndDate(Month(d))
  BY MonthBounds DEF EndDate

LEMMA EndType == \A m \in Nat : EndDate(m) \in Nat
  BY CalendarAssumption DEF EndDate

-----------------------------------------------------------------------------
(* Types *)

JobType == [pc: {"idle", "find", "read", "readTotal", "readParts", "writeTotal", "writeParts",
                 "ack"},
            day: Day, total: SUBSET Event, parts: SUBSET Event]
CleanType == [pc: {"idle", "create", "drop"}, at: Day, existing: SUBSET Nat,
              next: 0..LookAhead, whole: BOOLEAN]

TableOK == place \in [Event -> Places] /\ day \in [Event -> Day] /\ dated \subseteq Nat
DailyOK ==
    /\ jobs \subseteq Day /\ begun \subseteq Day /\ done \subseteq Day
    /\ agg \in [Executor -> JobType]
    /\ total \in [Day -> SUBSET Event] /\ parts \in [Day -> SUBSET Event]
CleanOK == clean \in CleanType
OtherOK == now \in Day /\ faults \in 0..MaxFaults /\ early \subseteq Event /\ covered \in Nat

LEMMA TypeParts == TypeOK <=> TableOK /\ DailyOK /\ CleanOK /\ OtherOK
  BY DEF TypeOK, TableOK, DailyOK, CleanOK, OtherOK, JobType, CleanType

LEMMA DayType == Day \subseteq Nat /\ 0 \in Day /\ MaxDay \in Nat /\ LookAhead \in Nat
  BY CalendarAssumption DEF Day

LEMMA NoJobType == NoJob \in JobType
  BY DayType DEF NoJob, JobType

LEMMA NoCleanupType == NoCleanup \in CleanType
<1>1. \A b \in BOOLEAN :
        [pc |-> "idle", at |-> 0, existing |-> {}, next |-> 0, whole |-> b] \in CleanType
  BY DayType DEF CleanType
<1>. QED
  BY <1>1, Zenon DEF NoCleanup

LEMMA InitType == Init => TypeOK
<1>. SUFFICES ASSUME Init
              PROVE  TypeOK
  OBVIOUS
<1>1. TableOK
  BY DayType, CalendarAssumption DEF Init, TableOK, Places
<1>2. DailyOK
  BY NoJobType DEF Init, DailyOK
<1>3. CleanOK
  BY NoCleanupType DEF Init, CleanOK
<1>4. OtherOK
  BY CalendarAssumption DEF Init, OtherOK, Day
<1>. QED
  BY <1>1, <1>2, <1>3, <1>4, TypeParts

LEMMA FaultType ==
  ASSUME OtherOK, Fault
  PROVE  faults' \in 0..MaxFaults
  BY CalendarAssumption DEF OtherOK, Fault

LEMMA ClickType ==
  ASSUME TypeOK, NEW e \in Event, Click(e) \/ Store(e)
  PROVE  TypeOK'
<1>. USE DEF TypeOK
<1>1. CASE Click(e)
  BY <1>1 DEF Click, Places, daily
<1>2. CASE Store(e)
  BY <1>2 DEF Store, Places, daily
<1>. QED
  BY <1>1, <1>2

LEMMA AggType ==
  ASSUME TypeOK, NEW x \in Executor,
         (\E d \in jobs : StartJob(x, d)) \/ AggStep(x) \/ JobFails(x)
  PROVE  TypeOK'
<1>1. TableOK /\ DailyOK /\ CleanOK /\ OtherOK
  BY TypeParts
<1>2. UNCHANGED <<now, place, day, dated, clean, early, covered>>
  BY DEF StartJob, AggStep, FindLinks, ReadTotal, ReadParts, WriteTotal, WriteParts, Ack,
         JobFails, OnlyAgg, table
<1>3. TableOK' /\ CleanOK'
  BY <1>1, <1>2 DEF TableOK, CleanOK
<1>4. OtherOK'
  <2>1. faults' = faults \/ Fault
    BY DEF StartJob, AggStep, FindLinks, ReadTotal, ReadParts, WriteTotal, WriteParts, Ack,
           JobFails, OnlyAgg
  <2>. QED
    BY <1>1, <1>2, <2>1, FaultType DEF OtherOK
<1>5. \A d : Rows(d) \subseteq Event
  BY DEF Rows
<1>6. agg[x] \in JobType /\ agg[x].day \in Day
  BY <1>1 DEF DailyOK, JobType
<1>7. ASSUME NEW d \in jobs, StartJob(x, d)
      PROVE  DailyOK'
  <2>1. [NoJob EXCEPT !.pc = "find", !.day = d] \in JobType
    BY <1>1, NoJobType DEF JobType, DailyOK
  <2>2. agg' \in [Executor -> JobType]
    BY <1>1, <1>7, <2>1 DEF StartJob, DailyOK
  <2>. QED
    BY <1>1, <1>7, <2>2 DEF StartJob, DailyOK
<1>8. ASSUME FindLinks(x)
      PROVE  DailyOK'
  BY <1>1, <1>8 DEF FindLinks, AggMove, OnlyAgg, DailyOK, JobType
<1>9. ASSUME ReadTotal(x)
      PROVE  DailyOK'
  <2>1. PICK pc \in {"readParts", "writeTotal"} :
           agg' = [agg EXCEPT ![x].pc = pc, ![x].total = Rows(agg[x].day)]
    BY <1>9, Zenon DEF ReadTotal
  <2>2. OnlyAgg
    BY <1>9 DEF ReadTotal
  <2>. QED
    BY <1>1, <1>5, <2>1, <2>2, ZenonT(40) DEF OnlyAgg, DailyOK, JobType
<1>10. ASSUME ReadParts(x)
       PROVE  DailyOK'
  <2>1. PICK pc \in {"readTotal", "writeTotal"} :
           agg' = [agg EXCEPT ![x].pc = pc, ![x].parts = Rows(agg[x].day)]
    BY <1>10, Zenon DEF ReadParts
  <2>2. OnlyAgg
    BY <1>10 DEF ReadParts
  <2>. QED
    BY <1>1, <1>5, <2>1, <2>2, ZenonT(40) DEF OnlyAgg, DailyOK, JobType
<1>11. ASSUME WriteTotal(x)
       PROVE  DailyOK'
  BY <1>1, <1>6, <1>11 DEF WriteTotal, AggMove, DailyOK, JobType
<1>12. ASSUME WriteParts(x)
       PROVE  DailyOK'
  BY <1>1, <1>6, <1>12 DEF WriteParts, AggMove, DailyOK, JobType
<1>13. ASSUME Ack(x)
       PROVE  DailyOK'
  BY <1>1, <1>6, <1>13, NoJobType DEF Ack, DailyOK
<1>14. ASSUME JobFails(x)
       PROVE  DailyOK'
  BY <1>1, <1>6, <1>14, NoJobType DEF JobFails, DailyOK
<1>. QED
  BY <1>3, <1>4, <1>7, <1>8, <1>9, <1>10, <1>11, <1>12, <1>13, <1>14
     DEF AggStep, TypeOK, TableOK, DailyOK, CleanOK, OtherOK, JobType, CleanType

LEMMA CleanStepType ==
  ASSUME TypeOK, CleanStep \/ CleanupFails
  PROVE  TypeOK'
<1>1. TableOK /\ DailyOK /\ CleanOK /\ OtherOK
  BY TypeParts
<1>2. UNCHANGED <<now, day, jobs, agg, total, parts, begun, done, early>>
  BY DEF CleanStep, ListPartitions, CreatePartition, BeginDrops, DropPartition, EndCleanup,
         CleanupFails, OnlyClean, table, daily
<1>3. DailyOK'
  BY <1>1, <1>2 DEF DailyOK
<1>4. Month(clean.at) \in Nat /\ clean.next \in 0..LookAhead /\ clean.existing \subseteq Nat
      /\ clean.whole \in BOOLEAN
  BY <1>1, MonthType, DayType DEF CleanOK, CleanType
<1>5. faults' \in 0..MaxFaults
  <2>1. faults' = faults \/ Fault
    BY DEF CleanStep, ListPartitions, CreatePartition, BeginDrops, DropPartition, EndCleanup,
           CleanupFails, OnlyClean
  <2>. QED
    BY <1>1, <2>1, FaultType DEF OtherOK
<1>6. CASE ListPartitions
  <2>1. clean' \in CleanType
    <3>1. \A s \in SUBSET Nat :
             [NoCleanup EXCEPT !.pc = "create", !.at = now, !.existing = s] \in CleanType
      BY <1>1, NoCleanupType DEF CleanType, OtherOK
    <3>2. [NoCleanup EXCEPT !.pc = "create", !.at = now] \in CleanType
      BY <1>1, NoCleanupType DEF CleanType, OtherOK
    <3>. QED
      BY <1>1, <1>6, <3>1, <3>2 DEF ListPartitions, TableOK
  <2>. QED
    BY <1>1, <1>2, <1>3, <1>5, <1>6, <2>1
       DEF ListPartitions, table, TypeOK, TableOK, DailyOK, OtherOK, JobType, CleanType
<1>7. CASE CreatePartition
  <2>1. NextMonth \in Nat /\ clean.next + 1 \in 0..LookAhead
    BY <1>4, <1>7, DayType DEF NextMonth, CreatePartition
  <2>2. \A n \in 0..LookAhead, b \in BOOLEAN :
           /\ [clean EXCEPT !.next = n] \in CleanType
           /\ [clean EXCEPT !.next = n, !.whole = b] \in CleanType
    BY <1>1 DEF CleanOK, CleanType
  <2>3. PICK b \in BOOLEAN : \/ clean' = [clean EXCEPT !.next = clean.next + 1]
                             \/ clean' = [clean EXCEPT !.next = clean.next + 1, !.whole = b]
    BY <1>7, Zenon DEF CreatePartition
  <2>4. clean' \in CleanType
    BY <2>1, <2>2, <2>3
  <2>5. dated' \subseteq Nat
    BY <1>1, <1>7, <2>1 DEF CreatePartition, TableOK
  <2>. QED
    BY <1>1, <1>2, <1>3, <1>5, <1>7, <2>4, <2>5
       DEF CreatePartition, TypeOK, TableOK, DailyOK, OtherOK, JobType, CleanType
<1>8. CASE BeginDrops
  <2>1. covered' \in Nat
    BY <1>1, <1>4, <1>8, DayType DEF BeginDrops, OtherOK
  <2>2. clean' \in CleanType
    BY <1>1, <1>8 DEF BeginDrops, CleanOK, CleanType, OtherOK
  <2>. QED
    BY <1>1, <1>2, <1>3, <1>5, <1>8, <2>1, <2>2
       DEF BeginDrops, table, TypeOK, TableOK, DailyOK, OtherOK, JobType, CleanType
<1>9. ASSUME NEW m \in clean.existing, DropPartition(m)
      PROVE  TypeOK'
  <2>1. clean' \in CleanType
    BY <1>1, <1>9 DEF DropPartition, CleanOK, CleanType
  <2>2. place' \in [Event -> Places] /\ dated' \subseteq Nat
    BY <1>1, <1>9 DEF DropPartition, TableOK, Places
  <2>. QED
    BY <1>1, <1>2, <1>3, <1>5, <1>9, <2>1, <2>2
       DEF DropPartition, TypeOK, TableOK, DailyOK, OtherOK, JobType, CleanType
<1>10. CASE EndCleanup \/ CleanupFails
  BY <1>1, <1>2, <1>3, <1>5, <1>10, NoCleanupType
     DEF EndCleanup, CleanupFails, OnlyClean, table, TypeOK, TableOK, DailyOK, OtherOK,
         JobType, CleanType
<1>. QED
  BY <1>6, <1>7, <1>8, <1>9, <1>10 DEF CleanStep

LEMMA NextType == TypeOK /\ [Next]_vars => TypeOK'
<1>. SUFFICES ASSUME TypeOK, [Next]_vars
              PROVE  TypeOK'
  OBVIOUS
<1>1. CASE NextDay
  <2>1. OtherOK /\ now + 1 \in Day /\ faults' \in 0..MaxFaults
    <3>1. OtherOK /\ (faults' = faults \/ Fault)
      BY <1>1, TypeParts DEF NextDay
    <3>. QED
      BY <1>1, <3>1, FaultType, CalendarAssumption DEF NextDay, OtherOK, Day
  <2>. QED
    BY <1>1, <2>1 DEF NextDay, table, TypeOK
<1>2. CASE UNCHANGED vars
  BY <1>2 DEF vars, table, daily, TypeOK
<1>. QED
  BY <1>1, <1>2, ClickType, AggType, CleanStepType DEF Next

(* Every variable keeps its type (TypeOK). *)
THEOREM TypeCorrect == Spec => []TypeOK
  BY InitType, NextType, PTL DEF Spec
-----------------------------------------------------------------------------
(* Retention *)

(* What the cleanup job knows is still so: its time has come, the partitions   *)
(* it listed exist, and so do those its loop has created.                      *)
CleanInv ==
    /\ clean.at <= now
    /\ clean.pc # "idle" => clean.existing \subseteq dated
    /\ clean.pc = "create" /\ clean.whole =>
          \A i \in 0..LookAhead : i < clean.next => Month(clean.at) + i \in dated

(* Events have been stored once, and are dropped after the retention only. *)
PlaceInv ==
    /\ \A e \in early : place[e] \in {"default", "dated", "dropped"}
    /\ \A e \in Event : place[e] = "dropped" => day[e] + Retention < now

(* The environment's bound, and the order of the history variables. *)
AgeInv ==
    /\ \A d \in jobs : now <= d + JobAge
    /\ \A x \in Executor :
          agg[x].pc # "idle" => agg[x].day \in begun /\ now <= agg[x].day + JobAge
    /\ done \subseteq begun

(* What an execution has read and written so far counts an early event of its day. *)
JobCounts(x, e) ==
    /\ agg[x].pc \in {"readParts", "writeTotal", "writeParts"} => e \in agg[x].total
    /\ agg[x].pc \in {"readTotal", "writeTotal", "writeParts"} => e \in agg[x].parts
    /\ agg[x].pc \in {"writeParts", "ack"} => e \in total[day[e]]
    /\ agg[x].pc = "ack" => e \in parts[day[e]]

SumInv ==
    /\ \A e \in early, x \in Executor :
          agg[x].pc # "idle" /\ agg[x].day = day[e] => JobCounts(x, e)
    /\ EarlyRowsCounted

LEMMA RetentionType == Retention \in Nat /\ JobAge \in Nat /\ 0 < JobAge /\ JobAge <= Retention
  BY CalendarAssumption

(* Months of old partitions lie before today, and their events are old. *)
LEMMA OldIsPast ==
  ASSUME TypeOK, CleanInv, NEW m \in Old
  PROVE  /\ m \in Nat /\ m < Month(now)
         /\ \A e \in Event : Month(day[e]) = m => day[e] + Retention < now
<1>1. m \in Nat /\ clean.at \in Nat /\ now \in Nat /\ clean.at <= now
  BY DayType DEF Old, TypeOK, CleanInv
<1>2. EndDate(m) \in Nat /\ EndDate(m) + Retention < clean.at
  BY <1>1, EndType DEF Old, IsOld
<1>3. m < Month(now)
  BY <1>1, <1>2, AfterEnd, RetentionType
<1>4. ASSUME NEW e \in Event, Month(day[e]) = m
      PROVE  day[e] + Retention < now
  <2>1. day[e] \in Nat /\ day[e] < EndDate(m)
    BY <1>4, BeforeEnd, DayType DEF TypeOK
  <2>. QED
    BY <1>1, <1>2, <2>1, RetentionType
<1>. QED
  BY <1>1, <1>3, <1>4

LEMMA CleanInit == Init => CleanInv /\ MonthsAheadExist
<1>. SUFFICES ASSUME Init
              PROVE  CleanInv /\ MonthsAheadExist
  OBVIOUS
<1>1. clean.at = 0 /\ clean.pc = "idle" /\ now \in Nat /\ Kept + Ahead \in Nat
  BY CalendarAssumption DEF Init, NoCleanup
<1>2. CleanInv
  BY <1>1 DEF CleanInv
<1>3. Month(now) \in Nat
  BY <1>1, MonthType
<1>. QED
  BY <1>1, <1>2, <1>3 DEF Init, MonthsAheadExist

LEMMA CleanNext ==
  ASSUME TypeOK, CleanInv, MonthsAheadExist, [Next]_vars
  PROVE  CleanInv' /\ MonthsAheadExist'
<1>1. /\ clean \in CleanType /\ now \in Nat /\ covered \in Nat /\ dated \subseteq Nat
      /\ clean.at \in Nat /\ clean.next \in 0..LookAhead /\ LookAhead \in Nat
      /\ Month(clean.at) \in Nat /\ Month(now) \in Nat
  BY MonthType, DayType DEF TypeOK, CleanType
<1>2. ASSUME UNCHANGED <<now, dated, clean, covered>>
      PROVE  CleanInv' /\ MonthsAheadExist'
  BY <1>2 DEF CleanInv, MonthsAheadExist, Month
<1>3. CASE NextDay
  <2>1. UNCHANGED <<dated, clean, covered>> /\ now' = now + 1
    BY <1>3 DEF NextDay, table
  <2>2. Month(now)  <= Month(now') /\ Month(now') \in Nat
    BY <1>1, <2>1, MonthMonotone, MonthType
  <2>3. MonthsAheadExist'
    BY <1>1, <2>1, <2>2 DEF MonthsAheadExist
  <2>4. Month(clean.at)' = Month(clean.at)
    BY <2>1
  <2>5. CleanInv'
    BY <1>1, <2>1, <2>4 DEF CleanInv
  <2>. QED
    BY <2>3, <2>5
<1>4. CASE ListPartitions
  <2>1. UNCHANGED <<now, dated, covered>> /\ clean'.at = now /\ clean'.next = 0
        /\ clean'.existing \subseteq dated
    BY <1>4, NoCleanupType DEF ListPartitions, table, NoCleanup
  <2>2. CleanInv'
    BY <1>1, <2>1 DEF CleanInv
  <2>3. MonthsAheadExist'
    BY <2>1 DEF MonthsAheadExist, Month
  <2>. QED
    BY <2>2, <2>3
<1>5. CASE CreatePartition
  <2>1. /\ UNCHANGED <<now, covered>> /\ dated \subseteq dated'
        /\ clean.pc = "create"
    BY <1>5 DEF CreatePartition, CleanAt
  <2>2. \/ /\ clean' = [clean EXCEPT !.next = clean.next + 1]
           /\ NextMonth \in dated'
        \/ clean' = [clean EXCEPT !.next = clean.next + 1, !.whole = FALSE]
    <3>1. clean.existing \subseteq dated
      BY <2>1 DEF CleanInv
    <3>. QED
      BY <1>5, <3>1, Zenon DEF CreatePartition
  <2>3. MonthsAheadExist'
    BY <2>1 DEF MonthsAheadExist, Month
  <2>4. \A b \in BOOLEAN :
           LET c == [clean EXCEPT !.next = clean.next + 1, !.whole = b]
           IN  c.at = clean.at /\ c.pc = clean.pc /\ c.existing = clean.existing /\ c.whole = b
    BY <1>1 DEF CleanType
  <2>5. CASE clean' = [clean EXCEPT !.next = clean.next + 1, !.whole = FALSE]
    <3>1. clean'.at = clean.at /\ clean'.pc = clean.pc /\ clean'.existing = clean.existing
          /\ ~clean'.whole
      BY <2>4, <2>5, Zenon
    <3>. QED
      BY <1>1, <2>1, <2>3, <3>1 DEF CleanInv
  <2>6. CASE clean' = [clean EXCEPT !.next = clean.next + 1] /\ NextMonth \in dated'
    <3>1. clean'.at = clean.at /\ clean'.pc = clean.pc /\ clean'.existing = clean.existing
          /\ clean'.whole = clean.whole /\ clean'.next = clean.next + 1
      BY <1>1, <2>6 DEF CleanType
    <3>2. ASSUME clean.whole, NEW i \in 0..LookAhead, i < clean.next + 1
          PROVE  Month(clean.at) + i \in dated'
      <4>1. CASE i < clean.next
        BY <2>1, <3>2, <4>1 DEF CleanInv
      <4>2. CASE i = clean.next
        BY <2>6, <4>2 DEF NextMonth
      <4>. QED
        BY <1>1, <3>2, <4>1, <4>2
    <3>3. Month(clean.at)' = Month(clean.at)
      BY <3>1 DEF Month
    <3>. QED
      BY <1>1, <2>1, <2>3, <3>1, <3>2, <3>3 DEF CleanInv
  <2>. QED
    BY <2>2, <2>5, <2>6
<1>6. CASE BeginDrops
  <2>1. /\ UNCHANGED <<now, dated>> /\ clean.pc = "create" /\ clean.next = LookAhead
        /\ clean'.at = now /\ clean'.pc = "drop" /\ clean'.existing = clean.existing
    BY <1>1, <1>6 DEF BeginDrops, CleanAt, table, CleanType
  <2>2. CleanInv'
    BY <1>1, <2>1 DEF CleanInv
  <2>3. MonthsAheadExist'
    <3>1. CASE covered' = covered
      BY <2>1, <3>1 DEF MonthsAheadExist, Month
    <3>2. CASE clean.whole /\ LookAhead > 0 /\ covered' = Month(clean.at) + LookAhead - 1
      <4>1. Month(clean.at) <= Month(now)
        BY <1>1, MonthMonotone DEF CleanInv
      <4>2. ASSUME NEW k \in Month(now)..covered'
            PROVE  k \in dated
        <5>1. k - Month(clean.at) \in 0..LookAhead /\ k - Month(clean.at) < clean.next
              /\ Month(clean.at) + (k - Month(clean.at)) = k
          BY <1>1, <2>1, <3>2, <4>1, <4>2
        <5>. QED
          BY <2>1, <3>2, <5>1 DEF CleanInv
      <4>3. Month(now)' = Month(now)
        BY <2>1
      <4>. QED
        BY <2>1, <4>2, <4>3 DEF MonthsAheadExist
    <3>. QED
      BY <1>6, <3>1, <3>2 DEF BeginDrops
  <2>. QED
    BY <2>2, <2>3
<1>7. ASSUME NEW m \in clean.existing, DropPartition(m)
      PROVE  CleanInv' /\ MonthsAheadExist'
  <2>1. /\ UNCHANGED <<now, covered>> /\ clean.pc = "drop" /\ m \in Old
        /\ dated' \in {dated, dated \ {m}}
        /\ clean' = [clean EXCEPT !.existing = clean.existing \ {m}]
    BY <1>7 DEF DropPartition, CleanAt
  <2>2. clean'.at = clean.at /\ clean'.pc = "drop" /\ clean'.existing = clean.existing \ {m}
    BY <1>1, <2>1 DEF CleanType
  <2>3. CleanInv'
    BY <1>1, <2>1, <2>2 DEF CleanInv
  <2>4. m \in Nat /\ m < Month(now)
    BY <2>1, OldIsPast
  <2>5. m \notin Month(now)..covered
    BY <1>1, <2>4
  <2>6. MonthsAheadExist'
    BY <2>1, <2>5 DEF MonthsAheadExist, Month
  <2>. QED
    BY <2>3, <2>6
<1>8. CASE EndCleanup \/ CleanupFails
  <2>1. clean' = NoCleanup /\ UNCHANGED <<now, dated, covered>>
    BY <1>8 DEF EndCleanup, CleanupFails, OnlyClean, table
  <2>2. clean'.pc = "idle" /\ clean'.at = 0
    BY <2>1 DEF NoCleanup
  <2>3. CleanInv'
    BY <1>1, <2>1, <2>2 DEF CleanInv
  <2>4. MonthsAheadExist'
    BY <2>1 DEF MonthsAheadExist, Month
  <2>. QED
    BY <2>3, <2>4
<1>9. ASSUME NEW e \in Event, Click(e) \/ Store(e)
      PROVE  UNCHANGED <<now, dated, clean, covered>>
  BY <1>9 DEF Click, Store
<1>10. ASSUME NEW x \in Executor, (\E d \in jobs : StartJob(x, d)) \/ AggStep(x) \/ JobFails(x)
       PROVE  UNCHANGED <<now, dated, clean, covered>>
  BY <1>10 DEF StartJob, AggStep, FindLinks, ReadTotal, ReadParts, WriteTotal, WriteParts, Ack,
         JobFails, OnlyAgg, table
<1>11. CASE UNCHANGED vars
  BY <1>2, <1>11 DEF vars, table
<1>. QED
  BY <1>2, <1>3, <1>4, <1>5, <1>6, <1>7, <1>8, <1>9, <1>10, <1>11 DEF Next, CleanStep

LEMMA CleanHolds == Spec => [](TypeOK /\ CleanInv /\ MonthsAheadExist)
  BY InitType, NextType, CleanInit, CleanNext, PTL DEF Spec

(* A click of today, and of the months the last complete creation looked      *)
(* ahead to, finds a partition of its own month (MonthsAheadExist).           *)
THEOREM MonthsTheorem == Spec => []MonthsAheadExist
  BY CleanHolds, PTL

(* Retention removes no event that is younger than it (NeverDropsYoung). *)
THEOREM RetentionTheorem == Spec => NeverDropsYoung
<1>1. ASSUME TypeOK, CleanInv, [Next]_vars, NEW e \in Event,
             place[e] = "dated", place'[e] = "dropped"
      PROVE  now > day[e] + Retention
  <2>1. place' # place
    BY <1>1
  <2>2. CASE \E f \in Event : Click(f) \/ Store(f)
    BY <1>1, <2>2 DEF Click, Store, TypeOK
  <2>3. CASE \E m \in clean.existing : DropPartition(m)
    <3>1. PICK m \in Old : Month(day[e]) = m
      BY <1>1, <2>1, <2>3 DEF DropPartition
    <3>2. day[e] + Retention < now
      BY <1>1, <3>1, OldIsPast
    <3>3. day[e] \in Nat /\ now \in Nat
      BY <1>1, DayType DEF TypeOK
    <3>. QED
      BY <3>2, <3>3, RetentionType
  <2>. QED
    BY <1>1, <2>1, <2>2, <2>3
       DEF Next, NextDay, StartJob, AggStep, FindLinks, ReadTotal, ReadParts, WriteTotal,
           WriteParts, Ack, JobFails, OnlyAgg, CleanStep, ListPartitions, CreatePartition,
           BeginDrops, EndCleanup, CleanupFails, OnlyClean, vars, table
<1>2. TypeOK /\ CleanInv /\ [Next]_vars =>
        [\A e \in Event :
            place[e] = "dated" /\ place'[e] = "dropped" => now > day[e] + Retention]_vars
  BY <1>1
<1>. QED
  BY <1>2, CleanHolds, PTL DEF Spec, NeverDropsYoung

-----------------------------------------------------------------------------
(* Sums *)

(* What a step of an execution does to the executors' jobs. *)
LEMMA JobMoves ==
  ASSUME TypeOK, NEW x \in Executor
  PROVE  /\ FindLinks(x) \/ ReadTotal(x) \/ ReadParts(x) \/ WriteTotal(x) \/ WriteParts(x) =>
              \A y \in Executor : agg'[y].day = agg[y].day /\ (y # x => agg'[y] = agg[y])
         /\ FindLinks(x) =>
              /\ agg'[x].total = agg[x].total /\ agg'[x].parts = agg[x].parts
              /\ agg'[x].pc = IF Rows(agg[x].day) = {} THEN "ack" ELSE "read"
         /\ ReadTotal(x) =>
              /\ agg'[x].total = Rows(agg[x].day) /\ agg'[x].parts = agg[x].parts
              /\ agg'[x].pc = IF agg[x].pc = "read" THEN "readParts" ELSE "writeTotal"
         /\ ReadParts(x) =>
              /\ agg'[x].parts = Rows(agg[x].day) /\ agg'[x].total = agg[x].total
              /\ agg'[x].pc = IF agg[x].pc = "read" THEN "readTotal" ELSE "writeTotal"
         /\ WriteTotal(x) =>
              /\ agg'[x].total = agg[x].total /\ agg'[x].parts = agg[x].parts
              /\ agg'[x].pc = "writeParts"
         /\ WriteParts(x) =>
              /\ agg'[x].total = agg[x].total /\ agg'[x].parts = agg[x].parts
              /\ agg'[x].pc = "ack"
<1>1. agg \in [Executor -> JobType]
  BY DEF TypeOK, JobType
<1>2. ASSUME NEW pc, agg' = [agg EXCEPT ![x].pc = pc]
      PROVE  /\ \A y \in Executor : agg'[y].day = agg[y].day /\ (y # x => agg'[y] = agg[y])
             /\ agg'[x].pc = pc
             /\ agg'[x].total = agg[x].total /\ agg'[x].parts = agg[x].parts
  BY <1>1, <1>2 DEF JobType
<1>3. ASSUME NEW pc, agg' = [agg EXCEPT ![x].pc = pc, ![x].total = Rows(agg[x].day)]
      PROVE  /\ \A y \in Executor : agg'[y].day = agg[y].day /\ (y # x => agg'[y] = agg[y])
             /\ agg'[x].pc = pc
             /\ agg'[x].total = Rows(agg[x].day) /\ agg'[x].parts = agg[x].parts
  BY <1>1, <1>3 DEF JobType
<1>4. ASSUME NEW pc, agg' = [agg EXCEPT ![x].pc = pc, ![x].parts = Rows(agg[x].day)]
      PROVE  /\ \A y \in Executor : agg'[y].day = agg[y].day /\ (y # x => agg'[y] = agg[y])
             /\ agg'[x].pc = pc
             /\ agg'[x].parts = Rows(agg[x].day) /\ agg'[x].total = agg[x].total
  BY <1>1, <1>4 DEF JobType
<1>5. ReadTotal(x) => agg' = [agg EXCEPT
         ![x].pc = IF agg[x].pc = "read" THEN "readParts" ELSE "writeTotal",
         ![x].total = Rows(agg[x].day)]
  BY Zenon DEF ReadTotal, AggAt
<1>6. ReadParts(x) => agg' = [agg EXCEPT
         ![x].pc = IF agg[x].pc = "read" THEN "readTotal" ELSE "writeTotal",
         ![x].parts = Rows(agg[x].day)]
  BY Zenon DEF ReadParts, AggAt
<1>7. FindLinks(x) => agg' = [agg EXCEPT
         ![x].pc = IF Rows(agg[x].day) = {} THEN "ack" ELSE "read"]
  BY Zenon DEF FindLinks, AggMove
<1>. QED
  BY <1>2, <1>3, <1>4, <1>5, <1>6, <1>7, SMTT(40) DEF WriteTotal, WriteParts, AggMove

LEMMA AgeInit == Init => PlaceInv /\ AgeInv /\ SumInv
  BY DEF Init, NoJob, PlaceInv, AgeInv, SumInv, EarlyRowsCounted

LEMMA PlaceNext ==
  ASSUME TypeOK, CleanInv, PlaceInv, [Next]_vars
  PROVE  PlaceInv'
<1>1. /\ now \in Nat /\ early \subseteq Event /\ place \in [Event -> Places]
      /\ \A e \in Event : day[e] \in Nat
  BY DayType DEF TypeOK
<1>2. CASE UNCHANGED <<now, place, day, early>>
  BY <1>2 DEF PlaceInv
<1>3. ASSUME NEW e \in Event, Click(e)
      PROVE  PlaceInv'
  BY <1>1, <1>3 DEF Click, PlaceInv
<1>4. ASSUME NEW e \in Event, Store(e)
      PROVE  PlaceInv'
  BY <1>1, <1>4 DEF Store, PlaceInv
<1>5. CASE NextDay
  BY <1>1, <1>5, RetentionType DEF NextDay, table, PlaceInv
<1>6. ASSUME NEW m \in clean.existing, DropPartition(m)
      PROVE  PlaceInv'
  <2>1. UNCHANGED <<now, day, early>> /\ m \in Old
    BY <1>6 DEF DropPartition
  <2>2. ASSUME NEW e \in Event
        PROVE  \/ place'[e] = place[e]
               \/ place[e] = "dated" /\ place'[e] = "dropped" /\ day[e] + Retention < now
    BY <1>1, <1>6, <2>1, OldIsPast DEF DropPartition
  <2>. QED
    BY <1>1, <2>1, <2>2 DEF PlaceInv
<1>. QED
  BY <1>2, <1>3, <1>4, <1>5, <1>6
     DEF Next, StartJob, AggStep, FindLinks, ReadTotal, ReadParts, WriteTotal, WriteParts, Ack,
         JobFails, OnlyAgg, CleanStep, ListPartitions, CreatePartition, BeginDrops, EndCleanup,
         CleanupFails, OnlyClean, vars, table

LEMMA AgeNext ==
  ASSUME TypeOK, AgeInv, [Next]_vars
  PROVE  AgeInv'
<1>1. /\ now \in Nat /\ JobAge \in Nat /\ 0 < JobAge
      /\ \A d \in jobs : d \in Nat
      /\ agg \in [Executor -> JobType] /\ \A x \in Executor : agg[x].day \in Nat
  BY DayType, RetentionType DEF TypeOK, JobType
<1>2. CASE UNCHANGED <<now, jobs, agg, begun, done>>
  BY <1>2 DEF AgeInv
<1>3. CASE NextDay
  <2>1. /\ now' = now + 1 /\ jobs' \subseteq jobs \cup {now} /\ UNCHANGED <<agg, begun, done>>
        /\ \A d \in jobs : now < d + JobAge
        /\ \A x \in Executor : agg[x].pc # "idle" => now < agg[x].day + JobAge
    BY <1>3 DEF NextDay
  <2>. QED
    BY <1>1, <2>1 DEF AgeInv
<1>4. ASSUME NEW x \in Executor, NEW d \in jobs, StartJob(x, d)
      PROVE  AgeInv'
  <2>1. UNCHANGED <<now, jobs, done>> /\ begun' = begun \cup {d}
    BY <1>4 DEF StartJob
  <2>2. \A y \in Executor : IF y = x THEN agg'[y].day = d ELSE agg'[y] = agg[y]
    BY <1>1, <1>4, NoJobType DEF StartJob, JobType, NoJob
  <2>. QED
    BY <1>1, <2>1, <2>2 DEF AgeInv
<1>5. ASSUME NEW x \in Executor, Ack(x) \/ JobFails(x)
      PROVE  AgeInv'
  <2>1. /\ UNCHANGED <<now, begun>> /\ jobs' \subseteq jobs
        /\ agg[x].pc # "idle" /\ done' \subseteq done \cup {agg[x].day}
    BY <1>5 DEF Ack, JobFails, AggAt
  <2>2. \A y \in Executor : IF y = x THEN agg'[y].pc = "idle" ELSE agg'[y] = agg[y]
    BY <1>1, <1>5 DEF Ack, JobFails, NoJob
  <2>. QED
    BY <1>1, <2>1, <2>2 DEF AgeInv
<1>6. ASSUME NEW x \in Executor, FindLinks(x) \/ ReadTotal(x) \/ ReadParts(x) \/ WriteTotal(x)
                                   \/ WriteParts(x)
      PROVE  AgeInv'
  <2>1. UNCHANGED <<now, jobs, begun, done>> /\ agg[x].pc # "idle"
    BY <1>6 DEF FindLinks, ReadTotal, ReadParts, WriteTotal, WriteParts, AggAt, OnlyAgg
  <2>2. \A y \in Executor : agg'[y].day = agg[y].day /\ (y # x => agg'[y] = agg[y])
    BY <1>1, <1>6, JobMoves
  <2>. QED
    BY <1>1, <2>1, <2>2 DEF AgeInv
<1>. QED
  BY <1>2, <1>3, <1>4, <1>5, <1>6
     DEF Next, Click, Store, AggStep, CleanStep, ListPartitions, CreatePartition, BeginDrops,
         DropPartition, EndCleanup, CleanupFails, OnlyClean, vars, daily

(* While a job for a day is executed, the rows of its early events exist. *)
LEMMA EarlyRow ==
  ASSUME TypeOK, PlaceInv, AgeInv, NEW x \in Executor, agg[x].pc # "idle",
         NEW e \in early, agg[x].day = day[e]
  PROVE  e \in Rows(day[e])
<1>1. now <= day[e] + JobAge /\ now \in Nat /\ day[e] \in Nat /\ e \in Event
  BY DayType DEF TypeOK, AgeInv
<1>2. ~(day[e] + Retention < now)
  BY <1>1, RetentionType
<1>. QED
  BY <1>1, <1>2 DEF PlaceInv, Rows

LEMMA SumNext ==
  ASSUME TypeOK, PlaceInv, AgeInv, SumInv, [Next]_vars
  PROVE  SumInv'
<1>1. /\ agg \in [Executor -> JobType] /\ early \subseteq Event
      /\ total \in [Day -> SUBSET Event] /\ parts \in [Day -> SUBSET Event]
      /\ day \in [Event -> Day] /\ \A x \in Executor : agg[x].day \in Day
  BY DEF TypeOK, JobType
<1>2. CASE UNCHANGED <<day, agg, total, parts, done, early>>
  BY <1>2 DEF SumInv, JobCounts, EarlyRowsCounted
<1>3. ASSUME NEW f \in Event, Click(f)
      PROVE  SumInv'
  <2>1. UNCHANGED <<agg, total, parts, done, early>> /\ f \notin early
        /\ \A e \in early : day'[e] = day[e]
    BY <1>1, <1>3 DEF Click, daily, PlaceInv
  <2>. QED
    BY <2>1 DEF SumInv, JobCounts, EarlyRowsCounted
<1>4. ASSUME NEW f \in Event, Store(f)
      PROVE  SumInv'
  <2>1. UNCHANGED <<agg, total, parts, done, day>>
        /\ \A e \in early' : e \in early \/ day[e] \notin begun
    BY <1>4 DEF Store, daily
  <2>2. \A e \in early' : day[e] \notin begun =>
           day[e] \notin done /\ \A x \in Executor : agg[x].pc # "idle" => agg[x].day # day[e]
    BY DEF AgeInv
  <2>3. EarlyRowsCounted'
    BY <2>1, <2>2 DEF SumInv, EarlyRowsCounted
  <2>4. ASSUME NEW e \in early', NEW x \in Executor, agg'[x].pc # "idle", agg'[x].day = day'[e]
        PROVE  JobCounts(x, e)'
    <3>1. e \in early
      BY <2>1, <2>2, <2>4
    <3>. QED
      BY <2>1, <2>4, <3>1 DEF SumInv, JobCounts
  <2>. QED
    BY <2>3, <2>4 DEF SumInv
<1>5. ASSUME NEW x \in Executor, NEW d \in jobs, StartJob(x, d)
      PROVE  SumInv'
  <2>1. UNCHANGED <<day, total, parts, done, early>>
    BY <1>5 DEF StartJob, table
  <2>2. \A y \in Executor : IF y = x THEN agg'[y].pc = "find" ELSE agg'[y] = agg[y]
    BY <1>1, <1>5, NoJobType DEF StartJob, JobType, NoJob
  <2>. QED
    BY <2>1, <2>2 DEF SumInv, JobCounts, EarlyRowsCounted
<1>6. ASSUME NEW x \in Executor, JobFails(x)
      PROVE  SumInv'
  <2>1. UNCHANGED <<day, total, parts, done, early>>
    BY <1>6 DEF JobFails, table
  <2>2. \A y \in Executor : IF y = x THEN agg'[y].pc = "idle" ELSE agg'[y] = agg[y]
    BY <1>1, <1>6 DEF JobFails, NoJob
  <2>. QED
    BY <2>1, <2>2 DEF SumInv, JobCounts, EarlyRowsCounted
<1>7. ASSUME NEW x \in Executor, Ack(x)
      PROVE  SumInv'
  <2>1. UNCHANGED <<day, total, parts, early>> /\ done' = done \cup {agg[x].day}
        /\ agg[x].pc = "ack"
    BY <1>7 DEF Ack, table, AggAt
  <2>2. \A y \in Executor : IF y = x THEN agg'[y].pc = "idle" ELSE agg'[y] = agg[y]
    BY <1>1, <1>7 DEF Ack, NoJob
  <2>3. \A e \in early : day[e] = agg[x].day => e \in total[day[e]] \cap parts[day[e]]
    BY <2>1 DEF SumInv, JobCounts
  <2>4. EarlyRowsCounted'
    BY <2>1, <2>3 DEF SumInv, EarlyRowsCounted
  <2>. QED
    BY <2>1, <2>2, <2>4 DEF SumInv, JobCounts
<1>8. ASSUME NEW x \in Executor, FindLinks(x) \/ ReadTotal(x) \/ ReadParts(x)
      PROVE  SumInv'
  <2>1. UNCHANGED <<day, total, parts, done, early>> /\ agg[x].pc # "idle"
    BY <1>8 DEF FindLinks, ReadTotal, ReadParts, AggAt, OnlyAgg, table
  <2>2. \A y \in Executor : agg'[y].day = agg[y].day /\ (y # x => agg'[y] = agg[y])
    BY <1>8, JobMoves
  <2>3. ASSUME NEW e \in early, agg[x].day = day[e]
        PROVE  JobCounts(x, e)'
    <3>1. e \in Rows(agg[x].day) /\ JobCounts(x, e)
      BY <2>1, <2>3, EarlyRow DEF SumInv
    <3>2. CASE FindLinks(x)
      BY <2>1, <3>1, <3>2, JobMoves DEF JobCounts
    <3>3. CASE ReadTotal(x)
      <4>1. agg[x].pc \in {"read", "readTotal"}
        BY <3>3 DEF ReadTotal
      <4>2. /\ agg'[x].total = Rows(agg[x].day) /\ agg'[x].parts = agg[x].parts
            /\ agg'[x].pc = IF agg[x].pc = "read" THEN "readParts" ELSE "writeTotal"
        BY <3>3, JobMoves
      <4>. QED
        BY <3>1, <4>1, <4>2 DEF JobCounts
    <3>4. CASE ReadParts(x)
      <4>1. agg[x].pc \in {"read", "readParts"}
        BY <3>4 DEF ReadParts
      <4>2. /\ agg'[x].parts = Rows(agg[x].day) /\ agg'[x].total = agg[x].total
            /\ agg'[x].pc = IF agg[x].pc = "read" THEN "readTotal" ELSE "writeTotal"
        BY <3>4, JobMoves
      <4>. QED
        BY <3>1, <4>1, <4>2 DEF JobCounts
    <3>. QED
      BY <1>8, <3>2, <3>3, <3>4
  <2>. QED
    BY <2>1, <2>2, <2>3 DEF SumInv, JobCounts, EarlyRowsCounted
<1>9. ASSUME NEW x \in Executor, WriteTotal(x) \/ WriteParts(x)
      PROVE  SumInv'
  <2>1. UNCHANGED <<day, done, early>> /\ agg[x].pc # "idle"
    BY <1>9 DEF WriteTotal, WriteParts, AggAt, table
  <2>2. \A y \in Executor : agg'[y].day = agg[y].day /\ (y # x => agg'[y] = agg[y])
    BY <1>9, JobMoves
  <2>3. \A e \in early : agg[x].day = day[e] => JobCounts(x, e)
    BY <2>1 DEF SumInv
  <2>4. CASE WriteTotal(x)
    <3>1. agg[x].pc = "writeTotal" /\ parts' = parts
          /\ total' = [total EXCEPT ![agg[x].day] = agg[x].total]
      BY <2>4 DEF WriteTotal, AggAt
    <3>2. \A e \in early : e \in total[day[e]] => e \in total'[day[e]]
      <4>1. SUFFICES ASSUME NEW e \in early, e \in total[day[e]]
                     PROVE  e \in total'[day[e]]
        OBVIOUS
      <4>2. CASE day[e] = agg[x].day
        BY <1>1, <2>3, <3>1, <4>2 DEF JobCounts
      <4>3. CASE day[e] # agg[x].day
        BY <1>1, <3>1, <4>1, <4>3
      <4>. QED
        BY <4>2, <4>3
    <3>3. ASSUME NEW e \in early, agg[x].day = day[e]
          PROVE  JobCounts(x, e)'
      BY <1>1, <2>1, <2>3, <2>4, <3>1, <3>3, JobMoves DEF JobCounts
    <3>. QED
      BY <2>1, <2>2, <3>1, <3>2, <3>3 DEF SumInv, JobCounts, EarlyRowsCounted
  <2>5. CASE WriteParts(x)
    <3>1. agg[x].pc = "writeParts" /\ total' = total
          /\ \/ parts' = parts /\ agg[x].parts = {}
             \/ parts' = [parts EXCEPT ![agg[x].day] = agg[x].parts]
      BY <1>1, <2>5 DEF WriteParts, AggAt
    <3>2. ASSUME NEW e \in early, agg[x].day = day[e]
          PROVE  e \in parts'[day[e]]
      <4>1. e \in agg[x].parts /\ day[e] \in Day
        BY <1>1, <2>3, <3>1, <3>2 DEF JobCounts
      <4>2. parts' = [parts EXCEPT ![agg[x].day] = agg[x].parts]
        BY <3>1, <4>1
      <4>. QED
        BY <1>1, <3>2, <4>1, <4>2
    <3>3. ASSUME NEW e \in early, e \in parts[day[e]]
          PROVE  e \in parts'[day[e]]
      <4>1. CASE agg[x].day = day[e]
        BY <3>2, <4>1
      <4>2. CASE agg[x].day # day[e]
        BY <1>1, <3>1, <3>3, <4>2
      <4>. QED
        BY <4>1, <4>2
    <3>4. ASSUME NEW e \in early, agg[x].day = day[e]
          PROVE  JobCounts(x, e)'
      BY <2>1, <2>3, <2>5, <3>1, <3>2, <3>4, JobMoves DEF JobCounts
    <3>. QED
      BY <2>1, <2>2, <3>1, <3>3, <3>4 DEF SumInv, JobCounts, EarlyRowsCounted
  <2>. QED
    BY <1>9, <2>4, <2>5
<1>. QED
  BY <1>2, <1>3, <1>4, <1>5, <1>6, <1>7, <1>8, <1>9
     DEF Next, NextDay, AggStep, CleanStep, ListPartitions, CreatePartition, BeginDrops,
         DropPartition, EndCleanup, CleanupFails, OnlyClean, vars, table, daily

(* The sum and the breakdown of a day whose job has succeeded count every     *)
(* event that was stored before its aggregation began (EarlyRowsCounted).     *)
THEOREM SumsTheorem == Spec => []EarlyRowsCounted
<1>1. Spec => [](PlaceInv /\ AgeInv /\ SumInv)
  BY CleanHolds, AgeInit, PlaceNext, AgeNext, SumNext, PTL DEF Spec
<1>2. SumInv => EarlyRowsCounted
  BY DEF SumInv
<1>. QED
  BY <1>1, <1>2, PTL
=============================================================================
