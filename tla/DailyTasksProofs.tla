---------------------------- MODULE DailyTasksProofs ----------------------------
(***************************************************************************)
(* Proofs about the daily tasks, for any bookings, templates, offsets and  *)
(* days, and any number of restarts and failing queries.                   *)
(***************************************************************************)
EXTENDS DailyTasks, TLAPS

USE DailyTasksAssumption

(* What the proofs need of days and their parts. *)
LEMMA DayFacts ==
  ASSUME NEW s \in Nat
  PROVE  /\ Day(s) \in Nat
         /\ Part(s) \in 0..3
         /\ s = 4 * Day(s) + Part(s)
         /\ Day(s) <= Day(s + 1)
         /\ \A d \in Nat : s <= UtcMidnight(d) => Day(s) <= d
BY DEF Day, Part, PartsPerDay, UtcMidnight

(* Today is a day of the clock. *)
LEMMA Today ==
  ASSUME TypeOK
  PROVE  now \in Nat /\ Day(now) \in 0..LastDay
<1>1. now \in Nat /\ now <= UtcMidnight(LastDay)
  BY DEF TypeOK, CountsOK, UtcMidnight, PartsPerDay
<1>2. QED
  BY <1>1, DayFacts

LEMMA InitIInv == Init => IInv
<1> SUFFICES ASSUME Init PROVE IInv
  OBVIOUS
<1>1. TypeOK
  <2>1. FlagsOK
    BY DEF Init, FlagsOK
  <2>2. WorkOK
    BY DEF Init, WorkOK, Idle, None
  <2>3. BookingsOK /\ RowsOK
    BY DEF Init, BookingsOK, RowsOK, Status, Never
  <2>4. CountsOK
    BY DEF Init, CountsOK, Never, UtcMidnight, PartsPerDay
  <2>5. QED
    BY <2>1, <2>2, <2>3, <2>4 DEF TypeOK
<1>2. Day(now) = 0
  BY DEF Init, Day, PartsPerDay
<1>3. RunIsOfToday /\ WorkKnown /\ RemindedOnce
  BY DEF Init, RunIsOfToday, WorkKnown, RemindedOnce, Idle
<1>4. GuardCounts
  BY <1>2 DEF Init, GuardCounts, Never
<1>5. NightFirst /\ DebtsPaid
  BY DEF Init, NightFirst, DebtsPaid, Idle
<1>6. QED
  BY <1>1, <1>3, <1>4, <1>5 DEF IInv

(* The actions of bookings and staff, and those of a run. *)
BookingStep(b) ==
  \/ \E d \in ArrivalDay : SetDates(b, d)
  \/ CheckIn(b) \/ ConfirmLate(b) \/ Leave(b) \/ FileFormC(b)
Outside(b) == BookingStep(b) \/ \E g \in Trigger : SendByHand(b, g)
FormCStep == FormCRead \/ (\E b \in Booking : Nudge(b)) \/ FormCDone
RemindStep ==
  \/ \E g \in Trigger : RemindRead(g)
  \/ \E b \in Booking : Look(b)
  \/ Create \/ TriggerDone \/ RunDone
RunStep == Snapshot \/ FormCStep \/ RemindStep \/ RunThrows
ClockStep == Advance \/ Crash \/ Boot \/ Tick

LEMMA Steps ==
  ASSUME [Next]_vars
  PROVE  \/ \E b \in Booking : Outside(b)
         \/ RunStep \/ ClockStep \/ UNCHANGED vars
BY DEF Next, Outside, BookingStep, RunStep, FormCStep, RemindStep, ClockStep

(* What the outside leaves alone. *)
LEMMA OutsideFrame ==
  ASSUME NEW b \in Booking, Outside(b)
  PROVE  /\ UNCHANGED <<clock, work, nudged, occupancy, history, faults>>
         /\ BookingStep(b) => UNCHANGED rows
BY DEF Outside, BookingStep, SetDates, CheckIn, ConfirmLate, Leave, FileFormC, SendByHand

LEMMA RunFrame ==
  ASSUME RunStep
  PROVE  /\ UNCHANGED <<clock, booking, early, runs, boots>>
         /\ UNCHANGED rows \/ Create
         /\ UNCHANGED onTime \/ RunDone
         /\ UNCHANGED occupancy \/ Snapshot
BY DEF RunStep, FormCStep, RemindStep, Snapshot, FormCRead, Nudge, FormCDone, RemindRead,
       Look, Create, TriggerDone, RunDone, RunThrows, tables, history

LEMMA ClockFrame ==
  ASSUME ClockStep
  PROVE  UNCHANGED <<tables, onTime, lastFormC>>
BY DEF ClockStep, Advance, Crash, Boot, Tick, history

LEMMA KeepsFlags == FlagsOK /\ [Next]_vars => FlagsOK'
<1> SUFFICES ASSUME FlagsOK, [Next]_vars PROVE FlagsOK'
  OBVIOUS
<1>1. ASSUME UNCHANGED clock PROVE FlagsOK'
  BY <1>1, Zenon DEF FlagsOK, clock
<1>2. CASE ClockStep
  BY <1>2, Zenon DEF ClockStep, Advance, Crash, Boot, Tick, FlagsOK
<1>3. CASE UNCHANGED vars
  BY <1>1, <1>3 DEF vars
<1>4. QED
  BY <1>1, <1>2, <1>3, Steps, OutsideFrame, RunFrame

LEMMA KeepsWork == WorkOK /\ [Next]_vars => WorkOK'
<1> SUFFICES ASSUME WorkOK, [Next]_vars PROVE WorkOK'
  OBVIOUS
<1>1. CASE UNCHANGED work
  BY <1>1 DEF WorkOK
<1>2. CASE Advance \/ Crash \/ Boot \/ RunDone \/ RunThrows
  BY <1>2 DEF Advance, Crash, Boot, RunDone, RunThrows, WorkOK, Idle, None
<1>3. CASE Tick
  BY <1>3 DEF Tick, WorkOK, Idle, None
<1>4. CASE Snapshot
  BY <1>4 DEF Snapshot, WorkOK
<1>5. CASE FormCStep
  <2>1. \A B \in RecentCheckIns : B \subseteq Booking
    BY DEF RecentCheckIns, Foreigners
  <2>2. CASE FormCRead
    BY <2>1, <2>2 DEF FormCRead, WorkOK
  <2>3. CASE \E b \in Booking : Nudge(b)
    BY <2>3 DEF Nudge, WorkOK
  <2>4. CASE FormCDone
    BY <2>4 DEF FormCDone, WorkOK
  <2>5. QED
    BY <1>5, <2>2, <2>3, <2>4 DEF FormCStep
<1>6. CASE RemindStep
  <2>1. CASE \E g \in Trigger : RemindRead(g)
    BY <2>1 DEF RemindRead, WorkOK
  <2>2. CASE \E b \in Booking : Look(b)
    <3>1. PICK b \in Booking : Look(b)
      BY <2>2
    <3>2. work.batch \ {b} \subseteq Booking
      BY DEF WorkOK
    <3>3. CASE work' = [work EXCEPT !.batch = @ \ {b}]
      BY <3>2, <3>3 DEF WorkOK
    <3>4. CASE work' = [work EXCEPT !.at = "create", !.batch = @ \ {b}, !.hand = b]
      BY <3>2, <3>4 DEF WorkOK
    <3>5. QED
      BY <3>1, <3>3, <3>4 DEF Look
  <2>3. CASE Create \/ TriggerDone
    BY <2>3 DEF Create, TriggerDone, WorkOK
  <2>4. QED
    BY <1>2, <1>6, <2>1, <2>2, <2>3 DEF RemindStep
<1>7. QED
  BY <1>1, <1>2, <1>3, <1>4, <1>5, <1>6, Steps, OutsideFrame DEF RunStep, ClockStep, vars

(* Where a run is before and after a step. *)
LEMMA Moves ==
  ASSUME WorkOK
  PROVE  /\ Snapshot => work.at = "snapshot" /\ work'.at = "formC"
         /\ FormCStep => work.at \in {"formC", "nudge"} /\ work'.at \in {"nudge", "remind"}
         /\ (\E g \in Trigger : RemindRead(g)) => work.at = "remind" /\ work'.at = "look"
         /\ (\E b \in Booking : Look(b)) => work.at = "look"
         /\ Create => work.at = "create" /\ work'.at = "look"
         /\ TriggerDone => work.at = "look" /\ work'.at = "remind"
         /\ RunDone => work.at = "remind" /\ work' = Idle
         /\ RunThrows => work # Idle /\ work' = Idle
         /\ ClockStep => work' = work \/ work'.at \in {"idle", "snapshot"}
<1>1. Snapshot => work.at = "snapshot" /\ work'.at = "formC"
  BY DEF Snapshot, WorkOK
<1>2. FormCStep => work.at \in {"formC", "nudge"} /\ work'.at \in {"nudge", "remind"}
  <2>1. FormCRead => work.at = "formC" /\ work'.at = "nudge"
    BY DEF FormCRead, WorkOK
  <2>2. (\E b \in Booking : Nudge(b)) => work.at = "nudge" /\ work'.at = "nudge"
    BY DEF Nudge, WorkOK
  <2>3. FormCDone => work.at = "nudge" /\ work'.at = "remind"
    BY DEF FormCDone, WorkOK
  <2>4. QED
    BY <2>1, <2>2, <2>3 DEF FormCStep
<1>3. (\E g \in Trigger : RemindRead(g)) => work.at = "remind" /\ work'.at = "look"
  BY DEF RemindRead, WorkOK
<1>4. (\E b \in Booking : Look(b)) => work.at = "look"
  BY DEF Look
<1>5. /\ Create => work.at = "create" /\ work'.at = "look"
      /\ TriggerDone => work.at = "look" /\ work'.at = "remind"
  BY DEF Create, TriggerDone, WorkOK
<1>6. /\ RunDone => work.at = "remind" /\ work' = Idle
      /\ RunThrows => work # Idle /\ work' = Idle
  BY DEF RunDone, RunThrows
<1>7. ClockStep => work' = work \/ work'.at \in {"idle", "snapshot"}
  BY DEF ClockStep, Advance, Crash, Boot, Tick, Idle
<1>8. QED
  BY <1>1, <1>2, <1>3, <1>4, <1>5, <1>6, <1>7

LEMMA Running == ASSUME WorkOK, RunStep PROVE work # Idle
BY Moves DEF RunStep, RemindStep, Idle

LEMMA KeepsBookings == TypeOK /\ [Next]_vars => BookingsOK'
<1> SUFFICES ASSUME TypeOK, [Next]_vars PROVE BookingsOK'
  OBVIOUS
<1>1. CASE UNCHANGED booking
  BY <1>1 DEF TypeOK, BookingsOK
<1>2. ASSUME NEW b \in Booking, BookingStep(b) PROVE BookingsOK'
  <2>1. BookingsOK /\ now \in Int
    BY Today DEF TypeOK
  <2>2. CASE \E d \in ArrivalDay : SetDates(b, d)
    <3>1. PICK d \in ArrivalDay : SetDates(b, d)
      BY <2>2
    <3>2. booking[b] \in [status : Status, checkIn : 0..LastDay,
                          checkedIn : Int, formC : {"due", "filed"}]
      BY <2>1 DEF BookingsOK
    <3> DEFINE x == [[booking[b] EXCEPT !.checkIn = d]
                       EXCEPT !.status = IF @ = "none" THEN "booked" ELSE @]
    <3>3. x \in [status : Status, checkIn : 0..LastDay,
                 checkedIn : Int, formC : {"due", "filed"}]
      BY <3>2 DEF Status
    <3>4. booking' = [booking EXCEPT ![b] = x]
      BY <2>1, <3>1 DEF SetDates, BookingsOK
    <3>5. QED
      BY <2>1, <3>3, <3>4 DEF BookingsOK
  <2>3. CASE CheckIn(b)
    BY <2>1, <2>3 DEF CheckIn, BookingsOK, Status
  <2>4. CASE ConfirmLate(b) \/ Leave(b) \/ FileFormC(b)
    BY <2>1, <2>4 DEF ConfirmLate, Leave, FileFormC, BookingsOK, Status
  <2>5. QED
    BY <1>2, <2>2, <2>3, <2>4 DEF BookingStep
<1>3. ASSUME NEW b \in Booking, Outside(b) PROVE BookingsOK'
  BY <1>1, <1>2, <1>3 DEF Outside, SendByHand
<1>4. QED
  BY <1>1, <1>3, Steps, RunFrame, ClockFrame DEF vars, tables

LEMMA KeepsRows == TypeOK /\ WorkKnown /\ [Next]_vars => RowsOK'
<1> SUFFICES ASSUME TypeOK, WorkKnown, [Next]_vars PROVE RowsOK'
  OBVIOUS
<1>1. CASE UNCHANGED rows
  BY <1>1 DEF TypeOK, RowsOK
<1>2. ASSUME NEW b \in Booking, NEW g \in Trigger, SendByHand(b, g) PROVE RowsOK'
  <2>1. rows[b] \in [Trigger -> [worker : Nat, hand : {0, 1}]]
    BY DEF TypeOK, RowsOK
  <2>2. [rows[b][g] EXCEPT !.hand = 1] \in [worker : Nat, hand : {0, 1}]
    BY <2>1
  <2>3. [rows[b] EXCEPT ![g].hand = 1] \in [Trigger -> [worker : Nat, hand : {0, 1}]]
    BY <2>1, <2>2
  <2>4. QED
    BY <1>2, <2>3 DEF SendByHand, TypeOK, RowsOK
<1>3. CASE Create
  <2>1. work.hand \in Booking /\ work.trigger \in Trigger
    BY <1>3 DEF Create, WorkKnown
  <2> DEFINE b == work.hand
             g == work.trigger
  <2>2. rows[b] \in [Trigger -> [worker : Nat, hand : {0, 1}]]
    BY <2>1 DEF TypeOK, RowsOK
  <2>3. [rows[b][g] EXCEPT !.worker = @ + 1] \in [worker : Nat, hand : {0, 1}]
    BY <2>1, <2>2
  <2>4. [rows[b] EXCEPT ![g].worker = @ + 1] \in [Trigger -> [worker : Nat, hand : {0, 1}]]
    BY <2>2, <2>3
  <2>5. QED
    BY <1>3, <2>1, <2>4 DEF Create, TypeOK, RowsOK
<1>4. QED
  BY <1>1, <1>2, <1>3, Steps, OutsideFrame, RunFrame, ClockFrame DEF Outside, vars, tables

LEMMA KeepsCounts == TypeOK /\ [Next]_vars => CountsOK'
<1> SUFFICES ASSUME TypeOK, [Next]_vars PROVE CountsOK'
  OBVIOUS
<1>1. CountsOK /\ WorkOK /\ now \in Nat /\ Day(now) \in 0..LastDay
  BY Today DEF TypeOK
<1>2. ASSUME NEW b \in Booking, Outside(b) PROVE CountsOK'
  <2>1. early' \in [Booking -> SUBSET Trigger]
    BY <1>1, <1>2 DEF Outside, BookingStep, SetDates, CheckIn, ConfirmLate, Leave, FileFormC,
                      SendByHand, Ahead, CountsOK
  <2>2. QED
    BY <1>1, <1>2, <2>1, OutsideFrame DEF CountsOK, clock, history
<1>3. CASE Advance
  <2>1. now' \in 0..UtcMidnight(LastDay)
    <3>1. now + 1 \in Nat /\ Part(now + 1) \in 0..3 /\ Day(now + 1) \in Nat
          /\ now + 1 = 4 * Day(now + 1) + Part(now + 1)
      BY <1>1, DayFacts
    <3>2. Day(now + 1) <= LastDay /\ now' = now + 1
      BY <1>3 DEF Advance
    <3>3. QED
      BY <3>1, <3>2 DEF UtcMidnight, PartsPerDay
  <2>2. runs' \in Nat /\ boots' \in Nat
    BY <1>1, <1>3 DEF Advance, CountsOK
  <2>3. QED
    BY <1>1, <1>3, <2>1, <2>2 DEF Advance, CountsOK, tables
<1>4. CASE Crash \/ Boot \/ Tick
  BY <1>1, <1>4 DEF Crash, Boot, Tick, CountsOK, tables, history
<1>5. CASE Snapshot
  BY <1>1, <1>5 DEF Snapshot, SnapshotNight, CountsOK, clock, history
<1>6. CASE FormCStep
  <2>1. CASE FormCRead
    BY <1>1, <2>1 DEF FormCRead, CountsOK, clock, tables, history
  <2>2. CASE \E b \in Booking : Nudge(b)
    BY <1>1, <2>2 DEF Nudge, CountsOK, clock, history
  <2>3. CASE FormCDone
    BY <1>1, <2>3 DEF FormCDone, CountsOK, clock, tables
  <2>4. QED
    BY <1>6, <2>1, <2>2, <2>3 DEF FormCStep
<1>7. CASE RemindStep
  BY <1>1, <1>7 DEF RemindStep, RemindRead, Look, Create, TriggerDone, RunDone, CountsOK,
                    clock, tables, history
<1>8. CASE RunThrows
  BY <1>1, <1>8 DEF RunThrows, CountsOK, clock, tables, history
<1>9. CASE UNCHANGED vars
  BY <1>1, <1>9 DEF vars, CountsOK, clock, tables, history
<1>10. QED
  BY <1>2, <1>3, <1>4, <1>5, <1>6, <1>7, <1>8, <1>9, Steps DEF RunStep, ClockStep

LEMMA KeepsTypes == TypeOK /\ WorkKnown /\ [Next]_vars => TypeOK'
BY KeepsFlags, KeepsWork, KeepsBookings, KeepsRows, KeepsCounts DEF TypeOK

(* What a run is about to log is known. *)
LEMMA KeepsKnown == TypeOK /\ WorkKnown /\ [Next]_vars => WorkKnown'
<1> SUFFICES ASSUME TypeOK, WorkKnown, [Next]_vars PROVE WorkKnown'
  OBVIOUS
<1>1. WorkOK /\ WorkOK'
  BY KeepsWork DEF TypeOK
<1>2. CASE UNCHANGED work
  BY <1>2 DEF WorkKnown
<1>3. CASE ClockStep \/ Snapshot \/ FormCStep \/ RunThrows \/ RunDone
  <2>1. work' = work \/ work'.at \notin {"look", "create"}
    BY <1>1, <1>3, Moves DEF Idle
  <2>2. QED
    BY <1>2, <2>1 DEF WorkKnown
<1>4. CASE RemindStep
  <2>1. CASE \E g \in Trigger : RemindRead(g)
    BY <1>1, <2>1 DEF RemindRead, WorkKnown
  <2>2. CASE \E b \in Booking : Look(b)
    BY <1>1, <2>2 DEF Look, WorkOK, WorkKnown
  <2>3. CASE Create \/ TriggerDone
    BY <1>1, <2>3 DEF Create, TriggerDone, WorkOK, WorkKnown
  <2>4. QED
    BY <1>3, <1>4, <2>1, <2>2, <2>3 DEF RemindStep
<1>5. QED
  BY <1>2, <1>3, <1>4, Steps, OutsideFrame DEF RunStep, vars

(* A run stays one of today, with the process up. *)
LEMMA KeepsRun == TypeOK /\ RunIsOfToday /\ [Next]_vars => RunIsOfToday'
<1> SUFFICES ASSUME TypeOK, RunIsOfToday, [Next]_vars PROVE RunIsOfToday'
  OBVIOUS
<1>1. CASE UNCHANGED <<clock, work>>
  BY <1>1 DEF RunIsOfToday, clock
<1>2. CASE Advance \/ Crash \/ Boot
  <2>1. work' = Idle
    BY <1>2, Zenon DEF Advance, Crash, Boot, RunIsOfToday
  <2>2. QED
    BY <2>1 DEF RunIsOfToday
<1>3. CASE Tick
  <2>1. work = Idle /\ up' = up /\ ticked' = TRUE /\ now' = now /\ up
    BY <1>3 DEF Tick
  <2>2. work' # Idle => lastDaily' = Day(now)
    BY <1>3, <2>1 DEF Tick
  <2>3. QED
    BY <2>1, <2>2, Zenon DEF RunIsOfToday
<1>4. CASE RunStep
  <2>1. UNCHANGED clock
    BY <1>4, RunFrame
  <2>2. work # Idle
    BY <1>4, Running DEF TypeOK
  <2>3. QED
    BY <2>1, <2>2, Zenon DEF RunIsOfToday, clock
<1>5. QED
  BY <1>1, <1>2, <1>3, <1>4, Steps, OutsideFrame DEF ClockStep, vars

(* The count of today's runs. *)
LEMMA KeepsGuard == TypeOK /\ RunIsOfToday /\ GuardCounts /\ [Next]_vars => GuardCounts'
<1> SUFFICES ASSUME TypeOK, RunIsOfToday, GuardCounts, [Next]_vars PROVE GuardCounts'
  OBVIOUS
<1>1. now \in Nat /\ Day(now) \in 0..LastDay /\ runs \in Nat /\ boots \in Nat
  BY Today DEF TypeOK, CountsOK
<1>2. CASE UNCHANGED <<clock, runs, boots>>
  BY <1>2 DEF GuardCounts, clock
<1>3. CASE Advance
  <2>1. now' = now + 1 /\ Day(now) <= Day(now + 1) /\ Day(now + 1) \in Nat
    BY <1>1, <1>3, DayFacts DEF Advance
  <2>2. lastDaily' = lastDaily /\ up' = up
    BY <1>3 DEF Advance
  <2>3. lastDaily \in Int /\ lastDaily <= Day(now)
    BY DEF TypeOK, CountsOK, Never, GuardCounts
  <2>4. CASE Day(now + 1) = Day(now)
    BY <1>3, <2>1, <2>2, <2>4 DEF Advance, GuardCounts
  <2>5. CASE Day(now + 1) # Day(now)
    <3>1. runs' = 0 /\ boots' = 0
      BY <1>3, <2>5 DEF Advance
    <3>2. QED
      BY <1>1, <2>1, <2>2, <2>3, <3>1 DEF GuardCounts
  <2>6. QED
    BY <2>4, <2>5
<1>4. CASE Crash
  BY <1>1, <1>4 DEF Crash, GuardCounts, history, Never
<1>5. CASE Boot
  BY <1>1, <1>5 DEF Boot, GuardCounts
<1>6. CASE Tick
  <2>1. CASE lastDaily = Day(now) \/ Hour(now) < 3
    BY <1>6, <2>1 DEF Tick, GuardCounts
  <2>2. CASE ~(lastDaily = Day(now) \/ Hour(now) < 3)
    BY <1>1, <1>6, <2>2 DEF Tick, GuardCounts
  <2>3. QED
    BY <2>1, <2>2
<1>7. QED
  BY <1>2, <1>3, <1>4, <1>5, <1>6, Steps, OutsideFrame, RunFrame DEF ClockStep, vars, history

(* No one is reminded twice. *)
LEMMA KeepsOnce ==
  TypeOK /\ WorkKnown /\ RunIsOfToday /\ RemindedOnce /\ [Next]_vars => RemindedOnce'
<1> SUFFICES ASSUME TypeOK, WorkKnown, RunIsOfToday, RemindedOnce, [Next]_vars PROVE RemindedOnce'
  OBVIOUS
<1>1. WorkOK /\ RowsOK
  BY DEF TypeOK
<1>2. ASSUME UNCHANGED rows, work'.at # "create" \/ work' = work PROVE RemindedOnce'
  BY <1>2 DEF RemindedOnce
<1>3. ASSUME NEW b \in Booking, NEW g \in Trigger, SendByHand(b, g) PROVE RemindedOnce'
  <2>1. \A c \in Booking, h \in Trigger : rows'[c][h].worker = rows[c][h].worker
    BY <1>1, <1>3 DEF SendByHand, RowsOK
  <2>2. QED
    BY <1>3, <2>1 DEF SendByHand, RemindedOnce
<1>4. CASE Create
  <2>1. work.hand \in Booking /\ work.trigger \in Trigger /\ work'.at # "create"
    BY <1>1, <1>4 DEF Create, WorkKnown, WorkOK
  <2>2. rows[work.hand][work.trigger].worker = 0
    BY <1>4, <2>1 DEF Create, RemindedOnce
  <2>3. \A c \in Booking, h \in Trigger :
          rows'[c][h].worker = IF c = work.hand /\ h = work.trigger THEN 1 ELSE rows[c][h].worker
    BY <1>1, <1>4, <2>1, <2>2 DEF Create, RowsOK
  <2>4. QED
    BY <2>1, <2>3 DEF RemindedOnce
<1>5. ASSUME NEW b \in Booking, Look(b) PROVE RemindedOnce'
  <2>1. rows' = rows
    BY <1>5 DEF Look, tables
  <2>2. CASE Logged(b, work.trigger)
    <3>1. work'.at # "create"
      BY <1>1, <1>5, <2>2 DEF Look, WorkOK
    <3>2. QED
      BY <1>2, <2>1, <3>1
  <2>3. CASE ~Logged(b, work.trigger)
    <3>1. work'.hand = b /\ work'.trigger = work.trigger
      BY <1>1, <1>5, <2>3 DEF Look, WorkOK
    <3>2. work.trigger \in Trigger
      BY <1>5 DEF Look, WorkKnown
    <3>3. rows[b][work.trigger].worker = 0
      BY <1>1, <2>3, <3>2 DEF Logged, RowsOK
    <3>4. QED
      BY <2>1, <3>1, <3>3 DEF RemindedOnce
  <2>4. QED
    BY <2>2, <2>3
<1>6. CASE RunStep
  <2>1. CASE Create \/ \E b \in Booking : Look(b)
    BY <1>4, <1>5, <2>1
  <2>2. CASE ~(Create \/ \E b \in Booking : Look(b))
    <3>1. work'.at # "create"
      BY <1>1, <1>6, <2>2, Moves DEF RunStep, RemindStep, Idle
    <3>2. QED
      BY <1>2, <1>6, <2>2, <3>1, RunFrame
  <2>3. QED
    BY <2>1, <2>2
<1>7. CASE ClockStep
  <2>1. work'.at # "create" \/ work' = work
    BY <1>1, <1>7, Moves
  <2>2. QED
    BY <1>2, <1>7, <2>1, ClockFrame DEF tables
<1>8. QED
  BY <1>2, <1>3, <1>6, <1>7, Steps, OutsideFrame DEF Outside, vars, tables

(* The night before is done first, and no day is done before it comes. *)
LEMMA KeepsNight == TypeOK /\ NightFirst /\ [Next]_vars => NightFirst'
<1> SUFFICES ASSUME TypeOK, NightFirst, [Next]_vars PROVE NightFirst'
  OBVIOUS
<1>1. now \in Nat /\ Day(now) \in Int /\ onTime \subseteq Int /\ WorkOK
  BY Today DEF TypeOK, CountsOK
<1>2. CASE UNCHANGED <<now, work, occupancy, onTime>>
  BY <1>2 DEF NightFirst
<1>3. CASE Advance
  <2>1. work'.at = "idle" /\ now' = now + 1 /\ onTime' = onTime
    BY <1>3 DEF Advance, Idle
  <2>2. Day(now) <= Day(now + 1) /\ Day(now + 1) \in Int
    BY <1>1, DayFacts
  <2>3. QED
    BY <1>1, <2>1, <2>2 DEF NightFirst
<1>4. CASE Crash \/ Boot \/ Tick
  <2>1. UNCHANGED <<now, onTime, occupancy>>
    BY <1>4 DEF Crash, Boot, Tick, tables, history
  <2>2. work' = work \/ work'.at \in {"idle", "snapshot"}
    BY <1>1, <1>4, Moves DEF ClockStep
  <2>3. QED
    BY <2>1, <2>2 DEF NightFirst
<1>5. CASE RunStep
  <2>1. now' = now
    BY <1>5, RunFrame DEF clock
  <2>2. \A d \in onTime' : d <= Day(now)
    <3>1. CASE UNCHANGED onTime
      BY <3>1 DEF NightFirst
    <3>2. CASE RunDone
      BY <1>1, <3>2 DEF RunDone, NightFirst
    <3>3. QED
      BY <1>5, <3>1, <3>2, RunFrame
  <2>3. work'.at \notin {"idle", "snapshot"} => Day(now) - 1 \in occupancy'
    <3>1. CASE Snapshot
      BY <3>1 DEF Snapshot, SnapshotNight
    <3>2. CASE ~Snapshot
      <4>1. work'.at \notin {"idle", "snapshot"} => work.at \notin {"idle", "snapshot"}
        BY <1>1, <1>5, <3>2, Moves DEF RunStep, RemindStep, Idle
      <4>2. QED
        BY <1>5, <3>2, <4>1, RunFrame DEF NightFirst
    <3>3. QED
      BY <3>1, <3>2
  <2>4. QED
    BY <2>1, <2>2, <2>3 DEF NightFirst
<1>6. QED
  BY <1>2, <1>3, <1>4, <1>5, Steps, OutsideFrame DEF ClockStep, vars, clock, history, tables

(* What is in the log stays there. *)
LEMMA LoggedStays ==
  ASSUME TypeOK, WorkKnown, [Next]_vars, NEW b \in Booking, NEW g \in Trigger, Logged(b, g)
  PROVE  Logged(b, g)'
<1>1. RowsOK
  BY DEF TypeOK
<1>2. CASE UNCHANGED rows
  BY <1>2 DEF Logged
<1>3. ASSUME NEW c \in Booking, NEW h \in Trigger, SendByHand(c, h) PROVE Logged(b, g)'
  <2>1. /\ rows'[b][g].worker = rows[b][g].worker
        /\ rows'[b][g].hand = IF c = b /\ h = g THEN 1 ELSE rows[b][g].hand
    BY <1>1, <1>3 DEF SendByHand, RowsOK
  <2>2. QED
    BY <1>1, <2>1 DEF RowsOK, Logged
<1>4. CASE Create
  <2>1. work.hand \in Booking /\ work.trigger \in Trigger
    BY <1>4 DEF Create, WorkKnown
  <2>2. /\ rows'[b][g].hand = rows[b][g].hand
        /\ \/ rows'[b][g].worker = rows[b][g].worker
           \/ rows'[b][g].worker = rows[b][g].worker + 1
    BY <1>1, <1>4, <2>1 DEF Create, RowsOK
  <2>3. QED
    BY <1>1, <2>2 DEF RowsOK, Logged
<1>5. QED
  BY <1>2, <1>3, <1>4, Steps, OutsideFrame, RunFrame, ClockFrame DEF Outside, vars, tables

(* Dates that come or come back do not add to what past days owe. *)
LEMMA NoNewDebts ==
  ASSUME TypeOK, [Next]_vars, NEW c \in Booking, Outside(c), NEW b \in Booking, NEW g \in Trigger,
         NEW d \in Int, d <= Day(now), Owed(b, g, d)'
  PROVE  Owed(b, g, d)
<1>1. /\ now \in Nat /\ Day(now) \in Nat /\ Part(now) \in 0..3 /\ now = 4 * Day(now) + Part(now)
      /\ BookingsOK /\ early \in [Booking -> SUBSET Trigger] /\ Offset[g] \in Int
  BY Today, DayFacts DEF TypeOK, CountsOK
<1>2. ASSUME NEW e \in 0..LastDay, d - (e + Offset[g]) \in {1, 2} PROVE g \notin Ahead(e)
  BY <1>1, <1>2 DEF Ahead, UtcMidnight, PartsPerDay
<1>3. /\ booking'[b].checkIn \in 0..LastDay /\ d - (booking'[b].checkIn + Offset[g]) \in {1, 2}
      /\ g \in early'[b] /\ booking'[b].status \in {"booked", "in"}
  <2>1. BookingsOK'
    BY KeepsBookings
  <2>2. QED
    BY <2>1 DEF Owed, Live, BookingsOK
<1>4. ASSUME b # c PROVE booking'[b] = booking[b] /\ early'[b] = early[b]
  BY <1>1, <1>4 DEF Outside, BookingStep, SetDates, CheckIn, ConfirmLate, Leave, FileFormC,
                    SendByHand, BookingsOK
<1>5. CASE b # c
  BY <1>3, <1>4, <1>5 DEF Owed, Live
<1>6. CASE b = c
  <2>1. ASSUME NEW e \in ArrivalDay, SetDates(b, e) PROVE FALSE
    <3>1. early'[b] = Ahead(e) /\ booking'[b].checkIn = e /\ e \in 0..LastDay
      BY <1>1, <2>1 DEF SetDates, BookingsOK
    <3>2. QED
      BY <1>2, <1>3, <3>1
  <2>2. ASSUME CheckIn(b), ~Live(b) PROVE FALSE
    <3>1. early'[b] = Ahead(booking[b].checkIn) /\ booking'[b].checkIn = booking[b].checkIn
      BY <1>1, <2>2 DEF CheckIn, BookingsOK
    <3>2. QED
      BY <1>2, <1>3, <3>1
  <2>3. ASSUME ConfirmLate(b) PROVE FALSE
    <3>1. early'[b] = Ahead(booking[b].checkIn) /\ booking'[b].checkIn = booking[b].checkIn
      BY <1>1, <2>3 DEF ConfirmLate, BookingsOK
    <3>2. QED
      BY <1>2, <1>3, <3>1
  <2>4. ASSUME Leave(b) PROVE FALSE
    BY <1>1, <1>3, <2>4 DEF Leave, BookingsOK
  <2>5. CASE CheckIn(b) /\ Live(b)
    BY <1>1, <1>3, <2>5 DEF CheckIn, BookingsOK, Owed, Live
  <2>6. CASE FileFormC(b)
    BY <1>1, <1>3, <2>6 DEF FileFormC, BookingsOK, Owed, Live
  <2>7. CASE \E h \in Trigger : SendByHand(b, h)
    BY <1>1, <1>3, <2>7 DEF SendByHand, Owed, Live
  <2>8. QED
    BY <1>6, <2>1, <2>2, <2>3, <2>4, <2>5, <2>6, <2>7 DEF Outside, BookingStep
<1>7. QED
  BY <1>5, <1>6

(* A run on time has on its list whom it owes. *)
LEMMA OwedIsDue ==
  ASSUME TypeOK, OffsetsInReach, NEW b \in Booking, NEW g \in Trigger,
         Part(now) < 3, Owed(b, g, Day(now))
  PROVE  Live(b) /\ Due(b, g)
<1>1. /\ now \in Nat /\ Day(now) \in Nat /\ Part(now) \in 0..3 /\ now = 4 * Day(now) + Part(now)
      /\ Offset[g] \in -14..0 /\ booking[b].checkIn \in Nat
  <2>1. now \in Nat /\ Day(now) \in Nat /\ Part(now) \in 0..3 /\ now = 4 * Day(now) + Part(now)
    BY Today, DayFacts
  <2>2. Offset[g] \in -14..0
    BY DEF OffsetsInReach
  <2>3. booking[b].checkIn \in 0..LastDay
    BY DEF TypeOK, BookingsOK
  <2>4. QED
    BY <2>1, <2>2, <2>3
<1>2. Day(now) - (booking[b].checkIn + Offset[g]) \in {1, 2} /\ Live(b)
  BY DEF Owed
<1>3. /\ UtcMidnight(booking[b].checkIn) = 4 * booking[b].checkIn + 3
      /\ Target(b, g) = 4 * (booking[b].checkIn + Offset[g]) + 3
      /\ Grace = 8 /\ PartsPerDay = 4
  <2>1. PartsPerDay = 4
    BY DEF PartsPerDay
  <2>2. Grace = 8
    BY <2>1 DEF Grace
  <2>3. UtcMidnight(booking[b].checkIn) = 4 * booking[b].checkIn + 3
    BY <2>1 DEF UtcMidnight
  <2>4. Target(b, g) = 4 * (booking[b].checkIn + Offset[g]) + 3
    BY <2>1 DEF Target, UtcMidnight
  <2>5. QED
    BY <2>1, <2>2, <2>3, <2>4
<1> DEFINE arrival == booking[b].checkIn
           offset == Offset[g]
           today == Day(now)
<1>4. /\ 4 * arrival + 3 > now - 8 /\ 4 * arrival + 3 <= now + 14 * 4
      /\ 4 * (arrival + offset) + 3 <= now /\ 4 * (arrival + offset) + 3 > now - 8
  <2>1. /\ now \in Nat /\ today \in Nat /\ now \in {4 * today, 4 * today + 1, 4 * today + 2}
        /\ arrival \in Nat /\ offset \in -14..0 /\ today - (arrival + offset) \in {1, 2}
    BY <1>1, <1>2
  <2> HIDE DEF arrival, offset, today
  <2>2. QED
    BY <2>1
<1>5. QED
  BY <1>2, <1>3, <1>4 DEF Due

(* What is owed is paid, or in hand, after every step. *)
LEMMA KeepsDebts ==
  TypeOK /\ WorkKnown /\ NightFirst /\ OffsetsInReach /\ DebtsPaid /\ [Next]_vars => DebtsPaid'
<1> SUFFICES ASSUME TypeOK, WorkKnown, NightFirst, OffsetsInReach, DebtsPaid, [Next]_vars,
                    NEW b \in Booking, NEW g \in Trigger
             PROVE  /\ \A d \in onTime' : Owed(b, g, d)' => Logged(b, g)'
                    /\ (/\ work'.at \in {"remind", "look", "create"} /\ Part(now') < 3
                        /\ g \notin work'.left /\ Owed(b, g, Day(now))')
                         => Logged(b, g)' \/ InHand(b, g)'
  BY DEF DebtsPaid
<1> DEFINE Done == \A d \in onTime' : Owed(b, g, d)' => Logged(b, g)'
           Doing == (/\ work'.at \in {"remind", "look", "create"} /\ Part(now') < 3
                     /\ g \notin work'.left /\ Owed(b, g, Day(now))')
                      => Logged(b, g)' \/ InHand(b, g)'
<1>1. /\ WorkOK /\ onTime \subseteq Int /\ Day(now) \in Int
      /\ \A d \in onTime : d \in Int /\ d <= Day(now)
      /\ Logged(b, g) => Logged(b, g)'
  BY LoggedStays, Today DEF TypeOK, CountsOK, NightFirst
<1>2. ASSUME NEW c \in Booking, Outside(c) PROVE Done /\ Doing
  <2>1. UNCHANGED <<now, work, onTime>>
    BY <1>2, OutsideFrame DEF clock, history
  <2>2. \A d \in Int : d <= Day(now) /\ Owed(b, g, d)' => Owed(b, g, d)
    BY <1>2, NoNewDebts
  <2>3. Done
    BY <1>1, <2>1, <2>2 DEF DebtsPaid
  <2>4. Doing
    BY <1>1, <2>1, <2>2 DEF DebtsPaid, InHand
  <2>5. QED
    BY <2>3, <2>4
<1>3. ASSUME UNCHANGED <<booking, early>>
      PROVE  \A d : Owed(b, g, d)' <=> Owed(b, g, d)
  BY <1>3 DEF Owed, Live
<1>4. CASE ClockStep
  <2>1. UNCHANGED <<booking, early, rows, onTime>>
    BY <1>4, ClockFrame DEF tables
  <2>2. Done
    BY <1>1, <1>3, <2>1 DEF DebtsPaid
  <2>3. work'.at \in {"idle", "snapshot"} \/ (work' = work /\ now' = now)
    BY <1>1, <1>4, Moves DEF ClockStep, Advance, Crash, Boot, Tick, Idle
  <2>4. Doing
    BY <1>1, <1>3, <2>1, <2>3 DEF DebtsPaid, InHand
  <2>5. QED
    BY <2>2, <2>4
<1>5. CASE RunStep
  <2>1. UNCHANGED <<now, booking, early>>
    BY <1>5, RunFrame DEF clock
  <2>2. \A d : Owed(b, g, d)' <=> Owed(b, g, d)
    BY <1>3, <2>1
  <2>3. Done
    <3>1. CASE UNCHANGED onTime
      BY <1>1, <2>2, <3>1 DEF DebtsPaid
    <3>2. CASE RunDone
      <4>1. ASSUME Part(now) < 3, Owed(b, g, Day(now)) PROVE Logged(b, g)
        BY <3>2, <4>1 DEF RunDone, DebtsPaid, InHand
      <4>2. QED
        BY <1>1, <2>2, <3>2, <4>1 DEF RunDone, DebtsPaid
    <3>3. QED
      BY <1>5, <3>1, <3>2, RunFrame
  <2>4. Doing
    <3> SUFFICES ASSUME work'.at \in {"remind", "look", "create"}, Part(now) < 3,
                        g \notin work'.left, Owed(b, g, Day(now))
                 PROVE  Logged(b, g)' \/ InHand(b, g)'
      BY <2>1, <2>2
    <3>1. ASSUME work.at \in {"remind", "look", "create"}, g \notin work.left
          PROVE  Logged(b, g) \/ InHand(b, g)
      BY <3>1 DEF DebtsPaid
    <3>2. CASE FormCStep
      <4>1. work'.left = Trigger
        <5>1. FormCDone
          BY <1>1, <3>2 DEF FormCStep, FormCRead, Nudge, WorkOK
        <5>2. QED
          BY <1>1, <5>1 DEF FormCDone, WorkOK
      <4>2. QED
        BY <4>1
    <3>3. ASSUME NEW h \in Trigger, RemindRead(h) PROVE Logged(b, g)' \/ InHand(b, g)'
      <4>1. CASE g = h
        <5>1. Live(b) /\ Due(b, g)
          BY OwedIsDue
        <5>2. QED
          BY <3>3, <4>1, <5>1 DEF RemindRead, InHand
      <4>2. CASE g # h
        BY <1>1, <3>1, <3>3, <4>2 DEF RemindRead, InHand
      <4>3. QED
        BY <4>1, <4>2
    <3>4. ASSUME NEW c \in Booking, Look(c) PROVE Logged(b, g)' \/ InHand(b, g)'
      <4>1. work'.left = work.left /\ work'.trigger = work.trigger /\ work.at = "look"
        BY <1>1, <3>4 DEF Look, WorkOK
      <4>2. CASE Logged(b, g)
        BY <1>1, <4>2
      <4>3. CASE b \in work.batch /\ work.trigger = g /\ ~Logged(b, g)
        <5>1. CASE Logged(c, g)
          BY <1>1, <3>4, <4>1, <4>3, <5>1 DEF Look, InHand, WorkOK
        <5>2. CASE ~Logged(c, g)
          BY <1>1, <3>4, <4>1, <4>3, <5>2 DEF Look, InHand, WorkOK
        <5>3. QED
          BY <5>1, <5>2
      <4>4. QED
        BY <3>1, <4>1, <4>2, <4>3 DEF InHand
    <3>5. CASE Create
      <4>1. /\ work'.left = work.left /\ work'.trigger = work.trigger
            /\ work'.batch = work.batch /\ work.at = "create" /\ work'.at = "look"
        BY <1>1, <3>5 DEF Create, WorkOK
      <4>2. CASE Logged(b, g)
        BY <1>1, <4>2
      <4>3. CASE work.trigger = g /\ b \in work.batch
        BY <4>1, <4>3 DEF InHand
      <4>4. CASE work.trigger = g /\ work.hand = b
        <5>1. RowsOK
          BY DEF TypeOK
        <5>2. /\ rows'[b][g].worker = rows[b][g].worker + 1
              /\ rows'[b][g].hand = rows[b][g].hand
          BY <3>5, <4>4, <5>1 DEF Create, RowsOK
        <5>3. QED
          BY <5>1, <5>2 DEF Logged, RowsOK
      <4>5. QED
        BY <3>1, <4>1, <4>2, <4>3, <4>4 DEF InHand
    <3>6. CASE TriggerDone
      <4>1. work'.left = work.left /\ work.at = "look" /\ work.batch = {}
        BY <1>1, <3>6 DEF TriggerDone, WorkOK
      <4>2. QED
        BY <1>1, <3>1, <4>1 DEF InHand
    <3>7. QED
      BY <1>1, <1>5, <3>2, <3>3, <3>4, <3>5, <3>6, Moves DEF RunStep, RemindStep, Idle
  <2>5. QED
    BY <2>3, <2>4
<1>6. CASE UNCHANGED vars
  <2>1. UNCHANGED <<now, booking, early, rows, onTime, work>>
    BY <1>6 DEF vars, clock, tables, history
  <2>2. Done
    BY <1>1, <1>3, <2>1 DEF DebtsPaid
  <2>3. Doing
    BY <1>1, <1>3, <2>1 DEF DebtsPaid, InHand
  <2>4. QED
    BY <2>2, <2>3
<1>7. QED
  BY <1>2, <1>4, <1>5, <1>6, Steps

--------------------------------------------------------------------------------
(* One run at a time, of today and noted as such; whom a run on time owes a *)
(* message is on its list until the message is in the log                   *)
(* (maybeRunDaily, dispatchScheduledReminders).                             *)
THEOREM Invariance == Spec => []IInv
<1>1. IInv /\ [Next]_vars => IInv'
  BY KeepsTypes, KeepsKnown, KeepsRun, KeepsGuard, KeepsOnce, KeepsNight, KeepsDebts
     DEF IInv, OffsetsInReach
<1>2. QED
  BY InitIInv, <1>1, PTL DEF Spec

(* The worker reminds a guest at most once a template, whatever is          *)
(* restarted or fails (dispatchScheduledReminders).                         *)
THEOREM RemindedOnceHolds == Spec => []RemindedOnce
<1>1. IInv => RemindedOnce
  BY DEF IInv
<1>2. QED
  BY Invariance, <1>1, PTL

(* With the offsets the arrival templates may have, a missed day is caught  *)
(* up with within the grace (dispatchScheduledReminders).                   *)
THEOREM RemindedInGraceHolds == ASSUME OffsetsInReach PROVE Spec => []RemindedInGrace
<1>1. IInv => RemindedInGrace
  <2> SUFFICES ASSUME IInv, NEW b \in Booking, NEW g \in Trigger, Live(b), g \in early[b],
                      NEW d \in onTime, d \in {booking[b].checkIn + Offset[g] + 1,
                                               booking[b].checkIn + Offset[g] + 2}
               PROVE  Logged(b, g)
    BY DEF RemindedInGrace
  <2>1. booking[b].checkIn \in Int /\ Offset[g] \in Int
    BY DEF IInv, TypeOK, BookingsOK
  <2>2. Owed(b, g, d)
    BY <2>1 DEF Owed
  <2>3. QED
    BY <2>2 DEF IInv, DebtsPaid
<1>2. QED
  BY Invariance, <1>1, PTL

(* The tasks run once a day, and once more for each restart                 *)
(* (maybeRunDaily).                                                         *)
THEOREM RunsPerDayHolds == Spec => []RunsPerDay
<1>1. IInv => RunsPerDay
  BY DEF IInv, GuardCounts, RunsPerDay
<1>2. QED
  BY Invariance, <1>1, PTL

(* A day that was done on time has the row of its night, and no night has   *)
(* its row before it is over (occupancySnapshot).                           *)
THEOREM NightsSnapshottedHolds == Spec => []NightsSnapshotted
<1>1. Init => NightsSnapshotted
  BY DEF Init, NightsSnapshotted
<1>2. IInv /\ NightsSnapshotted /\ [Next]_vars => NightsSnapshotted'
  <2> SUFFICES ASSUME TypeOK, NightFirst, NightsSnapshotted, [Next]_vars PROVE NightsSnapshotted'
    BY DEF IInv
  <2>1. now \in Nat /\ Day(now) \in Int /\ onTime \subseteq Int /\ occupancy \subseteq Int
    BY Today DEF TypeOK, CountsOK
  <2>2. CASE UNCHANGED <<now, occupancy, onTime>>
    BY <2>2 DEF NightsSnapshotted
  <2>3. CASE Advance
    <3>1. now' = now + 1 /\ UNCHANGED <<occupancy, onTime>>
      BY <2>3 DEF Advance, tables, history
    <3>2. Day(now) <= Day(now + 1) /\ Day(now + 1) \in Int
      BY <2>1, DayFacts
    <3>3. QED
      BY <2>1, <3>1, <3>2 DEF NightsSnapshotted
  <2>4. CASE Snapshot
    BY <2>1, <2>4 DEF Snapshot, SnapshotNight, NightsSnapshotted, clock, history
  <2>5. CASE RunDone
    <3>1. Day(now) - 1 \in occupancy
      BY <2>5 DEF RunDone, NightFirst
    <3>2. UNCHANGED <<now, occupancy>> /\ onTime' \subseteq onTime \cup {Day(now)}
      BY <2>5 DEF RunDone, clock, tables
    <3>3. QED
      BY <2>1, <3>1, <3>2 DEF NightsSnapshotted
  <2>6. CASE Crash \/ Boot \/ Tick
    BY <2>2, <2>6 DEF Crash, Boot, Tick, tables, history
  <2>7. QED
    BY <2>2, <2>3, <2>4, <2>5, <2>6, Steps, OutsideFrame, RunFrame
       DEF ClockStep, vars, clock, history, tables
<1>3. QED
  BY Invariance, <1>1, <1>2, PTL DEF Spec

(* Whom the run has read and not yet nudged is on its list. *)
FormCInHand ==
  work.at = "nudge" =>
    \A b \in Foreigners :
      (now - PartsPerDay < booking[b].checkedIn /\ booking[b].checkedIn < now)
        => b \in work.batch \cup nudged

LEMMA KeepsFormC == TypeOK /\ FormCInHand /\ [Next]_vars => FormCInHand'
<1> SUFFICES ASSUME TypeOK, FormCInHand, [Next]_vars, work'.at = "nudge",
                    NEW b \in Foreigners',
                    (now - PartsPerDay < booking[b].checkedIn)', (booking[b].checkedIn < now)'
             PROVE  b \in (work.batch \cup nudged)'
  BY DEF FormCInHand, PartsPerDay
<1>1. now \in Nat /\ WorkOK /\ BookingsOK /\ PartsPerDay = 4
  BY Today DEF TypeOK, PartsPerDay
<1>2. CASE UNCHANGED <<now, work, booking, nudged>>
  BY <1>2 DEF FormCInHand, Foreigners
<1>3. ASSUME NEW c \in Booking, Outside(c) PROVE b \in (work.batch \cup nudged)'
  <2>1. UNCHANGED <<now, work, nudged>>
    BY <1>3, OutsideFrame DEF clock
  <2>2. b \in Booking /\ booking'[b].status = "in" /\ booking'[b].formC = "due"
        /\ booking'[b].checkedIn < now
    BY <2>1 DEF Foreigners
  <2>3. \/ /\ booking[b].status = "in" /\ booking[b].formC = "due"
           /\ booking'[b].checkedIn = booking[b].checkedIn
        \/ booking'[b].checkedIn = now
    <3>1. CASE \E d \in ArrivalDay : SetDates(c, d)
      BY <1>1, <2>2, <3>1 DEF SetDates, BookingsOK
    <3>2. CASE CheckIn(c)
      BY <1>1, <2>2, <3>2 DEF CheckIn, BookingsOK
    <3>3. CASE ConfirmLate(c)
      BY <1>1, <2>2, <3>3 DEF ConfirmLate, BookingsOK
    <3>4. CASE Leave(c)
      BY <1>1, <2>2, <3>4 DEF Leave, BookingsOK
    <3>5. CASE FileFormC(c)
      BY <1>1, <2>2, <3>5 DEF FileFormC, BookingsOK
    <3>6. CASE \E g \in Trigger : SendByHand(c, g)
      BY <1>1, <2>2, <3>6 DEF SendByHand, BookingsOK
    <3>7. QED
      BY <1>3, <3>1, <3>2, <3>3, <3>4, <3>5, <3>6 DEF Outside, BookingStep
  <2>4. b \in Foreigners /\ booking'[b].checkedIn = booking[b].checkedIn
    BY <1>1, <2>2, <2>3 DEF Foreigners
  <2>5. QED
    BY <2>1, <2>2, <2>4 DEF FormCInHand
<1>4. CASE FormCRead
  <2>1. now' = now /\ booking' = booking
    BY <1>4 DEF FormCRead, clock, tables
  <2>2. PICK B \in RecentCheckIns : work' = [work EXCEPT !.at = "nudge", !.batch = B]
    BY <1>4 DEF FormCRead
  <2>3. b \in Foreigners /\ booking[b].checkedIn > now - PartsPerDay
    BY <1>1, <2>1 DEF Foreigners, BookingsOK
  <2>4. b \in B
    BY <2>2, <2>3 DEF RecentCheckIns
  <2>5. QED
    BY <1>1, <2>2, <2>4 DEF WorkOK
<1>5. ASSUME NEW c \in Booking, Nudge(c) PROVE b \in (work.batch \cup nudged)'
  <2>1. /\ UNCHANGED <<now, booking>> /\ work.at = "nudge"
        /\ nudged' = nudged \cup {c} /\ work'.batch = work.batch \ {c}
    BY <1>1, <1>5 DEF Nudge, clock, WorkOK
  <2>2. b \in work.batch \cup nudged
    BY <2>1 DEF FormCInHand, Foreigners
  <2>3. QED
    BY <2>1, <2>2
<1>6. CASE RunStep /\ ~FormCRead /\ ~(\E c \in Booking : Nudge(c))
  <2>1. CASE Snapshot \/ FormCDone
    BY <1>1, <2>1 DEF Snapshot, FormCDone, WorkOK
  <2>2. CASE RunThrows
    BY <2>2 DEF RunThrows, Idle
  <2>3. CASE RemindStep
    <3>1. ASSUME NEW c \in Booking, Look(c) PROVE work'.at \in {"look", "create"}
      BY <1>1, <3>1 DEF Look, WorkOK
    <3>2. QED
      BY <1>1, <2>3, <3>1, Moves DEF RemindStep, Idle
  <2>4. QED
    BY <1>6, <2>1, <2>2, <2>3 DEF RunStep, FormCStep
<1>7. CASE ClockStep
  BY <1>1, <1>2, <1>7 DEF ClockStep, Advance, Crash, Boot, Tick, Idle, WorkOK, tables
<1>8. QED
  BY <1>2, <1>3, <1>4, <1>5, <1>6, <1>7, Steps DEF vars, clock, tables

(* The Form C windows of two runs at the same time on following days leave  *)
(* no gap (formCReminder).                                                  *)
THEOREM FormCCoveredHolds == Spec => FormCCovered
<1>1. Init => FormCInHand
  BY DEF Init, FormCInHand, Idle
<1>2. TypeOK /\ FormCInHand /\ [Next]_vars =>
        [(lastFormC' # lastFormC /\ lastFormC = now - PartsPerDay)
           => \A b \in Foreigners :
                (lastFormC < booking[b].checkedIn /\ booking[b].checkedIn < now)
                  => b \in nudged]_vars
  <2> SUFFICES ASSUME TypeOK, FormCInHand, [Next]_vars,
                      lastFormC' # lastFormC, lastFormC = now - PartsPerDay,
                      NEW b \in Foreigners,
                      lastFormC < booking[b].checkedIn, booking[b].checkedIn < now
               PROVE  b \in nudged
    OBVIOUS
  <2>1. FormCDone
    BY Steps, OutsideFrame, ClockFrame
       DEF vars, history, RunStep, FormCStep, RemindStep, Snapshot, FormCRead, Nudge,
           RemindRead, Look, Create, TriggerDone, RunDone, RunThrows
  <2>2. QED
    BY <2>1 DEF FormCDone, FormCInHand
<1>3. IInv => TypeOK
  BY DEF IInv
<1>4. QED
  BY Invariance, KeepsFormC, <1>1, <1>2, <1>3, PTL DEF Spec, FormCCovered

================================================================================
