------------------------------- MODULE DailyTasks -------------------------------
(***************************************************************************)
(* The daily tasks of the worker (src/src/lib/jobs/tasks.ts) and the guard *)
(* that starts them (maybeRunDaily, src/src/lib/jobs/worker.ts): which day *)
(* it is in India, what is due by then, and what a late run, a failing     *)
(* query or a restart does to it.                                          *)
(*                                                                         *)
(* Time goes in parts of an IST day: 00:00-01:00, 01:00-03:00, 03:00-05:30 *)
(* and 05:30-24:00.  05:30 IST is UTC midnight, the instant that stands    *)
(* for an arrival date.  A tick comes strictly within a part.              *)
(*                                                                         *)
(* There is one property.  Purging codes, sessions and documents and       *)
(* expiring links are left out here; they share the run's failures.        *)
(*                                                                         *)
(* A definition named D_Word beside D is a slip the runs must notice: the  *)
(* same operator with one plausible mistake.  Nothing else refers to it.   *)
(***************************************************************************)
EXTENDS Integers

CONSTANTS
  Booking,     \* bookings, each with a foreign guest who has a telephone
  Trigger,     \* the arrival templates that are active
  Offset,      \* days from check-in to a trigger's target
  ArrivalDay,  \* bound: days on which guests arrive
  LastDay,     \* bound: the clock stops with this day
  MaxFault     \* bound: crashes and failing queries

Never == -100

ASSUME DailyTasksAssumption ==
  /\ LastDay \in Nat /\ MaxFault \in Nat
  /\ Offset \in [Trigger -> Int] /\ ArrivalDay \subseteq 0..LastDay

VARIABLES
  now,        \* the part of day the clock is in, counted from day 0
  midnight,   \* the hour that toLocaleString shows at midnight: 0, or 24 as ICU has it
  up,         \* whether the process runs
  ticked,     \* whether it has ticked in this part of the day
  lastDaily,  \* worker.ts: the day the tasks last ran, in memory
  work,       \* the run in progress
  booking,    \* what the tasks read of a booking
  rows,       \* NotificationLog: rows by booking and trigger, of the worker and by hand
  nudged,     \* AuditLog: bookings with a FORM_C_REMINDER
  occupancy,  \* DailyOccupancy: the nights that have a row
  early,      \* auxiliary: triggers whose target was ahead when the booking got its dates
  runs,       \* auxiliary: runs started today
  boots,      \* auxiliary: times the process came up today
  onTime,     \* auxiliary: days whose tasks were done by 05:30
  lastFormC,  \* auxiliary: when the Form C task was last done
  faults      \* crashes and failing queries so far

clock == <<now, midnight, up, ticked, lastDaily>>
tables == <<booking, rows, nudged, occupancy, early>>
history == <<runs, boots, onTime, lastFormC>>
vars == <<clock, work, tables, history, faults>>

PartsPerDay == 4
Day(s) == s \div PartsPerDay
Part(s) == s % PartsPerDay
UtcMidnight(d) == PartsPerDay * d + 3

(* istParts: the hour as a number. *)
Hour(s) == CASE Part(s) = 0 -> midnight [] Part(s) = 1 -> 1 [] Part(s) = 2 -> 3 [] Part(s) = 3 -> 5

Status == {"none", "booked", "in", "over"}
None == "none"
Idle == [at |-> "idle", batch |-> {}, trigger |-> None, hand |-> None, left |-> {}]

Live(b) == booking[b].status \in {"booked", "in"}
Target(b, g) == UtcMidnight(booking[b].checkIn + Offset[g])
Logged(b, g) == rows[b][g].worker + rows[b][g].hand > 0

Init ==
  /\ now = 0 /\ midnight \in {0, 24}
  /\ up = TRUE /\ ticked = FALSE /\ lastDaily = Never
  /\ work = Idle
  /\ booking = [b \in Booking |->
       [status |-> "none", checkIn |-> 0, checkedIn |-> Never, formC |-> "due"]]
  /\ rows = [b \in Booking |-> [g \in Trigger |-> [worker |-> 0, hand |-> 0]]]
  /\ nudged = {} /\ occupancy = {}
  /\ early = [b \in Booking |-> {}]
  /\ runs = 0 /\ boots = 1 /\ onTime = {} /\ lastFormC = Never
  /\ faults = 0

--------------------------------------------------------------------------------
(* Bookings and staff, at any time. *)

(* The triggers whose target is still ahead for an arrival on day d.        *)
Ahead(d) == {g \in Trigger : now < UtcMidnight(d + Offset[g])}

(* Dates come with a booking or a move, and may be in the past; a no-show   *)
(* may be moved.                                                            *)
SetDates(b, d) ==
  /\ booking' = [booking EXCEPT ![b].checkIn = d,
                   ![b].status = IF @ = "none" THEN "booked" ELSE @]
  /\ early' = [early EXCEPT ![b] = Ahead(d)]
  /\ UNCHANGED <<clock, work, rows, nudged, occupancy, history, faults>>

(* checkInBooking tests nothing: it revives a booking that was over.        *)
CheckIn(b) ==
  /\ booking[b].status # "none"
  /\ booking' = [booking EXCEPT ![b].status = "in", ![b].checkedIn = now]
  /\ early' = [early EXCEPT ![b] = IF Live(b) THEN @ ELSE Ahead(booking[b].checkIn)]
  /\ UNCHANGED <<clock, work, rows, nudged, occupancy, history, faults>>

(* A confirmation that read the hold before it was cancelled.               *)
ConfirmLate(b) ==
  /\ booking[b].status = "over"
  /\ booking' = [booking EXCEPT ![b].status = "booked"]
  /\ early' = [early EXCEPT ![b] = Ahead(booking[b].checkIn)]
  /\ UNCHANGED <<clock, work, rows, nudged, occupancy, history, faults>>

(* Check-out, cancellation or no-show. *)
Leave(b) ==
  /\ Live(b)
  /\ booking' = [booking EXCEPT ![b].status = "over"]
  /\ UNCHANGED <<clock, work, rows, nudged, occupancy, early, history, faults>>

(* mark_form_c_filed *)
FileFormC(b) ==
  /\ booking[b].status # "none" /\ booking[b].formC = "due"
  /\ booking' = [booking EXCEPT ![b].formC = "filed"]
  /\ UNCHANGED <<clock, work, rows, nudged, occupancy, early, history, faults>>

(* sendNow leaves a row that counts for the look-up as well. *)
SendByHand(b, g) ==
  /\ booking[b].status # "none" /\ rows[b][g].hand = 0
  /\ rows' = [rows EXCEPT ![b][g].hand = 1]
  /\ UNCHANGED <<clock, work, booking, nudged, occupancy, early, history, faults>>

--------------------------------------------------------------------------------
(* The clock and the process. *)

(* The interval is seconds and a run is short: while the process is up, no *)
(* part of a day passes without a tick, and a run ends in the part it      *)
(* began in.                                                               *)
Advance ==
  /\ Day(now + 1) <= LastDay
  /\ work = Idle /\ (up => ticked)
  /\ now' = now + 1 /\ ticked' = FALSE
  /\ IF Day(now + 1) = Day(now) THEN UNCHANGED <<runs, boots>> ELSE runs' = 0 /\ boots' = 0
  /\ UNCHANGED <<midnight, up, lastDaily, work, tables, onTime, lastFormC, faults>>

Crash ==
  /\ up /\ faults < MaxFault
  /\ faults' = faults + 1
  /\ up' = FALSE /\ ticked' = FALSE /\ work' = Idle /\ lastDaily' = Never
  /\ UNCHANGED <<now, midnight, tables, history>>

(* startWorker: lastDaily starts afresh; a comment there says it is primed, *)
(* but it is not.                                                           *)
Boot ==
  /\ ~up
  /\ up' = TRUE /\ boots' = boots + 1
  /\ UNCHANGED <<now, midnight, ticked, lastDaily, work, tables, runs, onTime, lastFormC, faults>>

--------------------------------------------------------------------------------
(* The run. *)

(* maybeRunDaily notes the day before it runs the tasks. *)
Tick_Unnoted ==
  /\ up /\ work = Idle /\ ticked' = TRUE
  /\ IF lastDaily = Day(now) \/ Hour(now) < 3
       THEN UNCHANGED <<work, runs>>
       ELSE /\ work' = [Idle EXCEPT !.at = "snapshot"]
            /\ runs' = runs + 1
  /\ UNCHANGED <<now, midnight, up, lastDaily, tables, boots, onTime, lastFormC, faults>>
Tick ==
  /\ up /\ work = Idle /\ ticked' = TRUE
  /\ IF lastDaily = Day(now) \/ Hour(now) < 3
       THEN UNCHANGED <<lastDaily, work, runs>>
       ELSE /\ lastDaily' = Day(now)
            /\ work' = [Idle EXCEPT !.at = "snapshot"]
            /\ runs' = runs + 1
  /\ UNCHANGED <<now, midnight, up, tables, boots, onTime, lastFormC, faults>>

(* occupancySnapshot of the night before, in Indian days. *)
SnapshotNight_InUtc == (IF Part(now) = 3 THEN Day(now) ELSE Day(now) - 1) - 1
SnapshotNight == Day(now) - 1
Snapshot ==
  /\ work.at = "snapshot"
  /\ occupancy' = occupancy \cup {SnapshotNight}
  /\ work' = [work EXCEPT !.at = "formC"]
  /\ UNCHANGED <<clock, booking, rows, nudged, early, history, faults>>

(* formCReminder reads who checked in within 24 hours; one who came in this *)
(* part of yesterday may be just inside or just outside ...                 *)
Foreigners == {b \in Booking : booking[b].status = "in" /\ booking[b].formC = "due"}
RecentCheckIns_Today == {{b \in Foreigners : booking[b].checkedIn >= PartsPerDay * Day(now)}}
RecentCheckIns ==
  LET inside == {b \in Foreigners : booking[b].checkedIn > now - PartsPerDay}
      edge == {b \in Foreigners : booking[b].checkedIn = now - PartsPerDay}
  IN {inside \cup E : E \in SUBSET edge}
FormCRead ==
  /\ work.at = "formC"
  /\ \E B \in RecentCheckIns : work' = [work EXCEPT !.at = "nudge", !.batch = B]
  /\ UNCHANGED <<clock, tables, history, faults>>

(* ... and nudges once for each.  Only this task writes or looks for these  *)
(* rows, so looking and writing are one step.                               *)
Nudge(b) ==
  /\ work.at = "nudge" /\ b \in work.batch
  /\ nudged' = nudged \cup {b}
  /\ work' = [work EXCEPT !.batch = @ \ {b}]
  /\ UNCHANGED <<clock, booking, rows, occupancy, early, history, faults>>

FormCDone ==
  /\ work.at = "nudge" /\ work.batch = {}
  /\ work' = [work EXCEPT !.at = "remind", !.left = Trigger]
  /\ lastFormC' = now
  /\ UNCHANGED <<clock, tables, runs, boots, onTime, faults>>

(* dispatchScheduledReminders, for each template: live bookings that are    *)
(* due, by arrival and by target not more than two days ago, and arrive     *)
(* within two weeks ...                                                     *)
Grace_OneDay == PartsPerDay
Grace == 2 * PartsPerDay
Due(b, g) ==
  /\ UtcMidnight(booking[b].checkIn) > now - Grace
  /\ UtcMidnight(booking[b].checkIn) <= now + 14 * PartsPerDay
  /\ Target(b, g) <= now /\ Target(b, g) > now - Grace
RemindRead(g) ==
  /\ work.at = "remind" /\ g \in work.left
  /\ work' = [at |-> "look", batch |-> {b \in Booking : Live(b) /\ Due(b, g)},
              trigger |-> g, hand |-> None, left |-> work.left \ {g}]
  /\ UNCHANGED <<clock, tables, history, faults>>

(* ... are looked up in the log ... *)
Look(b) ==
  /\ work.at = "look" /\ b \in work.batch
  /\ IF Logged(b, work.trigger)
       THEN work' = [work EXCEPT !.batch = @ \ {b}]
       ELSE work' = [work EXCEPT !.at = "create", !.batch = @ \ {b}, !.hand = b]
  /\ UNCHANGED <<clock, tables, history, faults>>

(* ... and get a row if they have none.                                     *)
Create ==
  /\ work.at = "create"
  /\ rows' = [rows EXCEPT ![work.hand][work.trigger].worker = @ + 1]
  /\ work' = [work EXCEPT !.at = "look", !.hand = None]
  /\ UNCHANGED <<clock, booking, nudged, occupancy, early, history, faults>>

TriggerDone ==
  /\ work.at = "look" /\ work.batch = {}
  /\ work' = [work EXCEPT !.at = "remind", !.trigger = None]
  /\ UNCHANGED <<clock, tables, history, faults>>

RunDone ==
  /\ work.at = "remind" /\ work.left = {}
  /\ work' = Idle
  /\ onTime' = IF Part(now) < 3 THEN onTime \cup {Day(now)} ELSE onTime
  /\ UNCHANGED <<clock, tables, runs, boots, lastFormC, faults>>

(* A query fails: workerTick catches it, and the rest of the day's tasks    *)
(* waits for the next day.                                                  *)
RunThrows ==
  /\ work # Idle /\ faults < MaxFault
  /\ faults' = faults + 1
  /\ work' = Idle
  /\ UNCHANGED <<clock, tables, history>>

--------------------------------------------------------------------------------
Next ==
  \/ Advance \/ Crash \/ Boot \/ Tick
  \/ Snapshot \/ FormCRead \/ FormCDone \/ Create \/ TriggerDone \/ RunDone \/ RunThrows
  \/ \E g \in Trigger : RemindRead(g)
  \/ \E b \in Booking :
       \/ \E d \in ArrivalDay : SetDates(b, d)
       \/ CheckIn(b) \/ ConfirmLate(b) \/ Leave(b) \/ FileFormC(b) \/ Nudge(b) \/ Look(b)
       \/ \E g \in Trigger : SendByHand(b, g)

Spec == Init /\ [][Next]_vars

--------------------------------------------------------------------------------
(* Every variable stays in its type. *)
FlagsOK == up \in BOOLEAN /\ ticked \in BOOLEAN

WorkOK ==
  work \in [at : {"idle", "snapshot", "formC", "nudge", "remind", "look", "create"},
            batch : SUBSET Booking, trigger : Trigger \cup {None},
            hand : Booking \cup {None}, left : SUBSET Trigger]

BookingsOK ==
  booking \in [Booking -> [status : Status, checkIn : 0..LastDay,
                          checkedIn : Int, formC : {"due", "filed"}]]

RowsOK == rows \in [Booking -> [Trigger -> [worker : Nat, hand : {0, 1}]]]

CountsOK ==
  /\ now \in 0..(UtcMidnight(LastDay)) /\ midnight \in {0, 24}
  /\ lastDaily \in (0..LastDay) \cup {Never}
  /\ nudged \subseteq Booking /\ occupancy \subseteq Int
  /\ early \in [Booking -> SUBSET Trigger]
  /\ runs \in Nat /\ boots \in Nat /\ onTime \subseteq 0..LastDay
  /\ lastFormC \in Int /\ faults \in 0..MaxFault

TypeOK == FlagsOK /\ WorkOK /\ BookingsOK /\ RowsOK /\ CountsOK

(* Property: whatever is restarted or fails, the worker reminds a guest of  *)
(* an arrival at most once a template: a second run on a day, or a run on   *)
(* the next, finds the row of the first (dispatchScheduledReminders).       *)
RemindedOnce ==
  \A b \in Booking, g \in Trigger :
    /\ rows[b][g].worker <= 1
    /\ (work.at = "create" /\ work.hand = b /\ work.trigger = g) => rows[b][g].worker = 0

(* A run is of today, while the process is up, and today counts as done.    *)
RunIsOfToday == work # Idle => up /\ ticked /\ lastDaily = Day(now)

(* A message about to be logged is of a booking and a template.             *)
WorkKnown ==
  /\ work.at \in {"look", "create"} => work.trigger \in Trigger
  /\ work.at = "create" => work.hand \in Booking

(* Until today's run has begun, it has begun only before the process came   *)
(* up again.                                                                *)
GuardCounts ==
  /\ lastDaily <= Day(now)
  /\ (up /\ lastDaily # Day(now)) => runs <= boots
  /\ runs <= 1 + boots

(* Days are done by today at the latest, and the night before comes first.  *)
NightFirst ==
  /\ \A d \in onTime : d <= Day(now)
  /\ work.at \notin {"idle", "snapshot"} => Day(now) - 1 \in occupancy

(* A run that is done by 05:30 on day d owes the booking this message.      *)
Owed(b, g, d) ==
  /\ Live(b) /\ g \in early[b]
  /\ d - (booking[b].checkIn + Offset[g]) \in {1, 2}

(* The run has the booking on its list, or is about to log its message.     *)
InHand(b, g) ==
  /\ work.at \in {"look", "create"} /\ work.trigger = g
  /\ b \in work.batch \/ (work.at = "create" /\ work.hand = b)

(* The arrivals that the query returns reach from two days ago to two weeks *)
(* ahead; offsets beyond that are of no effect.                             *)
OffsetsInReach == \A g \in Trigger : Offset[g] \in -14..0

(* What a run on time owes is logged when it is done with the template.     *)
DebtsPaid ==
  \A b \in Booking, g \in Trigger :
    /\ \A d \in onTime : Owed(b, g, d) => Logged(b, g)
    /\ (/\ work.at \in {"remind", "look", "create"} /\ Part(now) < 3
        /\ g \notin work.left /\ Owed(b, g, Day(now)))
         => Logged(b, g) \/ InHand(b, g)

(* Property: one run at a time, of today and noted as such, that reminds no *)
(* one twice and, when it is done with a template, has reminded whom it     *)
(* owes: what the proofs go by (maybeRunDaily, workerTick,                  *)
(* dispatchScheduledReminders).                                             *)
IInv ==
  /\ TypeOK /\ WorkKnown /\ RunIsOfToday /\ GuardCounts /\ RemindedOnce /\ NightFirst
  /\ OffsetsInReach => DebtsPaid

(* Property: "with a 2-day grace so a missed daily tick still sends"        *)
(* (tasks.ts:189): two days after its target a message is in the log if the *)
(* booking had its dates before the target and is still live, and the tasks *)
(* were done on time on one of the two days that follow.                    *)
RemindedInGrace ==
  \A b \in Booking, g \in Trigger :
    LET day == booking[b].checkIn + Offset[g]
    IN (/\ Live(b) /\ g \in early[b]
        /\ now >= Target(b, g) + 2 * PartsPerDay
        /\ {day + 1, day + 2} \cap onTime # {})
         => Logged(b, g)

(* Property: "at most once per IST day" (worker.ts:53), and once more only  *)
(* for each time the process came up that day; a failing task is not tried  *)
(* again every five seconds (maybeRunDaily).                                *)
RunsPerDay == runs <= 1 + boots

(* Property: if the Form C task is done at the same time on two days, every *)
(* foreign guest who came in between, is still in and has not been filed is *)
(* nudged: the two windows leave no gap (formCReminder).                    *)
FormCCovered ==
  [][(lastFormC' # lastFormC /\ lastFormC = now - PartsPerDay)
       => \A b \in Foreigners :
            (lastFormC < booking[b].checkedIn /\ booking[b].checkedIn < now) => b \in nudged]_vars

(* Property: a day whose tasks were done by 05:30 has the row of the night  *)
(* before, and no night has one before it is over (occupancySnapshot).      *)
NightsSnapshotted ==
  /\ \A d \in onTime : d - 1 \in occupancy
  /\ \A n \in occupancy : n < Day(now)

================================================================================
