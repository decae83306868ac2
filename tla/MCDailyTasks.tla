------------------------------ MODULE MCDailyTasks ------------------------------
(* DailyTasks on a small instance: the two arrival templates and their       *)
(* default offsets.                                                          *)
EXTENDS DailyTasks, TLC

Triggers == {"PRE_ARRIVAL_24H", "CHECK_IN_INSTRUCTIONS"}
Defaults == "PRE_ARRIVAL_24H" :> -1 @@ "CHECK_IN_INSTRUCTIONS" :> 0

(* What can still make a difference: no task and no property looks at times  *)
(* before the day before, at the dates of bookings that are not live or were *)
(* told of their arrival, or at a second row.  TypeOK, which is always TRUE,  *)
(* makes TLC write out the functions of the state it is about to store.      *)
Recent(s) == IF s < now - PartsPerDay THEN Never ELSE s
View ==
  <<TypeOK, clock, work, nudged, occupancy, runs, boots, onTime, faults, Recent(lastFormC),
    [b \in Booking |->
      [booking[b] EXCEPT !.checkedIn = IF booking[b].status = "in" THEN Recent(@) ELSE Never]],
    [b \in Booking |-> {g \in early[b] : Live(b) /\ ~Logged(b, g)}],
    [b \in Booking |-> [g \in Trigger |->
      IF rows[b][g].worker > 0 THEN [rows[b][g] EXCEPT !.hand = 1] ELSE rows[b][g]]]>>
================================================================================
