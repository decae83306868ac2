------------------------------- MODULE RoomViews -------------------------------
(***************************************************************************)
(* What the owner's pages make of the tables of Reservations: the calendar *)
(* (calendar/page.tsx, TapeChart.tsx), the housekeeping board, tonight's   *)
(* figures and the reports.  Pages change nothing, so there are no actions *)
(* here: each is what its queries return from one state.  No filter is     *)
(* set, and every room is active.                                          *)
(*                                                                         *)
(* A definition named D_Word beside D is a slip the run must notice.       *)
(***************************************************************************)
EXTENDS Reservations, Integers, FiniteSets

CONSTANT PageLength  \* how many days one page of the calendar may have

ASSUME RoomViewsAssumption == PageLength \subseteq Nat \ {0} /\ IsFiniteSet(Room)

Larger(m, n) == IF m > n THEN m ELSE n
Smaller(m, n) == IF m < n THEN m ELSE n

--------------------------------------------------------------------------------
(* The calendar. *)

(* The bookings the page loads; one without rooms gets no bar. *)
Listed_Live == {b \in Booking : status[b] \notin Released \cup {"ABSENT"} /\ RowsOf(b) # {}}
Listed == {b \in Booking : status[b] \notin {"CANCELLED", "ABSENT"} /\ RowsOf(b) # {}}

(* A bar is drawn in the room of the booking's first row, and rows come in  *)
(* no particular order: a chart is a choice of one.                         *)
Charts == {chart \in [Listed -> Room] : \A b \in Listed : chart[b] \in RoomsOf(b)}

(* The dates of a page: it begins two days before today, and each click on  *)
(* an arrow turns a whole page.                                             *)
FirstDay(today, days, offset) == today - 2 + offset * days
Dates(first, days) == first .. first + days - 1
Offset == -(Horizon + 1) .. Horizon + 2

(* The dates a bar covers on a page, cut off where the page ends. *)
Drawn(from, to, first, days) ==
  LET visStart == Larger(from, first)
      visEnd == Smaller(to, first + days)
  IN visStart .. visEnd - 1

--------------------------------------------------------------------------------
(* The board and the figures. *)

(* The rooms let for a night, as the dashboard, the overview, the list of   *)
(* rooms and the housekeeping board ask for them.                           *)
Tonight(night) ==
  {x \in rows : x.date = night /\ status[x.booking] \in {"CONFIRMED", "CHECKED_IN"}}
Occupants(room, night) == {x.booking : x \in {y \in Tonight(night) : y.room = room}}

(* Who comes and who leaves today.  Nobody asks for the status of a booking *)
(* that leaves.                                                             *)
Arrivals(today) ==
  {b \in Booking : stay[b].checkIn = today /\ status[b] \in {"CONFIRMED", "TENTATIVE"}}
Departures_ByTomorrow(today) ==
  {b \in Booking : Exists(b) /\ stay[b].checkOut \in {today, today + 1}}
Departures(today) == {b \in Booking : Exists(b) /\ stay[b].checkOut = today}

Arriving(room, today) == {b \in Arrivals(today) : room \in RoomsOf(b)}
Departing(room, today) == {b \in Departures(today) : room \in RoomsOf(b)}

(* The nights the reports count as sold, and those of the dashboard's       *)
(* seven-day strip, which takes every row.                                  *)
Sold(from, to) ==
  {x \in rows : /\ from <= x.date /\ x.date < to
                /\ status[x.booking] \in {"CONFIRMED", "CHECKED_IN", "CHECKED_OUT"}}
Strip(night) == {x \in rows : x.date = night}
RoomNightsAvailable(from, to) == Cardinality(Room) * Larger(to - from, 1)

--------------------------------------------------------------------------------
(* Property: on every page of the calendar, whichever row of a booking      *)
(* comes first, its bar covers the dates whose nights it holds in the bar's *)
(* room and no other, and a booking without a bar holds none: an empty cell *)
(* is free, unless the booking that has it is drawn in another room         *)
(* (TapeChart, the bars; calendar/page.tsx, rooms[0]).                      *)
CalendarIsTrue ==
  /\ \A b \in Booking \ Listed : RowsOf(b) = {}
  /\ \A chart \in Charts, days \in PageLength, today \in Night, offset \in Offset :
       LET first == FirstDay(today, days, offset)
       IN \A b \in Listed, day \in Dates(first, days) :
            day \in Drawn(stay[b].checkIn, stay[b].checkOut, first, days)
              <=> [booking |-> b, room |-> chart[b], date |-> day] \in rows

(* Property: a room is left, taken and slept in by at most one booking a    *)
(* day; who sleeps there tonight does not leave today, and a confirmed      *)
(* arrival is tonight's occupant; tonight's rooms are among those the       *)
(* reports count, those among the strip's, and no report has more nights    *)
(* sold than there are (housekeeping/page.tsx, dashboard/page.tsx, getKpis).*)
BoardAndCountsAgree ==
  /\ \A room \in Room, today \in Day :
       /\ \A group \in {Occupants(room, today), Arriving(room, today), Departing(room, today)} :
            Cardinality(group) <= 1
       /\ Occupants(room, today) \cap Departing(room, today) = {}
       /\ \A b \in Arriving(room, today) :
            Occupants(room, today) = IF status[b] = "CONFIRMED" THEN {b} ELSE {}
  /\ \A night \in Night :
       Tonight(night) \subseteq Sold(night, night + 1) /\ Sold(night, night + 1) \subseteq Strip(night)
  /\ \A from, to \in Day : Cardinality(Sold(from, to)) <= RoomNightsAvailable(from, to)
================================================================================
