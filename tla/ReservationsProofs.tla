--------------------------- MODULE ReservationsProofs ---------------------------
(***************************************************************************)
(* Proofs about the reservation engine, for any sets of bookings, rooms,   *)
(* blocks and concurrent handlers and any horizon.                         *)
(***************************************************************************)
EXTENDS RoomViews, FiniteSetTheorems, TLAPS

(* Day and Night are what arithmetic expects. *)
LEMMA DayFacts == /\ Day \subseteq Nat /\ Night \subseteq Day /\ 0 \in Day
BY ReservationAssumption DEF Day, Night

LEMMA IdleNotInFlight == /\ Idle.op = "idle" /\ Idle \notin InFlight
                         /\ \A m \in InFlight : m.op \in {"move", "confirm", "noShow", "checkOut", "block"}
BY DEF Idle, InFlight, MoveRequest, StatusRequest, CheckOutRequest, BlockRequest

(* The record a handler keeps, by the operation it performs. *)
LEMMA RequestShape ==
  ASSUME TypeOK, NEW q \in Request
  PROVE  /\ req[q].op = "move" => req[q] \in MoveRequest
         /\ req[q].op \in {"confirm", "noShow"} => req[q] \in StatusRequest
         /\ req[q].op = "checkOut" => req[q] \in CheckOutRequest
         /\ req[q].op = "block" => req[q] \in BlockRequest
<1>1. req[q] \in InFlight \cup {Idle}
  BY DEF TypeOK
<1>2. QED
  BY <1>1 DEF Idle, InFlight, MoveRequest, StatusRequest, CheckOutRequest, BlockRequest

LEMMA StayRowsType ==
  ASSUME NEW b, NEW R, NEW in, NEW out
  PROVE  StayRows(b, R, in, out) \subseteq BookingRoom
BY DEF StayRows

--------------------------------------------------------------------------------
(* Every step keeps the tables and the handlers well typed. *)
LEMMA NextTypeOK == TypeOK /\ [Next]_vars => TypeOK'
<1> SUFFICES ASSUME TypeOK, [Next]_vars PROVE TypeOK'
  OBVIOUS
<1>1. ASSUME NEW b \in Booking, NEW R \in SUBSET Room, NEW in \in Day, NEW out \in Day,
             NEW initial \in {"TENTATIVE", "CONFIRMED"}, CreateBooking(b, R, in, out, initial)
      PROVE  TypeOK'
  BY <1>1, StayRowsType DEF TypeOK, CreateBooking, BookingStatus, Interval
<1>2. ASSUME NEW b \in Booking, CheckIn(b) PROVE TypeOK'
  BY <1>2 DEF TypeOK, CheckIn, BookingStatus
<1>3. ASSUME NEW b \in Booking, Cancel(b) PROVE TypeOK'
  BY <1>3 DEF TypeOK, Cancel, BookingStatus
<1>4. ASSUME NEW k \in blocks, DeleteBlock(k) PROVE TypeOK'
  BY <1>4 DEF TypeOK, DeleteBlock
<1>5. ASSUME NEW room \in Room, SetCleanliness(room) PROVE TypeOK'
  BY <1>5 DEF TypeOK, SetCleanliness
<1>6. ASSUME NEW q \in Request, NEW b \in Booking, NEW given \in MoveInput,
             NEW room \in Room, NEW in \in Day, NEW out \in Day,
             MoveRead(q, b, given, room, in, out)
      PROVE  TypeOK'
  <2>1. PICK target \in IF "room" \in given THEN {room} ELSE RoomsOf(b) :
          LET from == DateOr(given, "checkIn", in, stay[b].checkIn)
              to == DateOr(given, "checkOut", out, stay[b].checkOut)
          IN /\ from < to
             /\ req' = [req EXCEPT ![q] =
                          [op |-> "move", booking |-> b, foundOpen |-> status[b] \notin Closed,
                           given |-> given, room |-> target,
                           checkIn |-> from, checkOut |-> to]]
    BY <1>6 DEF TypeOK, MoveRead
  <2>2. target \in Room
    BY DEF TypeOK, RoomsOf, RowsOf, BookingRoom
  <2>3. stay[b].checkIn \in Day /\ stay[b].checkOut \in Day
    BY DEF TypeOK, Interval
  <2>4. req' \in [Request -> InFlight \cup {Idle}]
    BY <2>1, <2>2, <2>3 DEF TypeOK, InFlight, MoveRequest, DateOr
  <2>5. QED
    BY <1>6, <2>4 DEF TypeOK, MoveRead
<1>7. ASSUME NEW q \in Request, NEW b \in Booking, CheckOutUpdate(q, b) PROVE TypeOK'
  <2>1. RoomsOf(b) \subseteq Room
    BY DEF TypeOK, RoomsOf, RowsOf, BookingRoom
  <2>2. QED
    BY <1>7, <2>1 DEF TypeOK, CheckOutUpdate, InFlight, CheckOutRequest, BookingStatus
<1>8. ASSUME NEW q \in Request, NEW b \in Booking, ConfirmRead(q, b) PROVE TypeOK'
  BY <1>8 DEF TypeOK, ConfirmRead, InFlight, StatusRequest
<1>9. ASSUME NEW q \in Request, NEW b \in Booking, NEW allowed, NoShowRead(q, b, allowed)
      PROVE  TypeOK'
  BY <1>9 DEF TypeOK, NoShowRead, InFlight, StatusRequest
<1>10. ASSUME NEW q \in Request, NEW room \in Room, NEW start \in Day, NEW end \in Day,
              BlockRead(q, room, start, end)
       PROVE  TypeOK'
  BY <1>10 DEF TypeOK, BlockRead, InFlight, BlockRequest
<1>11. ASSUME NEW q \in Request, MoveCommit(q) PROVE TypeOK'
  <2>1. req[q] \in MoveRequest
    BY <1>11, RequestShape DEF TypeOK, MoveCommit
  <2>2. QED
    BY <1>11, <2>1, StayRowsType DEF TypeOK, MoveCommit, MovedRows, MoveRequest, Interval
<1>12. ASSUME NEW q \in Request, MoveConflict(q) PROVE TypeOK'
  BY <1>12 DEF TypeOK, MoveConflict
<1>13. ASSUME NEW q \in Request, CheckOutRooms(q) PROVE TypeOK'
  BY <1>13, RequestShape DEF TypeOK, CheckOutRooms, CheckOutRequest
<1>14. ASSUME NEW q \in Request, ConfirmCommit(q) PROVE TypeOK'
  BY <1>14, RequestShape DEF TypeOK, ConfirmCommit, StatusRequest, BookingStatus
<1>15. ASSUME NEW q \in Request, NoShowCommit(q) PROVE TypeOK'
  BY <1>15, RequestShape DEF TypeOK, NoShowCommit, StatusRequest, BookingStatus
<1>16. ASSUME NEW q \in Request, NEW id \in BlockId, BlockCommit(q, id) PROVE TypeOK'
  BY <1>16, RequestShape DEF TypeOK, BlockCommit, BlockRequest, MaintenanceBlock
<1>17. ASSUME NEW q \in Request, Abandon(q) PROVE TypeOK'
  BY <1>17 DEF TypeOK, Abandon
<1>18. CASE UNCHANGED vars
  BY <1>18 DEF TypeOK, vars
<1>19. Immediate => TypeOK'
  BY <1>1, <1>2, <1>3, <1>4, <1>5 DEF Immediate
<1>20. ASSUME NEW q \in Request, ReceiveMove(q) \/ ReceiveOther(q) PROVE TypeOK'
  BY <1>6, <1>7, <1>8, <1>9, <1>10, <1>20 DEF ReceiveMove, ReceiveOther
<1>21. ASSUME NEW q \in Request, Proceed(q) PROVE TypeOK'
  BY <1>11, <1>12, <1>13, <1>14, <1>15, <1>16, <1>21 DEF Proceed
<1>22. QED
  BY <1>17, <1>18, <1>19, <1>20, <1>21 DEF Next, Steady, SteadyNoMove

LEMMA InitTypeOK == Init => TypeOK
BY DayFacts DEF Init, TypeOK, Interval

(* Type correctness of the tables and of what the handlers hold. *)
THEOREM TypeCorrect == Spec => []TypeOK
<1>1. QED
  BY InitTypeOK, NextTypeOK, PTL DEF Spec

--------------------------------------------------------------------------------
(* What a step can do to the nights, whichever handler takes it. *)

NothingReleased == \A c \in Booking : status'[c] \in Released => status'[c] = status[c]

(* Booking b ends up with exactly the stay R, in, out: it is created, or a  *)
(* move of it commits.                                                      *)
Takes(b, R, in, out) ==
  /\ ~Clash(rows \ RowsOf(b), StayRows(b, R, in, out))
  /\ rows' = (rows \ RowsOf(b)) \cup StayRows(b, R, in, out)
  /\ stay' = [stay EXCEPT ![b] = [checkIn |-> in, checkOut |-> out]]
  /\ status'[b] # "ABSENT"
  /\ NothingReleased
  /\ Exists(b) => \E q \in Request : MoveCommit(q) /\ req[q].booking = b

(* Booking b gives back all its nights, and is released. *)
GivesBack(b) ==
  /\ rows' = rows \ RowsOf(b)
  /\ stay' = stay
  /\ status'[b] \in Released
  /\ \A c \in Booking : c # b => status'[c] = status[c]

KeepsNights == rows' = rows /\ stay' = stay /\ NothingReleased

SomeTakes ==
  \E b \in Booking, R \in SUBSET Room, in \in Day, out \in Day :
    R # {} /\ in < out /\ Takes(b, R, in, out)

Effect == SomeTakes \/ (\E b \in Booking : GivesBack(b)) \/ KeepsNights

(* No step removes a booking. *)
KeepsBookings == \A b \in Booking : Exists(b) => status'[b] # "ABSENT"

LEMMA CreateEffect ==
  ASSUME IInv, NEW b \in Booking, NEW R \in SUBSET Room, NEW in \in Day, NEW out \in Day,
         NEW initial \in {"TENTATIVE", "CONFIRMED"}, CreateBooking(b, R, in, out, initial)
  PROVE  Effect /\ KeepsBookings
<1>1. RowsOf(b) = {}
  BY DEF IInv, RowsHaveBooking, CreateBooking, RowsOf, Exists, TypeOK, BookingRoom
<1>2. rows \ RowsOf(b) = rows
  BY <1>1
<1>3. Takes(b, R, in, out)
  BY <1>2 DEF CreateBooking, Takes, IInv, TypeOK, NothingReleased, Released
<1>4. R # {} /\ in < out
  BY DEF CreateBooking
<1>5. KeepsBookings
  BY DEF CreateBooking, KeepsBookings, Exists, IInv, TypeOK
<1>6. QED
  BY <1>3, <1>4, <1>5 DEF Effect, SomeTakes

LEMMA MoveEffect ==
  ASSUME IInv, NEW q \in Request, MoveCommit(q)
  PROVE  Effect /\ KeepsBookings
<1> DEFINE m == req[q]
<1>1. m \in MoveRequest
  BY RequestShape DEF MoveCommit, IInv
<1>2. m.booking \in Booking /\ {m.room} \in SUBSET Room /\ m.checkIn \in Day /\ m.checkOut \in Day
  BY <1>1 DEF MoveRequest
<1>3. Exists(m.booking) /\ m.checkIn < m.checkOut
  BY DEF IInv, MovesAreStays, MoveCommit
<1>4. Takes(m.booking, {m.room}, m.checkIn, m.checkOut)
  BY <1>3 DEF MoveCommit, MovedRows, Takes, Exists, NothingReleased
<1>5. KeepsBookings
  BY DEF MoveCommit, KeepsBookings, Exists
<1>6. {m.room} # {}
  OBVIOUS
<1>7. SomeTakes
  BY <1>2, <1>3, <1>4, <1>6 DEF SomeTakes
<1>8. QED
  BY <1>5, <1>7 DEF Effect

LEMMA NextEffect == IInv /\ [Next]_vars => Effect /\ KeepsBookings
<1> SUFFICES ASSUME IInv, [Next]_vars PROVE Effect /\ KeepsBookings
  OBVIOUS
<1> USE DEF Effect, KeepsBookings
<1>1. ASSUME Immediate PROVE Effect /\ KeepsBookings
  <2>1. ASSUME NEW b \in Booking, CheckIn(b) PROVE Effect /\ KeepsBookings
    BY <2>1 DEF CheckIn, KeepsNights, NothingReleased, Released, IInv, TypeOK, Exists
  <2>2. ASSUME NEW b \in Booking, Cancel(b) PROVE Effect /\ KeepsBookings
    BY <2>2 DEF Cancel, GivesBack, Released, IInv, TypeOK, Exists
  <2>3. ASSUME NEW k \in blocks, DeleteBlock(k) PROVE Effect /\ KeepsBookings
    BY <2>3 DEF DeleteBlock, KeepsNights, NothingReleased, Exists
  <2>4. ASSUME NEW room \in Room, SetCleanliness(room) PROVE Effect /\ KeepsBookings
    BY <2>4 DEF SetCleanliness, KeepsNights, NothingReleased, Exists
  <2>5. QED
    BY <1>1, <2>1, <2>2, <2>3, <2>4, CreateEffect DEF Immediate
<1>2. ASSUME NEW q \in Request, ReceiveMove(q) \/ ReceiveOther(q) PROVE Effect /\ KeepsBookings
  <2>1. KeepsNights
    BY <1>2 DEF ReceiveMove, ReceiveOther, MoveRead, CheckOutUpdate, ConfirmRead, NoShowRead, BlockRead, KeepsNights,
                NothingReleased, Released, IInv, TypeOK
  <2>2. \A b \in Booking : status'[b] = status[b] \/ status'[b] = "CHECKED_OUT"
    BY <1>2 DEF ReceiveMove, ReceiveOther, MoveRead, CheckOutUpdate, ConfirmRead, NoShowRead, BlockRead, IInv, TypeOK
  <2>3. QED
    BY <2>1, <2>2 DEF Exists
<1>3. ASSUME NEW q \in Request, Proceed(q) PROVE Effect /\ KeepsBookings
  <2>1. ASSUME NoShowCommit(q) PROVE Effect /\ KeepsBookings
    <3>1. req[q].booking \in Booking
      BY <2>1, RequestShape DEF NoShowCommit, IInv, StatusRequest
    <3>2. QED
      BY <2>1, <3>1 DEF NoShowCommit, GivesBack, Released, IInv, TypeOK, Exists
  <2>2. ASSUME ConfirmCommit(q) PROVE Effect /\ KeepsBookings
    BY <2>2 DEF ConfirmCommit, KeepsNights, NothingReleased, Released, IInv, TypeOK, Exists
  <2>3. CASE MoveConflict(q) \/ CheckOutRooms(q) \/ \E id \in BlockId : BlockCommit(q, id)
    BY <2>3 DEF MoveConflict, CheckOutRooms, BlockCommit, KeepsNights, NothingReleased, Exists
  <2>4. QED
    BY <1>3, <2>1, <2>2, <2>3, MoveEffect DEF Proceed
<1>4. ASSUME NEW q \in Request, Abandon(q) PROVE Effect /\ KeepsBookings
  BY <1>4 DEF Abandon, KeepsNights, NothingReleased, Exists
<1>5. CASE UNCHANGED vars
  BY <1>5 DEF vars, KeepsNights, NothingReleased, Exists
<1>6. QED
  BY <1>1, <1>2, <1>3, <1>4, <1>5 DEF Next, Steady, SteadyNoMove

--------------------------------------------------------------------------------
(* The invariants, from the effect of a step on the nights. *)

LEMMA TakesFacts ==
  ASSUME TypeOK, NEW b \in Booking, NEW R \in SUBSET Room, NEW in \in Day, NEW out \in Day,
         Takes(b, R, in, out)
  PROVE  \A x \in rows' :
           \/ x.booking = b /\ x \in StayRows(b, R, in, out)
           \/ x.booking # b /\ x \in rows
BY DEF Takes, RowsOf, StayRows, TypeOK

LEMMA RowsHaveBookingStep ==
  ASSUME IInv, Effect, KeepsBookings, TypeOK' PROVE RowsHaveBooking'
<1>1. CASE KeepsNights \/ \E b \in Booking : GivesBack(b)
  BY <1>1 DEF KeepsNights, GivesBack, KeepsBookings, Exists, IInv, RowsHaveBooking, TypeOK, BookingRoom
<1>2. ASSUME NEW b \in Booking, NEW R \in SUBSET Room, NEW in \in Day, NEW out \in Day,
             Takes(b, R, in, out)
      PROVE  RowsHaveBooking'
  BY <1>2, TakesFacts
  DEF Takes, KeepsBookings, Exists, IInv, RowsHaveBooking, TypeOK, BookingRoom
<1>3. QED
  BY <1>1, <1>2 DEF Effect, SomeTakes

LEMMA NoDoubleBookingStep ==
  ASSUME IInv, Effect PROVE NoDoubleBooking'
<1>1. CASE KeepsNights \/ \E b \in Booking : GivesBack(b)
  BY <1>1 DEF KeepsNights, GivesBack, IInv, NoDoubleBooking
<1>2. ASSUME NEW b \in Booking, NEW R \in SUBSET Room, NEW in \in Day, NEW out \in Day,
             Takes(b, R, in, out)
      PROVE  NoDoubleBooking'
  <2> SUFFICES ASSUME NEW x \in rows', NEW y \in rows', x.room = y.room, x.date = y.date
               PROVE  x.booking = y.booking
    BY DEF NoDoubleBooking
  <2>1. ASSUME NEW u \in rows, u.booking # b, NEW v \in StayRows(b, R, in, out)
        PROVE  ~(u.room = v.room /\ u.date = v.date)
    BY <1>2, <2>1 DEF Takes, Clash, RowsOf
  <2>2. QED
    BY <1>2, <2>1, TakesFacts DEF IInv, NoDoubleBooking
<1>3. QED
  BY <1>1, <1>2 DEF Effect, SomeTakes

LEMMA NightsCoverStayStep ==
  ASSUME IInv, Effect, TypeOK' PROVE NightsCoverStay'
<1>1. CASE KeepsNights
  BY <1>1 DEF KeepsNights, IInv, NightsCoverStay
<1>2. ASSUME NEW b \in Booking, GivesBack(b) PROVE NightsCoverStay'
  <2> SUFFICES ASSUME NEW x \in rows', NEW n \in Night
               PROVE  [booking |-> x.booking, room |-> x.room, date |-> n] \in rows'
                        <=> stay'[x.booking].checkIn <= n /\ n < stay'[x.booking].checkOut
    BY DEF NightsCoverStay
  <2>1. x \in rows /\ x.booking # b
    BY <1>2 DEF GivesBack, RowsOf
  <2>2. QED
    BY <1>2, <2>1 DEF GivesBack, RowsOf, IInv, NightsCoverStay
<1>3. ASSUME NEW b \in Booking, NEW R \in SUBSET Room, NEW in \in Day, NEW out \in Day,
             Takes(b, R, in, out)
      PROVE  NightsCoverStay'
  <2> SUFFICES ASSUME NEW x \in rows', NEW n \in Night
               PROVE  [booking |-> x.booking, room |-> x.room, date |-> n] \in rows'
                        <=> stay'[x.booking].checkIn <= n /\ n < stay'[x.booking].checkOut
    BY DEF NightsCoverStay
  <2> DEFINE y == [booking |-> x.booking, room |-> x.room, date |-> n]
  <2>0. x \in BookingRoom
    BY DEF TypeOK
  <2>1. CASE x.booking = b /\ x \in StayRows(b, R, in, out)
    <3>1. stay'[b].checkIn = in /\ stay'[b].checkOut = out
      BY <1>3 DEF Takes, IInv, TypeOK
    <3>2. y \in BookingRoom /\ y.booking = b /\ y.room \in R /\ y.date = n
      BY <2>0, <2>1 DEF StayRows, BookingRoom
    <3>3. y \in rows' <=> y \in StayRows(b, R, in, out)
      BY <1>3, <3>2 DEF Takes, RowsOf
    <3>4. QED
      BY <2>1, <3>1, <3>2, <3>3 DEF StayRows
  <2>2. CASE x.booking # b /\ x \in rows
    <3>1. stay'[x.booking] = stay[x.booking]
      BY <1>3, <2>0, <2>2 DEF Takes, IInv, TypeOK, BookingRoom
    <3>2. y \in rows' <=> y \in rows
      BY <1>3, <2>2 DEF Takes, RowsOf, StayRows
    <3>3. QED
      BY <2>2, <3>1, <3>2 DEF IInv, NightsCoverStay
  <2>3. QED
    BY <1>3, <2>1, <2>2, TakesFacts DEF IInv
<1>4. QED
  BY <1>1, <1>2, <1>3 DEF Effect, SomeTakes

(* A move in flight stays sound: bookings are never deleted, and only the   *)
(* read step of moveBooking makes one.                                      *)
LEMMA MovesAreStaysStep ==
  ASSUME IInv, [Next]_vars, KeepsBookings PROVE MovesAreStays'
<1>1. ASSUME NEW q \in Request, req'[q].op = "move", req'[q] = req[q]
      PROVE  status'[req'[q].booking] # "ABSENT" /\ req'[q].checkIn < req'[q].checkOut
  <2>1. req[q].booking \in Booking
    BY <1>1, RequestShape DEF IInv, MoveRequest
  <2>2. QED
    BY <1>1, <2>1 DEF IInv, MovesAreStays, KeepsBookings, Exists
<1>2. CASE UNCHANGED req
  BY <1>1, <1>2 DEF MovesAreStays, Exists
<1>3. ASSUME NEW q \in Request, NEW m, req' = [req EXCEPT ![q] = m],
             m.op = "move" => m.booking \in Booking /\ Exists(m.booking) /\ m.checkIn < m.checkOut
      PROVE  MovesAreStays'
  <2> SUFFICES ASSUME NEW p \in Request, req'[p].op = "move"
               PROVE  status'[req'[p].booking] # "ABSENT" /\ req'[p].checkIn < req'[p].checkOut
    BY DEF MovesAreStays, Exists
  <2>1. CASE p = q
    <3>1. req'[q] = m
      BY <1>3 DEF IInv, TypeOK
    <3>2. QED
      BY <1>3, <2>1, <3>1 DEF KeepsBookings, Exists
  <2>2. CASE p # q
    BY <1>1, <1>3, <2>2 DEF IInv, TypeOK
  <2>3. QED
    BY <2>1, <2>2
<1>4. ASSUME NEW q \in Request, NEW b \in Booking, NEW given \in MoveInput,
             NEW room \in Room, NEW in \in Day, NEW out \in Day,
             MoveRead(q, b, given, room, in, out)
      PROVE  MovesAreStays'
  BY <1>3, <1>4 DEF MoveRead, Movable, BookingStatus, Exists
<1>5. ASSUME NEW q \in Request, ReceiveMove(q) \/ ReceiveOther(q) PROVE MovesAreStays'
  <2>1. ASSUME NEW b \in Booking, CheckOutUpdate(q, b) PROVE MovesAreStays'
    BY <1>3, <2>1 DEF CheckOutUpdate
  <2>2. ASSUME NEW b \in Booking, ConfirmRead(q, b) PROVE MovesAreStays'
    BY <1>3, <2>2 DEF ConfirmRead
  <2>3. ASSUME NEW b \in Booking, NEW allowed, NoShowRead(q, b, allowed) PROVE MovesAreStays'
    BY <1>3, <2>3 DEF NoShowRead
  <2>4. ASSUME NEW room \in Room, NEW start \in Day, NEW end \in Day, BlockRead(q, room, start, end)
        PROVE  MovesAreStays'
    BY <1>3, <2>4 DEF BlockRead
  <2>5. QED
    BY <1>4, <1>5, <2>1, <2>2, <2>3, <2>4 DEF ReceiveMove, ReceiveOther
<1>6. ASSUME NEW q \in Request, Proceed(q) \/ Abandon(q) PROVE MovesAreStays'
  <2>1. req' = [req EXCEPT ![q] = Idle]
    BY <1>6 DEF Proceed, Abandon, MoveCommit, MoveConflict, CheckOutRooms, ConfirmCommit,
                NoShowCommit, BlockCommit
  <2>2. QED
    BY <1>3, <2>1 DEF Idle
<1>7. CASE Immediate \/ UNCHANGED vars
  BY <1>2, <1>7 DEF Immediate, CreateBooking, CheckIn, Cancel, DeleteBlock, SetCleanliness, vars
<1>8. QED
  BY <1>5, <1>6, <1>7 DEF Next, Steady, SteadyNoMove

LEMMA InitIInv == Init => IInv
BY InitTypeOK DEF Init, IInv, RowsHaveBooking, MovesAreStays, NoDoubleBooking, NightsCoverStay, Idle

LEMMA NextIInv == IInv /\ [Next]_vars => IInv'
<1> SUFFICES ASSUME IInv, [Next]_vars PROVE IInv'
  OBVIOUS
<1>1. TypeOK'
  BY NextTypeOK DEF IInv
<1>2. Effect /\ KeepsBookings
  BY NextEffect
<1>3. QED
  BY <1>1, <1>2, RowsHaveBookingStep, MovesAreStaysStep, NoDoubleBookingStep, NightsCoverStayStep
  DEF IInv

(* The inductive invariant holds in every reachable state. *)
THEOREM Invariance == Spec => []IInv
<1>1. QED
  BY InitIInv, NextIInv, PTL DEF Spec

(* No room is let to two bookings on one night. *)
THEOREM NoDoubleBookingHolds == Spec => []NoDoubleBooking
<1>1. IInv => NoDoubleBooking
  BY DEF IInv
<1>2. QED
  BY <1>1, Invariance, PTL

(* The nights of a booking are those of its dates, in each of its rooms. *)
THEOREM NightsCoverStayHolds == Spec => []NightsCoverStay
<1>1. IInv => NightsCoverStay
  BY DEF IInv
<1>2. QED
  BY <1>1, Invariance, PTL

--------------------------------------------------------------------------------
(* What a step may do to released bookings. *)

(* The nights of a booking go only with its release, and go completely. *)
THEOREM ReleaseIsAtomicHolds == Spec => ReleaseIsAtomic
<1>1. ASSUME IInv, [Next]_vars, NEW b \in Booking
      PROVE  /\ (RowsOf(b) # {} /\ RowsOf(b)' = {}) => status'[b] \in Released
             /\ (status'[b] # status[b] /\ status'[b] \in Released) => RowsOf(b)' = {}
  <2>1. Effect
    BY <1>1, NextEffect
  <2>2. CASE KeepsNights
    BY <2>2 DEF KeepsNights, NothingReleased, RowsOf
  <2>3. CASE \E c \in Booking : GivesBack(c)
    BY <2>3 DEF GivesBack, RowsOf
  <2>4. ASSUME NEW c \in Booking, NEW R \in SUBSET Room, NEW in \in Day, NEW out \in Day,
               R # {}, in < out, Takes(c, R, in, out)
        PROVE  /\ RowsOf(b) # {} => RowsOf(b)' # {}
               /\ status'[b] \in Released => status'[b] = status[b]
    <3>1. status'[b] \in Released => status'[b] = status[b]
      BY <2>4 DEF Takes, NothingReleased
    <3>2. CASE c # b
      BY <2>4, <3>1, <3>2 DEF Takes, RowsOf, StayRows
    <3>3. CASE c = b
      <4>1. PICK room \in R : TRUE
        BY <2>4
      <4>2. in \in Night
        BY <2>4, ReservationAssumption DEF Day, Night
      <4>3. [booking |-> b, room |-> room, date |-> in] \in StayRows(b, R, in, out)
        BY <2>4, <4>1, <4>2, DayFacts DEF StayRows, BookingRoom
      <4>4. QED
        BY <2>4, <3>1, <3>3, <4>3 DEF Takes, RowsOf
    <3>4. QED
      BY <3>1, <3>2, <3>3
  <2>5. QED
    BY <2>1, <2>2, <2>3, <2>4 DEF Effect, SomeTakes
<1>2. IInv /\ [Next]_vars =>
        [\A b \in Booking :
           /\ (RowsOf(b) # {} /\ RowsOf(b)' = {}) => status'[b] \in Released
           /\ (status'[b] # status[b] /\ status'[b] \in Released) => RowsOf(b)' = {}]_vars
  BY <1>1
<1>3. QED
  BY <1>2, Invariance, PTL DEF Spec, ReleaseIsAtomic

(* A move in flight had found its booking open: the test and the read are   *)
(* one query, and no later step of the handler reads again.                 *)
MovesFoundOpen == \A q \in Request : req[q].op = "move" => req[q].foundOpen

LEMMA MovesFoundOpenHolds == Spec => []MovesFoundOpen
<1>1. Init => MovesFoundOpen
  BY DEF Init, MovesFoundOpen, Idle
<1>2. IInv /\ MovesFoundOpen /\ [Next]_vars => MovesFoundOpen'
  <2> SUFFICES ASSUME IInv, MovesFoundOpen, [Next]_vars PROVE MovesFoundOpen'
    OBVIOUS
  <2>1. CASE UNCHANGED req
    BY <2>1 DEF MovesFoundOpen
  <2>2. ASSUME NEW q \in Request, NEW m, req' = [req EXCEPT ![q] = m],
               m.op = "move" => m.foundOpen
        PROVE  MovesFoundOpen'
    BY <2>2 DEF MovesFoundOpen, IInv, TypeOK
  <2>3. ASSUME NEW q \in Request, ReceiveMove(q) PROVE MovesFoundOpen'
    <3>1. PICK b \in Booking, given \in MoveInput, room \in Room, in \in Day, out \in Day :
            MoveRead(q, b, given, room, in, out)
      BY <2>3 DEF ReceiveMove
    <3>2. status[b] \notin Closed
      BY <3>1 DEF MoveRead, Movable, Closed
    <3> DEFINE m(target) ==
                 [op |-> "move", booking |-> b, foundOpen |-> status[b] \notin Closed,
                  given |-> given, room |-> target,
                  checkIn |-> DateOr(given, "checkIn", in, stay[b].checkIn),
                  checkOut |-> DateOr(given, "checkOut", out, stay[b].checkOut)]
    <3>3. PICK target : req' = [req EXCEPT ![q] = m(target)]
      BY <3>1 DEF MoveRead
    <3>4. m(target).foundOpen
      BY <3>2
    <3> HIDE DEF m
    <3>5. QED
      BY <2>2, <3>3, <3>4
  <2>4. ASSUME NEW q \in Request, ReceiveOther(q) PROVE MovesFoundOpen'
    BY <2>2, <2>4 DEF ReceiveOther, CheckOutUpdate, ConfirmRead, NoShowRead, BlockRead
  <2>5. ASSUME NEW q \in Request, Proceed(q) \/ Abandon(q) PROVE MovesFoundOpen'
    <3>1. req' = [req EXCEPT ![q] = Idle]
      BY <2>5 DEF Proceed, Abandon, MoveCommit, MoveConflict, CheckOutRooms, ConfirmCommit,
                  NoShowCommit, BlockCommit
    <3>2. QED
      BY <2>2, <3>1 DEF Idle
  <2>6. CASE Immediate \/ UNCHANGED vars
    BY <2>1, <2>6 DEF Immediate, CreateBooking, CheckIn, Cancel, DeleteBlock, SetCleanliness, vars
  <2>7. QED
    BY <2>3, <2>4, <2>5, <2>6 DEF Next, Steady, SteadyNoMove
<1>3. QED
  BY <1>1, <1>2, Invariance, PTL DEF Spec

(* A closed booking gets nights only from a move that read it open.         *)
THEOREM OnlyStaleMoveReacquiresHolds == Spec => OnlyStaleMoveReacquires
<1>1. ASSUME IInv, MovesFoundOpen, [Next]_vars, NEW b \in Booking,
             status[b] \in Closed, ~(RowsOf(b)' \subseteq RowsOf(b))
      PROVE  \E q \in Request : /\ req[q].op = "move" /\ req[q].booking = b
                                /\ req[q].foundOpen
                                /\ req'[q] = Idle
  <2>1. ~KeepsNights /\ ~\E c \in Booking : GivesBack(c)
    BY <1>1 DEF KeepsNights, GivesBack, RowsOf
  <2>2. PICK c \in Booking, R \in SUBSET Room, in \in Day, out \in Day : Takes(c, R, in, out)
    BY <1>1, <2>1, NextEffect DEF Effect, SomeTakes
  <2>3. c = b
    BY <1>1, <2>2 DEF Takes, RowsOf, StayRows
  <2>4. PICK q \in Request : MoveCommit(q) /\ req[q].booking = b
    BY <1>1, <2>2, <2>3 DEF Takes, Exists, Closed
  <2>5. req'[q] = Idle
    BY <1>1, <2>4 DEF MoveCommit, IInv, TypeOK
  <2>6. QED
    BY <1>1, <2>4, <2>5 DEF MoveCommit, MovesFoundOpen
<1>2. IInv /\ MovesFoundOpen /\ [Next]_vars =>
        [\A b \in Booking :
           (status[b] \in Closed /\ ~(RowsOf(b)' \subseteq RowsOf(b)))
             => \E q \in Request : /\ req[q].op = "move" /\ req[q].booking = b
                                   /\ req[q].foundOpen
                                   /\ req'[q] = Idle]_vars
  BY <1>1
<1>3. QED
  BY <1>2, Invariance, MovesFoundOpenHolds, PTL DEF Spec, OnlyStaleMoveReacquires

(* With moves switched off, released bookings hold no nights: a step that   *)
(* takes nights without a move is a create, of a booking that was absent.   *)
NoMoveInv == /\ IInv
             /\ ReleasedHoldsNothing
             /\ \A q \in Request : req[q].op # "move"

LEMMA NoMoveStep == NoMoveInv /\ [NoMoveNext]_vars => NoMoveInv'
<1> SUFFICES ASSUME NoMoveInv, [NoMoveNext]_vars PROVE NoMoveInv'
  OBVIOUS
<1>1. [Next]_vars
  BY DEF NoMoveNext, Next, Steady
<1>2. IInv'
  BY <1>1, NextIInv DEF NoMoveInv
<1>3. \A q \in Request : req'[q].op # "move"
  <2>1. req \in [Request -> InFlight \cup {Idle}] /\ \A q \in Request : req[q].op # "move"
    BY DEF NoMoveInv, IInv, TypeOK
  <2>2. CASE Immediate \/ UNCHANGED vars
    BY <2>1, <2>2 DEF Immediate, CreateBooking, CheckIn, Cancel, DeleteBlock, SetCleanliness, vars
  <2>3. ASSUME NEW q \in Request, ReceiveOther(q) PROVE \A k \in Request : req'[k].op # "move"
    BY <2>1, <2>3 DEF ReceiveOther, CheckOutUpdate, ConfirmRead, NoShowRead, BlockRead
  <2>4. ASSUME NEW q \in Request, Proceed(q) \/ Abandon(q)
        PROVE  \A k \in Request : req'[k].op # "move"
    BY <2>1, <2>4 DEF Proceed, Abandon, MoveCommit, MoveConflict, CheckOutRooms, ConfirmCommit,
         NoShowCommit, BlockCommit, Idle
  <2>5. QED
    BY <2>2, <2>3, <2>4 DEF NoMoveNext, SteadyNoMove
<1>4. ReleasedHoldsNothing'
  <2>1. ASSUME NEW b \in Booking, NEW R \in SUBSET Room, NEW in \in Day, NEW out \in Day,
               Takes(b, R, in, out)
        PROVE  ReleasedHoldsNothing'
    <3>1. status[b] = "ABSENT"
      BY <2>1 DEF Takes, Exists, MoveCommit, NoMoveInv
    <3>2. status'[b] \notin Released
      BY <2>1, <3>1 DEF Takes, NothingReleased
    <3>3. ASSUME NEW c \in Booking, c # b, status'[c] \in Released PROVE RowsOf(c)' = {}
      BY <2>1, <3>3 DEF Takes, NothingReleased, NoMoveInv, ReleasedHoldsNothing, RowsOf, StayRows
    <3>4. QED
      BY <3>2, <3>3 DEF ReleasedHoldsNothing
  <2>2. CASE KeepsNights \/ \E b \in Booking : GivesBack(b)
    BY <2>2 DEF KeepsNights, NothingReleased, GivesBack, NoMoveInv, ReleasedHoldsNothing, RowsOf
  <2>3. Effect
    BY <1>1, NextEffect DEF NoMoveInv
  <2>4. QED
    BY <2>1, <2>2, <2>3 DEF Effect, SomeTakes
<1>5. QED
  BY <1>2, <1>3, <1>4 DEF NoMoveInv

THEOREM ReleasedHoldsNothingHolds == NoMoveSpec => []ReleasedHoldsNothing
<1>1. Init => NoMoveInv
  BY InitIInv DEF Init, NoMoveInv, ReleasedHoldsNothing, RowsOf, Idle
<1>2. NoMoveInv => ReleasedHoldsNothing
  BY DEF NoMoveInv
<1>3. QED
  BY <1>1, <1>2, NoMoveStep, PTL DEF NoMoveSpec

--------------------------------------------------------------------------------
(* One request at a time. *)

(* What a step does to the moves in flight, when only one handler is.       *)
LEMMA SerialMoves ==
  ASSUME IInv, MovesAreFresh, [SerialNext]_vars
  PROVE  MovesAreFresh'
<1>1. CASE UNCHANGED vars
  BY <1>1 DEF vars, MovesAreFresh
<1>2. ASSUME Next, \A q \in Request : req[q] # Idle => req'[q] # req[q]
      PROVE  MovesAreFresh'
  <2>1. req \in [Request -> InFlight \cup {Idle}]
    BY DEF IInv, TypeOK
  <2>2. CASE Immediate
    <3>1. req' = req
      BY <2>2 DEF Immediate, CreateBooking, CheckIn, Cancel, DeleteBlock, SetCleanliness
    <3> QED
      BY <1>2, <3>1 DEF MovesAreFresh, Idle
  <2>3. ASSUME NEW q \in Request, ReceiveMove(q) PROVE MovesAreFresh'
    <3>1. PICK b \in Booking, given \in MoveInput, room \in Room, in \in Day, out \in Day :
            MoveRead(q, b, given, room, in, out)
      BY <2>3 DEF ReceiveMove
    <3>2. \A p \in Request : p # q => req'[p] = req[p]
      BY <2>1, <3>1 DEF MoveRead
    <3>3. \A p \in Request : p # q => req'[p].op # "move"
      BY <1>2, <3>2 DEF Idle
    <3>4. /\ req'[q].booking = b /\ req'[q].given = given
          /\ req'[q].checkIn = DateOr(given, "checkIn", in, stay[b].checkIn)
          /\ req'[q].checkOut = DateOr(given, "checkOut", out, stay[b].checkOut)
      BY <2>1, <3>1 DEF MoveRead
    <3>5. status[b] # "CANCELLED" /\ status' = status /\ stay' = stay
      BY <3>1 DEF MoveRead, Movable
    <3> QED
      BY <3>3, <3>4, <3>5 DEF MovesAreFresh, DateOr
  <2>4. ASSUME NEW q \in Request, ReceiveOther(q) \/ Proceed(q) \/ Abandon(q)
        PROVE  MovesAreFresh'
    <3>1. req'[q].op # "move"
      BY <2>1, <2>4 DEF ReceiveOther, CheckOutUpdate, ConfirmRead, NoShowRead, BlockRead, Proceed,
           Abandon, MoveCommit, MoveConflict, CheckOutRooms, ConfirmCommit, NoShowCommit,
           BlockCommit, Idle
    <3>2. \A p \in Request : p # q => req'[p] = req[p]
      BY <2>1, <2>4 DEF ReceiveOther, CheckOutUpdate, ConfirmRead, NoShowRead, BlockRead, Proceed,
           Abandon, MoveCommit, MoveConflict, CheckOutRooms, ConfirmCommit, NoShowCommit,
           BlockCommit
    <3>3. \A p \in Request : p # q => req'[p].op # "move"
      BY <1>2, <3>2 DEF Idle
    <3> QED
      BY <3>1, <3>3 DEF MovesAreFresh
  <2> QED
    BY <1>2, <2>2, <2>3, <2>4 DEF Next, Steady, SteadyNoMove
<1> QED
  BY <1>1, <1>2 DEF SerialNext

LEMMA TakenIsNotCancelled ==
  ASSUME IInv, MovesAreFresh, [Next]_vars, NEW b \in Booking, NEW R \in SUBSET Room,
         NEW in \in Day, NEW out \in Day, Takes(b, R, in, out)
  PROVE  status'[b] # "CANCELLED"
<1>1. status'[b] = "CANCELLED" => status[b] = "CANCELLED"
  BY DEF Takes, NothingReleased, Released
<1>2. status[b] = "CANCELLED" => \E q \in Request : MoveCommit(q) /\ req[q].booking = b
  BY DEF Takes, Exists
<1> QED
  BY <1>1, <1>2 DEF MoveCommit, MovesAreFresh

LEMMA SerialReleased ==
  ASSUME IInv, MovesAreFresh, CancelledHoldsNothing, [Next]_vars
  PROVE  CancelledHoldsNothing'
<1> SUFFICES ASSUME NEW b \in Booking, status'[b] = "CANCELLED" PROVE RowsOf(b)' = {}
  BY DEF CancelledHoldsNothing
<1>1. ASSUME NEW c \in Booking, NEW R \in SUBSET Room, NEW in \in Day, NEW out \in Day,
             Takes(c, R, in, out)
      PROVE  RowsOf(b)' = {}
  <2>1. c # b /\ status[b] = "CANCELLED"
    BY <1>1, TakenIsNotCancelled DEF Takes, NothingReleased, Released
  <2> QED
    BY <1>1, <2>1 DEF Takes, CancelledHoldsNothing, RowsOf, StayRows
<1>2. CASE KeepsNights
  BY <1>2 DEF KeepsNights, NothingReleased, Released, CancelledHoldsNothing, RowsOf
<1>3. ASSUME NEW c \in Booking, GivesBack(c) PROVE RowsOf(b)' = {}
  BY <1>3 DEF GivesBack, CancelledHoldsNothing, RowsOf
<1> QED
  BY <1>1, <1>2, <1>3, NextEffect DEF Effect, SomeTakes

LEMMA SerialInvariance == SerialSpec => [](IInv /\ SerialInv)
<1>1. Init => SerialInv
  BY DEF Init, SerialInv, MovesAreFresh, CancelledHoldsNothing, RowsOf, Idle
<1>2. [SerialNext]_vars => [Next]_vars
  BY DEF SerialNext
<1>3. IInv /\ SerialInv /\ [SerialNext]_vars => SerialInv'
  BY <1>2, SerialMoves, SerialReleased DEF SerialInv
<1> QED
  BY <1>1, <1>2, <1>3, InitIInv, NextIInv, PTL DEF SerialSpec

(* When requests do not overlap, a cancelled booking holds no nights        *)
(* (engine.ts:508).                                                         *)
THEOREM CancelledHoldsNothingHolds == SerialSpec => []CancelledHoldsNothing
<1>1. SerialInv => CancelledHoldsNothing
  BY DEF SerialInv
<1> QED
  BY <1>1, SerialInvariance, PTL

(* When requests do not overlap, a move leaves the dates it was not given   *)
(* as they are (moveBooking).                                               *)
THEOREM MoveKeepsOtherDatesHolds == SerialSpec => MoveKeepsOtherDates
<1> DEFINE Kept(q) ==
      LET m == req[q] IN
      /\ "checkIn" \in m.given \/ stay'[m.booking].checkIn = stay[m.booking].checkIn
      /\ "checkOut" \in m.given \/ stay'[m.booking].checkOut = stay[m.booking].checkOut
<1>1. ASSUME IInv, SerialInv, SerialNext, NEW q \in Request, req[q].op = "move", stay' # stay
      PROVE  Kept(q)
  <2>1. req'[q] # req[q]
    BY <1>1 DEF SerialNext, Idle
  <2>2. req \in [Request -> InFlight \cup {Idle}] /\ stay \in [Booking -> Interval]
    BY <1>1 DEF IInv, TypeOK
  <2>3. ~\E p \in Request : ReceiveMove(p) \/ ReceiveOther(p) \/ Abandon(p)
    BY <1>1 DEF ReceiveMove, ReceiveOther, MoveRead, CheckOutUpdate, ConfirmRead, NoShowRead,
                BlockRead, Abandon
  <2>4. ~Immediate
    BY <2>1 DEF Immediate, CreateBooking, CheckIn, Cancel, DeleteBlock, SetCleanliness
  <2>5. PICK p \in Request : Proceed(p)
    BY <1>1, <2>3, <2>4 DEF SerialNext, Next, Steady, SteadyNoMove
  <2>6. MoveCommit(p)
    BY <1>1, <2>5 DEF Proceed, MoveConflict, CheckOutRooms, ConfirmCommit, NoShowCommit, BlockCommit
  <2>7. p = q
    BY <2>1, <2>2, <2>6 DEF MoveCommit
  <2>8. req[q].booking \in Booking
    BY <1>1, RequestShape DEF IInv, MoveRequest
  <2>9. /\ stay'[req[q].booking].checkIn = req[q].checkIn
        /\ stay'[req[q].booking].checkOut = req[q].checkOut
    BY <2>2, <2>6, <2>7, <2>8 DEF MoveCommit
  <2> QED
    BY <1>1, <2>9 DEF SerialInv, MovesAreFresh
<1>2. IInv /\ SerialInv /\ [SerialNext]_vars =>
        [\A q \in Request : (req[q].op = "move" /\ stay' # stay) => Kept(q)]_vars
  BY <1>1
<1> QED
  BY <1>2, SerialInvariance, PTL DEF SerialSpec, MoveKeepsOtherDates

--------------------------------------------------------------------------------
(* What the pages show. *)

LEMMA AtMostOne ==
  ASSUME NEW S, \A a, b \in S : a = b
  PROVE  Cardinality(S) <= 1
<1>1. CASE S = {}
  BY <1>1, FS_EmptySet
<1>2. ASSUME NEW a \in S PROVE Cardinality(S) <= 1
  <2>1. S = {a}
    OBVIOUS
  <2> QED
    BY <2>1, FS_Singleton
<1> QED
  BY <1>1, <1>2

(* A booking has a room for the nights of its dates, which are a stay, and  *)
(* for no other.                                                            *)
LEMMA RoomOfBooking ==
  ASSUME IInv, NEW b \in Booking, NEW room \in RoomsOf(b)
  PROVE  /\ room \in Room /\ stay[b].checkIn \in Nat /\ stay[b].checkOut \in Nat
         /\ stay[b].checkIn < stay[b].checkOut /\ stay[b].checkOut <= Horizon
         /\ \A n \in Int : [booking |-> b, room |-> room, date |-> n] \in rows
                             <=> stay[b].checkIn <= n /\ n < stay[b].checkOut
<1>1. PICK x \in rows : x.booking = b /\ x.room = room
  BY DEF RoomsOf, RowsOf
<1>2. x = [booking |-> b, room |-> room, date |-> x.date] /\ room \in Room /\ x.date \in Night
  BY <1>1 DEF IInv, TypeOK, BookingRoom
<1>3. stay[b].checkIn \in Day /\ stay[b].checkOut \in Day
  BY DEF IInv, TypeOK, Interval
<1>4. /\ stay[b].checkIn \in Nat /\ stay[b].checkOut \in Nat
      /\ stay[b].checkOut <= Horizon /\ Horizon \in Nat
  BY <1>3, ReservationAssumption DEF Day
<1>5. \A n \in Night : [booking |-> b, room |-> room, date |-> n] \in rows
                         <=> stay[b].checkIn <= n /\ n < stay[b].checkOut
  BY <1>1 DEF IInv, NightsCoverStay
<1>6. x.date \in Nat /\ stay[b].checkIn <= x.date /\ x.date < stay[b].checkOut
  BY <1>1, <1>2, <1>5, DayFacts
<1>7. ASSUME NEW n \in Int, n \notin Night
      PROVE  /\ [booking |-> b, room |-> room, date |-> n] \notin rows
             /\ ~(stay[b].checkIn <= n /\ n < stay[b].checkOut)
  <2>1. [booking |-> b, room |-> room, date |-> n] \notin BookingRoom
    BY <1>7 DEF BookingRoom
  <2> QED
    BY <1>4, <1>7, <2>1 DEF IInv, TypeOK, Night
<1> QED
  BY <1>2, <1>4, <1>5, <1>6, <1>7

(* When requests do not overlap, the bars of the calendar are the nights    *)
(* held, on every page (TapeChart, calendar/page.tsx).                      *)
THEOREM CalendarIsTrueHolds == SerialSpec => []CalendarIsTrue
<1>1. ASSUME IInv, CancelledHoldsNothing, NEW b \in Booking \ Listed
      PROVE  RowsOf(b) = {}
  BY <1>1 DEF IInv, RowsHaveBooking, Exists, CancelledHoldsNothing, Listed, RowsOf
<1>2. ASSUME IInv, NEW chart \in Charts, NEW days \in PageLength, NEW today \in Night,
             NEW offset \in Offset, NEW b \in Listed,
             NEW day \in Dates(FirstDay(today, days, offset), days)
      PROVE  day \in Drawn(stay[b].checkIn, stay[b].checkOut, FirstDay(today, days, offset), days)
               <=> [booking |-> b, room |-> chart[b], date |-> day] \in rows
  <2> DEFINE first == FirstDay(today, days, offset)
  <2>1. days \in Nat /\ today \in Nat /\ offset \in Int
    BY RoomViewsAssumption, ReservationAssumption, DayFacts DEF Offset
  <2>2. first \in Int
    BY <2>1 DEF FirstDay
  <2>3. chart[b] \in RoomsOf(b) /\ b \in Booking
    BY DEF Charts, Listed
  <2> HIDE DEF first
  <2>4. day \in Int /\ first <= day /\ day < first + days
    BY <2>1, <2>2 DEF Dates, first
  <2>5. /\ stay[b].checkIn \in Nat /\ stay[b].checkOut \in Nat
        /\ [booking |-> b, room |-> chart[b], date |-> day] \in rows
             <=> stay[b].checkIn <= day /\ day < stay[b].checkOut
    BY <1>2, <2>3, <2>4, RoomOfBooking
  <2>6. day \in Drawn(stay[b].checkIn, stay[b].checkOut, first, days)
          <=> stay[b].checkIn <= day /\ day < stay[b].checkOut
    BY <2>1, <2>2, <2>4, <2>5 DEF Drawn, Larger, Smaller
  <2> QED
    BY <2>5, <2>6 DEF first
<1>3. IInv /\ SerialInv => CalendarIsTrue
  BY <1>1, <1>2 DEF CalendarIsTrue, SerialInv
<1> QED
  BY <1>3, SerialInvariance, PTL

(* Who is in a room tonight, who comes and who leaves. *)
LEMMA BoardAgrees ==
  ASSUME IInv, NEW room \in Room, NEW today \in Day
  PROVE  /\ \A group \in {Occupants(room, today), Arriving(room, today), Departing(room, today)} :
              Cardinality(group) <= 1
         /\ Occupants(room, today) \cap Departing(room, today) = {}
         /\ \A b \in Arriving(room, today) :
              Occupants(room, today) = IF status[b] = "CONFIRMED" THEN {b} ELSE {}
<1> DEFINE row(b, n) == [booking |-> b, room |-> room, date |-> n]
<1>1. today \in Nat
  BY DayFacts
<1>2. \A b \in Occupants(room, today) :
        /\ b \in Booking /\ row(b, today) \in rows /\ room \in RoomsOf(b)
        /\ status[b] \in {"CONFIRMED", "CHECKED_IN"}
  <2> TAKE b \in Occupants(room, today)
  <2>1. PICK x \in rows : /\ x.booking = b /\ x.room = room /\ x.date = today
                          /\ status[b] \in {"CONFIRMED", "CHECKED_IN"}
    BY DEF Occupants, Tonight
  <2>2. x \in BookingRoom
    BY DEF IInv, TypeOK
  <2>3. x = row(b, today) /\ b \in Booking
    BY <2>1, <2>2 DEF BookingRoom
  <2>4. room \in RoomsOf(b)
    BY <2>1 DEF RoomsOf, RowsOf
  <2> QED
    BY <2>1, <2>3, <2>4
<1>3. \A b \in Arriving(room, today) :
        /\ b \in Booking /\ row(b, today) \in rows
        /\ status[b] \in {"CONFIRMED", "TENTATIVE"}
  <2> TAKE b \in Arriving(room, today)
  <2>1. /\ b \in Booking /\ room \in RoomsOf(b) /\ stay[b].checkIn = today
        /\ status[b] \in {"CONFIRMED", "TENTATIVE"}
    BY DEF Arriving, Arrivals
  <2>2. /\ stay[b].checkOut \in Nat /\ today < stay[b].checkOut
        /\ \A n \in Int : row(b, n) \in rows <=> today <= n /\ n < stay[b].checkOut
    BY <2>1, RoomOfBooking
  <2> QED
    BY <1>1, <2>1, <2>2
<1>4. \A b \in Departing(room, today) :
        /\ b \in Booking /\ room \in RoomsOf(b) /\ row(b, today) \notin rows
        /\ row(b, today - 1) \in rows
  <2> TAKE b \in Departing(room, today)
  <2>1. b \in Booking /\ room \in RoomsOf(b) /\ stay[b].checkOut = today
    BY DEF Departing, Departures
  <2>2. /\ stay[b].checkIn \in Nat /\ stay[b].checkIn < today
        /\ \A n \in Int : row(b, n) \in rows <=> stay[b].checkIn <= n /\ n < today
    BY <2>1, RoomOfBooking
  <2>3. today \in Int /\ today - 1 \in Int /\ stay[b].checkIn <= today - 1
    BY <1>1, <2>2
  <2> QED
    BY <1>1, <2>1, <2>2, <2>3
<1>5. \A b, c \in Booking, n \in Int : row(b, n) \in rows /\ row(c, n) \in rows => b = c
  BY DEF IInv, NoDoubleBooking
<1> HIDE DEF row
<1>6. \A group \in {Occupants(room, today), Arriving(room, today), Departing(room, today)} :
        Cardinality(group) <= 1
  <2>1. \A b, c \in Occupants(room, today) : b = c
    BY <1>1, <1>2, <1>5
  <2>2. \A b, c \in Arriving(room, today) : b = c
    BY <1>1, <1>3, <1>5
  <2>3. \A b, c \in Departing(room, today) : b = c
    BY <1>1, <1>4, <1>5
  <2> QED
    BY <2>1, <2>2, <2>3, AtMostOne
<1>7. Occupants(room, today) \cap Departing(room, today) = {}
  BY <1>2, <1>4
<1>8. ASSUME NEW b \in Arriving(room, today)
      PROVE  Occupants(room, today) = IF status[b] = "CONFIRMED" THEN {b} ELSE {}
  <2>1. \A c \in Occupants(room, today) : c = b
    BY <1>1, <1>2, <1>3, <1>5
  <2>2. CASE status[b] = "CONFIRMED"
    <3>1. row(b, today) \in Tonight(today)
      BY <1>3, <2>2 DEF Tonight, row
    <3>2. row(b, today).room = room /\ row(b, today).booking = b
      BY DEF row
    <3>3. b \in Occupants(room, today)
      BY <3>1, <3>2 DEF Occupants
    <3> QED
      BY <2>1, <2>2, <3>3
  <2>3. CASE status[b] # "CONFIRMED"
    BY <1>2, <1>3, <2>1, <2>3
  <2> QED
    BY <2>2, <2>3
<1> QED
  BY <1>6, <1>7, <1>8

LEMMA TimesMonotonic ==
  ASSUME NEW a \in Nat, NEW m \in Nat, NEW n \in Nat, m <= n
  PROVE  a * m <= a * n
<1>1. n - m \in Nat /\ a * (n - m) >= 0
  OBVIOUS
<1>2. a * n = a * m + a * (n - m)
  OBVIOUS
<1> QED
  BY <1>1, <1>2

(* A report never counts more nights than the rooms have: each sold night   *)
(* is a room and a date of the period.                                      *)
LEMMA SoldFits ==
  ASSUME IInv, NEW from \in Day, NEW to \in Day
  PROVE  Cardinality(Sold(from, to)) <= RoomNightsAvailable(from, to)
<1>1. from \in Nat /\ to \in Nat /\ IsFiniteSet(Room)
  BY DayFacts, RoomViewsAssumption
<1> DEFINE dates == from..(to - 1)
           at == [x \in Sold(from, to) |-> <<x.room, x.date>>]
<1>2. IsFiniteSet(dates) /\ Cardinality(dates) = IF from <= to - 1 THEN to - from ELSE 0
  BY <1>1, FS_Interval
<1>3. at \in Injection(Sold(from, to), Room \X dates)
  <2>1. \A x \in Sold(from, to) : /\ x \in BookingRoom /\ x \in rows
                                  /\ x.date \in Nat /\ from <= x.date /\ x.date < to
    BY DayFacts DEF Sold, IInv, TypeOK, BookingRoom
  <2>2. \A x \in Sold(from, to) : <<x.room, x.date>> \in Room \X dates
    BY <1>1, <2>1 DEF BookingRoom
  <2>3. \A x, y \in Sold(from, to) : <<x.room, x.date>> = <<y.room, y.date>> => x = y
    BY <2>1 DEF IInv, NoDoubleBooking, BookingRoom
  <2> QED
    BY <2>2, <2>3 DEF Injection, IsInjective
<1>4. IsFiniteSet(Room \X dates) /\ Cardinality(Room \X dates) = Cardinality(Room) * Cardinality(dates)
  BY <1>1, <1>2, FS_Product
<1>5. Cardinality(Sold(from, to)) <= Cardinality(Room) * Cardinality(dates)
  BY <1>3, <1>4, FS_Injection
<1>6. Cardinality(Room) \in Nat
  BY <1>1, FS_CardinalityType
<1>7. Cardinality(dates) \in Nat /\ Cardinality(dates) <= Larger(to - from, 1)
      /\ Larger(to - from, 1) \in Nat
  BY <1>1, <1>2 DEF Larger
<1> HIDE DEF dates
<1>8. Cardinality(Room) * Cardinality(dates) <= Cardinality(Room) * Larger(to - from, 1)
  BY <1>6, <1>7, TimesMonotonic
<1>9. Cardinality(Sold(from, to)) \in Nat
  BY <1>3, <1>4, FS_Injection, FS_CardinalityType
<1> QED
  BY <1>5, <1>6, <1>7, <1>8, <1>9 DEF RoomNightsAvailable

(* The board, tonight's figures and the reports are of one mind, however    *)
(* requests interleave (housekeeping/page.tsx, dashboard/page.tsx, getKpis).*)
THEOREM BoardAndCountsAgreeHolds == Spec => []BoardAndCountsAgree
<1>1. ASSUME IInv, NEW night \in Night
      PROVE  /\ Tonight(night) \subseteq Sold(night, night + 1)
             /\ Sold(night, night + 1) \subseteq Strip(night)
  <2>1. night \in Nat /\ \A x \in rows : x.date \in Nat
    BY <1>1, DayFacts DEF IInv, TypeOK, BookingRoom
  <2> QED
    BY <2>1 DEF Tonight, Sold, Strip
<1>2. IInv => BoardAndCountsAgree
  BY <1>1, BoardAgrees, SoldFits DEF BoardAndCountsAgree
<1> QED
  BY <1>2, Invariance, PTL

--------------------------------------------------------------------------------
(* The engine implements the ledger of whole stays. *)

LEMMA TakesIsTake ==
  ASSUME IInv, NEW b \in Booking, NEW R \in SUBSET Room, NEW in \in Day, NEW out \in Day,
         R # {}, in < out, Takes(b, R, in, out), TypeOK'
  PROVE  Ledger!Take(b)
<1>1. HeldBy(b)' = Ledger!Stay(R, in, out)
  <2>1. ASSUME NEW rn \in Ledger!Stay(R, in, out) PROVE rn \in HeldBy(b)'
    <3> DEFINE x == [booking |-> b, room |-> rn[1], date |-> rn[2]]
    <3>1. x \in StayRows(b, R, in, out)
      BY <2>1 DEF Ledger!Stay, Ledger!RoomNight, StayRows, BookingRoom, Night
    <3>2. x \in RowsOf(b)'
      BY <3>1 DEF Takes, RowsOf
    <3>3. rn = <<x.room, x.date>>
      BY <2>1 DEF Ledger!Stay, Ledger!RoomNight
    <3>4. QED
      BY <3>2, <3>3 DEF HeldBy
  <2>2. ASSUME NEW x \in RowsOf(b)' PROVE <<x.room, x.date>> \in Ledger!Stay(R, in, out)
    <3>1. x \in StayRows(b, R, in, out)
      BY <2>2 DEF Takes, RowsOf
    <3>2. QED
      BY <3>1 DEF StayRows, BookingRoom, Night, Ledger!Stay, Ledger!RoomNight
  <2>3. QED
    BY <2>1, <2>2 DEF HeldBy
<1>2. ASSUME NEW c \in Booking, c # b PROVE HeldBy(c)' = HeldBy(c)
  BY <1>2 DEF Takes, HeldBy, RowsOf, StayRows
<1>3. ASSUME NEW c \in Booking \ {b}, NEW rn \in HeldBy(c) PROVE rn \notin Ledger!Stay(R, in, out)
  <2>1. PICK x \in RowsOf(c) : rn = <<x.room, x.date>>
    BY <1>3 DEF HeldBy
  <2>2. SUFFICES ASSUME rn \in Ledger!Stay(R, in, out) PROVE FALSE
    OBVIOUS
  <2> DEFINE y == [booking |-> b, room |-> x.room, date |-> x.date]
  <2>3. y \in StayRows(b, R, in, out)
    BY <2>1, <2>2 DEF Ledger!Stay, Ledger!RoomNight, StayRows, BookingRoom, Night
  <2>4. x \in rows \ RowsOf(b)
    BY DEF RowsOf
  <2>5. QED
    BY <2>3, <2>4 DEF Takes, Clash
<1>4. Ledger!Stay(R, in, out) \cap Ledger!HeldByOthers(b) = {}
  BY <1>3 DEF Ledger!HeldByOthers
<1>5. [c \in Booking |-> HeldBy(c)]' =
        [[c \in Booking |-> HeldBy(c)] EXCEPT ![b] = Ledger!Stay(R, in, out)]
  BY <1>1, <1>2
<1>6. in \in Ledger!Day /\ out \in Ledger!Day
  BY DEF Day, Ledger!Day
<1>7. QED
  BY <1>4, <1>5, <1>6 DEF Ledger!Take

LEMMA LedgerStep ==
  IInv /\ IInv' /\ [Next]_vars => [Ledger!Next]_([b \in Booking |-> HeldBy(b)])
<1> SUFFICES ASSUME IInv, IInv', [Next]_vars
             PROVE  [Ledger!Next]_([b \in Booking |-> HeldBy(b)])
  OBVIOUS
<1> DEFINE held == [b \in Booking |-> HeldBy(b)]
<1>1. Effect
  BY NextEffect
<1>2. CASE KeepsNights
  BY <1>2 DEF KeepsNights, HeldBy, RowsOf
<1>3. ASSUME NEW b \in Booking, GivesBack(b) PROVE Ledger!GiveBack(b) \/ held' = held
  <2>1. HeldBy(b)' = {}
    BY <1>3 DEF GivesBack, HeldBy, RowsOf
  <2>2. ASSUME NEW c \in Booking, c # b PROVE HeldBy(c)' = HeldBy(c)
    BY <1>3, <2>2 DEF GivesBack, HeldBy, RowsOf
  <2>3. held' = [held EXCEPT ![b] = {}]
    BY <2>1, <2>2
  <2>4. CASE held[b] = {}
    BY <2>3, <2>4
  <2>5. CASE held[b] # {}
    BY <2>3, <2>5 DEF Ledger!GiveBack
  <2>6. QED
    BY <2>4, <2>5
<1>4. QED
  BY <1>1, <1>2, <1>3, TakesIsTake DEF Effect, SomeTakes, Ledger!Next, IInv

(* Every behaviour of the engine is one of the ledger: whole stays, taken   *)
(* and given back in one step, no room-night twice.                         *)
THEOREM ImplementsLedger == Spec => LedgerSpec
<1>1. Init => Ledger!Init
  BY DEF Init, Ledger!Init, HeldBy, RowsOf
<1>2. QED
  BY <1>1, LedgerStep, Invariance, PTL DEF Spec, LedgerSpec, Ledger!Spec
================================================================================
