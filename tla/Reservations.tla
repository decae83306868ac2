------------------------------ MODULE Reservations ------------------------------
(***************************************************************************)
(* The reservation engine, src/src/lib/booking/engine.ts, with the entry   *)
(* points that call it (server actions and MCP tools), the maintenance     *)
(* blocks and the housekeeping flag it touches.                            *)
(*                                                                         *)
(* The store is one SQLite database behind one Prisma connection, so an    *)
(* interactive transaction, and every single query outside one, is one     *)
(* atomic step.  A handler that reads, decides and only then writes takes  *)
(* two steps: what it read is kept in req[q] and may be stale when it      *)
(* writes.  Handlers that only write take one step and no entry in req.    *)
(* Validation that reads nothing this module holds (room ownership,        *)
(* capacity, channel, blacklist, prices) only ever refuses a request       *)
(* before it writes, which is the request not being made.                  *)
(*                                                                         *)
(* A definition named D_Word beside D is a slip the runs must notice: the  *)
(* same operator with one plausible mistake.  Nothing else refers to it.   *)
(***************************************************************************)
EXTENDS Naturals

CONSTANTS
  Booking,     \* ids the Booking table may come to hold
  Room,        \* ids of the rooms of one property
  Horizon,     \* nights are 0 .. Horizon - 1, days 0 .. Horizon
  BlockId,     \* ids the MaintenanceBlock table may come to hold
  Request,     \* handlers that may be between their read and their write
  MoveInput    \* which of the optional fields of a move its callers fill in

(* The optional fields of MoveBookingInput. *)
MoveField == {"room", "checkIn", "checkOut"}

ASSUME ReservationAssumption == Horizon \in Nat /\ MoveInput \subseteq SUBSET MoveField

VARIABLES
  status,      \* Booking.status, "ABSENT" while there is no such row
  stay,        \* Booking.checkIn and Booking.checkOut
  rows,        \* the BookingRoom table
  blocks,      \* the MaintenanceBlock table
  dirty,       \* the rooms whose cleanliness is DIRTY
  req          \* what each handler in flight has read and decided

vars == <<status, stay, rows, blocks, dirty, req>>

Day == 0..Horizon
Night == 0..(Horizon - 1)

BookingStatus ==
  {"TENTATIVE", "CONFIRMED", "CHECKED_IN", "CHECKED_OUT", "CANCELLED", "NO_SHOW"}

BookingRoom == [booking : Booking, room : Room, date : Night]
MaintenanceBlock == [id : BlockId, room : Room, startDate : Day, endDate : Day]
Interval == [checkIn : Day, checkOut : Day]

Idle == [op |-> "idle"]
MoveRequest == [op : {"move"}, booking : Booking, foundOpen : BOOLEAN,
                given : MoveInput, room : Room, checkIn : Day, checkOut : Day]
StatusRequest == [op : {"confirm", "noShow"}, booking : Booking]
CheckOutRequest == [op : {"checkOut"}, booking : Booking, rooms : SUBSET Room]
BlockRequest == [op : {"block"}, room : Room, startDate : Day, endDate : Day]

InFlight == MoveRequest \cup StatusRequest \cup CheckOutRequest \cup BlockRequest

(* One property of types: every table and every handler holds rows of the   *)
(* shape the schema and the handlers give them.                             *)
TypeOK ==
  /\ status \in [Booking -> BookingStatus \cup {"ABSENT"}]
  /\ stay \in [Booking -> Interval]
  /\ rows \subseteq BookingRoom
  /\ blocks \subseteq MaintenanceBlock
  /\ dirty \subseteq Room
  /\ req \in [Request -> InFlight \cup {Idle}]

(* The statuses whose bookings have given their nights up. *)
Released == {"CANCELLED", "NO_SHOW"}

(* The statuses whose bookings are over, and which a move must not touch.   *)
Closed == {"CANCELLED", "CHECKED_OUT"}

Exists(b) == status[b] # "ABSENT"

RowsOf(b) == {x \in rows : x.booking = b}
RoomsOf(b) == {x.room : x \in RowsOf(b)}

(* One row per room and night of the stay; the check-out day is not a night. *)
StayRows_Inclusive(b, R, in, out) ==
  {x \in BookingRoom : x.booking = b /\ x.room \in R /\ in <= x.date /\ x.date <= out}
StayRows(b, R, in, out) ==
  {x \in BookingRoom : x.booking = b /\ x.room \in R /\ in <= x.date /\ x.date < out}

(* The unique constraint on (roomId, date): the insert of new next to the   *)
(* rows kept fails with P2002.                                              *)
Clash_PerBooking(kept, new) ==
  \E x \in kept, y \in new : x.booking = y.booking /\ x.room = y.room /\ x.date = y.date
Clash(kept, new) == \E x \in kept, y \in new : x.room = y.room /\ x.date = y.date

Init ==
  /\ status = [b \in Booking |-> "ABSENT"]
  /\ stay = [b \in Booking |-> [checkIn |-> 0, checkOut |-> 0]]
  /\ rows = {}
  /\ blocks = {}
  /\ dirty = {}
  /\ req = [q \in Request |-> Idle]

--------------------------------------------------------------------------------
(* Bookings. *)

(* createBooking: the booking and all its room-nights in one transaction;   *)
(* a clash rolls it back, so it is the step not happening.  Maintenance     *)
(* blocks are not consulted.                                                *)
CreateBooking(b, R, in, out, initial) ==
  /\ ~Exists(b)
  /\ R # {} /\ in < out
  /\ ~Clash(rows, StayRows(b, R, in, out))
  /\ status' = [status EXCEPT ![b] = initial]
  /\ stay' = [stay EXCEPT ![b] = [checkIn |-> in, checkOut |-> out]]
  /\ rows' = rows \cup StayRows(b, R, in, out)
  /\ UNCHANGED <<blocks, dirty, req>>

(* The statuses a booking may be moved from: all but two. *)
Movable_Cancelled == BookingStatus \ {"CHECKED_OUT"}
Movable == BookingStatus \ {"CANCELLED", "CHECKED_OUT"}

(* A date the caller left out is the one that was read. *)
DateOr_AnyGiven(given, field, asked, read) == IF given # {} THEN asked ELSE read
DateOr(given, field, asked, read) == IF field \in given THEN asked ELSE read

(* moveBooking, up to its transaction: the booking is read, its status      *)
(* tested, and every field the caller left out is filled from what was      *)
(* read (the room from the first BookingRoom row, in no particular order).  *)
(* Of the row that was read, foundOpen keeps whether it was still open.     *)
MoveRead(q, b, given, room, in, out) ==
  /\ req[q] = Idle
  /\ status[b] \in Movable
  /\ \E target \in IF "room" \in given THEN {room} ELSE RoomsOf(b) :
       LET from == DateOr(given, "checkIn", in, stay[b].checkIn)
           to == DateOr(given, "checkOut", out, stay[b].checkOut)
       IN /\ from < to
          /\ req' = [req EXCEPT ![q] =
                       [op |-> "move", booking |-> b, foundOpen |-> status[b] \notin Closed,
                        given |-> given, room |-> target,
                        checkIn |-> from, checkOut |-> to]]
  /\ UNCHANGED <<status, stay, rows, blocks, dirty>>

MovedRows(m) == StayRows(m.booking, {m.room}, m.checkIn, m.checkOut)

(* The transaction of moveBooking: all rows of the booking are deleted, the *)
(* rows of one room inserted and the dates set.  The status is not read     *)
(* again.                                                                   *)
MoveCommit(q) ==
  LET m == req[q]
      others == rows \ RowsOf(m.booking)
  IN /\ m.op = "move"
     /\ ~Clash(others, MovedRows(m))
     /\ rows' = others \cup MovedRows(m)
     /\ stay' = [stay EXCEPT ![m.booking] =
                   [checkIn |-> m.checkIn, checkOut |-> m.checkOut]]
     /\ req' = [req EXCEPT ![q] = Idle]
     /\ UNCHANGED <<status, blocks, dirty>>

(* The insert violates the unique constraint: the transaction is rolled     *)
(* back and the caller gets DoubleBookingError.                             *)
MoveConflict(q) ==
  LET m == req[q]
  IN /\ m.op = "move"
     /\ Clash(rows \ RowsOf(m.booking), MovedRows(m))
     /\ req' = [req EXCEPT ![q] = Idle]
     /\ UNCHANGED <<status, stay, rows, blocks, dirty>>

(* checkInBooking: one unconditional update. *)
CheckIn(b) ==
  /\ Exists(b)
  /\ status' = [status EXCEPT ![b] = "CHECKED_IN"]
  /\ UNCHANGED <<stay, rows, blocks, dirty, req>>

(* checkOutBooking: the status first, returning the rooms of the booking. *)
CheckOutUpdate(q, b) ==
  /\ req[q] = Idle
  /\ Exists(b)
  /\ status' = [status EXCEPT ![b] = "CHECKED_OUT"]
  /\ req' = [req EXCEPT ![q] =
               [op |-> "checkOut", booking |-> b, rooms |-> RoomsOf(b)]]
  /\ UNCHANGED <<stay, rows, blocks, dirty>>

(* ... then the rooms, by the ids the first query returned. *)
CheckOutRooms_One(q) ==
  /\ req[q].op = "checkOut"
  /\ dirty' = dirty \cup {room \in req[q].rooms : room = CHOOSE x \in req[q].rooms : TRUE}
  /\ req' = [req EXCEPT ![q] = Idle]
  /\ UNCHANGED <<status, stay, rows, blocks>>
CheckOutRooms(q) ==
  /\ req[q].op = "checkOut"
  /\ dirty' = dirty \cup req[q].rooms
  /\ req' = [req EXCEPT ![q] = Idle]
  /\ UNCHANGED <<status, stay, rows, blocks>>

(* confirmBookingHold, and the MCP tool confirm_booking: the status is      *)
(* read and tested, then written without a condition.                       *)
ConfirmRead(q, b) ==
  /\ req[q] = Idle
  /\ status[b] = "TENTATIVE"
  /\ req' = [req EXCEPT ![q] = [op |-> "confirm", booking |-> b]]
  /\ UNCHANGED <<status, stay, rows, blocks, dirty>>

ConfirmCommit(q) ==
  /\ req[q].op = "confirm"
  /\ status' = [status EXCEPT ![req[q].booking] = "CONFIRMED"]
  /\ req' = [req EXCEPT ![q] = Idle]
  /\ UNCHANGED <<stay, rows, blocks, dirty>>

(* The statuses from which each of the two entry points lets a booking be   *)
(* marked as a no-show: markNoShow, and the MCP tool mark_no_show.          *)
DeskNoShow == {"TENTATIVE", "CONFIRMED"}
McpNoShow == BookingStatus \ {"CANCELLED", "CHECKED_OUT", "NO_SHOW"}

NoShowRead(q, b, allowed) ==
  /\ req[q] = Idle
  /\ status[b] \in allowed
  /\ req' = [req EXCEPT ![q] = [op |-> "noShow", booking |-> b]]
  /\ UNCHANGED <<status, stay, rows, blocks, dirty>>

(* The transaction of both: the status and the release of the nights. *)
NoShowCommit(q) ==
  LET b == req[q].booking
  IN /\ req[q].op = "noShow"
     /\ status' = [status EXCEPT ![b] = "NO_SHOW"]
     /\ rows' = rows \ RowsOf(b)
     /\ req' = [req EXCEPT ![q] = Idle]
     /\ UNCHANGED <<stay, blocks, dirty>>

(* cancelBooking: one transaction, from any status. *)
Cancel_KeepsRows(b) ==
  /\ Exists(b)
  /\ status' = [status EXCEPT ![b] = "CANCELLED"]
  /\ UNCHANGED <<stay, rows, blocks, dirty, req>>
Cancel(b) ==
  /\ Exists(b)
  /\ status' = [status EXCEPT ![b] = "CANCELLED"]
  /\ rows' = rows \ RowsOf(b)
  /\ UNCHANGED <<stay, blocks, dirty, req>>

--------------------------------------------------------------------------------
(* Maintenance blocks and housekeeping. *)

(* createMaintenanceBlockAction and the MCP tool block_room: occupied       *)
(* nights are looked up ...                                                 *)
BlockRead(q, room, start, end) ==
  /\ req[q] = Idle
  /\ start < end
  /\ ~\E x \in rows : x.room = room /\ start <= x.date /\ x.date < end
  /\ req' = [req EXCEPT ![q] = [op |-> "block", room |-> room,
                                startDate |-> start, endDate |-> end]]
  /\ UNCHANGED <<status, stay, rows, blocks, dirty>>

(* ... and the block is inserted by a later query. *)
BlockCommit(q, id) ==
  /\ req[q].op = "block"
  /\ \A k \in blocks : k.id # id
  /\ blocks' = blocks \cup {[id |-> id, room |-> req[q].room,
                             startDate |-> req[q].startDate,
                             endDate |-> req[q].endDate]}
  /\ req' = [req EXCEPT ![q] = Idle]
  /\ UNCHANGED <<status, stay, rows, dirty>>

DeleteBlock(k) ==
  /\ blocks' = blocks \ {k}
  /\ UNCHANGED <<status, stay, rows, dirty, req>>

(* setCleanlinessAction: the room becomes DIRTY, or anything but DIRTY. *)
SetCleanliness(room) ==
  /\ dirty' \in {dirty \cup {room}, dirty \ {room}}
  /\ UNCHANGED <<status, stay, rows, blocks, req>>

--------------------------------------------------------------------------------
(* The handler ends between its steps: a query fails, or the process stops  *)
(* and loses every handler it was running (one Abandon for each).           *)
Abandon(q) ==
  /\ req[q] # Idle
  /\ req' = [req EXCEPT ![q] = Idle]
  /\ UNCHANGED <<status, stay, rows, blocks, dirty>>

(* The write that handler q still has to do. *)
Proceed(q) ==
  \/ MoveCommit(q)
  \/ MoveConflict(q)
  \/ CheckOutRooms(q)
  \/ ConfirmCommit(q)
  \/ NoShowCommit(q)
  \/ \E id \in BlockId : BlockCommit(q, id)

ReceiveMove(q) ==
  \E b \in Booking, given \in MoveInput, room \in Room, in \in Day, out \in Day :
    MoveRead(q, b, given, room, in, out)

ReceiveOther(q) ==
  \/ \E b \in Booking :
       \/ CheckOutUpdate(q, b)
       \/ ConfirmRead(q, b)
       \/ \E allowed \in {DeskNoShow, McpNoShow} : NoShowRead(q, b, allowed)
  \/ \E room \in Room, start \in Day, end \in Day : BlockRead(q, room, start, end)

(* The handlers that write in one step. *)
Immediate ==
  \/ \E b \in Booking :
       \/ \E R \in SUBSET Room, in \in Day, out \in Day :
            \E initial \in {"TENTATIVE", "CONFIRMED"} :
              CreateBooking(b, R, in, out, initial)
       \/ CheckIn(b)
       \/ Cancel(b)
  \/ \E k \in blocks : DeleteBlock(k)
  \/ \E room \in Room : SetCleanliness(room)

SteadyNoMove == Immediate \/ \E q \in Request : ReceiveOther(q) \/ Proceed(q)
Steady == SteadyNoMove \/ \E q \in Request : ReceiveMove(q)
Next == Steady \/ \E q \in Request : Abandon(q)

Spec == Init /\ [][Next]_vars

(* One request at a time: while a handler is in flight only it moves. *)
SerialNext ==
  /\ Next
  /\ \A q \in Request : req[q] # Idle => req'[q] # req[q]
SerialSpec == Init /\ [][SerialNext]_vars

(* Moves are switched off, everything else may happen. *)
NoMoveNext == SteadyNoMove \/ \E q \in Request : Abandon(q)
NoMoveSpec == Init /\ [][NoMoveNext]_vars

(* No moves, no query fails and the process stays up: a handler that has    *)
(* started is run to its end, as the event loop does with a pending await.  *)
SteadyNoMoveSpec ==
  Init /\ [][SteadyNoMove]_vars /\ \A q \in Request : WF_vars(Proceed(q))

--------------------------------------------------------------------------------
(* Safety. *)

(* Property: no room is let to two bookings on one night, however creates,  *)
(* moves, cancellations and no-shows interleave (schema.prisma, BookingRoom *)
(* @@unique; engine.ts, createBooking and moveBooking).                     *)
NoDoubleBooking ==
  \A x, y \in rows : (x.room = y.room /\ x.date = y.date) => x.booking = y.booking

(* Property: in every room a booking has any night of, it has exactly the   *)
(* nights of the dates its own row shows; a stale move may change both but  *)
(* never one without the other (moveBooking, deleteMany to update).         *)
NightsCoverStay ==
  \A x \in rows, n \in Night :
    [booking |-> x.booking, room |-> x.room, date |-> n] \in rows
      <=> stay[x.booking].checkIn <= n /\ n < stay[x.booking].checkOut

(* Every BookingRoom row belongs to a booking (the foreign key).            *)
RowsHaveBooking == \A x \in rows : Exists(x.booking)

(* What a move handler still knows when it writes, however long ago it read *)
(* the booking: the booking exists and its new dates are a stay.            *)
MovesAreStays ==
  \A q \in Request :
    req[q].op = "move" => Exists(req[q].booking) /\ req[q].checkIn < req[q].checkOut

(* Property: the inductive invariant of the two above: they follow from     *)
(* facts about the handlers in flight that no table shows (moveBooking).    *)
IInv ==
  /\ TypeOK
  /\ RowsHaveBooking
  /\ MovesAreStays
  /\ NoDoubleBooking
  /\ NightsCoverStay

(* Property: the nights a booking holds are all given up only by the step   *)
(* that cancels it or marks it a no-show, and that step leaves none of them *)
(* behind (cancelBooking and markNoShow, one transaction each).             *)
ReleaseIsAtomic ==
  [][\A b \in Booking :
       /\ (RowsOf(b) # {} /\ RowsOf(b)' = {}) => status'[b] \in Released
       /\ (status'[b] # status[b] /\ status'[b] \in Released)
            => RowsOf(b)' = {}]_vars

(* Property: a booking that is cancelled or checked out gets nights it did  *)
(* not have only from a move that read it before it was closed: whatever    *)
(* interleaves, every other way back is shut, and the race between the      *)
(* status test and the transaction is the only one left open (moveBooking,  *)
(* engine.ts:263 and :290).                                                 *)
OnlyStaleMoveReacquires ==
  [][\A b \in Booking :
       (status[b] \in Closed /\ ~(RowsOf(b)' \subseteq RowsOf(b)))
         => \E q \in Request : /\ req[q].op = "move" /\ req[q].booking = b
                               /\ req[q].foundOpen
                               /\ req'[q] = Idle]_vars

(* Property: with moves switched off, a booking that was cancelled or       *)
(* marked a no-show holds no nights, whatever races happen between the      *)
(* other handlers.  It is the property moves break.                         *)
ReleasedHoldsNothing ==
  \A b \in Booking : status[b] \in Released => RowsOf(b) = {}

(* Property: a cancelled booking holds no nights: "Releasing the nights     *)
(* frees the room for rebooking" (engine.ts:508).                           *)
CancelledHoldsNothing ==
  \A b \in Booking : status[b] = "CANCELLED" => RowsOf(b) = {}

(* When requests do not overlap, what a move read of its booking is still   *)
(* so when it writes.                                                       *)
MovesAreFresh ==
  \A q \in Request :
    req[q].op = "move" =>
      LET m == req[q] IN
      /\ status[m.booking] # "CANCELLED"
      /\ "checkIn" \in m.given \/ m.checkIn = stay[m.booking].checkIn
      /\ "checkOut" \in m.given \/ m.checkOut = stay[m.booking].checkOut

(* The inductive invariant of requests that do not overlap. *)
SerialInv == MovesAreFresh /\ CancelledHoldsNothing

(* Property: when requests do not overlap, a move changes only what it was  *)
(* asked to change: dates it was not given stay as they are                 *)
(* (moveBooking, the defaults for checkIn and checkOut).                    *)
MoveKeepsOtherDates ==
  [][\A q \in Request :
       (req[q].op = "move" /\ stay' # stay)
         => LET m == req[q] IN
            /\ "checkIn" \in m.given \/ stay'[m.booking].checkIn = stay[m.booking].checkIn
            /\ "checkOut" \in m.given \/ stay'[m.booking].checkOut = stay[m.booking].checkOut
    ]_vars

(* Property: once a check-out has set the status, the rooms the booking     *)
(* held are flagged for housekeeping, while the process stays up            *)
(* (checkOutBooking, the second query).                                     *)
CheckOutFlagsRooms ==
  \A q \in Request, room \in Room :
    (req[q].op = "checkOut" /\ room \in req[q].rooms) ~> (room \in dirty)

--------------------------------------------------------------------------------
(* The rows of a booking, seen as the room-nights it holds. *)
HeldBy(b) == {<<x.room, x.date>> : x \in RowsOf(b)}

Ledger == INSTANCE NightLedger WITH held <- [b \in Booking |-> HeldBy(b)]

(* Property: the engine implements the inventory it promises: every handler *)
(* takes, changes or gives back whole stays, or changes nothing.            *)
LedgerSpec == Ledger!Spec
================================================================================
