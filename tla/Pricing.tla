------------------------------- MODULE Pricing -------------------------------
(***************************************************************************)
(* Room types, rooms, rate plans and blocks (src/src/lib/actions/rooms.ts, *)
(* rateplans.ts, properties.ts) as bookings are priced from them           *)
(* (createBooking and moveBooking of src/src/lib/booking/engine.ts), for   *)
(* one property.                                                           *)
(*                                                                         *)
(* The handlers that edit look rows up, test them and write in one query;  *)
(* what the test excludes the foreign keys exclude again when it is        *)
(* written, so each is one step here.  Pricing reads the room with its     *)
(* type and the property, then the plans, then writes: three steps, with   *)
(* the edits of others between them.  The status of bookings is the        *)
(* subject of Reservations; here a stay is priced, moved and given up.     *)
(*                                                                         *)
(* A definition named D_Word beside D is a slip the runs must notice.      *)
(***************************************************************************)
EXTENDS Tariff, Sequences

CONSTANTS
  RoomType,    \* ids of room types
  Room,        \* ids of rooms
  Booking,     \* ids of bookings
  Request,     \* create and move handlers that may be in flight at once
  RateInput,   \* amounts staff may type for a night
  PlanInput,   \* what staff may enter for a rate plan
  BlockInput,  \* what staff may enter for a block: room, start and end
  MaxPlans,    \* bound: rate plans at once
  LastDay,     \* bound: stays end here at the latest
  Instant,     \* instants at which a refund may be quoted
  State        \* states a guest may come from, the first of them ours

None == "none"
NoRate == -1

ASSUME PricingAssumption ==
  /\ RateInput \subseteq Nat /\ MaxPlans \in Nat /\ LastDay \in Nat /\ Instant \subseteq Int
  /\ None \notin RoomType /\ IsFiniteSet(Room)
  /\ \A plan \in PlanInput :
       /\ plan.start \in Nat /\ plan.end \in Nat /\ plan.start <= plan.end
       /\ plan.days \subseteq 0..6 /\ plan.priority \in Int
       /\ DOMAIN plan.amount \subseteq RoomType
       /\ \A type \in DOMAIN plan.amount : plan.amount[type] \in RateInput
  /\ \A block \in BlockInput :
       block.room \in Room /\ block.start \in Nat /\ block.end \in Nat /\ block.start < block.end

VARIABLES
  baseRate,  \* RoomType.baseRate; NoRate for a type that does not exist
  typeOf,    \* Room.roomTypeId; None for a room that does not exist
  plans,     \* the RatePlan table with its overrides
  blocks,    \* the MaintenanceBlock table
  gstin,     \* is Property.gstin set?
  stay,      \* of each booking its rows and amounts
  req        \* the handlers in flight

vars == <<baseRate, typeOf, plans, blocks, gstin, stay, req>>
catalogue == <<baseRate, typeOf, plans, blocks, gstin>>

Day == 0..(LastDay - 1)
Stays == {EachNight(from, to) : from \in Day, to \in 1..LastDay} \ {{}}

Idle == [op |-> "idle"]
NoStay == [rates |-> <<>>, subtotal |-> 0, tax |-> 0, gst |-> FALSE]

(* A booking is for the same nights in each of its rooms: rates are the     *)
(* amounts in its BookingRoom rows, by room and night, gst what the handler *)
(* took for the property's registration.                                    *)
Rooms == (SUBSET Room) \ {{}}
Cells == {rooms \X nights : rooms \in Rooms, nights \in Stays}
RowRates == UNION {[rows -> RateInput] : rows \in Cells}
Stay == [rates : RowRates \cup {<<>>}, subtotal : Nat, tax : Nat, gst : BOOLEAN]
Holds(b) == DOMAIN stay[b].rates # {}
RoomsOf(rates) == {x[1] : x \in DOMAIN rates}

InFlight ==
       [op : {"plans"}, booking : Booking, rooms : Rooms, nights : Stays,
        type : UNION {[rooms -> RoomType] : rooms \in Rooms},
        base : UNION {[rooms -> RateInput] : rooms \in Rooms},
        manual : RateInput \cup {NoRate}, gst : BOOLEAN]
  \cup [op : {"commit"}, booking : Booking, rates : RowRates, gst : BOOLEAN]

(* Property: the tables and the handlers have the shape the schema and the  *)
(* code give them, and no row refers to one that is gone.                   *)
TypeOK ==
  /\ baseRate \in [RoomType -> RateInput \cup {NoRate}]
  /\ typeOf \in [Room -> RoomType \cup {None}]
  /\ plans \in Seq(PlanInput)
  /\ blocks \subseteq BlockInput
  /\ gstin \in BOOLEAN
  /\ stay \in [Booking -> Stay]
  /\ req \in [Request -> InFlight \cup {Idle}]
  /\ \A r \in Room : typeOf[r] # None => baseRate[typeOf[r]] # NoRate
  /\ \A q \in Request : req[q].op = "plans" =>
       DOMAIN req[q].type = req[q].rooms /\ DOMAIN req[q].base = req[q].rooms
  /\ \A b \in Booking : \A r \in RoomsOf(stay[b].rates) : typeOf[r] # None

Init ==
  /\ baseRate = [type \in RoomType |-> NoRate]
  /\ typeOf = [r \in Room |-> None]
  /\ plans = <<>>
  /\ blocks = {}
  /\ gstin = FALSE
  /\ stay = [b \in Booking |-> NoStay]
  /\ req = [q \in Request |-> Idle]

Occupied == UNION {DOMAIN stay[b].rates : b \in Booking}

--------------------------------------------------------------------------------
(* Staff edit the catalogue. *)

(* createRoomTypeAction and updateRoomTypeAction. *)
SaveRoomType(type, rate) ==
  /\ baseRate' = [baseRate EXCEPT ![type] = rate]
  /\ UNCHANGED <<typeOf, plans, blocks, gstin, stay, req>>

(* deleteRoomTypeAction counts the rooms of the type; the overrides of      *)
(* plans refer to it as well.                                               *)
DeleteRoomType(type) ==
  /\ baseRate[type] # NoRate
  /\ \A r \in Room : typeOf[r] # type
  /\ \A p \in DOMAIN plans : type \notin DOMAIN plans[p].amount
  /\ baseRate' = [baseRate EXCEPT ![type] = NoRate]
  /\ UNCHANGED <<typeOf, plans, blocks, gstin, stay, req>>

(* createRoomAction and updateRoomAction, which may change the type. *)
SaveRoom(r, type) ==
  /\ baseRate[type] # NoRate
  /\ typeOf' = [typeOf EXCEPT ![r] = type]
  /\ UNCHANGED <<baseRate, plans, blocks, gstin, stay, req>>

(* deleteRoomAction counts the bookings of the room; its blocks go with it. *)
DeleteRoom(r) ==
  /\ typeOf[r] # None
  /\ \A b \in Booking : r \notin RoomsOf(stay[b].rates)
  /\ typeOf' = [typeOf EXCEPT ![r] = None]
  /\ blocks' = {block \in blocks : block.room # r}
  /\ UNCHANGED <<baseRate, plans, gstin, stay, req>>

(* createRatePlanAction. *)
CreateRatePlan(plan) ==
  /\ Len(plans) < MaxPlans
  /\ \A type \in DOMAIN plan.amount : baseRate[type] # NoRate
  /\ plans' = Append(plans, plan)
  /\ UNCHANGED <<baseRate, typeOf, blocks, gstin, stay, req>>

(* updateRatePlanAction: the plan and its overrides, in one transaction.    *)
UpdateRatePlan(p, plan) ==
  /\ \A type \in DOMAIN plan.amount : baseRate[type] # NoRate
  /\ plans' = [plans EXCEPT ![p] = plan]
  /\ UNCHANGED <<baseRate, typeOf, blocks, gstin, stay, req>>

(* deleteRatePlanAction. *)
DeleteRatePlan(p) ==
  /\ plans' = SubSeq(plans, 1, p - 1) \o SubSeq(plans, p + 1, Len(plans))
  /\ UNCHANGED <<baseRate, typeOf, blocks, gstin, stay, req>>

(* createMaintenanceBlockAction and deleteMaintenanceBlockAction; the race  *)
(* of the first with bookings is in Reservations.                           *)
CreateBlock(block) ==
  /\ typeOf[block.room] # None
  /\ \A x \in Occupied : x[1] = block.room => x[2] \notin EachNight(block.start, block.end)
  /\ blocks' = blocks \cup {block}
  /\ UNCHANGED <<baseRate, typeOf, plans, gstin, stay, req>>

DeleteBlock(block) ==
  /\ blocks' = blocks \ {block}
  /\ UNCHANGED <<baseRate, typeOf, plans, gstin, stay, req>>

(* updatePropertyAction registers the property, or ends its registration.   *)
SetGstin ==
  /\ gstin' = ~gstin
  /\ UNCHANGED <<baseRate, typeOf, plans, blocks, stay, req>>

--------------------------------------------------------------------------------
(* Pricing. *)

(* createBooking and moveBooking: the rooms are read with their types and   *)
(* the property.  A move takes one room, whatever the booking held, and a   *)
(* rate typed by staff counts only when a stay is created ...               *)
ReadRooms(q, b, rooms, nights, manual) ==
  /\ req[q] = Idle
  /\ \A r \in rooms : typeOf[r] # None
  /\ stay[b] # NoStay => Cardinality(rooms) = 1 /\ manual = NoRate
  /\ stay[b] = NoStay => \A p \in Request : req[p] # Idle => req[p].booking # b
  /\ req' = [req EXCEPT ![q] =
               [op |-> "plans", booking |-> b, rooms |-> rooms, nights |-> nights,
                type |-> [r \in rooms |-> typeOf[r]],
                base |-> [r \in rooms |-> baseRate[typeOf[r]]],
                manual |-> manual, gst |-> gstin]]
  /\ UNCHANGED <<catalogue, stay>>

(* ... then the plans, unless a rate was typed, which is every room's; else *)
(* each room is priced by the plans of its own type ...                     *)
Quoted(m) ==
  [x \in m.rooms \X m.nights |->
     IF m.manual # NoRate THEN m.manual
     ELSE QuoteStay(m.nights, m.type[x[1]], m.base[x[1]], plans)[x[2]]]

ReadPlans(q) ==
  /\ req[q].op = "plans"
  /\ req' = [req EXCEPT ![q] =
               [op |-> "commit", booking |-> req[q].booking, rates |-> Quoted(req[q]),
                gst |-> req[q].gst]]
  /\ UNCHANGED <<catalogue, stay>>

(* ... and the transaction replaces the rows and writes the amounts.  A     *)
(* room deleted meanwhile or a night taken by another booking fails it.     *)
Clashes(m) ==
  \E b \in Booking \ {m.booking} : DOMAIN stay[b].rates \cap DOMAIN m.rates # {}

Commit(q) ==
  LET m == req[q]
  IN /\ m.op = "commit"
     /\ (\A r \in RoomsOf(m.rates) : typeOf[r] # None) /\ ~Clashes(m)
     /\ stay' = [stay EXCEPT ![m.booking] =
                   [rates |-> m.rates, subtotal |-> Subtotal(m.rates),
                    tax |-> Tax(m.rates, m.gst), gst |-> m.gst]]
     /\ req' = [req EXCEPT ![q] = Idle]
     /\ UNCHANGED catalogue

(* A query fails, the transaction among them, or the process stops. *)
Abandon(q) ==
  /\ req[q] # Idle
  /\ req' = [req EXCEPT ![q] = Idle]
  /\ UNCHANGED <<catalogue, stay>>

(* cancelBooking and markNoShow: the rows are deleted, the amounts stay, and *)
(* a no-show can still be moved.                                             *)
GiveUp(b) ==
  /\ Holds(b)
  /\ stay' = [stay EXCEPT ![b].rates = <<>>]
  /\ UNCHANGED <<catalogue, req>>

Edit ==
  \/ \E type \in RoomType : \/ DeleteRoomType(type)
                            \/ \E rate \in RateInput : SaveRoomType(type, rate)
  \/ \E r \in Room : DeleteRoom(r) \/ \E type \in RoomType : SaveRoom(r, type)
  \/ \E plan \in PlanInput : CreateRatePlan(plan)
                             \/ \E p \in DOMAIN plans : UpdateRatePlan(p, plan)
  \/ \E p \in DOMAIN plans : DeleteRatePlan(p)
  \/ \E block \in BlockInput : CreateBlock(block)
  \/ \E block \in blocks : DeleteBlock(block)
  \/ SetGstin

Price(q) ==
  \/ \E b \in Booking, rooms \in Rooms, nights \in Stays, manual \in RateInput \cup {NoRate} :
       ReadRooms(q, b, rooms, nights, manual)
  \/ ReadPlans(q) \/ Commit(q) \/ Abandon(q)

Next == Edit \/ (\E q \in Request : Price(q)) \/ (\E b \in Booking : GiveUp(b))

Spec == Init /\ [][Next]_vars

--------------------------------------------------------------------------------
(* The amounts of a booking are those of its rows, whatever edits and moves *)
(* come between reading and writing.                                        *)
PriceIsRows ==
  \A b \in Booking : Holds(b) =>
    /\ stay[b].subtotal = Subtotal(stay[b].rates)
    /\ stay[b].tax = Tax(stay[b].rates, stay[b].gst)

(* The stay in one room. *)
InRoom(rates, r) == [day \in {x[2] : x \in DOMAIN rates} |-> rates[<<r, day>>]]

(* Rooms booked together cost, before and after tax, what each of them      *)
(* would cost by itself.                                                    *)
RoomsAddUp ==
  \A b \in Booking : Holds(b) =>
    LET rates == stay[b].rates
    IN /\ stay[b].subtotal
            = SumFunction([r \in RoomsOf(rates) |-> Subtotal(InRoom(rates, r))])
       /\ stay[b].tax
            = SumFunction([r \in RoomsOf(rates) |-> Tax(InRoom(rates, r), stay[b].gst)])

(* Property: no row refers to one that is gone, the rows of a booking are   *)
(* the same nights in each of its rooms, and its amounts are the sum of     *)
(* what the rooms cost one by one, rounding included, whatever is edited,   *)
(* moved and given up between reading and writing (createBooking's amounts  *)
(* over all rooms, moveBooking's over the one that is left).                *)
IInv == TypeOK /\ PriceIsRows /\ RoomsAddUp

(* What the schema says of a plan: its dates are [startDate, endDate), the  *)
(* mask is "Mon..Sun", and the fifth day of 1970 was a Monday.  Of those    *)
(* for the type and the day, the greatest priority wins, the first of them  *)
(* if there are several.                                                    *)
InForce(day, type) ==
  {p \in DOMAIN plans : /\ day \in plans[p].start..(plans[p].end - 1)
                        /\ (day - 4) % 7 \in plans[p].days
                        /\ type \in DOMAIN plans[p].amount}
Top(ps) == {p \in ps : \A s \in ps : plans[s].priority <= plans[p].priority}
Price_InForce(day, type, base) ==
  IF InForce(day, type) = {} THEN base
  ELSE plans[Min(Top(InForce(day, type)))].amount[type]

(* Property: a stay is priced, room by room and night by night, by the      *)
(* plans in force for the room's type when they are read, or at the base    *)
(* rate read before, and a typed rate wins over both (resolveNight,         *)
(* createBooking).                                                          *)
PricedAsRead ==
  [][\A q \in Request :
       (req[q].op = "plans" /\ req'[q].op = "commit") =>
         \A r \in req[q].rooms, day \in req[q].nights :
           req'[q].rates[<<r, day>>] =
             IF req[q].manual # NoRate THEN req[q].manual
             ELSE Price_InForce(day, req[q].type[r], req[q].base[r])]_vars

(* Property: the rooms the desk sees as taken for a stay are the rooms the  *)
(* assistant does not offer for it (quoteBookingAction's queries against    *)
(* computeAvailability).                                                    *)
AvailabilityAgrees ==
  \A nights \in Stays :
    LET from == Min(nights)
        to == Max(nights) + 1
    IN Room \ FreeRooms(Room, Occupied, blocks, from, to)
         = UnavailableRooms(Occupied, blocks, from, to)

(* A share of every night, rounded night by night. *)
Share(rates, pct) == SumFunction([night \in DOMAIN rates |-> Round(rates[night] * pct, 100)])

(* Five percent of less than ten paise rounds to nothing. *)
Worth(rate) == rate >= 10

(* Property: the quote's label names the bands that are charged, and no     *)
(* other: the tax of a stay with one band is that share of every night,     *)
(* rounded to the paisa, and with both bands lies between the two shares;   *)
(* there is none only without a label or if every night is all but free     *)
(* (taxLabelFor against computeTax).                                        *)
LabelIsCharged ==
  \A b \in Booking :
    LET rates == stay[b].rates
        label == TaxLabel(rates, stay[b].gst)
        low == {night \in DOMAIN rates : rates[night] <= ThresholdPaise}
    IN Holds(b) =>
         /\ stay[b].tax = 0 <=> (label = {} \/ \A night \in DOMAIN rates : ~Worth(rates[night]))
         /\ \A pct \in label :
              IF label = {pct} THEN stay[b].tax = Share(rates, pct)
              ELSE /\ Share(rates, 5) < stay[b].tax /\ stay[b].tax <= Share(rates, 18)
                   /\ (\E night \in low : Worth(rates[night])) => stay[b].tax # Share(rates, 18)

(* Property: the tax lines of an invoice, and the columns of the invoice    *)
(* export, add up to the booking's tax, and centre and state differ by at   *)
(* most a paisa (placeOfSupply, invoices.csv/route.ts).                     *)
TaxLinesAddUp ==
  \A b \in Booking, ours \in State, theirs \in State \cup {UnknownState} :
    LET lines == PlaceOfSupply(ours, theirs, stay[b].tax)
    IN /\ lines.cgst + lines.sgst + lines.igst = stay[b].tax
       /\ lines.cgst - lines.sgst \in {0, 1} /\ lines.igst >= 0

(* Property: both: the tax is what the label says and the lines share it    *)
(* out (taxLabelFor, placeOfSupply).                                        *)
TaxAsTold == LabelIsCharged /\ TaxLinesAddUp

(* The first minute of a day in India. *)
Midnight(day) == day * 1440 - 330

(* Property: a guest who cancels before midnight in India, seven days (or   *)
(* three) before arrival or earlier, gets all (or half) back, later ones    *)
(* nothing, and refund and retained part make up what was paid              *)
(* (leadDaysUntil, refundPctFor, quoteRefund).                              *)
RefundTiers ==
  \A b \in Booking, now \in Instant :
    Holds(b) =>
    LET paid == stay[b].subtotal + stay[b].tax
        checkIn == Min({x[2] : x \in DOMAIN stay[b].rates})
        quote(reason) == QuoteRefund(paid, checkIn, reason, now)
        guest == quote("Guest cancellation")
    IN /\ guest.retained =
            IF now < Midnight(checkIn - 6) THEN 0
            ELSE IF now < Midnight(checkIn - 2) THEN paid \div 2 ELSE paid
       /\ \A reason \in CancellationReason :
            /\ quote(reason).refundable + quote(reason).retained = paid
            /\ quote(reason).refundable \in 0..paid
            /\ reason \in {"Owner cancellation", "Force majeure"} => quote(reason).retained = 0
            /\ reason = "No-show" => quote(reason).refundable = 0
================================================================================
