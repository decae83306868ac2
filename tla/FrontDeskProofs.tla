---------------------------- MODULE FrontDeskProofs ----------------------------
(***************************************************************************)
(* What the desk is told: prices, availability, invoices and the screens   *)
(* that show them, for any rooms, plans, blocks, amounts and properties.   *)
(* Of prices: no row refers to one that is gone, amounts are those of the  *)
(* rows, a night is priced by the first plan of the highest priority, the  *)
(* desk and the assistant see the same rooms, the tax is what the label    *)
(* names, and refunds follow the tiers.  Of the register of invoices: no   *)
(* gaps, one number for each booking with revenue, numbers that stay, and  *)
(* payments that only another property's prefix can block.  Of the console:*)
(* what a screen shows is for what it is open on and holds, and what is    *)
(* done from it is what it showed.                                         *)
(***************************************************************************)
EXTENDS Pricing, InvoiceRegister, Console, SumTheorems, SequenceTheorems, TLAPS

(* What the catalogue, the rows and the handlers keep; sums are left open.  *)
CatalogueOK ==
  /\ baseRate \in [RoomType -> RateInput \cup {NoRate}]
  /\ typeOf \in [Room -> RoomType \cup {None}]
  /\ blocks \subseteq BlockInput
  /\ \A r \in Room : typeOf[r] # None => baseRate[typeOf[r]] # NoRate

(* Rows of several rooms for the same nights. *)
Table(rows) == \E rooms \in Rooms, nights \in Stays : rows = rooms \X nights

RowsOK ==
  /\ DOMAIN stay = Booking
  /\ \A b \in Booking :
       /\ DOMAIN stay[b] = {"rates", "subtotal", "tax", "gst"}
       /\ DOMAIN stay[b].rates = {} \/ Table(DOMAIN stay[b].rates)
       /\ \A r \in RoomsOf(stay[b].rates) : typeOf[r] # None

RequestsOK ==
  /\ DOMAIN req = Request
  /\ \A q \in Request :
       /\ req[q].op \in {"idle", "plans", "commit"}
       /\ req[q].op = "plans" =>
            /\ req[q].booking \in Booking /\ req[q].rooms \in Rooms /\ req[q].nights \in Stays
            /\ DOMAIN req[q].type = req[q].rooms /\ DOMAIN req[q].base = req[q].rooms
       /\ req[q].op = "commit" => req[q].booking \in Booking /\ Table(DOMAIN req[q].rates)

PInv == CatalogueOK /\ RowsOK /\ RequestsOK

--------------------------------------------------------------------------------
(* Edits of the catalogue. *)
LEMMA EditKeeps ==
  ASSUME PInv, Edit
  PROVE  PInv' /\ stay' = stay
<1> USE PricingAssumption
<1>1. UNCHANGED <<stay, req>>
  BY DEF Edit, SaveRoomType, DeleteRoomType, SaveRoom, DeleteRoom, CreateRatePlan,
         UpdateRatePlan, DeleteRatePlan, CreateBlock, DeleteBlock, SetGstin
<1>2. RequestsOK'
  BY <1>1 DEF PInv, RequestsOK
<1>3. ASSUME NEW type \in RoomType, NEW rate \in RateInput, SaveRoomType(type, rate)
      PROVE  CatalogueOK' /\ RowsOK'
  <2>1. rate # NoRate
    BY DEF NoRate
  <2> QED
    BY <1>1, <1>3, <2>1 DEF SaveRoomType, PInv, CatalogueOK, RowsOK
<1>4. ASSUME NEW type \in RoomType, DeleteRoomType(type)
      PROVE  CatalogueOK' /\ RowsOK'
  BY <1>1, <1>4 DEF DeleteRoomType, PInv, CatalogueOK, RowsOK
<1>5. ASSUME NEW r \in Room, NEW type \in RoomType, SaveRoom(r, type)
      PROVE  CatalogueOK' /\ RowsOK'
  BY <1>1, <1>5 DEF SaveRoom, PInv, CatalogueOK, RowsOK
<1>6. ASSUME NEW r \in Room, DeleteRoom(r)
      PROVE  CatalogueOK' /\ RowsOK'
  BY <1>1, <1>6 DEF DeleteRoom, PInv, CatalogueOK, RowsOK
<1>7. ASSUME NEW block \in BlockInput, CreateBlock(block) \/ DeleteBlock(block)
      PROVE  CatalogueOK' /\ RowsOK'
  BY <1>1, <1>7 DEF CreateBlock, DeleteBlock, PInv, CatalogueOK, RowsOK
<1>8. ASSUME UNCHANGED <<baseRate, typeOf, blocks>>
      PROVE  CatalogueOK' /\ RowsOK'
  BY <1>1, <1>8 DEF PInv, CatalogueOK, RowsOK
<1>9. blocks \subseteq BlockInput
  BY DEF PInv, CatalogueOK
<1> QED
  BY <1>1, <1>2, <1>3, <1>4, <1>5, <1>6, <1>7, <1>8, <1>9
  DEF Edit, PInv, CreateRatePlan, UpdateRatePlan, DeleteRatePlan, SetGstin

(* The entry of one handler. *)
LEMMA EntryKeeps ==
  ASSUME RequestsOK, NEW q \in Request, NEW e, req' = [req EXCEPT ![q] = e],
         e.op \in {"idle", "plans", "commit"},
         e.op = "plans" =>
           /\ e.booking \in Booking /\ e.rooms \in Rooms /\ e.nights \in Stays
           /\ DOMAIN e.type = e.rooms /\ DOMAIN e.base = e.rooms,
         e.op = "commit" => e.booking \in Booking /\ Table(DOMAIN e.rates)
  PROVE  RequestsOK'
  BY DEF RequestsOK

(* Pricing a stay. *)
LEMMA PriceKeeps ==
  ASSUME PInv, NEW q \in Request, Price(q)
  PROVE  PInv'
<1>1. UNCHANGED catalogue
  BY DEF Price, ReadRooms, ReadPlans, Commit, Abandon
<1>2. CatalogueOK'
  BY <1>1 DEF catalogue, PInv, CatalogueOK
<1>3. ASSUME NEW b \in Booking, NEW rooms \in Rooms, NEW nights \in Stays,
             NEW byHand \in RateInput \cup {NoRate}, ReadRooms(q, b, rooms, nights, byHand)
      PROVE  RowsOK' /\ RequestsOK'
  <2>1. RowsOK'
    BY <1>1, <1>3 DEF ReadRooms, catalogue, PInv, RowsOK
  <2> DEFINE e == [op |-> "plans", booking |-> b, rooms |-> rooms, nights |-> nights,
                   type |-> [r \in rooms |-> typeOf[r]],
                   base |-> [r \in rooms |-> baseRate[typeOf[r]]],
                   manual |-> byHand, gst |-> gstin]
  <2>2. req' = [req EXCEPT ![q] = e]
    BY <1>3 DEF ReadRooms
  <2>3. /\ e.op = "plans" /\ e.booking = b /\ e.rooms = rooms /\ e.nights = nights
        /\ DOMAIN e.type = rooms /\ DOMAIN e.base = rooms
    OBVIOUS
  <2> HIDE DEF e
  <2>4. RequestsOK'
    BY <2>2, <2>3, EntryKeeps DEF PInv
  <2> QED
    BY <2>1, <2>4
<1>4. CASE ReadPlans(q)
  <2> DEFINE m == req[q]
             e == [op |-> "commit", booking |-> m.booking, rates |-> Quoted(m), gst |-> m.gst]
  <2>1. RowsOK'
    BY <1>1, <1>4 DEF ReadPlans, catalogue, PInv, RowsOK
  <2>2. m.op = "plans" /\ m.booking \in Booking /\ m.rooms \in Rooms /\ m.nights \in Stays
    BY <1>4 DEF ReadPlans, PInv, RequestsOK
  <2>3. req' = [req EXCEPT ![q] = e]
    BY <1>4 DEF ReadPlans
  <2>4. Table(DOMAIN Quoted(m))
    BY <2>2 DEF Quoted, Table
  <2>5. e.op = "commit" /\ e.booking = m.booking /\ e.rates = Quoted(m)
    OBVIOUS
  <2> HIDE DEF e, m
  <2>6. RequestsOK'
    BY <2>2, <2>3, <2>4, <2>5, EntryKeeps DEF PInv
  <2> QED
    BY <1>2, <2>1, <2>6 DEF PInv
<1>5. CASE Commit(q)
  <2> DEFINE m == req[q]
             row == [rates |-> m.rates, subtotal |-> Subtotal(m.rates),
                     tax |-> Tax(m.rates, m.gst), gst |-> m.gst]
  <2>1. /\ m.booking \in Booking /\ Table(DOMAIN m.rates)
        /\ \A r \in RoomsOf(m.rates) : typeOf[r] # None
    BY <1>5 DEF Commit, PInv, RequestsOK
  <2>2. stay' = [stay EXCEPT ![m.booking] = row] /\ typeOf' = typeOf
    BY <1>1, <1>5 DEF Commit, catalogue
  <2>3. row.rates = m.rates /\ DOMAIN row = {"rates", "subtotal", "tax", "gst"}
    OBVIOUS
  <2> HIDE DEF row, m
  <2>4. RowsOK'
    BY <2>1, <2>2, <2>3 DEF PInv, RowsOK
  <2>5. RequestsOK'
    BY <1>5 DEF Commit, PInv, RequestsOK, Idle
  <2> QED
    BY <1>2, <2>4, <2>5 DEF PInv
<1>6. CASE Abandon(q)
  <2>1. RowsOK'
    BY <1>1, <1>6 DEF Abandon, catalogue, PInv, RowsOK
  <2> QED
    BY <1>2, <2>1, <1>6 DEF Abandon, PInv, RequestsOK, Idle
<1> QED
  BY <1>2, <1>3, <1>4, <1>5, <1>6 DEF Price, PInv

LEMMA GiveUpKeeps ==
  ASSUME PInv, NEW b \in Booking, GiveUp(b)
  PROVE  PInv'
<1>1. UNCHANGED <<baseRate, typeOf, blocks, req>>
  BY DEF GiveUp, catalogue
<1>2. CatalogueOK' /\ RequestsOK'
  BY <1>1 DEF PInv, CatalogueOK, RequestsOK
<1>3. RowsOK'
  BY <1>1 DEF GiveUp, PInv, RowsOK, RoomsOf
<1> QED
  BY <1>2, <1>3 DEF PInv

(* Theorem: rooms have their types, stays their rooms, whatever edits and   *)
(* moves come between reading and writing (the delete actions' tests and    *)
(* the foreign keys).                                                       *)
THEOREM ReferencesHold == Spec => []PInv
<1>1. Init => PInv
  BY PricingAssumption
  DEF Init, PInv, CatalogueOK, RowsOK, RequestsOK, RoomsOf, NoStay, Idle
<1>2. PInv /\ [Next]_vars => PInv'
  <2> SUFFICES ASSUME PInv, [Next]_vars PROVE PInv'
    OBVIOUS
  <2>1. CASE UNCHANGED vars
    BY <2>1 DEF vars, PInv, CatalogueOK, RowsOK, RequestsOK
  <2> QED
    BY <2>1, EditKeeps, PriceKeeps, GiveUpKeeps DEF Next
<1> QED
  BY <1>1, <1>2, PTL DEF Spec

(* Theorem: the amounts of a booking that holds rooms are those of its rows *)
(* (createBooking, moveBooking).                                            *)
THEOREM PriceIsRowsHolds == Spec => []PriceIsRows
<1>1. Init => PriceIsRows
  BY DEF Init, PriceIsRows, Holds, NoStay
<1>2. PInv /\ PriceIsRows /\ [Next]_vars => PriceIsRows'
  <2> SUFFICES ASSUME PInv, PriceIsRows, [Next]_vars PROVE PriceIsRows'
    OBVIOUS
  <2>1. CASE stay' = stay
    BY <2>1 DEF PriceIsRows, Holds
  <2>2. ASSUME NEW q \in Request, Commit(q) PROVE PriceIsRows'
    BY <2>2 DEF Commit, PriceIsRows, Holds, PInv, RowsOK
  <2>3. ASSUME NEW b \in Booking, GiveUp(b) PROVE PriceIsRows'
    BY <2>3 DEF GiveUp, PriceIsRows, Holds, PInv, RowsOK
  <2>4. \A q \in Request : Price(q) => Commit(q) \/ stay' = stay
    BY DEF Price, ReadRooms, ReadPlans, Abandon
  <2> QED
    BY <2>1, <2>2, <2>3, <2>4, EditKeeps DEF Next, vars
<1> QED
  BY <1>1, <1>2, ReferencesHold, PTL DEF Spec

--------------------------------------------------------------------------------
LEMMA EndsOfStay ==
  ASSUME NEW nights \in Stays
  PROVE  Min(nights) \in Int /\ Max(nights) \in Int /\ Min(nights) <= Max(nights)
<1> USE PricingAssumption
<1>1. PICK from \in Int, to \in Int : nights = from..(to - 1) /\ from < to
  BY DEF Stays, EachNight, Day
<1>2. from \in nights /\ \A y \in nights : from <= y
  BY <1>1
<1>3. to - 1 \in nights /\ \A y \in nights : to - 1 >= y
  BY <1>1
<1>4. Min(nights) \in nights /\ \A y \in nights : Min(nights) <= y
  BY <1>2 DEF Min
<1>5. Max(nights) \in nights /\ \A y \in nights : Max(nights) >= y
  BY <1>3 DEF Max
<1> QED
  BY <1>1, <1>4, <1>5

(* A block keeps a room from a stay exactly if it overlaps it. *)
LEMMA Overlap ==
  ASSUME NEW block \in BlockInput, NEW from \in Int, NEW to \in Int, from < to
  PROVE  ExpandBlockNights(block, from, to) # {} <=> (block.start < to /\ block.end > from)
<1>1. block.start \in Nat /\ block.end \in Nat /\ block.start < block.end
  BY PricingAssumption
<1>2. ASSUME block.start < to, block.end > from
      PROVE  ExpandBlockNights(block, from, to) # {}
  <2>1. CASE block.start >= from
    <3>1. block.start \in ExpandBlockNights(block, from, to)
      BY <1>1, <1>2, <2>1 DEF ExpandBlockNights, EachNight
    <3> QED
      BY <3>1
  <2>2. CASE ~(block.start >= from)
    <3>1. from \in ExpandBlockNights(block, from, to)
      BY <1>1, <1>2, <2>2 DEF ExpandBlockNights, EachNight
    <3> QED
      BY <3>1
  <2> QED
    BY <2>1, <2>2
<1>3. ASSUME NEW day \in ExpandBlockNights(block, from, to)
      PROVE  block.start < to /\ block.end > from
  BY <1>1 DEF ExpandBlockNights, EachNight
<1> QED
  BY <1>2, <1>3

(* A window and what the two computations make of it. *)
LEMMA SameRooms ==
  ASSUME PInv, NEW from \in Int, NEW to \in Int, from < to
  PROVE  Room \ FreeRooms(Room, Occupied, blocks, from, to)
           = UnavailableRooms(Occupied, blocks, from, to)
<1> DEFINE Slept(r) == \E x \in Occupied : x[1] = r /\ from <= x[2] /\ x[2] < to
           Closed(r) == \E b \in blocks : b.room = r /\ b.start < to /\ b.end > from
<1> USE PricingAssumption DEF PInv
<1>1. \A x \in Occupied : x[1] \in Room /\ x[2] \in Int
  <2> SUFFICES ASSUME NEW x \in Occupied PROVE x[1] \in Room /\ x[2] \in Int
    OBVIOUS
  <2>1. PICK b \in Booking : x \in DOMAIN stay[b].rates
    BY DEF Occupied
  <2>2. PICK rooms \in Rooms, nights \in Stays : DOMAIN stay[b].rates = rooms \X nights
    BY <2>1 DEF RowsOK, Table
  <2>3. rooms \subseteq Room /\ nights \subseteq Int
    BY DEF Rooms, Stays, EachNight, Day
  <2>4. x \in rooms \X nights
    BY <2>1, <2>2
  <2>5. x[1] \in rooms /\ x[2] \in nights
    BY <2>4
  <2> QED
    BY <2>3, <2>5
<1>2. \A b \in blocks : b.room \in Room
  BY DEF CatalogueOK
<1>3. ASSUME NEW r \in Room
      PROVE  r \in FreeRooms(Room, Occupied, blocks, from, to) <=> ~Slept(r) /\ ~Closed(r)
  <2> DEFINE nightsOf == {x[2] : x \in {x \in Occupied : x[1] = r}}
             closedOf == UNION {ExpandBlockNights(b, from, to) : b \in {b \in blocks : b.room = r}}
  <2>1. nightsOf \cap EachNight(from, to) = {} <=> ~Slept(r)
    BY <1>1 DEF EachNight
  <2>2. closedOf \cap EachNight(from, to) = {} <=> ~Closed(r)
    <3>1. \A b \in blocks : ExpandBlockNights(b, from, to) # {} <=> (b.start < to /\ b.end > from)
      BY Overlap DEF CatalogueOK
    <3>2. \A b \in blocks : ExpandBlockNights(b, from, to) \subseteq EachNight(from, to)
      BY DEF ExpandBlockNights
    <3> QED
      BY <3>1, <3>2
  <2>3. r \in FreeRooms(Room, Occupied, blocks, from, to)
          <=> (nightsOf \cup closedOf) \cap EachNight(from, to) = {}
    BY DEF FreeRooms
  <2> QED
    BY <2>1, <2>2, <2>3
<1>4. \A r : r \in UnavailableRooms(Occupied, blocks, from, to) <=> Slept(r) \/ Closed(r)
  BY DEF UnavailableRooms
<1>5. \A r : Slept(r) \/ Closed(r) => r \in Room
  BY <1>1, <1>2
<1> HIDE DEF Slept, Closed
<1> QED
  BY <1>3, <1>4, <1>5

(* Theorem: the desk and the assistant see the same rooms as taken          *)
(* (quoteBookingAction against computeAvailability).                        *)
THEOREM AvailabilityAgreesHolds == Spec => []AvailabilityAgrees
<1>1. PInv => AvailabilityAgrees
  <2> SUFFICES ASSUME PInv, NEW nights \in Stays
               PROVE  Room \ FreeRooms(Room, Occupied, blocks, Min(nights), Max(nights) + 1)
                        = UnavailableRooms(Occupied, blocks, Min(nights), Max(nights) + 1)
    BY DEF AvailabilityAgrees
  <2>1. Min(nights) \in Int /\ Max(nights) + 1 \in Int /\ Min(nights) < Max(nights) + 1
    BY EndsOfStay
  <2> QED
    BY <2>1, SameRooms
<1> QED
  BY <1>1, ReferencesHold, PTL

--------------------------------------------------------------------------------
(* Theorem: the lines of a tax invoice add up to its tax, and halves differ *)
(* by at most a paisa, for every amount (placeOfSupply).                    *)
THEOREM TaxLinesSum ==
  ASSUME NEW ours, NEW theirs, NEW tax \in Nat
  PROVE  LET lines == PlaceOfSupply(ours, theirs, tax)
         IN /\ lines.cgst + lines.sgst + lines.igst = tax
            /\ lines.cgst \in Nat /\ lines.sgst \in Nat /\ lines.igst \in Nat
            /\ lines.cgst - lines.sgst \in {0, 1}
<1> DEFINE half == Round(tax, 2)
<1>1. half \in Nat /\ (tax = 2 * half \/ tax = 2 * half - 1)
  BY DEF Round
<1> HIDE DEF half
<1>2. CASE IntraState(ours, theirs)
  <2>1. PlaceOfSupply(ours, theirs, tax) = [cgst |-> half, sgst |-> tax - half, igst |-> 0]
    BY <1>2 DEF PlaceOfSupply, half
  <2> QED
    BY <2>1, <1>1
<1>3. CASE ~IntraState(ours, theirs)
  BY <1>3 DEF PlaceOfSupply
<1> QED
  BY <1>2, <1>3

(* Theorem: whatever was paid and whenever the guest cancels, refund and    *)
(* retained part make up what was paid; seven midnights in India before     *)
(* arrival all comes back, three before half of it, later nothing           *)
(* (leadDaysUntil, refundPctFor, quoteRefund).                              *)
THEOREM RefundSplit ==
  ASSUME NEW paid \in Nat, NEW checkIn \in Int, NEW now \in Int,
         NEW reason \in CancellationReason
  PROVE  LET told == QuoteRefund(paid, checkIn, reason, now)
         IN /\ told.refundable + told.retained = paid
            /\ told.refundable \in 0..paid
            /\ reason = "Guest cancellation" =>
                 told.retained = IF now < Midnight(checkIn - 6) THEN 0
                                  ELSE IF now < Midnight(checkIn - 2) THEN paid \div 2 ELSE paid
<1> DEFINE lead == LeadDaysUntil(checkIn, now)
           pct == RefundPct(reason, lead)
           back == Round(paid * pct, 100)
<1>1. QuoteRefund(paid, checkIn, reason, now) = [refundable |-> back, retained |-> paid - back]
  BY DEF QuoteRefund
<1>2. /\ pct \in {0, 50, 100}
      /\ reason = "Guest cancellation" =>
           pct = IF lead >= 7 THEN 100 ELSE IF lead >= 3 THEN 50 ELSE 0
  BY DEF RefundPct
<1>3. lead \in Int /\ (lead >= 7 <=> now < Midnight(checkIn - 6))
                   /\ (lead >= 3 <=> now < Midnight(checkIn - 2))
  <2> DEFINE day == (now + 330) \div 1440
  <2>1. day \in Int /\ 1440 * day <= now + 330 /\ now + 330 < 1440 * day + 1440
    OBVIOUS
  <2>2. lead = checkIn - day
    BY DEF LeadDaysUntil, IstDay
  <2> HIDE DEF day, lead
  <2> QED
    BY <2>1, <2>2 DEF Midnight
<1> HIDE DEF pct, lead
<1>4. /\ pct = 0 => back = 0
      /\ pct = 100 => back = paid
      /\ pct = 50 => back \in 0..paid /\ paid - back = paid \div 2
  <2>1. CASE pct = 0
    BY <2>1 DEF Round
  <2>2. CASE pct = 100
    <3>1. back = (200 * paid + 100) \div 200
      BY <2>2 DEF Round
    <3> QED
      BY <2>2, <3>1
  <2>3. CASE pct = 50
    <3>1. back = (100 * paid + 100) \div 200
      BY <2>3 DEF Round
    <3>2. back \in Int /\ 2 * back <= paid + 1 /\ paid + 1 < 2 * back + 2
      BY <3>1
    <3> HIDE DEF back
    <3>3. back \in 0..paid /\ paid - back = paid \div 2
      BY <3>2
    <3> QED
      BY <2>3, <3>3
  <2> QED
    BY <1>2, <2>1, <2>2, <2>3
<1> HIDE DEF back
<1>5. pct = 0 \/ pct = 50 \/ pct = 100
  BY <1>2
<1>6. back \in 0..paid
  <2>1. CASE back = 0
    BY <2>1
  <2>2. CASE back = paid
    BY <2>2
  <2> QED
    BY <1>4, <1>5, <2>1, <2>2
<1>7. back + (paid - back) = paid
  BY <1>6
<1>8. reason = "Guest cancellation" =>
        paid - back = IF lead >= 7 THEN 0 ELSE IF lead >= 3 THEN paid \div 2 ELSE paid
  <2>1. pct = 0 => paid - back = paid
    BY <1>4
  <2>2. pct = 100 => paid - back = 0
    BY <1>4
  <2> QED
    BY <1>2, <1>4, <2>1, <2>2
<1>9. /\ QuoteRefund(paid, checkIn, reason, now).refundable = back
      /\ QuoteRefund(paid, checkIn, reason, now).retained = paid - back
  BY <1>1
<1>10. reason = "Guest cancellation" =>
         paid - back = IF now < Midnight(checkIn - 6) THEN 0
                       ELSE IF now < Midnight(checkIn - 2) THEN paid \div 2 ELSE paid
  BY <1>3, <1>8
<1> QED
  BY <1>6, <1>7, <1>9, <1>10

--------------------------------------------------------------------------------
(* The sort of resolveNight puts every plan in its place. *)
Rank(table, p) == Cardinality({s \in DOMAIN table : Before(table, s, p)})

LEMMA Positions ==
  ASSUME NEW table \in Seq(PlanInput)
  PROVE  /\ DOMAIN table = 1..Len(table) /\ Len(table) \in Nat
         /\ IsFiniteSet(DOMAIN table) /\ Cardinality(DOMAIN table) = Len(table)
         /\ \A p \in DOMAIN table : table[p] \in PlanInput /\ table[p].priority \in Int
<1>1. DOMAIN table = 1..Len(table) /\ Len(table) \in Nat
  BY LenProperties
<1>2. IsFiniteSet(1..Len(table)) /\ Cardinality(1..Len(table)) = Len(table)
  BY <1>1, FS_Interval
<1>3. \A p \in DOMAIN table : table[p] \in PlanInput
  BY <1>1, ElementOfSeq
<1> QED
  BY <1>1, <1>2, <1>3, PricingAssumption

LEMMA BeforeIsOrder ==
  ASSUME NEW table \in Seq(PlanInput), NEW p \in DOMAIN table, NEW q \in DOMAIN table
  PROVE  /\ ~Before(table, p, p)
         /\ p # q => Before(table, p, q) \/ Before(table, q, p)
         /\ \A s \in DOMAIN table :
              Before(table, s, p) /\ Before(table, p, q) => Before(table, s, q)
BY Positions DEF Before

LEMMA RankRange ==
  ASSUME NEW table \in Seq(PlanInput), NEW p \in DOMAIN table
  PROVE  Rank(table, p) \in 0..(Len(table) - 1)
<1> DEFINE B == {s \in DOMAIN table : Before(table, s, p)}
<1>1. B \subseteq DOMAIN table \ {p}
  BY BeforeIsOrder
<1>2. /\ IsFiniteSet(DOMAIN table \ {p}) /\ Cardinality(DOMAIN table \ {p}) = Len(table) - 1
      /\ Len(table) \in Nat
  BY Positions, FS_RemoveElement
<1>3. Cardinality(B) <= Len(table) - 1 /\ Cardinality(B) \in Nat
  BY <1>1, <1>2, FS_Subset, FS_CardinalityType
<1> QED
  BY <1>2, <1>3 DEF Rank

LEMMA RankGrows ==
  ASSUME NEW table \in Seq(PlanInput), NEW p \in DOMAIN table, NEW q \in DOMAIN table,
         Before(table, p, q)
  PROVE  Rank(table, p) < Rank(table, q)
<1> DEFINE B(k) == {s \in DOMAIN table : Before(table, s, k)}
<1>1. B(p) \cup {p} \subseteq B(q) /\ p \notin B(p)
  BY BeforeIsOrder
<1>2. IsFiniteSet(B(p)) /\ IsFiniteSet(B(q))
  BY Positions, FS_Subset
<1>3. Cardinality(B(p) \cup {p}) = Cardinality(B(p)) + 1
  BY <1>1, <1>2, FS_AddElement
<1>4. Cardinality(B(p) \cup {p}) <= Cardinality(B(q))
  BY <1>1, <1>2, FS_Subset
<1>5. Cardinality(B(p)) \in Nat /\ Cardinality(B(q)) \in Nat
  BY <1>2, FS_CardinalityType
<1>6. Cardinality(B(p)) < Cardinality(B(q))
  BY <1>3, <1>4, <1>5
<1> QED
  BY <1>6 DEF Rank

LEMMA RankIsPlace ==
  ASSUME NEW table \in Seq(PlanInput)
  PROVE  /\ \A p, q \in DOMAIN table : Rank(table, p) = Rank(table, q) => p = q
         /\ \A n \in 0..(Len(table) - 1) : \E p \in DOMAIN table : Rank(table, p) = n
<1> DEFINE rank == [p \in DOMAIN table |-> Rank(table, p)]
           places == 0..(Len(table) - 1)
<1>1. \A p, q \in DOMAIN table : Rank(table, p) = Rank(table, q) => p = q
  <2> SUFFICES ASSUME NEW p \in DOMAIN table, NEW q \in DOMAIN table,
                      Rank(table, p) = Rank(table, q), p # q
               PROVE  FALSE
    OBVIOUS
  <2>1. Rank(table, p) \in Int /\ Rank(table, q) \in Int
    BY RankRange
  <2>2. Rank(table, p) < Rank(table, q) \/ Rank(table, q) < Rank(table, p)
    BY BeforeIsOrder, RankGrows
  <2> QED
    BY <2>1, <2>2
<1>2. rank \in Injection(DOMAIN table, places)
  BY <1>1, RankRange DEF Injection, IsInjective
<1>3. IsFiniteSet(places) /\ Cardinality(places) = Len(table) /\ Len(table) \in Nat
  <2> DEFINE last == Len(table) - 1
  <2>1. Len(table) \in Nat /\ last \in Int /\ places = 0..last
    BY Positions
  <2>2. last >= -1 /\ last + 1 = Len(table)
    BY <2>1
  <2> HIDE DEF last, places
  <2>3. IsFiniteSet(0..last) /\ Cardinality(0..last) = IF 0 > last THEN 0 ELSE last - 0 + 1
    BY <2>1, FS_Interval
  <2> QED
    BY <2>1, <2>2, <2>3
<1>4. Cardinality(DOMAIN table) = Len(table)
  BY Positions
<1>5. rank \in Surjection(DOMAIN table, places)
  <2> HIDE DEF rank, places
  <2> QED
    BY <1>2, <1>3, <1>4, FS_Injection
<1> QED
  BY <1>1, <1>5 DEF Surjection

LEMMA Sorted ==
  ASSUME NEW table \in Seq(PlanInput)
  PROVE  /\ DOMAIN Candidates(table) = 1..Len(table)
         /\ \A k \in 1..Len(table) :
              Candidates(table)[k] \in DOMAIN table /\ Rank(table, Candidates(table)[k]) = k - 1
         /\ \A p \in DOMAIN table :
              /\ Rank(table, p) + 1 \in 1..Len(table)
              /\ Candidates(table)[Rank(table, p) + 1] = p
<1>1. DOMAIN Candidates(table) = 1..Len(table) /\ Len(table) \in Nat
  BY Positions DEF Candidates
<1>2. ASSUME NEW k \in 1..Len(table)
      PROVE  Candidates(table)[k] \in DOMAIN table /\ Rank(table, Candidates(table)[k]) = k - 1
  <2>1. Candidates(table)[k] = CHOOSE p \in DOMAIN table : Rank(table, p) = k - 1
    BY Positions DEF Candidates, Rank
  <2>2. k - 1 \in 0..(Len(table) - 1)
    BY <1>1
  <2>3. \E p \in DOMAIN table : Rank(table, p) = k - 1
    BY <2>2, RankIsPlace
  <2> QED
    BY <2>1, <2>3
<1>3. ASSUME NEW p \in DOMAIN table
      PROVE  /\ Rank(table, p) + 1 \in 1..Len(table)
             /\ Candidates(table)[Rank(table, p) + 1] = p
  <2>1. Rank(table, p) + 1 \in 1..Len(table) /\ (Rank(table, p) + 1) - 1 = Rank(table, p)
    BY <1>1, RankRange
  <2> QED
    BY <1>2, <2>1, RankIsPlace
<1> QED
  BY <1>1, <1>2, <1>3

(* ... and the first that applies comes before all others that do. *)
LEMMA FirstMatch ==
  ASSUME NEW table \in Seq(PlanInput), NEW day, NEW type, NEW base
  PROVE  LET found == ResolveNight(day, type, base, table)
             applying == {p \in DOMAIN table : Applies(table[p], day, type)}
         IN  IF applying = {} THEN found.rate = base
             ELSE \E p \in applying :
                    /\ found.rate = table[p].amount[type]
                    /\ \A s \in applying \ {p} : Before(table, p, s)
<1> DEFINE order == Candidates(table)
           applying == {p \in DOMAIN table : Applies(table[p], day, type)}
           ks == {k \in DOMAIN order : Applies(table[order[k]], day, type)}
           first == order[Min(ks)]
<1> HIDE DEF order
<1>1. /\ DOMAIN order = 1..Len(table) /\ Len(table) \in Nat
      /\ \A k \in 1..Len(table) : order[k] \in DOMAIN table /\ Rank(table, order[k]) = k - 1
      /\ \A p \in DOMAIN table :
           Rank(table, p) + 1 \in 1..Len(table) /\ order[Rank(table, p) + 1] = p
  BY Sorted, Positions DEF order
<1>2. ResolveNight(day, type, base, table)
        = IF ks = {} THEN [rate |-> base, plan |-> 0]
          ELSE [rate |-> table[first].amount[type], plan |-> first]
  BY DEF ResolveNight, order
<1>3. \A p \in applying : Rank(table, p) + 1 \in ks
  BY <1>1
<1>4. \A k \in ks : order[k] \in applying
  BY <1>1
<1>5. CASE ks = {}
  BY <1>2, <1>3, <1>5
<1>6. CASE ks # {}
  <2>1. ks \in SUBSET Nat
    BY <1>1
  <2>2. \E m \in ks : \A k \in ks : m <= k
    BY <1>6, <2>1, LeastNatural
  <2>3. Min(ks) \in ks /\ \A k \in ks : Min(ks) <= k
    BY <2>2 DEF Min
  <2>4. first \in applying /\ Rank(table, first) = Min(ks) - 1 /\ Min(ks) \in Nat
    BY <1>1, <1>4, <2>1, <2>3
  <2>5. ASSUME NEW s \in applying \ {first} PROVE Before(table, first, s)
    <3>1. Rank(table, s) + 1 \in ks /\ Rank(table, s) \in Int
      BY <1>3, RankRange
    <3>2. ~(Rank(table, s) < Rank(table, first))
      <4>1. Min(ks) <= Rank(table, s) + 1
        BY <2>3, <3>1
      <4>2. Rank(table, first) = Min(ks) - 1 /\ Min(ks) \in Int
        BY <2>4
      <4> HIDE DEF first, ks
      <4> QED
        BY <3>1, <4>1, <4>2
    <3>3. s \in DOMAIN table /\ first \in DOMAIN table /\ s # first
      BY <2>4
    <3>4. Before(table, s, first) => Rank(table, s) < Rank(table, first)
      BY <3>3, RankGrows
    <3> QED
      BY <3>2, <3>3, <3>4, BeforeIsOrder
  <2> HIDE DEF first, ks
  <2>6. ResolveNight(day, type, base, table).rate = table[first].amount[type]
    BY <1>2, <1>6
  <2>7. applying # {}
    BY <2>4
  <2> QED
    BY <2>4, <2>5, <2>6, <2>7
<1> QED
  BY <1>5, <1>6

--------------------------------------------------------------------------------
(* What the computed amounts are. *)
LEMMA ResolvedIsRate ==
  ASSUME NEW table \in Seq(PlanInput), NEW day, NEW type, NEW base \in RateInput
  PROVE  ResolveNight(day, type, base, table).rate \in RateInput
<1> DEFINE found == ResolveNight(day, type, base, table)
           applying == {p \in DOMAIN table : Applies(table[p], day, type)}
<1>1. IF applying = {} THEN found.rate = base
      ELSE \E p \in applying : found.rate = table[p].amount[type]
  BY FirstMatch
<1>2. \A p \in applying : table[p].amount[type] \in RateInput
  <2>1. \A p \in applying : table[p] \in PlanInput /\ type \in DOMAIN table[p].amount
    BY Positions DEF Applies
  <2> QED
    BY <2>1, PricingAssumption
<1> HIDE DEF found, applying
<1>3. found.rate \in RateInput
  BY <1>1, <1>2
<1> QED
  BY <1>3 DEF found

LEMMA NightsOfStay ==
  ASSUME NEW nights \in Stays
  PROVE  IsFiniteSet(nights) /\ nights # {} /\ nights \subseteq Int
<1>1. PICK from \in Int, to \in Int : nights = from..to
  <2>1. PICK from \in Day, to \in 1..LastDay : nights = EachNight(from, to)
    BY DEF Stays
  <2>2. from \in Int /\ to - 1 \in Int
    BY <2>1, PricingAssumption DEF Day
  <2> QED
    BY <2>1, <2>2 DEF EachNight
<1>2. IsFiniteSet(nights)
  BY <1>1, FS_Interval
<1>3. nights # {}
  BY DEF Stays
<1>4. nights \subseteq Int
  BY <1>1
<1> QED
  BY <1>2, <1>3, <1>4

LEMMA NightTaxes ==
  ASSUME NEW rate \in Nat
  PROVE  /\ NightTax(rate) \in Nat /\ Round(rate * 5, 100) \in Nat /\ Round(rate * 18, 100) \in Nat
         /\ Round(rate * 5, 100) <= Round(rate * 18, 100)
         /\ Round(rate * 5, 100) = 0 <=> ~Worth(rate)
         /\ Worth(rate) => Round(rate * 5, 100) < Round(rate * 18, 100)
<1>1. /\ Round(rate * 5, 100) = (10 * rate + 100) \div 200
      /\ Round(rate * 18, 100) = (36 * rate + 100) \div 200
  BY DEF Round
<1>2. NightTax(rate) = Round(rate * 5, 100) \/ NightTax(rate) = Round(rate * 18, 100)
  BY DEF NightTax, GstRate
<1>3. Round(rate * 5, 100) = 0 <=> rate < 10
  BY <1>1
<1> QED
  BY <1>1, <1>2, <1>3 DEF Worth

(* The rows of a booking are a table of rooms and nights. *)
LEMMA RowsOfStay ==
  ASSUME NEW rates \in RowRates
  PROVE  /\ \E rooms \in Rooms, nights \in Stays :
              /\ rates \in [rooms \X nights -> RateInput]
              /\ RoomsOf(rates) = rooms /\ {x[2] : x \in DOMAIN rates} = nights
              /\ IsFiniteSet(rooms) /\ IsFiniteSet(nights)
         /\ \A night \in DOMAIN rates : rates[night] \in Nat
         /\ IsFiniteSet(DOMAIN rates) /\ DOMAIN rates # {}
<1>1. PICK rooms \in Rooms, nights \in Stays : rates \in [rooms \X nights -> RateInput]
  <2>1. PICK rows \in Cells : rates \in [rows -> RateInput]
    BY DEF RowRates
  <2>2. PICK rooms \in Rooms, nights \in Stays : rows = rooms \X nights
    BY DEF Cells
  <2> QED
    BY <2>1, <2>2
<1>2. DOMAIN rates = rooms \X nights /\ \A night \in DOMAIN rates : rates[night] \in Nat
  <2> DEFINE T == rooms \X nights
  <2>1. rates \in [T -> RateInput]
    BY <1>1
  <2> HIDE DEF T
  <2>2. DOMAIN rates = T /\ \A night \in DOMAIN rates : rates[night] \in Nat
    BY <2>1, PricingAssumption
  <2> QED
    BY <2>2 DEF T
<1>3. rooms # {} /\ rooms \subseteq Room
  BY DEF Rooms
<1>4. IsFiniteSet(rooms)
  BY <1>3, PricingAssumption, FS_Subset
<1>5. IsFiniteSet(nights) /\ nights # {}
  BY NightsOfStay
<1>6. PICK room \in rooms, night \in nights : TRUE
  BY <1>3, <1>5
<1>7. RoomsOf(rates) = rooms
  <2>1. \A x \in rooms \X nights : x[1] \in rooms
    OBVIOUS
  <2>2. \A y \in rooms : <<y, night>> \in rooms \X nights /\ <<y, night>>[1] = y
    BY <1>6
  <2> QED
    BY <1>2, <2>1, <2>2 DEF RoomsOf
<1>8. {x[2] : x \in DOMAIN rates} = nights
  <2>1. \A x \in rooms \X nights : x[2] \in nights
    OBVIOUS
  <2>2. \A y \in nights : <<room, y>> \in rooms \X nights /\ <<room, y>>[2] = y
    BY <1>6
  <2>3. {x[2] : x \in rooms \X nights} = nights
    BY <2>1, <2>2
  <2> QED
    BY <1>2, <2>3
<1>9. IsFiniteSet(DOMAIN rates) /\ DOMAIN rates # {}
  <2>1. IsFiniteSet(rooms \X nights)
    BY <1>4, <1>5, FS_Product
  <2>2. <<room, night>> \in rooms \X nights
    BY <1>6
  <2> QED
    BY <1>2, <2>1, <2>2
<1> QED
  BY <1>1, <1>2, <1>4, <1>5, <1>7, <1>8, <1>9

LEMMA SumsOfRows ==
  ASSUME NEW rates \in RowRates, NEW gst \in BOOLEAN
  PROVE  Subtotal(rates) \in Nat /\ Tax(rates, gst) \in Nat
<1> DEFINE nights == DOMAIN rates
           taxes == [night \in nights |-> NightTax(rates[night])]
<1>1. IsFiniteSet(nights) /\ \A night \in nights : rates[night] \in Nat
  BY RowsOfStay
<1>2. \A night \in nights : taxes[night] \in Nat
  BY <1>1, NightTaxes
<1>3. Subtotal(rates) = SumFunctionOnSet(rates, nights)
  BY DEF Subtotal, SumFunction
<1>4. Tax(rates, gst) = IF gst THEN SumFunctionOnSet(taxes, nights) ELSE 0
  BY DEF Tax, SumFunction
<1> HIDE DEF nights, taxes
<1>5. SumFunctionOnSet(rates, nights) \in Nat /\ SumFunctionOnSet(taxes, nights) \in Nat
  BY <1>1, <1>2, SumNat
<1> QED
  BY <1>3, <1>4, <1>5

(* What a table of rates costs is what its rooms cost one by one. *)
LEMMA TableAddsUp ==
  ASSUME NEW rates \in RowRates, NEW gst \in BOOLEAN
  PROVE  /\ Subtotal(rates)
              = SumFunction([r \in RoomsOf(rates) |-> Subtotal(InRoom(rates, r))])
         /\ Tax(rates, gst)
              = SumFunction([r \in RoomsOf(rates) |-> Tax(InRoom(rates, r), gst)])
<1>1. PICK rooms \in Rooms, nights \in Stays :
        /\ rates \in [rooms \X nights -> RateInput]
        /\ RoomsOf(rates) = rooms /\ {x[2] : x \in DOMAIN rates} = nights
        /\ IsFiniteSet(rooms) /\ IsFiniteSet(nights)
  BY RowsOfStay
<1>2. IsFiniteSet(rooms) /\ IsFiniteSet(nights)
  BY <1>1
<1>3. DOMAIN rates = Grid(rooms, nights) /\ \A x \in Grid(rooms, nights) : rates[x] \in Nat
  BY <1>1, PricingAssumption DEF Grid
<1>4. \A r \in rooms : /\ \A day \in nights : <<r, day>> \in Grid(rooms, nights)
                       /\ \A x \in Grid({r}, nights) : x \in Grid(rooms, nights)
  BY DEF Grid
<1>5. \A r : InRoom(rates, r) = [day \in nights |-> rates[<<r, day>>]]
  BY <1>1 DEF InRoom
<1> DEFINE taxes == [x \in Grid(rooms, nights) |-> NightTax(rates[x])]
           costs == [r \in rooms |-> Subtotal(InRoom(rates, r))]
           owed == [r \in rooms |-> Tax(InRoom(rates, r), TRUE)]
           free == [r \in rooms |-> Tax(InRoom(rates, r), FALSE)]
<1>6. Subtotal(rates) = SumFunction(costs)
  <2>1. ASSUME NEW r \in rooms PROVE costs[r] = SumFunctionOnSet(rates, Grid({r}, nights))
    <3> DEFINE h == InRoom(rates, r)
    <3>1. h = RowOf(rates, r, nights)
      BY <1>5 DEF RowOf
    <3>2. \A x \in Grid({r}, nights) : rates[x] \in Int
      BY <1>3, <1>4
    <3>3. costs[r] = SumFunctionOnSet(h, nights)
      BY <1>5 DEF Subtotal, SumFunction
    <3> HIDE DEF h
    <3>4. SumFunctionOnSet(rates, Grid({r}, nights)) = SumFunctionOnSet(h, nights)
      BY <1>2, <3>1, <3>2, SumOfRow
    <3> QED
      BY <3>3, <3>4
  <2>2. \A x \in Grid(rooms, nights) : rates[x] \in Int
    BY <1>3
  <2>3. DOMAIN costs = rooms
    OBVIOUS
  <2> HIDE DEF costs
  <2>4. SumFunctionOnSet(rates, Grid(rooms, nights)) = SumFunctionOnSet(costs, rooms)
    <3>1. \A r \in rooms : costs[r] = SumFunctionOnSet(rates, Grid({r}, nights))
      BY <2>1
    <3> QED
      BY <1>2, <2>2, <3>1, SumByRows
  <2> QED
    BY <1>3, <2>3, <2>4 DEF Subtotal, SumFunction
<1>7. Tax(rates, TRUE) = SumFunction(owed)
  <2>1. \A x \in Grid(rooms, nights) : taxes[x] \in Int
    BY <1>3, NightTaxes
  <2>2. ASSUME NEW r \in rooms PROVE owed[r] = SumFunctionOnSet(taxes, Grid({r}, nights))
    <3> DEFINE h == [night \in DOMAIN InRoom(rates, r) |-> NightTax(InRoom(rates, r)[night])]
    <3>1. DOMAIN InRoom(rates, r) = nights
          /\ \A day \in nights : InRoom(rates, r)[day] = rates[<<r, day>>]
      BY <1>5
    <3>2. h = RowOf(taxes, r, nights)
      BY <1>4, <3>1 DEF RowOf
    <3>3. \A x \in Grid({r}, nights) : taxes[x] \in Int
      BY <1>4, <2>1
    <3>4. owed[r] = SumFunctionOnSet(h, nights)
      BY <3>1 DEF Tax, SumFunction
    <3> HIDE DEF h, taxes
    <3>5. SumFunctionOnSet(taxes, Grid({r}, nights)) = SumFunctionOnSet(h, nights)
      BY <1>2, <3>2, <3>3, SumOfRow
    <3> QED
      BY <3>4, <3>5
  <2>3. DOMAIN owed = rooms
    OBVIOUS
  <2>4. Tax(rates, TRUE) = SumFunctionOnSet(taxes, Grid(rooms, nights))
    BY <1>3 DEF Tax, SumFunction
  <2> HIDE DEF owed, taxes
  <2>5. SumFunctionOnSet(taxes, Grid(rooms, nights)) = SumFunctionOnSet(owed, rooms)
    BY <1>2, <2>1, <2>2, SumByRows
  <2> QED
    BY <2>3, <2>4, <2>5 DEF SumFunction
<1>8. Tax(rates, FALSE) = SumFunction(free)
  <2>1. \A r \in rooms : free[r] = 0
    BY DEF Tax
  <2>2. DOMAIN free = rooms
    OBVIOUS
  <2> HIDE DEF free
  <2>3. SumFunctionOnSet(free, rooms) = 0
    BY <1>1, <2>1, SumOfZeroes
  <2> QED
    BY <2>2, <2>3 DEF Tax, SumFunction
<1>9. CASE gst
  <2>1. gst = TRUE
    BY <1>9
  <2> QED
    BY <1>1, <1>6, <1>7, <2>1
<1>10. CASE ~gst
  <2>1. gst = FALSE
    BY <1>10
  <2> QED
    BY <1>1, <1>6, <1>8, <2>1
<1> QED
  BY <1>9, <1>10

(* The table of plans. *)
LEMMA PlansKeep ==
  ASSUME plans \in Seq(PlanInput), Edit
  PROVE  plans' \in Seq(PlanInput)
<1>1. ASSUME NEW plan \in PlanInput, CreateRatePlan(plan) PROVE plans' \in Seq(PlanInput)
  BY <1>1, AppendProperties DEF CreateRatePlan
<1>2. ASSUME NEW plan \in PlanInput, NEW p \in DOMAIN plans, UpdateRatePlan(p, plan)
      PROVE  plans' \in Seq(PlanInput)
  BY <1>2, LenProperties, ExceptSeq DEF UpdateRatePlan
<1>3. ASSUME NEW p \in DOMAIN plans, DeleteRatePlan(p) PROVE plans' \in Seq(PlanInput)
  <2>1. p \in 1..Len(plans) /\ Len(plans) \in Nat
    BY LenProperties
  <2>2. \A i \in 1..Len(plans) : plans[i] \in PlanInput
    BY ElementOfSeq
  <2>3. SubSeq(plans, 1, p - 1) \in Seq(PlanInput)
    BY <2>1, <2>2, SubSeqProperties
  <2>4. SubSeq(plans, p + 1, Len(plans)) \in Seq(PlanInput)
    BY <2>1, <2>2, SubSeqProperties
  <2> QED
    BY <1>3, <2>3, <2>4, ConcatProperties DEF DeleteRatePlan
<1>4. CASE UNCHANGED plans
  BY <1>4
<1> QED
  BY <1>1, <1>2, <1>3, <1>4
  DEF Edit, SaveRoomType, DeleteRoomType, SaveRoom, DeleteRoom, CreateBlock, DeleteBlock, SetGstin

(* The shape of rows, amounts and handlers, apart from the references. *)
ShapeOK ==
  /\ plans \in Seq(PlanInput)
  /\ gstin \in BOOLEAN
  /\ stay \in [Booking -> Stay]
  /\ req \in [Request -> InFlight \cup {Idle}]

LEMMA ShapeAndReferences == PInv /\ ShapeOK => TypeOK
  BY DEF PInv, CatalogueOK, RowsOK, RequestsOK, ShapeOK, TypeOK

LEMMA ShapeAtStart == Init => ShapeOK
<1> SUFFICES ASSUME Init PROVE ShapeOK
  OBVIOUS
<1>1. plans \in Seq(PlanInput) /\ gstin \in BOOLEAN
  BY EmptySeq DEF Init
<1>2. NoStay \in Stay
  BY DEF Stay, NoStay
<1>3. stay \in [Booking -> Stay]
  BY <1>2 DEF Init
<1>4. req \in [Request -> InFlight \cup {Idle}]
  BY DEF Init
<1> QED
  BY <1>1, <1>3, <1>4 DEF ShapeOK

LEMMA ReadingKeepsShape ==
  ASSUME PInv, ShapeOK, NEW q \in Request, NEW b \in Booking, NEW rooms \in Rooms,
         NEW nights \in Stays, NEW byHand \in RateInput \cup {NoRate},
         ReadRooms(q, b, rooms, nights, byHand)
  PROVE  ShapeOK'
<1> DEFINE types == [r \in rooms |-> typeOf[r]]
           bases == [r \in rooms |-> baseRate[typeOf[r]]]
           e == [op |-> "plans", booking |-> b, rooms |-> rooms, nights |-> nights,
                 type |-> types, base |-> bases, manual |-> byHand, gst |-> gstin]
<1>1. \A r \in rooms : typeOf[r] \in RoomType /\ baseRate[typeOf[r]] \in RateInput
  BY DEF ReadRooms, PInv, CatalogueOK, Rooms
<1>2. types \in [rooms -> RoomType] /\ bases \in [rooms -> RateInput]
  BY <1>1
<1>3. /\ types \in UNION {[rs -> RoomType] : rs \in Rooms}
      /\ bases \in UNION {[rs -> RateInput] : rs \in Rooms}
  BY <1>2
<1>4. req' = [req EXCEPT ![q] = e] /\ UNCHANGED <<plans, gstin, stay>>
  BY DEF ReadRooms, catalogue
<1> HIDE DEF types, bases
<1>5. e \in InFlight
  BY <1>3 DEF InFlight, ShapeOK
<1> HIDE DEF e
<1>6. req' \in [Request -> InFlight \cup {Idle}]
  BY <1>4, <1>5 DEF ShapeOK
<1> QED
  BY <1>4, <1>6 DEF ShapeOK

LEMMA EntryShape ==
  ASSUME PInv, ShapeOK, NEW q \in Request
  PROVE  /\ req[q].op = "plans" =>
              /\ req[q].booking \in Booking /\ req[q].rooms \in Rooms /\ req[q].nights \in Stays
              /\ req[q].base \in [req[q].rooms -> RateInput]
              /\ req[q].manual \in RateInput \cup {NoRate} /\ req[q].gst \in BOOLEAN
         /\ req[q].op = "commit" =>
              /\ req[q].booking \in Booking
              /\ req[q].rates \in RowRates /\ req[q].gst \in BOOLEAN
<1>1. req[q] \in InFlight \cup {Idle}
  BY DEF ShapeOK
<1> DEFINE types == UNION {[rs -> RoomType] : rs \in Rooms}
           bases == UNION {[rs -> RateInput] : rs \in Rooms}
<1> HIDE DEF InFlight, types, bases
<1>2. CASE req[q] = Idle
  BY <1>2 DEF Idle
<1>3. CASE req[q] \in [op : {"plans"}, booking : Booking, rooms : Rooms, nights : Stays,
                       type : types, base : bases, manual : RateInput \cup {NoRate},
                       gst : BOOLEAN]
  <2>1. /\ req[q].op = "plans" /\ req[q].booking \in Booking /\ req[q].rooms \in Rooms
        /\ req[q].nights \in Stays /\ req[q].base \in bases
        /\ req[q].manual \in RateInput \cup {NoRate} /\ req[q].gst \in BOOLEAN
    BY <1>3
  <2>2. PICK rs \in Rooms : req[q].base \in [rs -> RateInput]
    BY <2>1 DEF bases
  <2>3. DOMAIN req[q].base = req[q].rooms
    BY <2>1 DEF PInv, RequestsOK
  <2>4. rs = req[q].rooms
    BY <2>2, <2>3
  <2> QED
    BY <2>1, <2>2, <2>4
<1>4. CASE req[q] \in [op : {"commit"}, booking : Booking, rates : RowRates, gst : BOOLEAN]
  BY <1>4
<1> QED
  BY <1>1, <1>2, <1>3, <1>4 DEF InFlight, types, bases

LEMMA TablesOfRates ==
  ASSUME NEW rooms \in Rooms, NEW nights \in Stays, NEW rates \in [rooms \X nights -> RateInput]
  PROVE  rates \in RowRates
<1> DEFINE rows == rooms \X nights
<1>1. rows \in Cells /\ rates \in [rows -> RateInput]
  BY DEF Cells
<1> HIDE DEF rows
<1> QED
  BY <1>1 DEF RowRates

LEMMA PlansReadKeepShape ==
  ASSUME PInv, ShapeOK, NEW q \in Request, ReadPlans(q)
  PROVE  ShapeOK'
<1> DEFINE m == req[q]
           e == [op |-> "commit", booking |-> m.booking, rates |-> Quoted(m), gst |-> m.gst]
<1>1. /\ m.booking \in Booking /\ m.rooms \in Rooms /\ m.nights \in Stays
      /\ m.base \in [m.rooms -> RateInput]
      /\ m.manual \in RateInput \cup {NoRate} /\ m.gst \in BOOLEAN
  BY EntryShape DEF ReadPlans
<1>2. req' = [req EXCEPT ![q] = e] /\ UNCHANGED <<plans, gstin, stay>>
  BY DEF ReadPlans, catalogue
<1> HIDE DEF m
<1>3. Quoted(m) \in [m.rooms \X m.nights -> RateInput]
  <2>1. plans \in Seq(PlanInput)
    BY DEF ShapeOK
  <2>2. ASSUME NEW x \in m.rooms \X m.nights
        PROVE  QuoteStay(m.nights, m.type[x[1]], m.base[x[1]], plans)[x[2]] \in RateInput
    <3>1. x[2] \in m.nights /\ m.base[x[1]] \in RateInput
      BY <1>1
    <3>2. ResolveNight(x[2], m.type[x[1]], m.base[x[1]], plans).rate \in RateInput
      BY <2>1, <3>1, ResolvedIsRate
    <3> QED
      BY <3>1, <3>2 DEF QuoteStay
  <2> QED
    BY <1>1, <2>2 DEF Quoted
<1>4. Quoted(m) \in RowRates
  BY <1>1, <1>3, TablesOfRates
<1>5. e \in InFlight
  BY <1>1, <1>4 DEF InFlight
<1> HIDE DEF e
<1>6. req' \in [Request -> InFlight \cup {Idle}]
  BY <1>2, <1>5 DEF ShapeOK
<1> QED
  BY <1>2, <1>6 DEF ShapeOK

LEMMA CommitKeepsShape ==
  ASSUME PInv, ShapeOK, NEW q \in Request, Commit(q)
  PROVE  ShapeOK'
<1> DEFINE m == req[q]
           row == [rates |-> m.rates, subtotal |-> Subtotal(m.rates),
                   tax |-> Tax(m.rates, m.gst), gst |-> m.gst]
<1>1. m.booking \in Booking /\ m.rates \in RowRates /\ m.gst \in BOOLEAN
  BY EntryShape DEF Commit
<1>2. Subtotal(m.rates) \in Nat /\ Tax(m.rates, m.gst) \in Nat
  BY <1>1, SumsOfRows
<1>3. row \in Stay
  BY <1>1, <1>2 DEF Stay
<1>4. /\ stay' = [stay EXCEPT ![m.booking] = row] /\ req' = [req EXCEPT ![q] = Idle]
      /\ UNCHANGED <<plans, gstin>>
  BY DEF Commit, catalogue
<1> HIDE DEF row
<1>5. stay' \in [Booking -> Stay]
  BY <1>3, <1>4 DEF ShapeOK
<1>6. req' \in [Request -> InFlight \cup {Idle}]
  BY <1>4 DEF ShapeOK
<1> QED
  BY <1>4, <1>5, <1>6 DEF ShapeOK

LEMMA GivingUpKeepsShape ==
  ASSUME ShapeOK, NEW b \in Booking, GiveUp(b)
  PROVE  ShapeOK'
<1>1. stay[b] \in Stay
  BY DEF ShapeOK
<1>2. [stay[b] EXCEPT !.rates = <<>>] \in Stay
  BY <1>1 DEF Stay
<1>3. /\ stay' = [stay EXCEPT ![b] = [stay[b] EXCEPT !.rates = <<>>]]
      /\ UNCHANGED <<plans, gstin, req>>
  BY <1>1 DEF GiveUp, catalogue, Stay, ShapeOK
<1>4. stay' \in [Booking -> Stay]
  BY <1>2, <1>3 DEF ShapeOK
<1> QED
  BY <1>3, <1>4 DEF ShapeOK

LEMMA PricedStay ==
  ASSUME TypeOK, NEW b \in Booking, Holds(b)
  PROVE  /\ stay[b].rates \in RowRates /\ stay[b].gst \in BOOLEAN
         /\ stay[b].subtotal \in Nat /\ stay[b].tax \in Nat
<1>1. stay[b] \in Stay
  BY DEF TypeOK
<1>2. stay[b].rates \in RowRates \cup {<<>>} /\ stay[b].rates # <<>>
  BY <1>1 DEF Stay, Holds
<1> QED
  BY <1>1, <1>2 DEF Stay

(* Theorem: whatever is edited, priced, moved and given up, the tables keep *)
(* their shape, no row refers to one that is gone, a booking is for the     *)
(* same nights in each of its rooms, every night has a rate somebody typed, *)
(* and what a booking costs before and after tax is what its rooms would    *)
(* cost one by one, every night rounded for itself (the actions of rooms.ts *)
(* and rateplans.ts; createBooking, moveBooking).                           *)
THEOREM AmountsHold == Spec => []IInv
<1>1. PInv /\ ShapeOK /\ [Next]_vars => ShapeOK'
  <2> SUFFICES ASSUME PInv, ShapeOK, [Next]_vars PROVE ShapeOK'
    OBVIOUS
  <2>1. CASE UNCHANGED vars
    BY <2>1 DEF vars, ShapeOK
  <2>2. CASE Edit
    <3>1. plans' \in Seq(PlanInput)
      BY <2>2, PlansKeep DEF ShapeOK
    <3>2. UNCHANGED <<stay, req>> /\ gstin' \in BOOLEAN
      BY <2>2 DEF ShapeOK, Edit, SaveRoomType, DeleteRoomType, SaveRoom, DeleteRoom,
         CreateRatePlan, UpdateRatePlan, DeleteRatePlan, CreateBlock, DeleteBlock, SetGstin
    <3> QED
      BY <3>1, <3>2 DEF ShapeOK
  <2>3. ASSUME NEW q \in Request, Abandon(q) PROVE ShapeOK'
    <3>1. req' = [req EXCEPT ![q] = Idle] /\ UNCHANGED <<plans, gstin, stay>>
      BY <2>3 DEF Abandon, catalogue
    <3> QED
      BY <3>1 DEF ShapeOK
  <2> QED
    BY <2>1, <2>2, <2>3, ReadingKeepsShape, PlansReadKeepShape, CommitKeepsShape,
       GivingUpKeepsShape DEF Next, Price
<1>2. Spec => []ShapeOK
  BY <1>1, ShapeAtStart, ReferencesHold, PTL DEF Spec
<1>3. PInv /\ ShapeOK /\ PriceIsRows => IInv
  <2> SUFFICES ASSUME PInv, ShapeOK, PriceIsRows PROVE IInv
    OBVIOUS
  <2>1. ASSUME NEW b \in Booking, Holds(b)
        PROVE  LET rates == stay[b].rates
               IN /\ stay[b].subtotal
                       = SumFunction([r \in RoomsOf(rates) |-> Subtotal(InRoom(rates, r))])
                  /\ stay[b].tax
                       = SumFunction([r \in RoomsOf(rates) |->
                                        Tax(InRoom(rates, r), stay[b].gst)])
    <3>1. TypeOK
      BY ShapeAndReferences
    <3>2. stay[b].rates \in RowRates /\ stay[b].gst \in BOOLEAN
      BY <2>1, <3>1, PricedStay
    <3>3. /\ stay[b].subtotal = Subtotal(stay[b].rates)
          /\ stay[b].tax = Tax(stay[b].rates, stay[b].gst)
      BY <2>1 DEF PriceIsRows
    <3> QED
      BY <3>2, <3>3, TableAddsUp
  <2> QED
    BY <2>1, ShapeAndReferences DEF IInv, RoomsAddUp
<1> QED
  BY <1>2, <1>3, ReferencesHold, PriceIsRowsHolds, PTL

--------------------------------------------------------------------------------
LEMMA ReasonDecides ==
  ASSUME NEW paid \in Nat, NEW checkIn \in Int, NEW now \in Int,
         NEW reason \in CancellationReason
  PROVE  LET told == QuoteRefund(paid, checkIn, reason, now)
         IN /\ reason \in {"Owner cancellation", "Force majeure"} => told.retained = 0
            /\ reason = "No-show" => told.refundable = 0
<1> DEFINE pct == RefundPct(reason, LeadDaysUntil(checkIn, now))
           back == Round(paid * pct, 100)
<1>1. /\ QuoteRefund(paid, checkIn, reason, now).refundable = back
      /\ QuoteRefund(paid, checkIn, reason, now).retained = paid - back
  BY DEF QuoteRefund
<1>2. reason \in {"Owner cancellation", "Force majeure"} => pct = 100
  BY DEF RefundPct
<1>3. reason = "No-show" => pct = 0
  BY DEF RefundPct
<1> HIDE DEF pct
<1>4. pct = 100 => back = paid
  <2> SUFFICES ASSUME pct = 100 PROVE back = paid
    OBVIOUS
  <2>1. back = (200 * paid + 100) \div 200
    BY DEF Round
  <2> QED
    BY <2>1
<1>5. pct = 0 => back = 0
  BY DEF Round
<1> HIDE DEF back
<1>6. pct = 100 => paid - back = 0
  BY <1>4
<1> QED
  BY <1>1, <1>2, <1>3, <1>5, <1>6

(* Theorem: of every booking that holds a room, at every instant, a guest   *)
(* who cancels before the seventh (third) midnight in India before arrival  *)
(* gets all (half) back and later ones nothing, the owner's cancellation    *)
(* and force majeure all, a no-show nothing, and refund and retained part   *)
(* make up what was paid (leadDaysUntil, refundPctFor, quoteRefund).        *)
THEOREM RefundTiersHold == Spec => []RefundTiers
<1>1. IInv => RefundTiers
  <2> SUFFICES ASSUME IInv, NEW b \in Booking, NEW now \in Instant, Holds(b)
      PROVE  LET paid == stay[b].subtotal + stay[b].tax
                 checkIn == Min({x[2] : x \in DOMAIN stay[b].rates})
                 told(reason) == QuoteRefund(paid, checkIn, reason, now)
                 guest == told("Guest cancellation")
             IN /\ guest.retained =
                     IF now < Midnight(checkIn - 6) THEN 0
                     ELSE IF now < Midnight(checkIn - 2) THEN paid \div 2 ELSE paid
                /\ \A reason \in CancellationReason :
                     /\ told(reason).refundable + told(reason).retained = paid
                     /\ told(reason).refundable \in 0..paid
                     /\ reason \in {"Owner cancellation", "Force majeure"} =>
                          told(reason).retained = 0
                     /\ reason = "No-show" => told(reason).refundable = 0
    BY DEF RefundTiers
  <2> DEFINE paid == stay[b].subtotal + stay[b].tax
             checkIn == Min({x[2] : x \in DOMAIN stay[b].rates})
  <2>1. stay[b].rates \in RowRates /\ paid \in Nat
    BY PricedStay DEF IInv
  <2>2. checkIn \in Int
    BY <2>1, RowsOfStay, EndsOfStay
  <2>3. now \in Int
    BY PricingAssumption
  <2> HIDE DEF paid, checkIn
  <2>4. "Guest cancellation" \in CancellationReason
    BY DEF CancellationReason
  <2>5. QuoteRefund(paid, checkIn, "Guest cancellation", now).retained =
          IF now < Midnight(checkIn - 6) THEN 0
          ELSE IF now < Midnight(checkIn - 2) THEN paid \div 2 ELSE paid
    BY <2>1, <2>2, <2>3, <2>4, RefundSplit
  <2>6. \A reason \in CancellationReason :
          LET told == QuoteRefund(paid, checkIn, reason, now)
          IN /\ told.refundable + told.retained = paid
             /\ told.refundable \in 0..paid
    BY <2>1, <2>2, <2>3, RefundSplit
  <2>7. \A reason \in CancellationReason :
          LET told == QuoteRefund(paid, checkIn, reason, now)
          IN /\ reason \in {"Owner cancellation", "Force majeure"} => told.retained = 0
             /\ reason = "No-show" => told.refundable = 0
    BY <2>1, <2>2, <2>3, ReasonDecides
  <2> QED
    BY <2>5, <2>6, <2>7 DEF paid, checkIn
<1> QED
  BY <1>1, AmountsHold, PTL

--------------------------------------------------------------------------------
(* A night's tax is the share of its band. *)
LEMMA BandTax ==
  ASSUME NEW rate \in Nat
  PROVE  /\ rate <= ThresholdPaise => NightTax(rate) = Round(rate * 5, 100)
         /\ ~(rate <= ThresholdPaise) => NightTax(rate) = Round(rate * 18, 100) /\ Worth(rate)
BY DEF NightTax, GstRate, ThresholdPaise, Worth

(* The rows of a stay, its tax and its label. *)
LEMMA LabelTaxes ==
  ASSUME NEW rates \in RowRates, NEW gst \in BOOLEAN
  PROVE  LET tax == Tax(rates, gst)
             label == TaxLabel(rates, gst)
             low == {night \in DOMAIN rates : rates[night] <= ThresholdPaise}
         IN /\ tax = 0 <=> (label = {} \/ \A night \in DOMAIN rates : ~Worth(rates[night]))
            /\ \A pct \in label :
                 IF label = {pct} THEN tax = Share(rates, pct)
                 ELSE /\ Share(rates, 5) < tax /\ tax <= Share(rates, 18)
                      /\ (\E night \in low : Worth(rates[night])) => tax # Share(rates, 18)
<1> DEFINE nights == DOMAIN rates
           low == {night \in nights : rates[night] <= ThresholdPaise}
           high == nights \ low
           tax == Tax(rates, gst)
           label == TaxLabel(rates, gst)
           taxes == [night \in nights |-> NightTax(rates[night])]
           at(pct) == [night \in nights |-> Round(rates[night] * pct, 100)]
<1>1. IsFiniteSet(nights) /\ nights # {} /\ \A night \in nights : rates[night] \in Nat
  BY RowsOfStay
<1>2. Share(rates, 5) = SumFunctionOnSet(at(5), nights)
  BY DEF Share, SumFunction
<1>3. Share(rates, 18) = SumFunctionOnSet(at(18), nights)
  BY DEF Share, SumFunction
<1>4. tax = IF gst THEN SumFunctionOnSet(taxes, nights) ELSE 0
  BY DEF Tax, SumFunction
<1>5. label = IF ~gst THEN {} ELSE {IF rates[n] <= ThresholdPaise THEN 5 ELSE 18 : n \in nights}
  BY DEF TaxLabel
<1>6. \A night \in nights :
        /\ at(5)[night] \in Nat /\ taxes[night] \in Nat /\ at(18)[night] \in Nat
        /\ at(5)[night] <= taxes[night] /\ taxes[night] <= at(18)[night]
        /\ taxes[night] = 0 <=> ~Worth(rates[night])
        /\ night \in low => taxes[night] = at(5)[night]
        /\ night \in high => taxes[night] = at(18)[night] /\ at(5)[night] < taxes[night]
        /\ night \in low /\ Worth(rates[night]) => taxes[night] < at(18)[night]
  <2> SUFFICES ASSUME NEW night \in nights
      PROVE  /\ at(5)[night] \in Nat /\ taxes[night] \in Nat /\ at(18)[night] \in Nat
             /\ at(5)[night] <= taxes[night] /\ taxes[night] <= at(18)[night]
             /\ taxes[night] = 0 <=> ~Worth(rates[night])
             /\ night \in low => taxes[night] = at(5)[night]
             /\ night \in high => taxes[night] = at(18)[night] /\ at(5)[night] < taxes[night]
             /\ night \in low /\ Worth(rates[night]) => taxes[night] < at(18)[night]
    OBVIOUS
  <2> DEFINE rate == rates[night]
             r5 == Round(rate * 5, 100)
             r18 == Round(rate * 18, 100)
             t == NightTax(rate)
  <2>1. rate \in Nat
    BY <1>1
  <2>2. at(5)[night] = r5 /\ at(18)[night] = r18 /\ taxes[night] = t
    OBVIOUS
  <2>3. /\ r5 \in Nat /\ r18 \in Nat /\ t \in Nat /\ r5 <= r18
        /\ r5 = 0 <=> ~Worth(rate)
        /\ Worth(rate) => r5 < r18
    BY <2>1, NightTaxes
  <2>4. /\ rate <= ThresholdPaise => t = r5
        /\ ~(rate <= ThresholdPaise) => t = r18 /\ Worth(rate)
    BY <2>1, BandTax
  <2>5. (night \in low <=> rate <= ThresholdPaise) /\ (night \in high <=> night \notin low)
    OBVIOUS
  <2> HIDE DEF rate, r5, r18, t, at, taxes, low, high
  <2>6. /\ night \in low => t = r5
        /\ night \in high => t = r18 /\ Worth(rate)
        /\ night \in low \/ night \in high
    BY <2>4, <2>5
  <2> QED
    BY <2>2, <2>3, <2>6 DEF rate
<1>7. label = {} <=> ~gst
  BY <1>1, <1>5
<1>8. ASSUME gst, low = nights PROVE label = {5}
  BY <1>1, <1>5, <1>8
<1>9. ASSUME gst, high = nights PROVE label = {18}
  BY <1>1, <1>5, <1>9
<1>10. ASSUME gst, low # {}, high # {} PROVE label = {5, 18}
  <2>1. PICK n \in low : TRUE
    BY <1>10
  <2>2. PICK k \in high : TRUE
    BY <1>10
  <2> QED
    BY <1>5, <1>10, <2>1, <2>2
<1>11. low \subseteq nights /\ high = nights \ low
  OBVIOUS
<1> DEFINE none == [night \in nights |-> 0]
<1>12. \A night \in nights : none[night] = 0
  OBVIOUS
<1> HIDE DEF nights, low, high, tax, label, taxes, at, none
<1>13. ASSUME gst PROVE tax = 0 <=> \A night \in nights : ~Worth(rates[night])
  <2>1. tax = SumFunctionOnSet(taxes, nights)
    BY <1>4, <1>13
  <2>2. ASSUME \A night \in nights : ~Worth(rates[night]) PROVE tax = 0
    <3>1. \A night \in nights : taxes[night] = 0
      BY <1>6, <2>2
    <3> QED
      BY <1>1, <2>1, <3>1, SumOfZeroes
  <2>3. ASSUME NEW night \in nights, Worth(rates[night]) PROVE tax # 0
    <3>1. \A n \in nights : none[n] \in Int /\ taxes[n] \in Int /\ none[n] <= taxes[n]
      BY <1>6, <1>12
    <3>2. none[night] < taxes[night]
      BY <1>6, <1>12, <2>3
    <3>3. SumFunctionOnSet(none, nights) < tax
      BY <1>1, <2>1, <3>1, <3>2, SumBelow
    <3>4. SumFunctionOnSet(none, nights) = 0
      BY <1>1, <1>12, SumOfZeroes
    <3> QED
      BY <3>3, <3>4
  <2> QED
    BY <2>2, <2>3
<1>14. ASSUME gst, low = nights PROVE tax = Share(rates, 5)
  <2>1. \A night \in nights : taxes[night] = at(5)[night]
    BY <1>6, <1>14
  <2> QED
    BY <1>1, <1>2, <1>4, <1>14, <2>1, SumSame
<1>15. ASSUME gst, high = nights PROVE tax = Share(rates, 18)
  <2>1. \A night \in nights : taxes[night] = at(18)[night]
    BY <1>6, <1>15
  <2> QED
    BY <1>1, <1>3, <1>4, <1>15, <2>1, SumSame
<1>16. ASSUME gst, high # {} PROVE Share(rates, 5) < tax /\ tax <= Share(rates, 18)
  <2>1. PICK night \in high : night \in nights /\ at(5)[night] < taxes[night]
    BY <1>6, <1>11, <1>16
  <2>2. \A n \in nights : /\ at(5)[n] \in Int /\ taxes[n] \in Int /\ at(18)[n] \in Int
                          /\ at(5)[n] <= taxes[n] /\ taxes[n] <= at(18)[n]
    BY <1>6
  <2>3. SumFunctionOnSet(at(5), nights) < SumFunctionOnSet(taxes, nights)
    BY <1>1, <2>1, <2>2, SumBelow
  <2>4. SumFunctionOnSet(taxes, nights) <= SumFunctionOnSet(at(18), nights)
    BY <1>1, <2>2, SumAtMost
  <2> QED
    BY <1>2, <1>3, <1>4, <1>16, <2>3, <2>4
<1>17. ASSUME gst, NEW night \in low, Worth(rates[night]) PROVE tax # Share(rates, 18)
  <2>1. night \in nights /\ taxes[night] < at(18)[night]
    BY <1>6, <1>11, <1>17
  <2>2. \A n \in nights : taxes[n] \in Int /\ at(18)[n] \in Int /\ taxes[n] <= at(18)[n]
    BY <1>6
  <2>3. SumFunctionOnSet(taxes, nights) < SumFunctionOnSet(at(18), nights)
    BY <1>1, <2>1, <2>2, SumBelow
  <2>4. SumFunctionOnSet(taxes, nights) \in Int /\ SumFunctionOnSet(at(18), nights) \in Int
    BY <1>1, <2>2, SumInt
  <2>5. SumFunctionOnSet(taxes, nights) # SumFunctionOnSet(at(18), nights)
    BY <2>3, <2>4
  <2> QED
    BY <1>3, <1>4, <1>17, <2>5
<1>18. tax = 0 <=> (label = {} \/ \A night \in nights : ~Worth(rates[night]))
  BY <1>4, <1>7, <1>13
<1>19. ASSUME NEW pct \in label
       PROVE  IF label = {pct} THEN tax = Share(rates, pct)
              ELSE /\ Share(rates, 5) < tax /\ tax <= Share(rates, 18)
                   /\ (\E night \in low : Worth(rates[night])) => tax # Share(rates, 18)
  <2>1. gst
    BY <1>7, <1>19
  <2>2. CASE low = nights
    <3>1. label = {5} /\ tax = Share(rates, 5)
      BY <1>8, <1>14, <2>1, <2>2
    <3> QED
      BY <1>19, <3>1
  <2>3. CASE high = nights
    <3>1. label = {18} /\ tax = Share(rates, 18)
      BY <1>9, <1>15, <2>1, <2>3
    <3> QED
      BY <1>19, <3>1
  <2>4. CASE low # {} /\ high # {}
    <3>1. label = {5, 18}
      BY <1>10, <2>1, <2>4
    <3>2. label # {pct}
      BY <3>1
    <3> QED
      BY <1>16, <1>17, <2>1, <2>4, <3>2
  <2> QED
    BY <1>11, <2>2, <2>3, <2>4
<1> QED
  BY <1>18, <1>19 DEF nights, low, tax, label

(* Theorem: the tax of a booking is what the label of its quote names: none *)
(* without a label or for nights all but free, with one band that share of  *)
(* every night, with both between the two; and the lines of its invoice add *)
(* up to it (computeTax, taxLabelFor, placeOfSupply).                       *)
THEOREM TaxAsToldHolds == Spec => []TaxAsTold
<1>1. IInv => LabelIsCharged
  <2> SUFFICES ASSUME IInv, NEW b \in Booking, Holds(b)
      PROVE  LET rates == stay[b].rates
                 label == TaxLabel(rates, stay[b].gst)
                 low == {night \in DOMAIN rates : rates[night] <= ThresholdPaise}
             IN /\ stay[b].tax = 0
                     <=> (label = {} \/ \A night \in DOMAIN rates : ~Worth(rates[night]))
                /\ \A pct \in label :
                     IF label = {pct} THEN stay[b].tax = Share(rates, pct)
                     ELSE /\ Share(rates, 5) < stay[b].tax /\ stay[b].tax <= Share(rates, 18)
                          /\ (\E night \in low : Worth(rates[night]))
                               => stay[b].tax # Share(rates, 18)
    BY DEF LabelIsCharged
  <2>1. stay[b].rates \in RowRates /\ stay[b].gst \in BOOLEAN
    BY PricedStay DEF IInv
  <2>2. stay[b].tax = Tax(stay[b].rates, stay[b].gst)
    BY DEF IInv, PriceIsRows
  <2> QED
    BY <2>1, <2>2, LabelTaxes
<1>2. IInv => TaxLinesAddUp
  <2> SUFFICES ASSUME IInv, NEW b \in Booking, NEW ours, NEW theirs
      PROVE  LET lines == PlaceOfSupply(ours, theirs, stay[b].tax)
             IN /\ lines.cgst + lines.sgst + lines.igst = stay[b].tax
                /\ lines.cgst - lines.sgst \in {0, 1} /\ lines.igst >= 0
    BY DEF TaxLinesAddUp
  <2>1. stay[b].tax \in Nat
    BY DEF IInv, TypeOK, Stay
  <2> QED
    BY <2>1, TaxLinesSum
<1> QED
  BY <1>1, <1>2, AmountsHold, PTL DEF TaxAsTold

--------------------------------------------------------------------------------
(* The day a plan of the week is for: two ways to count it. *)
LEMMA SameWeekday ==
  ASSUME NEW day \in Int
  PROVE  WeekdayOf(day) = (day - 4) % 7
BY DEF WeekdayOf

(* The plan resolveNight takes is the first of the highest priority. *)
LEMMA PlanInForce ==
  ASSUME plans \in Seq(PlanInput), NEW day \in Int, NEW type, NEW base
  PROVE  ResolveNight(day, type, base, plans).rate = Price_InForce(day, type, base)
<1> DEFINE found == ResolveNight(day, type, base, plans)
           applying == {p \in DOMAIN plans : Applies(plans[p], day, type)}
           top == Top(InForce(day, type))
<1>1. DOMAIN plans \subseteq Nat /\ \A p \in DOMAIN plans :
        plans[p].priority \in Int /\ plans[p].start \in Int /\ plans[p].end \in Int
  BY Positions, PricingAssumption
<1>2. InForce(day, type) = applying
  <2>1. \A p \in DOMAIN plans :
          day \in plans[p].start..(plans[p].end - 1) <=> plans[p].start <= day /\ day < plans[p].end
    BY <1>1
  <2>2. WeekdayOf(day) = (day - 4) % 7
    BY SameWeekday
  <2> QED
    BY <2>1, <2>2 DEF InForce, Applies
<1>3. IF applying = {} THEN found.rate = base
      ELSE \E p \in applying :
             /\ found.rate = plans[p].amount[type]
             /\ \A s \in applying \ {p} : Before(plans, p, s)
  BY FirstMatch
<1>4. applying \subseteq DOMAIN plans
  OBVIOUS
<1>5. top = {p \in applying : \A s \in applying : plans[s].priority <= plans[p].priority}
  BY <1>2 DEF Top
<1> HIDE DEF found, applying, top
<1>6. CASE applying = {}
  BY <1>2, <1>3, <1>6 DEF Price_InForce, found
<1>7. CASE applying # {}
  <2>1. PICK p \in applying : /\ found.rate = plans[p].amount[type]
                              /\ \A s \in applying \ {p} : Before(plans, p, s)
    BY <1>3, <1>7
  <2>2. p \in Nat /\ plans[p].priority \in Int
    BY <1>1, <1>4
  <2>3. ASSUME NEW s \in applying
        PROVE  plans[s].priority <= plans[p].priority
               /\ (plans[p].priority <= plans[s].priority => p <= s)
    <3>1. s \in Nat /\ plans[s].priority \in Int
      BY <1>1, <1>4
    <3>2. CASE s = p
      BY <2>2, <3>2
    <3>3. CASE s # p
      BY <2>1, <2>2, <3>1, <3>3 DEF Before
    <3> QED
      BY <3>2, <3>3
  <2>4. p \in top /\ \A s \in top : p <= s
    BY <1>5, <2>3
  <2>5. ASSUME NEW x \in top, \A y \in top : x <= y
        PROVE  x = p
    <3>1. x \in Nat
      BY <1>1, <1>4, <1>5
    <3>2. x <= p /\ p <= x
      BY <2>4, <2>5
    <3> QED
      BY <2>2, <3>1, <3>2
  <2>6. Min(top) = p
    BY <2>4, <2>5 DEF Min
  <2> QED
    BY <1>2, <1>7, <2>1, <2>6 DEF Price_InForce, found, top
<1> QED
  BY <1>6, <1>7

(* Theorem: whatever is edited between reading the room and reading the     *)
(* plans, every night of a stay is priced by the first plan of the highest  *)
(* priority in force when plans are read, at the base rate read before if   *)
(* there is none, and at the typed rate if there is one (resolveNight,      *)
(* createBooking).                                                          *)
THEOREM PricedAsReadHolds == Spec => PricedAsRead
<1>1. IInv /\ PInv /\ [Next]_vars =>
        \A q \in Request :
          (req[q].op = "plans" /\ req'[q].op = "commit") =>
            \A r \in req[q].rooms, day \in req[q].nights :
              req'[q].rates[<<r, day>>] =
                IF req[q].manual # NoRate THEN req[q].manual
                ELSE Price_InForce(day, req[q].type[r], req[q].base[r])
  <2> SUFFICES ASSUME IInv, PInv, [Next]_vars, NEW q \in Request,
                      req[q].op = "plans", req'[q].op = "commit",
                      NEW r \in req[q].rooms, NEW day \in req[q].nights
               PROVE  req'[q].rates[<<r, day>>] =
                        IF req[q].manual # NoRate THEN req[q].manual
                        ELSE Price_InForce(day, req[q].type[r], req[q].base[r])
    OBVIOUS
  <2>1. req[q].op # "commit" /\ req' # req
    OBVIOUS
  <2>2. DOMAIN req = Request
    BY DEF PInv, RequestsOK
  <2>3. PICK p \in Request : Price(p)
    <3>1. ~Edit /\ ~(\E b \in Booking : GiveUp(b)) /\ ~(UNCHANGED vars)
      BY <2>1 DEF vars, GiveUp, Edit, SaveRoomType, DeleteRoomType, SaveRoom, DeleteRoom,
         CreateRatePlan, UpdateRatePlan, DeleteRatePlan, CreateBlock, DeleteBlock, SetGstin
    <3> QED
      BY <3>1 DEF Next
  <2>4. ReadPlans(p) /\ p = q
    <3>1. \A s \in Request \ {p} : req'[s] = req[s]
      BY <2>2, <2>3 DEF Price, ReadRooms, ReadPlans, Commit, Abandon
    <3>2. p = q
      BY <3>1
    <3>3. ~Commit(p) /\ ~Abandon(p)
      BY <2>2, <3>2 DEF Commit, Abandon, Idle
    <3>4. \A b \in Booking, rooms \in Rooms, nights \in Stays, byHand \in RateInput \cup {NoRate} :
            ~ReadRooms(p, b, rooms, nights, byHand)
      BY <2>2, <3>2 DEF ReadRooms, Idle
    <3> QED
      BY <2>3, <3>2, <3>3, <3>4 DEF Price
  <2>5. req'[q].rates[<<r, day>>] =
          IF req[q].manual # NoRate THEN req[q].manual
          ELSE ResolveNight(day, req[q].type[r], req[q].base[r], plans).rate
    <3>1. req'[q].rates = Quoted(req[q])
      BY <2>2, <2>4 DEF ReadPlans
    <3>2. Quoted(req[q])[<<r, day>>] =
            IF req[q].manual # NoRate THEN req[q].manual
            ELSE QuoteStay(req[q].nights, req[q].type[r], req[q].base[r], plans)[day]
      BY DEF Quoted
    <3> QED
      BY <3>1, <3>2 DEF QuoteStay
  <2>6. day \in Int /\ plans \in Seq(PlanInput)
    BY NightsOfStay DEF PInv, RequestsOK, IInv, TypeOK
  <2> QED
    BY <2>5, <2>6, PlanInForce
<1> QED
  BY <1>1, AmountsHold, ReferencesHold, PTL DEF Spec, PricedAsRead

--------------------------------------------------------------------------------
(* The register of invoices. *)

(* The steps that issue nothing. *)
Issues == \E f \in Folio, amount \in 1..MaxPaid : PayAndIssue(f, amount)
Keeps == UNCHANGED <<fyLabel, counter, number>>

LEMMA StepKinds ==
  ASSUME [RegisterNext]_register
  PROVE  Issues \/ Keeps
  BY DEF RegisterNext, register, Issues, Keeps, ApplyPayment, PayOnly, SettleRefund,
         ChangePrefix, NewYear

LEMMA NextSerialIsSerial ==
  ASSUME RegisterTypeOK, NEW s \in Site
  PROVE  NextSerial(s) \in Nat \ {0}
  BY DEF RegisterTypeOK, NextSerial

(* Type correctness is kept by every step. *)
LEMMA TypeStep ==
  ASSUME RegisterTypeOK, [RegisterNext]_register
  PROVE  RegisterTypeOK'
<1> USE RegisterAssumption
<1>1. ASSUME NEW f \in Folio, NEW amount \in 1..MaxPaid, PayOnly(f, amount)
      PROVE  RegisterTypeOK'
  BY <1>1 DEF RegisterTypeOK, PayOnly
<1>2. ASSUME NEW f \in Folio, NEW amount \in 1..MaxPaid, PayAndIssue(f, amount)
      PROVE  RegisterTypeOK'
  <2> DEFINE s == SiteOf[f]
  <2>1. s \in Site /\ NextSerial(s) \in Nat \ {0}
    BY NextSerialIsSerial
  <2>2. NextNumber(s) \in Number
    BY <2>1 DEF NextNumber, Number, RegisterTypeOK
  <2>3. counter' \in [Site -> Nat] /\ fyLabel' \in [Site -> 0..LastYear]
    BY <1>2, <2>1 DEF RegisterTypeOK, PayAndIssue
  <2>4. number' \in [Folio -> Number \cup {NoNumber}] /\ amountPaid' \in [Folio -> Int]
    BY <1>2, <2>2 DEF RegisterTypeOK, PayAndIssue
  <2> QED
    BY <1>2, <2>3, <2>4 DEF RegisterTypeOK, PayAndIssue
<1>3. ASSUME NEW f \in Folio, NEW amount \in 1..MaxPaid, SettleRefund(f, amount)
      PROVE  RegisterTypeOK'
  BY <1>3 DEF RegisterTypeOK, SettleRefund
<1>4. ASSUME NEW s \in Site, NEW p \in Prefix, ChangePrefix(s, p)
      PROVE  RegisterTypeOK'
  BY <1>4 DEF RegisterTypeOK, ChangePrefix
<1>5. CASE NewYear
  BY <1>5 DEF RegisterTypeOK, NewYear
<1>6. CASE UNCHANGED register
  BY <1>6 DEF RegisterTypeOK, register
<1> QED
  BY <1>1, <1>2, <1>3, <1>4, <1>5, <1>6 DEF RegisterNext, ApplyPayment

--------------------------------------------------------------------------------
(* The register of the current year ends just before the next serial. *)
LEMMA RegisterOfYear ==
  ASSUME RegisterInv, NEW s \in Site
  PROVE  SerialsOf(s, year) = 1..(NextSerial(s) - 1)
<1> USE DEF RegisterInv, RegisterTypeOK
<1>1. CASE fyLabel[s] = year
  <2>1. SerialsOf(s, year) = 1..counter[s] /\ NextSerial(s) = counter[s] + 1
    BY <1>1 DEF CounterIsLength, NextSerial
  <2> QED
    BY <2>1
<1>2. CASE fyLabel[s] # year
  <2>1. year > fyLabel[s] /\ NextSerial(s) = 1
    BY <1>2 DEF CounterIsLength, NextSerial
  <2>2. FoliosOf(s, year) = {}
    BY <2>1 DEF CounterIsLength
  <2> QED
    BY <2>1, <2>2 DEF SerialsOf
<1> QED
  BY <1>1, <1>2

(* Steps that issue nothing leave the register as it is. *)
LEMMA KeepsRegister ==
  ASSUME Keeps, NEW s, NEW y
  PROVE  FoliosOf(s, y)' = FoliosOf(s, y) /\ SerialsOf(s, y)' = SerialsOf(s, y)
  BY DEF Keeps, FoliosOf, SerialsOf

(* A step that issues adds the booking to the register of its property and  *)
(* the year, with the next serial, and changes no other.                    *)
LEMMA IssueRegister ==
  ASSUME RegisterInv, NEW f \in Folio, NEW amount \in 1..MaxPaid, PayAndIssue(f, amount)
  PROVE  /\ \A g \in Folio \ {f} : number'[g] = number[g]
         /\ number'[f] = NextNumber(SiteOf[f])
         /\ FoliosOf(SiteOf[f], year)' = FoliosOf(SiteOf[f], year) \cup {f}
         /\ f \notin FoliosOf(SiteOf[f], year)
         /\ \A s \in Site, y \in 1..LastYear :
              ~(s = SiteOf[f] /\ y = year) =>
                FoliosOf(s, y)' = FoliosOf(s, y) /\ SerialsOf(s, y)' = SerialsOf(s, y)
<1> USE DEF RegisterInv, RegisterTypeOK
<1>1. number'[f] = NextNumber(SiteOf[f]) /\ \A g \in Folio \ {f} : number'[g] = number[g]
  BY DEF PayAndIssue
<1>2. number[f].year = 0 /\ number'[f].year = year /\ year' = year
  BY <1>1 DEF PayAndIssue, NeedsNumber, Numbered, NoNumber, NextNumber
<1>3. f \notin FoliosOf(SiteOf[f], year) /\ year \in 1..LastYear
  BY <1>2 DEF FoliosOf
<1>4. FoliosOf(SiteOf[f], year)' = FoliosOf(SiteOf[f], year) \cup {f}
  BY <1>1, <1>2 DEF FoliosOf
<1>5. ASSUME NEW s \in Site, NEW y \in 1..LastYear, ~(s = SiteOf[f] /\ y = year)
      PROVE  FoliosOf(s, y)' = FoliosOf(s, y) /\ SerialsOf(s, y)' = SerialsOf(s, y)
  <2>1. f \notin FoliosOf(s, y)
    BY <1>2 DEF FoliosOf
  <2>2. FoliosOf(s, y)' = FoliosOf(s, y)
    BY <1>1, <1>2, <1>5, <2>1 DEF FoliosOf
  <2>3. \A g \in FoliosOf(s, y) : number'[g] = number[g]
    BY <1>1, <2>1 DEF FoliosOf
  <2> QED
    BY <2>2, <2>3 DEF SerialsOf
<1> QED
  BY <1>1, <1>3, <1>4, <1>5

(* ... which makes that register one longer. *)
LEMMA IssueExtends ==
  ASSUME RegisterInv, NEW f \in Folio, NEW amount \in 1..MaxPaid, PayAndIssue(f, amount)
  PROVE  SerialsOf(SiteOf[f], year)' = 1..NextSerial(SiteOf[f])
<1> DEFINE s == SiteOf[f]
           n == NextSerial(s)
<1>1. s \in Site /\ n \in Nat \ {0}
  BY NextSerialIsSerial, RegisterAssumption DEF RegisterInv
<1>2. SerialsOf(s, year) = 1..(n - 1)
  BY <1>1, RegisterOfYear
<1>3. number'[f].serial = n
  <2>1. number'[f] = NextNumber(SiteOf[f])
    BY IssueRegister
  <2> QED
    BY <2>1 DEF NextNumber
<1>4. \A g \in FoliosOf(s, year) : number'[g].serial = number[g].serial
  BY IssueRegister DEF FoliosOf
<1>5. SerialsOf(s, year)' = SerialsOf(s, year) \cup {n}
  BY <1>3, <1>4, IssueRegister DEF SerialsOf
<1>6. 1..n = 1..(n - 1) \cup {n}
  BY <1>1
<1> QED
  BY <1>2, <1>5, <1>6

LEMMA CounterStep ==
  ASSUME RegisterInv, [RegisterNext]_register
  PROVE  CounterIsLength'
<1> USE RegisterAssumption DEF RegisterInv, RegisterTypeOK
<1>1. year' \in 1..LastYear /\ year <= year'
  BY TypeStep DEF RegisterNext, register, ApplyPayment, PayOnly, PayAndIssue, SettleRefund,
                  ChangePrefix, NewYear
<1>2. CASE Keeps
  <2>1. \A s \in Site : fyLabel'[s] <= year'
    BY <1>1, <1>2 DEF CounterIsLength, Keeps
  <2>2. \A s \in Site : fyLabel'[s] > 0 => SerialsOf(s, fyLabel[s])' = 1..counter'[s]
    BY <1>2, KeepsRegister DEF CounterIsLength, Keeps
  <2>3. \A s \in Site, y \in 1..LastYear : y > fyLabel'[s] => FoliosOf(s, y)' = {}
    BY <1>2, KeepsRegister DEF CounterIsLength, Keeps
  <2> QED
    BY <2>1, <2>2, <2>3 DEF CounterIsLength
<1>3. ASSUME NEW f \in Folio, NEW amount \in 1..MaxPaid, PayAndIssue(f, amount)
      PROVE  CounterIsLength'
  <2> DEFINE t == SiteOf[f]
  <2>1. /\ t \in Site /\ fyLabel'[t] = year /\ counter'[t] = NextSerial(t) /\ year' = year
        /\ \A s \in Site \ {t} : fyLabel'[s] = fyLabel[s] /\ counter'[s] = counter[s]
    BY <1>3 DEF PayAndIssue
  <2>2. ASSUME NEW s \in Site
        PROVE  fyLabel'[s] <= year' /\ (fyLabel'[s] > 0 => SerialsOf(s, fyLabel[s])' = 1..counter'[s])
    <3>1. CASE s = t
      BY <3>1, <2>1, <1>3, IssueExtends DEF SerialsOf, FoliosOf
    <3>2. CASE s # t
      <4>1. \A y \in 1..LastYear : SerialsOf(s, y)' = SerialsOf(s, y)
        BY <3>2, <1>3, IssueRegister
      <4>2. fyLabel'[s] = fyLabel[s] /\ counter'[s] = counter[s] /\ fyLabel[s] <= year
        BY <3>2, <2>1 DEF CounterIsLength
      <4>3. CASE fyLabel[s] > 0
        <5>1. fyLabel[s] \in 1..LastYear
          BY <4>3
        <5>2. {number'[g].serial : g \in {h \in Folio : SiteOf[h] = s /\ number'[h].year = fyLabel[s]}}
                = SerialsOf(s, fyLabel[s])
          BY <4>1, <5>1 DEF SerialsOf, FoliosOf
        <5>3. SerialsOf(s, fyLabel[s]) = 1..counter[s]
          BY <4>3 DEF CounterIsLength
        <5> QED
          BY <4>2, <5>2, <5>3, <2>1 DEF SerialsOf, FoliosOf
      <4>4. CASE ~(fyLabel[s] > 0)
        BY <4>2, <4>4, <2>1
      <4> QED
        BY <4>3, <4>4
    <3> QED
      BY <3>1, <3>2
  <2>3. ASSUME NEW s \in Site, NEW y \in 1..LastYear, y > fyLabel'[s]
        PROVE  FoliosOf(s, y)' = {}
    <3>1. y > fyLabel[s] /\ ~(s = t /\ y = year)
      BY <2>1, <2>3 DEF CounterIsLength
    <3> QED
      BY <3>1, <1>3, IssueRegister DEF CounterIsLength
  <2> QED
    BY <2>2, <2>3 DEF CounterIsLength
<1> QED
  BY <1>2, <1>3, StepKinds DEF Issues

LEMMA GaplessStep ==
  ASSUME RegisterInv, [RegisterNext]_register
  PROVE  Gapless'
<1> USE RegisterAssumption
<1>1. CASE Keeps
  BY <1>1, KeepsRegister DEF RegisterInv, Gapless, Keeps
<1>2. ASSUME NEW f \in Folio, NEW amount \in 1..MaxPaid, PayAndIssue(f, amount)
      PROVE  Gapless'
  <2> DEFINE t == SiteOf[f]
             n == NextSerial(t)
  <2>1. t \in Site /\ n \in Nat \ {0}
    BY NextSerialIsSerial DEF RegisterInv
  <2>2. SerialsOf(t, year)' = 1..n
    BY <1>2, IssueExtends
  <2>3. n \in SerialsOf(t, year)'
    BY <2>1, <2>2
  <2>4. \A g \in FoliosOf(t, year) : number'[g] = number[g] /\ number[g].serial \in 1..(n - 1)
    BY <1>2, <2>1, IssueRegister, RegisterOfYear DEF SerialsOf, FoliosOf
  <2>5. number'[f].serial = n
    <3>1. number'[f] = NextNumber(SiteOf[f])
      BY <1>2, IssueRegister
    <3> QED
      BY <3>1 DEF NextNumber
  <2>6. \A g, h \in FoliosOf(t, year)' : number'[g].serial = number'[h].serial => g = h
    <3>1. year \in 1..LastYear
      BY DEF RegisterInv, RegisterTypeOK
    <3>2. \A g, h \in FoliosOf(t, year) : number[g].serial = number[h].serial => g = h
      BY <2>1, <3>1 DEF RegisterInv, Gapless
    <3>3. \A g \in FoliosOf(t, year) : number'[g].serial # n
      BY <2>1, <2>4
    <3>4. FoliosOf(t, year)' = FoliosOf(t, year) \cup {f}
      BY <1>2, IssueRegister
    <3> QED
      BY <2>4, <2>5, <3>2, <3>3, <3>4
  <2>7. ASSUME NEW s \in Site, NEW y \in 1..LastYear, ~(s = t /\ y = year)
        PROVE  /\ \E k \in SerialsOf(s, y)' \cup {0} : SerialsOf(s, y)' = 1..k
               /\ \A g, h \in FoliosOf(s, y)' : number'[g].serial = number'[h].serial => g = h
    <3>1. FoliosOf(s, y)' = FoliosOf(s, y) /\ SerialsOf(s, y)' = SerialsOf(s, y)
      BY <1>2, <2>7, IssueRegister
    <3>2. \A g \in FoliosOf(s, y) : number'[g] = number[g]
      <4>1. f \notin FoliosOf(s, y)
        BY <1>2 DEF FoliosOf, PayAndIssue, NeedsNumber, Numbered, NoNumber
      <4> QED
        BY <4>1, <1>2, IssueRegister DEF FoliosOf
    <3> QED
      BY <3>1, <3>2 DEF RegisterInv, Gapless
  <2>8. ASSUME NEW s \in Site, NEW y \in 1..LastYear
        PROVE  /\ \E k \in SerialsOf(s, y)' \cup {0} : SerialsOf(s, y)' = 1..k
               /\ \A g, h \in FoliosOf(s, y)' : number'[g].serial = number'[h].serial => g = h
    <3>1. CASE s = t /\ y = year
      <4>1. /\ SerialsOf(s, y)' = 1..n /\ n \in SerialsOf(s, y)'
            /\ FoliosOf(s, y)' = FoliosOf(t, year)'
        BY <3>1, <2>2, <2>3, <1>2 DEF SerialsOf, FoliosOf, PayAndIssue
      <4> QED
        BY <4>1, <2>6
    <3>2. CASE ~(s = t /\ y = year)
      BY <3>2, <2>7
    <3> QED
      BY <3>1, <3>2
  <2> QED
    BY <2>8 DEF Gapless
<1> QED
  BY <1>1, <1>2, StepKinds DEF Issues

(* Theorem: the inductive invariant of the register (issueInvoiceNumber).   *)
THEOREM RegisterInvariance == RegisterSpec => []RegisterInv
<1>1. RegisterInit => RegisterInv
  <2> SUFFICES ASSUME RegisterInit PROVE RegisterInv
    OBVIOUS
  <2>1. \A s \in Site, y \in 1..LastYear : FoliosOf(s, y) = {} /\ SerialsOf(s, y) = {}
    BY DEF RegisterInit, FoliosOf, SerialsOf, NoNumber
  <2>2. RegisterTypeOK
    BY RegisterAssumption DEF RegisterInit, RegisterTypeOK
  <2>3. CounterIsLength
    <3> SUFFICES ASSUME NEW s \in Site
                 PROVE  /\ fyLabel[s] <= year /\ ~(fyLabel[s] > 0)
                        /\ \A y \in 1..LastYear : FoliosOf(s, y) = {}
      BY DEF CounterIsLength
    <3> QED
      BY <2>1 DEF RegisterInit
  <2>4. Gapless
    BY <2>1 DEF Gapless
  <2> QED
    BY <2>2, <2>3, <2>4 DEF RegisterInv
<1>2. RegisterInv /\ [RegisterNext]_register => RegisterInv'
  BY TypeStep, CounterStep, GaplessStep DEF RegisterInv
<1> QED
  BY <1>1, <1>2, PTL DEF RegisterSpec

(* Theorem: an owner's registers have no gaps (invoice.ts:8).               *)
THEOREM GaplessHolds == RegisterSpec => []Gapless
<1>1. RegisterInv => Gapless
  BY DEF RegisterInv
<1> QED
  BY <1>1, RegisterInvariance, PTL

(* Theorem: only another property's invoices can make a payment fail for    *)
(* its number (schema.prisma, invoiceNumber @unique).                       *)
THEOREM OwnNumbersFreeHolds == RegisterSpec => []OwnNumbersFree
<1>1. RegisterInv => OwnNumbersFree
  <2> SUFFICES ASSUME RegisterInv, NEW s \in Site, Taken(s)
               PROVE  \E f \in Folio :
                        SiteOf[f] # s /\ number[f].prefix = prefix[s] /\ number[f].year = year
    BY DEF OwnNumbersFree
  <2>1. PICK f \in Folio : number[f] = NextNumber(s)
    BY DEF Taken
  <2>2. /\ number[f].prefix = prefix[s] /\ number[f].year = year
        /\ number[f].serial = NextSerial(s)
    BY <2>1 DEF NextNumber
  <2>3. ASSUME SiteOf[f] = s PROVE FALSE
    <3>1. NextSerial(s) \in SerialsOf(s, year)
      BY <2>2, <2>3 DEF SerialsOf, FoliosOf
    <3>2. NextSerial(s) \in Nat
      BY NextSerialIsSerial DEF RegisterInv
    <3> QED
      BY <3>1, <3>2, RegisterOfYear
  <2> QED
    BY <2>2, <2>3
<1> QED
  BY <1>1, RegisterInvariance, PTL

(* Theorem: every booking with revenue has a number, and no other has it    *)
(* (applyPayment).                                                          *)
THEOREM RevenueIsNumberedHolds == RegisterSpec => []RevenueIsNumbered
<1> USE RegisterAssumption
<1>1. RegisterInit => RevenueIsNumbered
  BY DEF RegisterInit, RevenueIsNumbered, Numbered
<1>2. RegisterInv /\ RevenueIsNumbered /\ [RegisterNext]_register => RevenueIsNumbered'
  <2> SUFFICES ASSUME RegisterInv, RevenueIsNumbered, [RegisterNext]_register
               PROVE  RevenueIsNumbered'
    OBVIOUS
  <2> USE DEF RegisterInv, RegisterTypeOK
  <2>1. ASSUME NEW f \in Folio, NEW amount \in 1..MaxPaid, PayOnly(f, amount)
        PROVE  RevenueIsNumbered'
    BY <2>1 DEF PayOnly, NeedsNumber, RevenueIsNumbered, Numbered
  <2>2. ASSUME NEW f \in Folio, NEW amount \in 1..MaxPaid, PayAndIssue(f, amount)
        PROVE  RevenueIsNumbered'
    <3>1. number'[f] = NextNumber(SiteOf[f]) /\ \A g \in Folio \ {f} : number'[g] = number[g]
      BY <2>2, IssueRegister
    <3>2. \A g \in Folio : number[g] # NextNumber(SiteOf[f])
      BY <2>2 DEF PayAndIssue, Taken
    <3>3. NextNumber(SiteOf[f]) # NoNumber
      BY DEF NextNumber, NoNumber
    <3>4. \A g \in Folio \ {f} : amountPaid'[g] = amountPaid[g]
      BY <2>2 DEF PayAndIssue
    <3> QED
      BY <3>1, <3>2, <3>3, <3>4 DEF RevenueIsNumbered, Numbered
  <2>3. ASSUME NEW f \in Folio, NEW amount \in 1..MaxPaid, SettleRefund(f, amount)
        PROVE  RevenueIsNumbered'
    BY <2>3 DEF SettleRefund, RevenueIsNumbered, Numbered
  <2>4. CASE UNCHANGED <<number, amountPaid>>
    BY <2>4 DEF RevenueIsNumbered, Numbered
  <2> QED
    BY <2>1, <2>2, <2>3, <2>4
    DEF RegisterNext, register, ApplyPayment, ChangePrefix, NewYear
<1> QED
  BY <1>1, <1>2, RegisterInvariance, PTL DEF RegisterSpec

(* Theorem: a number once issued is never changed (invoice.ts:7).           *)
THEOREM NumbersStayHolds == RegisterSpec => NumbersStay
<1> DEFINE Kept == \A f \in Folio : Numbered(f) => number'[f] = number[f]
<1>1. RegisterInv /\ [RegisterNext]_register => [Kept]_register
  <2> SUFFICES ASSUME RegisterInv, [RegisterNext]_register PROVE Kept
    OBVIOUS
  <2>1. CASE Keeps
    BY <2>1 DEF Keeps
  <2>2. ASSUME NEW f \in Folio, NEW amount \in 1..MaxPaid, PayAndIssue(f, amount)
        PROVE  Kept
    BY <2>2, IssueRegister DEF PayAndIssue, NeedsNumber
  <2> QED
    BY <2>1, <2>2, StepKinds DEF Issues
<1> QED
  BY <1>1, RegisterInvariance, PTL DEF RegisterSpec, NumbersStay
--------------------------------------------------------------------------------
(* The form: its calls, answers and submissions have their shape.           *)
Priced ==
  [ok : {TRUE}, rooms : SUBSET Chip, dates : Dates, sent : Int, subtotal : Nat, nightly : Nat,
   taken : SUBSET Chip, fresh : BOOLEAN]
Question ==
  [rooms : SUBSET Chip, dates : Dates, sent : Int, auto : BOOLEAN, active : BOOLEAN,
   reply : Priced \cup {NoReply}]
Order ==
  [rooms : SUBSET Chip, dates : Dates, sent : Int, shown : Int, settled : BOOLEAN,
   fresh : BOOLEAN, stage : {"sent", "refused", "created", "unpaid"}, charged : Int]

FormOK ==
  /\ open \in BOOLEAN /\ step \in {1, 2} /\ manual \in BOOLEAN /\ heard \in BOOLEAN
  /\ form \in [rooms : SUBSET Chip, dates : Dates, rate : Int]
  /\ timer \in BOOLEAN /\ (timer => open)
  /\ quote \in Priced \cup {NoQuote}

PricesOK == price \in Prices /\ taken \subseteq Chip \X Dates

(* What was asked for the form as it stands still counts, and at most one   *)
(* question does.  An answer is to its question, and if prices have not     *)
(* changed since, it is what the stay costs.                                *)
IsFor(x) == x.rooms = form.rooms /\ x.dates = form.dates /\ x.sent = Sent
Costs(x, amount) == amount = QuotedPrice(x.rooms, x.dates, x.sent)
Answers(c) ==
  c.reply # NoReply =>
    /\ c.reply.rooms = c.rooms /\ c.reply.dates = c.dates /\ c.reply.sent = c.sent
    /\ c.reply.fresh => Costs(c.reply, c.reply.subtotal)

QuotesOK ==
  /\ calls \subseteq Question
  /\ timer => \A c \in calls : ~c.active
  /\ \A c, d \in calls : c.active /\ d.active => c = d
  /\ \A c \in calls : c.active => IsFor(c) /\ c.auto = ~manual
  /\ \A c \in calls : Answers(c)
  /\ heard => /\ quote # NoQuote /\ IsFor(quote)
              /\ ~manual /\ quote.nightly > 0 => form.rate = quote.nightly
  /\ quote # NoQuote /\ quote.fresh => Costs(quote, quote.subtotal)

(* A submission is in flight only while the button is disabled.             *)
SubmitsOK ==
  /\ creating \subseteq Order
  /\ creating = {} \/ (pending /\ \E s \in creating : creating = {s})
  /\ \A s \in creating : s.stage = "sent" /\ s.settled /\ s.fresh => Costs(s, s.shown)
  /\ BilledAsShown

FormInv == FormOK /\ PricesOK /\ QuotesOK /\ SubmitsOK

(* The drawer. *)
Action ==
  [id : Card, what : Button, seen : Record, refreshes : Card, here : BOOLEAN,
   stage : {"sent", "done"}]
DrawerOK ==
  /\ booking \in [Card -> Record]
  /\ openId \in Card \cup {Nobody} /\ data \in Read /\ failure \in BOOLEAN
  /\ crossed \in BOOLEAN
  /\ loads \subseteq Load /\ acts \subseteq Action

(* One load counts; it and what is shown are of the booking asked for.      *)
LoadsOfTheDrawer ==
  /\ \A l, m \in loads : l.latest /\ m.latest => l = m
  /\ \A l \in loads :
       IF l.stage = "read" THEN l.reply # Nothing /\ l.reply.id = l.id ELSE l.reply = Nothing
  /\ ~crossed => /\ \A l \in loads : l.latest => l.id = openId
                 /\ data # Nothing => data.id = openId

(* What was read before an action of the drawer is about to be read again.  *)
Behind(r) == r # Nothing /\ ~r.since
WillReload(id) == \E a \in acts : Reloads(a.what) /\ a.id = id
CatchesUp ==
  /\ Behind(data) => failure \/ (\E l \in loads : l.latest) \/ WillReload(data.id)
  /\ \A l \in loads : l.latest /\ Behind(l.reply) => WillReload(l.id)

(* A click is on a button that was offered. *)
ClicksWereOffered == \A a \in acts : a.what \in Offered(a.seen)

DrawerInv == DrawerOK /\ LoadsOfTheDrawer /\ CatchesUp /\ ClicksWereOffered

(* The panels. *)
Amount == [ok : {TRUE}, of : Draft \cup Reason, amount : Nat, fresh : BOOLEAN] \cup {NoPreview}
Quoting == [choice : Draft \cup Reason, active : BOOLEAN, reply : Amount]
Saving ==
  [stage : {"sent", "done", "refused"}, of : Draft \cup Reason, shown : Amount, amount : Nat]
PaneOK ==
  /\ pane \in {"move", "refund"} /\ unfolded \in BOOLEAN /\ choice \in Options
  /\ preview \in Amount /\ asked \subseteq Quoting
  /\ saving \in Saving \cup {NotSaving} /\ worth \in Worths
  /\ \A c \in asked : c.choice \in Options

Fresh(r) == r.ok /\ r.fresh => r.amount = worth[r.of]
AmountsFit ==
  /\ \A c \in asked :
       /\ c.active => unfolded /\ c.choice = choice
       /\ c.reply.ok => c.reply.of = c.choice
       /\ Fresh(c.reply)
  /\ Fresh(preview)
  /\ unfolded /\ preview.ok => preview.of = choice

SavesWhatWasShown ==
  /\ saving.stage = "sent" => Fresh(saving.shown)
  /\ saving # NotSaving /\ saving.shown.ok => saving.shown.of = saving.of
  /\ DoneAsShown

PanesInv == PaneOK /\ AmountsFit /\ SavesWhatWasShown

ScreensInv == FormInv /\ DrawerInv /\ PanesInv
--------------------------------------------------------------------------------
LEMMA AtMostOne ==
  ASSUME NEW S, S = {} \/ \E x : S = {x}
  PROVE  Cardinality(S) <= 1
<1>1. CASE S = {}
  <2>1. Cardinality(S) = 0
    BY <1>1, FS_EmptySet
  <2>2. QED
    BY <2>1
<1>2. ASSUME NEW x, S = {x} PROVE Cardinality(S) <= 1
  <2>1. Cardinality(S) = 1
    BY <1>2, FS_Singleton
  <2>2. QED
    BY <2>1
<1>3. QED
  BY <1>1, <1>2

(* The panels. *)
LEMMA QuoteShapes ==
  /\ \A r \in Amount : r.ok \/ r = NoPreview
  /\ \A r \in Amount : r.ok => r.of \in Draft \cup Reason /\ r.amount \in Nat /\ r.fresh \in BOOLEAN
  /\ NoPreview \in Amount /\ ~NoPreview.ok
  /\ NotSaving.stage = "no" /\ NotSaving \notin Saving
<1>1. ~NoPreview.ok /\ NotSaving.stage = "no"
  BY DEF NoPreview, NotSaving
<1>2. NoPreview \in Amount
  BY DEF Amount
<1>3. NotSaving \notin Saving
  BY <1>1 DEF Saving
<1>4. ASSUME NEW r \in Amount, r # NoPreview
      PROVE  r.ok /\ r.of \in Draft \cup Reason /\ r.amount \in Nat /\ r.fresh \in BOOLEAN
  BY <1>4 DEF Amount
<1>5. QED
  BY <1>1, <1>2, <1>3, <1>4

LEMMA OptionsAre ==
  ASSUME PaneOK PROVE Options \subseteq Draft \cup Reason
BY DEF PaneOK, Options

LEMMA AgedIs ==
  ASSUME NEW r \in Amount
  PROVE  /\ Aged(r) \in Amount /\ Aged(r).ok = r.ok /\ ~(Aged(r).ok /\ Aged(r).fresh)
         /\ r.ok => Aged(r).of = r.of
<1>1. CASE r.ok
  <2>1. r \in [ok : {TRUE}, of : Draft \cup Reason, amount : Nat, fresh : BOOLEAN]
    BY <1>1, QuoteShapes DEF Amount
  <2>2. Aged(r) = [r EXCEPT !.fresh = FALSE]
    BY <1>1 DEF Aged
  <2>3. /\ Aged(r) \in [ok : {TRUE}, of : Draft \cup Reason, amount : Nat, fresh : BOOLEAN]
        /\ Aged(r).ok = r.ok /\ ~Aged(r).fresh /\ Aged(r).of = r.of
    BY <2>1, <2>2
  <2>4. QED
    BY <2>3 DEF Amount
<1>2. CASE ~r.ok
  BY <1>2 DEF Aged
<1>3. QED
  BY <1>1, <1>2

(* Calls that are dropped, and the one that is made. *)
LEMMA DroppedAre ==
  ASSUME PaneOK, AmountsFit
  PROVE  /\ Dropped \subseteq Quoting
         /\ \A c \in Dropped : /\ ~c.active /\ c.choice \in Options
                               /\ c.reply.ok => c.reply.of = c.choice
                               /\ Fresh(c.reply)
<1> SUFFICES ASSUME NEW d \in asked
             PROVE  LET c == [d EXCEPT !.active = FALSE]
                    IN /\ c \in Quoting /\ ~c.active /\ c.choice \in Options
                       /\ c.reply.ok => c.reply.of = c.choice
                       /\ Fresh(c.reply)
  BY DEF Dropped
<1>1. d \in Quoting /\ d.choice \in Options /\ (d.reply.ok => d.reply.of = d.choice)
      /\ Fresh(d.reply)
  BY DEF PaneOK, AmountsFit
<1>2. QED
  BY <1>1 DEF Quoting

LEMMA Calling ==
  ASSUME PaneOK, NEW x \in Options
  PROVE  /\ Call(x) \in Quoting /\ Call(x).choice = x /\ Call(x).active
         /\ ~Call(x).reply.ok /\ Fresh(Call(x).reply)
BY OptionsAre, QuoteShapes DEF Call, Quoting, Fresh

(* The answer asked for is blank, and what was asked before is dropped. *)
LEMMA AskAgainKeeps ==
  ASSUME PaneOK, AmountsFit, NEW x \in Options, AskAgain(x), UNCHANGED <<pane, worth>>
  PROVE  /\ preview' = NoPreview /\ asked' \subseteq Quoting
         /\ \A c \in asked' : /\ c.choice \in Options
                              /\ c.active => c.choice = x
                              /\ c.reply.ok => c.reply.of = c.choice
                              /\ Fresh(c.reply)'
<1>1. asked' = Dropped \cup {Call(x)} /\ preview' = NoPreview
  BY DEF AskAgain
<1>2. \A r : Fresh(r)' = Fresh(r)
  BY DEF Fresh
<1>3. QED
  BY <1>1, <1>2, DroppedAre, Calling

LEMMA PanesInit == QuotePanelsInit => PanesInv
<1> SUFFICES ASSUME QuotePanelsInit PROVE PanesInv
  OBVIOUS
<1>1. PaneOK
  BY QuoteShapes DEF QuotePanelsInit, PaneOK
<1>2. AmountsFit
  BY QuoteShapes DEF QuotePanelsInit, AmountsFit, Fresh
<1>3. SavesWhatWasShown
  BY DEF QuotePanelsInit, SavesWhatWasShown, DoneAsShown, NotSaving
<1>4. QED
  BY <1>1, <1>2, <1>3 DEF PanesInv

(* What a submission carries is left alone, or is what is on screen. *)
LEMMA SavingStays ==
  ASSUME SavesWhatWasShown, UNCHANGED <<pane, saving, worth>>
  PROVE  SavesWhatWasShown'
BY DEF SavesWhatWasShown, DoneAsShown, Fresh

LEMMA PanesStepKeeps == PanesInv /\ [QuotePanelsNext]_quotePanels => PanesInv'
<1> SUFFICES ASSUME PanesInv, [QuotePanelsNext]_quotePanels PROVE PanesInv'
  OBVIOUS
<1> USE DEF PanesInv
<1>1. PaneOK /\ AmountsFit /\ SavesWhatWasShown
  OBVIOUS
<1>2. CASE Unfold
  <2>1. choice \in Options /\ choice' = choice /\ pane' = pane /\ worth' = worth
        /\ saving' = saving /\ unfolded' = TRUE /\ AskAgain(choice) /\ Options' = Options
    BY <1>2 DEF Unfold, PaneOK, Options
  <2>2. PaneOK' /\ AmountsFit'
    BY <2>1, AskAgainKeeps, QuoteShapes DEF PaneOK, AmountsFit, Fresh
  <2>3. QED
    BY <2>1, <2>2, SavingStays
<1>3. ASSUME NEW x \in Options, Select(x)
      PROVE  PanesInv'
  <2>1. choice' = x /\ pane' = pane /\ worth' = worth /\ saving' = saving
        /\ unfolded /\ unfolded' = unfolded /\ AskAgain(x) /\ Options' = Options
    BY <1>3 DEF Select, Options
  <2>2. PaneOK' /\ AmountsFit'
    BY <2>1, AskAgainKeeps, QuoteShapes DEF PaneOK, AmountsFit, Fresh
  <2>3. QED
    BY <2>1, <2>2, SavingStays
<1>4. CASE Fold
  <2>1. choice' = choice /\ pane' = pane /\ worth' = worth /\ saving' = saving
        /\ ~unfolded' /\ unfolded' \in BOOLEAN /\ asked' = Dropped /\ preview' = preview
        /\ Options' = Options
    BY <1>4 DEF Fold, Options
  <2>2. PaneOK' /\ AmountsFit'
    BY <2>1, DroppedAre DEF PaneOK, AmountsFit, Fresh
  <2>3. QED
    BY <2>1, <2>2, SavingStays
<1>5. ASSUME NEW c \in asked, QuoteIt(c)
      PROVE  PanesInv'
  <2> DEFINE r == [ok |-> TRUE, of |-> c.choice, amount |-> worth[c.choice], fresh |-> TRUE]
             d == [c EXCEPT !.reply = r]
  <2>1. UNCHANGED <<pane, unfolded, choice, preview, saving, worth>> /\ Options' = Options
        /\ asked' = (asked \ {c}) \cup {d}
    BY <1>5 DEF QuoteIt, Options
  <2>2. c \in Quoting /\ c.choice \in Options /\ c.choice \in Draft \cup Reason
    BY OptionsAre DEF PaneOK
  <2>3. r \in Amount
    BY <2>2, QuotePanelsAssumption DEF Amount, PaneOK
  <2>4. d \in Quoting /\ d.choice = c.choice /\ d.active = c.active /\ d.reply = r
    BY <2>2, <2>3 DEF Quoting
  <2>5. Fresh(r) /\ r.ok /\ r.of = c.choice
    BY DEF Fresh
  <2> HIDE DEF r, d
  <2>6. PaneOK'
    BY <2>1, <2>2, <2>4 DEF PaneOK
  <2>7. AmountsFit'
    BY <2>1, <2>4, <2>5 DEF AmountsFit, Fresh
  <2>8. QED
    BY <2>1, <2>6, <2>7, SavingStays
<1>6. ASSUME NEW c \in asked, ShowQuote(c) \/ QuoteFails(c)
      PROVE  PanesInv'
  <2>1. UNCHANGED <<pane, unfolded, choice, saving, worth>> /\ Options' = Options
        /\ asked' = asked \ {c} /\ (preview' = preview \/ (c.active /\ preview' = c.reply))
    BY <1>6 DEF ShowQuote, QuoteFails, Options
  <2>2. c.reply \in Amount
    BY DEF PaneOK, Quoting
  <2>3. PaneOK'
    BY <2>1, <2>2 DEF PaneOK
  <2>4. AmountsFit'
    BY <2>1 DEF AmountsFit, Fresh
  <2>5. QED
    BY <2>1, <2>3, <2>4, SavingStays
<1>7. CASE Save
  <2> DEFINE s == [stage |-> "sent", of |-> choice, shown |-> preview, amount |-> 0]
  <2>1. UNCHANGED <<pane, unfolded, choice, preview, asked, worth>> /\ Options' = Options
        /\ saving' = s /\ unfolded /\ Ready
    BY <1>7 DEF Save, Options
  <2>2. s \in Saving
    BY OptionsAre DEF Saving, PaneOK
  <2>3. PaneOK'
    BY <2>1, <2>2 DEF PaneOK
  <2>4. AmountsFit'
    BY <2>1 DEF AmountsFit, Fresh
  <2>5. SavesWhatWasShown'
    <3>1. s.stage = "sent" /\ s.of = choice /\ s.shown = preview
      OBVIOUS
    <3> HIDE DEF s
    <3>2. Fresh(preview) /\ (preview.ok => preview.of = choice)
      BY <2>1 DEF AmountsFit
    <3>3. pane = "refund" => preview.ok
      BY <2>1 DEF Ready
    <3>4. QED
      BY <2>1, <3>1, <3>2, <3>3 DEF SavesWhatWasShown, DoneAsShown, Fresh
  <2>6. QED
    BY <2>3, <2>4, <2>5
<1>8. CASE Execute
  <2>1. UNCHANGED <<pane, unfolded, choice, preview, asked, worth>> /\ Options' = Options
        /\ saving.stage = "sent"
        /\ \/ saving' = [saving EXCEPT !.stage = "done", !.amount = worth[saving.of]]
           \/ saving' = [saving EXCEPT !.stage = "refused"]
    BY <1>8 DEF Execute, Options
  <2>2. saving \in Saving
    BY <2>1 DEF PaneOK, NotSaving
  <2>3. saving.of \in Draft \cup Reason /\ worth[saving.of] \in Nat
    BY <2>2, QuotePanelsAssumption DEF Saving, PaneOK
  <2>4. /\ saving' \in Saving /\ saving'.of = saving.of /\ saving'.shown = saving.shown
        /\ saving'.stage = "done" => saving'.amount = worth[saving.of]
        /\ saving'.stage # "sent"
    BY <2>1, <2>2, <2>3 DEF Saving
  <2>5. PaneOK'
    BY <2>1, <2>4 DEF PaneOK
  <2>6. AmountsFit'
    BY <2>1 DEF AmountsFit, Fresh
  <2>7. SavesWhatWasShown'
    <3>1. saving # NotSaving
      BY <2>2, QuoteShapes
    <3>2. Fresh(saving.shown) /\ (saving.shown.ok => saving.shown.of = saving.of)
          /\ (pane = "refund" => saving.shown.ok)
      BY <2>1, <3>1 DEF SavesWhatWasShown, DoneAsShown
    <3>3. QED
      BY <2>1, <2>4, <3>2 DEF SavesWhatWasShown, DoneAsShown, Fresh
  <2>8. QED
    BY <2>5, <2>6, <2>7
<1>9. CASE Saved
  <2>1. UNCHANGED <<pane, choice, preview, worth>> /\ Options' = Options
        /\ saving' = NotSaving /\ unfolded' = FALSE /\ asked' = Dropped
    BY <1>9 DEF Saved, Options
  <2>2. PaneOK' /\ AmountsFit'
    BY <2>1, DroppedAre DEF PaneOK, AmountsFit, Fresh
  <2>3. SavesWhatWasShown'
    BY <2>1 DEF SavesWhatWasShown, DoneAsShown, NotSaving
  <2>4. QED
    BY <2>2, <2>3
<1>10. ASSUME NEW w \in Worths, Change(w)
       PROVE  PanesInv'
  <2>1. UNCHANGED <<pane, unfolded, choice>> /\ Options' = Options /\ worth' = w
        /\ preview' = Aged(preview) /\ asked' = {[c EXCEPT !.reply = Aged(@)] : c \in asked}
    BY <1>10 DEF Change, Options
  <2>2. preview' \in Amount /\ preview'.ok = preview.ok /\ ~(preview'.ok /\ preview'.fresh)
        /\ (preview.ok => preview'.of = preview.of)
    BY <2>1, AgedIs DEF PaneOK
  <2>3. ASSUME NEW d \in asked'
        PROVE  \E c \in asked : /\ d \in Quoting /\ d.choice = c.choice /\ d.active = c.active
                                /\ d.reply.ok = c.reply.ok /\ ~(d.reply.ok /\ d.reply.fresh)
                                /\ c.reply.ok => d.reply.of = c.reply.of
    <3>1. PICK c \in asked : d = [c EXCEPT !.reply = Aged(c.reply)]
      BY <2>1
    <3>2. c \in Quoting /\ c.reply \in Amount
      BY DEF PaneOK, Quoting
    <3>3. Aged(c.reply) \in Amount /\ Aged(c.reply).ok = c.reply.ok
          /\ ~(Aged(c.reply).ok /\ Aged(c.reply).fresh)
          /\ (c.reply.ok => Aged(c.reply).of = c.reply.of)
      BY <3>2, AgedIs
    <3>4. d \in Quoting /\ d.choice = c.choice /\ d.active = c.active /\ d.reply = Aged(c.reply)
      BY <3>1, <3>2, <3>3 DEF Quoting
    <3>5. QED
      BY <3>3, <3>4
  <2>4. /\ saving' \in Saving \cup {NotSaving}
        /\ saving.stage # "sent" => saving' = saving
        /\ saving.stage = "sent" =>
             /\ saving'.stage = "sent" /\ saving'.of = saving.of
             /\ saving'.shown.ok = saving.shown.ok /\ ~(saving'.shown.ok /\ saving'.shown.fresh)
             /\ saving.shown.ok => saving'.shown.of = saving.shown.of
    <3>1. CASE saving.stage # "sent"
      BY <3>1, <1>10 DEF Change, PaneOK
    <3>2. CASE saving.stage = "sent"
      <4>1. saving \in Saving /\ saving.shown \in Amount
        BY <3>2 DEF PaneOK, NotSaving, Saving
      <4>2. saving' = [saving EXCEPT !.shown = Aged(saving.shown)]
        BY <3>2, <1>10 DEF Change
      <4>3. Aged(saving.shown) \in Amount
        BY <4>1, AgedIs
      <4>4. saving' \in Saving /\ saving'.stage = "sent" /\ saving'.of = saving.of
            /\ saving'.shown = Aged(saving.shown)
        BY <3>2, <4>1, <4>2, <4>3 DEF Saving
      <4>5. QED
        BY <3>2, <4>1, <4>4, AgedIs
    <3>3. QED
      BY <3>1, <3>2
  <2>5. PaneOK'
    BY <2>1, <2>2, <2>3, <2>4 DEF PaneOK
  <2>6. AmountsFit'
    BY <2>1, <2>2, <2>3 DEF AmountsFit, Fresh
  <2>7. SavesWhatWasShown'
    <3>1. NotSaving.stage = "no"
      BY DEF NotSaving
    <3>2. QED
      BY <2>1, <2>4, <3>1 DEF SavesWhatWasShown, DoneAsShown, Fresh
  <2>8. QED
    BY <2>5, <2>6, <2>7
<1>11. CASE UNCHANGED quotePanels
  <2>1. UNCHANGED <<pane, unfolded, choice, preview, asked, saving, worth>> /\ Options' = Options
    BY <1>11 DEF quotePanels, Options
  <2>2. QED
    BY <2>1 DEF PaneOK, AmountsFit, SavesWhatWasShown, DoneAsShown, Fresh
<1>12. QED
  BY <1>2, <1>3, <1>4, <1>5, <1>6, <1>7, <1>8, <1>9, <1>10, <1>11 DEF QuotePanelsNext
--------------------------------------------------------------------------------
(* The drawer. *)
LEMMA Cards ==
  /\ Nothing \in Read /\ Nothing.id = Nobody
  /\ \A r \in Read : r # Nothing <=> r.id \in Card
  /\ \A r \in Read : r # Nothing => r \in [id : Card, seen : Record, since : BOOLEAN]
<1>1. Nothing.id = Nobody /\ Nobody \notin Card
  BY PanelAssumption DEF Nothing
<1>2. QED
  BY <1>1 DEF Read

LEMMA OfferedIsAButton == \A r : Offered(r) \subseteq Button
BY DEF Offered, Button

LEMMA EffectIs ==
  ASSUME NEW what \in Button, NEW r \in Record
  PROVE  Effect(what, r) \in Record
<1>1. CASE Refused(what, r)
  BY <1>1 DEF Effect
<1>2. CASE ~Refused(what, r) /\ what = "markPaid"
  BY <1>2, PanelAssumption DEF Effect, Record
<1>3. CASE ~Refused(what, r) /\ what = "record"
  <2>1. r.paid \in 0..Due /\ r.paid # Due
    BY <1>3 DEF Refused, Record
  <2>2. r.paid + 1 \in 0..Due
    BY <2>1, PanelAssumption
  <2>3. QED
    BY <1>3, <2>2 DEF Effect, Record
<1>4. CASE ~Refused(what, r) /\ what \notin {"markPaid", "record"}
  <2>1. what \in {"checkOut", "confirm", "checkIn", "noShow", "cancel"}
    BY <1>4 DEF Button
  <2>2. Target[what] \in Status
    BY <2>1 DEF Target, Status
  <2>3. Effect(what, r) = [r EXCEPT !.status = Target[what]]
    BY <1>4 DEF Effect
  <2>4. QED
    BY <2>2, <2>3 DEF Record
<1>5. QED
  BY <1>1, <1>2, <1>3, <1>4

(* What an action leaves of what was read before. *)
Outdated(r, a) ==
  IF r # Nothing /\ r.id = a.id /\ Reloads(a.what) THEN [r EXCEPT !.since = FALSE] ELSE r

LEMMA OutdatedIs ==
  ASSUME NEW r \in Read, NEW a
  PROVE  /\ Outdated(r, a) \in Read /\ Outdated(r, a).id = r.id
         /\ Outdated(r, a) = Nothing <=> r = Nothing
         /\ Behind(Outdated(r, a)) => Behind(r) \/ (r.id = a.id /\ Reloads(a.what))
<1>1. CASE r # Nothing /\ r.id = a.id /\ Reloads(a.what)
  <2>1. r \in [id : Card, seen : Record, since : BOOLEAN]
    BY <1>1, Cards
  <2>2. Outdated(r, a) = [r EXCEPT !.since = FALSE]
    BY <1>1 DEF Outdated
  <2>3. Outdated(r, a) \in [id : Card, seen : Record, since : BOOLEAN]
        /\ Outdated(r, a).id = r.id
    BY <2>1, <2>2
  <2>4. Outdated(r, a) \in Read
    BY <2>3 DEF Read
  <2>5. QED
    BY <1>1, <2>1, <2>3, <2>4, Cards
<1>2. CASE ~(r # Nothing /\ r.id = a.id /\ Reloads(a.what))
  BY <1>2 DEF Outdated
<1>3. QED
  BY <1>1, <1>2

(* Loads that no longer count, the one that does, and actions whose view    *)
(* has gone.                                                                *)
ReplyFits(l) ==
  IF l.stage = "read" THEN l.reply # Nothing /\ l.reply.id = l.id ELSE l.reply = Nothing

LEMMA SupersededAre ==
  ASSUME DrawerOK, LoadsOfTheDrawer
  PROVE  \A l \in Superseded : l \in Load /\ ~l.latest /\ ReplyFits(l)
<1> SUFFICES ASSUME NEW m \in loads
             PROVE  LET l == [m EXCEPT !.latest = FALSE]
                    IN l \in Load /\ ~l.latest /\ ReplyFits(l)
  BY DEF Superseded
<1>1. m \in Load /\ ReplyFits(m)
  BY DEF DrawerOK, LoadsOfTheDrawer, ReplyFits
<1>2. QED
  BY <1>1 DEF Load, ReplyFits

LEMMA FetchIs ==
  ASSUME NEW id \in Card
  PROVE  /\ Fetch(id) \in Load /\ Fetch(id).latest /\ Fetch(id).id = id
         /\ Fetch(id).reply = Nothing /\ ReplyFits(Fetch(id))
BY Cards DEF Fetch, Load, ReplyFits

LEMMA UnmountedAre ==
  ASSUME DrawerOK, ClicksWereOffered
  PROVE  \A a \in Unmounted : a \in Action /\ a.what \in Offered(a.seen)
<1> SUFFICES ASSUME NEW d \in acts
             PROVE  LET a == [d EXCEPT !.here = FALSE]
                    IN a \in Action /\ a.what \in Offered(a.seen)
  BY DEF Unmounted
<1>1. d \in Action /\ d.what \in Offered(d.seen)
  BY DEF DrawerOK, ClicksWereOffered
<1>2. QED
  BY <1>1 DEF Action

(* A load or a close puts what is known in its place. *)
LEMMA LoadingKeeps ==
  ASSUME DrawerInv, NEW id \in Card, loads' = Superseded \cup {Fetch(id)},
         ~crossed' => id = openId' /\ (data' # Nothing => data'.id = openId')
  PROVE  /\ loads' \subseteq Load
         /\ LoadsOfTheDrawer'
         /\ \E l \in loads' : l.latest
         /\ \A l \in loads' : l.latest => ~Behind(l.reply)
<1>1. \A l \in Superseded : l \in Load /\ ~l.latest /\ ReplyFits(l)
  BY SupersededAre DEF DrawerInv
<1>2. /\ Fetch(id) \in Load /\ Fetch(id).latest /\ Fetch(id).id = id
      /\ Fetch(id).reply = Nothing /\ ReplyFits(Fetch(id))
  BY FetchIs
<1>3. QED
  BY <1>1, <1>2 DEF LoadsOfTheDrawer, ReplyFits, Behind

LEMMA DrawerInit == PanelInit => DrawerInv
<1> SUFFICES ASSUME PanelInit PROVE DrawerInv
  OBVIOUS
<1>1. booking \in [Card -> Record]
  <2>1. PICK s \in {"TENTATIVE", "CONFIRMED"} : booking = [id \in Card |-> [status |-> s, paid |-> 0]]
    BY DEF PanelInit
  <2>2. [status |-> s, paid |-> 0] \in Record
    BY PanelAssumption DEF Record, Status
  <2>3. QED
    BY <2>1, <2>2
<1>2. DrawerOK
  BY <1>1, Cards DEF PanelInit, DrawerOK
<1>3. LoadsOfTheDrawer /\ CatchesUp /\ ClicksWereOffered
  BY DEF PanelInit, LoadsOfTheDrawer, CatchesUp, ClicksWereOffered, Behind
<1>4. QED
  BY <1>2, <1>3 DEF DrawerInv

LEMMA DrawerStepKeeps == DrawerInv /\ [PanelNext]_panel => DrawerInv'
<1> SUFFICES ASSUME DrawerInv, [PanelNext]_panel PROVE DrawerInv'
  OBVIOUS
<1>1. DrawerOK /\ LoadsOfTheDrawer /\ CatchesUp /\ ClicksWereOffered
  BY DEF DrawerInv
<1>2. ASSUME NEW id \in Card, OpenBooking(id)
      PROVE  DrawerInv'
  <2>1. /\ openId' = id /\ failure' = FALSE /\ data' = Nothing /\ crossed' = FALSE
        /\ loads' = Superseded \cup {Fetch(id)} /\ acts' = Unmounted /\ booking' = booking
    BY <1>2 DEF OpenBooking
  <2>2. loads' \subseteq Load /\ LoadsOfTheDrawer' /\ \A l \in loads' : l.latest => ~Behind(l.reply)
    BY <2>1, LoadingKeeps
  <2>3. DrawerOK' /\ ClicksWereOffered'
    BY <1>1, <2>1, <2>2, UnmountedAre, Cards DEF DrawerOK, ClicksWereOffered
  <2>4. CatchesUp'
    BY <2>1, <2>2 DEF CatchesUp, Behind
  <2>5. QED
    BY <2>2, <2>3, <2>4 DEF DrawerInv
<1>3. CASE CloseBooking
  <2>1. /\ openId' = Nobody /\ failure' = FALSE /\ data' = Nothing /\ crossed' = FALSE
        /\ loads' = Superseded /\ acts' = Unmounted /\ booking' = booking
    BY <1>3 DEF CloseBooking
  <2>2. \A l \in loads' : l \in Load /\ ~l.latest /\ ReplyFits(l)
    BY <1>1, <2>1, SupersededAre
  <2>3. DrawerOK' /\ ClicksWereOffered'
    BY <1>1, <2>1, <2>2, UnmountedAre, Cards DEF DrawerOK, ClicksWereOffered
  <2>4. LoadsOfTheDrawer' /\ CatchesUp'
    BY <2>1, <2>2 DEF LoadsOfTheDrawer, CatchesUp, Behind, ReplyFits
  <2>5. QED
    BY <2>3, <2>4 DEF DrawerInv
<1>4. ASSUME NEW what \in Button, Click(what)
      PROVE  DrawerInv'
  <2> DEFINE a == [id |-> data.id, what |-> what, seen |-> data.seen,
                   refreshes |-> openId, here |-> TRUE, stage |-> "sent"]
  <2>1. /\ openId # Nobody /\ data # Nothing /\ what \in Offered(data.seen)
        /\ acts' = acts \cup {a}
        /\ UNCHANGED <<booking, openId, data, failure, loads, crossed>>
    BY <1>4 DEF Click
  <2>2. data.id \in Card /\ data.seen \in Record /\ openId \in Card
    BY <1>1, <2>1, Cards DEF DrawerOK
  <2>3. a \in Action /\ a.what \in Offered(a.seen)
    BY <2>1, <2>2 DEF Action
  <2> HIDE DEF a
  <2>4. DrawerOK' /\ LoadsOfTheDrawer' /\ ClicksWereOffered'
    BY <1>1, <2>1, <2>3 DEF DrawerOK, LoadsOfTheDrawer, ClicksWereOffered
  <2>5. CatchesUp'
    BY <1>1, <2>1 DEF CatchesUp, Behind, WillReload
  <2>6. QED
    BY <2>4, <2>5 DEF DrawerInv
<1>5. ASSUME NEW a \in acts, Perform(a)
      PROVE  DrawerInv'
  <2> DEFINE d == [a EXCEPT !.stage = "done"]
  <2>1. /\ UNCHANGED <<openId, failure, crossed>>
        /\ booking' = [booking EXCEPT ![a.id] = Effect(a.what, booking[a.id])]
        /\ acts' = (acts \ {a}) \cup {d}
        /\ data' = Outdated(data, a)
        /\ loads' = {[l EXCEPT !.reply = Outdated(l.reply, a)] : l \in loads}
    BY <1>5 DEF Perform, Outdated
  <2>2. a \in Action /\ a.id \in Card /\ a.what \in Button /\ a.what \in Offered(a.seen)
    BY <1>1 DEF DrawerOK, Action, ClicksWereOffered
  <2>3. /\ d \in Action /\ d.id = a.id /\ d.what = a.what /\ d.seen = a.seen
    BY <2>2 DEF Action
  <2> HIDE DEF d
  <2>4. booking' \in [Card -> Record]
    BY <1>1, <2>1, <2>2, EffectIs DEF DrawerOK
  <2>5. /\ data' \in Read /\ data'.id = data.id /\ (data' = Nothing <=> data = Nothing)
        /\ Behind(data') => Behind(data) \/ (data.id = a.id /\ Reloads(a.what))
    BY <1>1, <2>1, OutdatedIs DEF DrawerOK
  <2>6. ASSUME NEW m \in loads'
        PROVE  \E l \in loads : /\ m = [l EXCEPT !.reply = Outdated(l.reply, a)]
                                /\ m \in Load /\ m.id = l.id /\ m.latest = l.latest
                                /\ ReplyFits(m)
                                /\ Behind(m.reply) => Behind(l.reply) \/ (l.id = a.id /\ Reloads(a.what))
    <3>1. PICK l \in loads : m = [l EXCEPT !.reply = Outdated(l.reply, a)]
      BY <2>1
    <3>2. l \in Load /\ l.reply \in Read /\ ReplyFits(l)
      BY <1>1 DEF DrawerOK, Load, LoadsOfTheDrawer, ReplyFits
    <3>3. /\ Outdated(l.reply, a) \in Read /\ Outdated(l.reply, a).id = l.reply.id
          /\ Outdated(l.reply, a) = Nothing <=> l.reply = Nothing
          /\ Behind(Outdated(l.reply, a)) =>
               Behind(l.reply) \/ (l.reply.id = a.id /\ Reloads(a.what))
      BY <3>2, OutdatedIs
    <3>4. m \in Load /\ m.id = l.id /\ m.latest = l.latest /\ m.stage = l.stage
          /\ m.reply = Outdated(l.reply, a)
      BY <3>1, <3>2, <3>3 DEF Load
    <3>5. ReplyFits(m)
      BY <3>2, <3>3, <3>4 DEF ReplyFits
    <3>6. Behind(m.reply) => l.reply # Nothing
      BY <3>3, <3>4 DEF Behind
    <3>7. QED
      BY <3>1, <3>2, <3>3, <3>4, <3>5, <3>6 DEF ReplyFits
  <2>7. DrawerOK' /\ ClicksWereOffered'
    BY <1>1, <2>1, <2>2, <2>3, <2>4, <2>5, <2>6 DEF DrawerOK, ClicksWereOffered
  <2>8. LoadsOfTheDrawer'
    <3>1. \A l, m \in loads' : l.latest /\ m.latest => l = m
      BY <1>1, <2>6 DEF LoadsOfTheDrawer
    <3>2. QED
      BY <1>1, <2>1, <2>5, <2>6, <3>1 DEF LoadsOfTheDrawer, ReplyFits
  <2>9. CatchesUp'
    <3>1. \A id : WillReload(id) \/ (id = a.id /\ Reloads(a.what)) => WillReload(id)'
      BY <2>1, <2>3 DEF WillReload
    <3>2. (\E l \in loads : l.latest) => \E l \in loads' : l.latest
      <4>1. SUFFICES ASSUME NEW l \in loads, l.latest
                     PROVE  \E m \in loads' : m.latest
        OBVIOUS
      <4>2. [l EXCEPT !.reply = Outdated(l.reply, a)].latest
        BY <1>1, <4>1 DEF DrawerOK, Load
      <4>3. QED
        BY <2>1, <4>2
    <3>3. Behind(data)' = Behind(data')
      BY DEF Behind
    <3>4. Behind(data)' => failure' \/ (\E l \in loads' : l.latest) \/ WillReload(data.id)'
      BY <1>1, <2>1, <2>5, <3>1, <3>2, <3>3 DEF CatchesUp
    <3>5. \A l \in loads' : l.latest /\ Behind(l.reply) => WillReload(l.id)'
      BY <1>1, <2>6, <3>1 DEF CatchesUp
    <3>6. QED
      BY <3>4, <3>5, <2>5 DEF CatchesUp, Behind, WillReload
  <2>10. QED
    BY <2>7, <2>8, <2>9 DEF DrawerInv
<1>6. ASSUME NEW a \in acts, FinishAction(a)
      PROVE  DrawerInv'
  <2>1. UNCHANGED <<booking, openId, data, failure>> /\ acts' = acts \ {a}
    BY <1>6 DEF FinishAction
  <2>2. a \in Action /\ a.refreshes \in Card
    BY <1>1 DEF DrawerOK, Action
  <2>3. ClicksWereOffered' /\ acts' \subseteq Action
    BY <1>1, <2>1 DEF ClicksWereOffered, DrawerOK
  <2>4. CASE Reloads(a.what)
    <3>1. /\ loads' = Superseded \cup {Fetch(a.refreshes)}
          /\ crossed' = (crossed \/ a.refreshes # openId)
      BY <1>6, <2>4 DEF FinishAction
    <3>2. ~crossed' => a.refreshes = openId' /\ (data' # Nothing => data'.id = openId')
      BY <1>1, <2>1, <3>1 DEF LoadsOfTheDrawer
    <3>3. /\ loads' \subseteq Load /\ LoadsOfTheDrawer' /\ (\E l \in loads' : l.latest)
          /\ \A l \in loads' : l.latest => ~Behind(l.reply)
      BY <2>2, <3>1, <3>2, LoadingKeeps
    <3>4. DrawerOK'
      BY <1>1, <2>1, <2>3, <3>1, <3>3 DEF DrawerOK
    <3>5. CatchesUp'
      BY <3>3 DEF CatchesUp, Behind
    <3>6. QED
      BY <2>3, <3>3, <3>4, <3>5 DEF DrawerInv
  <2>5. CASE ~Reloads(a.what)
    <3>1. UNCHANGED <<loads, crossed>>
      BY <1>6, <2>5 DEF FinishAction
    <3>2. DrawerOK' /\ LoadsOfTheDrawer'
      BY <1>1, <2>1, <2>3, <3>1 DEF DrawerOK, LoadsOfTheDrawer
    <3>3. \A id : WillReload(id) => WillReload(id)'
      BY <2>1, <2>5 DEF WillReload
    <3>4. CatchesUp'
      BY <1>1, <2>1, <3>1, <3>3 DEF CatchesUp, Behind, WillReload
    <3>5. QED
      BY <2>3, <3>2, <3>4 DEF DrawerInv
  <2>6. QED
    BY <2>4, <2>5
<1>7. ASSUME NEW l \in loads, ReadDetail(l)
      PROVE  DrawerInv'
  <2>1. UNCHANGED <<booking, openId, data, failure, acts, crossed>> /\ l.stage = "sent"
    BY <1>7 DEF ReadDetail
  <2>2. PICK m : /\ loads' = (loads \ {l}) \cup {m}
                 /\ \/ m = [l EXCEPT !.stage = "read",
                                     !.reply = [id |-> l.id, seen |-> booking[l.id], since |-> TRUE]]
                    \/ m = [l EXCEPT !.stage = "refused"]
    BY <1>7 DEF ReadDetail
  <2>3. l \in Load /\ l.id \in Card /\ l.reply = Nothing
    BY <1>1, <2>1 DEF DrawerOK, Load, LoadsOfTheDrawer
  <2>4. /\ m \in Load /\ m.id = l.id /\ m.latest = l.latest /\ ReplyFits(m) /\ ~Behind(m.reply)
    <3> DEFINE r == [id |-> l.id, seen |-> booking[l.id], since |-> TRUE]
    <3>1. r \in Read /\ r # Nothing /\ r.id = l.id /\ r.since
      <4>1. r \in [id : Card, seen : Record, since : BOOLEAN]
        BY <1>1, <2>3 DEF DrawerOK
      <4>2. QED
        BY <4>1, <2>3, Cards DEF Read
    <3> HIDE DEF r
    <3>2. CASE m = [l EXCEPT !.stage = "read", !.reply = r]
      BY <2>3, <3>1, <3>2 DEF Load, ReplyFits, Behind
    <3>3. CASE m = [l EXCEPT !.stage = "refused"]
      BY <2>3, <3>3 DEF Load, ReplyFits, Behind
    <3>4. QED
      BY <2>2, <3>2, <3>3 DEF r
  <2>5. DrawerOK' /\ ClicksWereOffered'
    BY <1>1, <2>1, <2>2, <2>4 DEF DrawerOK, ClicksWereOffered
  <2>6. LoadsOfTheDrawer'
    BY <1>1, <2>1, <2>2, <2>4 DEF LoadsOfTheDrawer, ReplyFits
  <2>7. CatchesUp'
    BY <1>1, <2>1, <2>2, <2>4 DEF CatchesUp, Behind, WillReload
  <2>8. QED
    BY <2>5, <2>6, <2>7 DEF DrawerInv
<1>8. ASSUME NEW l \in loads, Show(l)
      PROVE  DrawerInv'
  <2>1. /\ UNCHANGED <<booking, openId, acts, crossed>> /\ l.stage # "sent"
        /\ loads' = loads \ {l}
        /\ data' = IF l.latest /\ l.stage = "read" THEN l.reply ELSE data
        /\ failure' = (failure \/ (l.latest /\ l.stage = "refused"))
    BY <1>8 DEF Show
  <2>2. l \in Load /\ l.reply \in Read /\ ReplyFits(l) /\ l.latest \in BOOLEAN
    BY <1>1 DEF DrawerOK, Load, LoadsOfTheDrawer, ReplyFits
  <2>3. DrawerOK' /\ ClicksWereOffered'
    BY <1>1, <2>1, <2>2 DEF DrawerOK, ClicksWereOffered
  <2>4. LoadsOfTheDrawer'
    BY <1>1, <2>1, <2>2 DEF LoadsOfTheDrawer, ReplyFits
  <2>5. CatchesUp'
    <3>1. \A id : WillReload(id)' = WillReload(id)
      BY <2>1 DEF WillReload
    <3>2. \A m \in loads' : m.latest /\ Behind(m.reply) => WillReload(m.id)
      BY <1>1, <2>1 DEF CatchesUp
    <3>3. Behind(data') => failure' \/ (\E m \in loads' : m.latest) \/ WillReload(data'.id)
      <4>1. CASE l.latest /\ l.stage = "read"
        BY <1>1, <2>1, <2>2, <4>1 DEF CatchesUp, ReplyFits
      <4>2. CASE l.latest /\ l.stage # "read"
        <5>1. l.stage = "refused"
          BY <2>1, <2>2, <4>2 DEF Load
        <5>2. QED
          BY <2>1, <4>2, <5>1
      <4>3. CASE ~l.latest
        <5>1. (\E m \in loads : m.latest) => \E m \in loads' : m.latest
          BY <2>1, <4>3
        <5>2. QED
          BY <1>1, <2>1, <4>3, <5>1 DEF CatchesUp
      <4>4. QED
        BY <4>1, <4>2, <4>3
    <3>4. QED
      BY <3>1, <3>2, <3>3 DEF CatchesUp, Behind, WillReload
  <2>6. QED
    BY <2>3, <2>4, <2>5 DEF DrawerInv
<1>9. ASSUME NEW id \in Card, NEW what \in Button, Elsewhere(id, what)
      PROVE  DrawerInv'
  <2>1. /\ booking' = [booking EXCEPT ![id] = Effect(what, booking[id])]
        /\ UNCHANGED <<openId, data, failure, loads, acts, crossed>>
    BY <1>9 DEF Elsewhere
  <2>2. booking' \in [Card -> Record]
    BY <1>1, <2>1, EffectIs DEF DrawerOK
  <2>3. QED
    BY <1>1, <2>1, <2>2
       DEF DrawerInv, DrawerOK, LoadsOfTheDrawer, CatchesUp, ClicksWereOffered, Behind, WillReload
<1>10. CASE UNCHANGED panel
  BY <1>1, <1>10
     DEF panel, DrawerInv, DrawerOK, LoadsOfTheDrawer, CatchesUp, ClicksWereOffered, Behind, WillReload
<1>11. QED
  BY <1>2, <1>3, <1>4, <1>5, <1>6, <1>7, <1>8, <1>9, <1>10 DEF PanelNext

(* What the properties say of the drawer follows. *)
LEMMA DrawerShows == DrawerInv => PanelInv /\ ReadsItsWrites
<1> SUFFICES ASSUME DrawerInv PROVE PanelInv /\ ReadsItsWrites
  OBVIOUS
<1>1. DrawerOK /\ LoadsOfTheDrawer /\ CatchesUp
  BY DEF DrawerInv
<1>2. Cardinality({l \in loads : l.latest}) <= 1
  <2> DEFINE L == {l \in loads : l.latest}
  <2>1. L = {} \/ \E m : L = {m}
    BY <1>1 DEF LoadsOfTheDrawer
  <2> HIDE DEF L
  <2>2. QED
    BY <2>1, AtMostOne DEF L
<1>3. \A a \in acts : a.refreshes \in Card
  BY <1>1 DEF DrawerOK, Action
<1>4. ReadsItsWrites
  BY <1>1 DEF CatchesUp, ReadsItsWrites, Behind, WillReload
<1>5. QED
  BY <1>1, <1>2, <1>3, <1>4 DEF DrawerOK, LoadsOfTheDrawer, PanelInv

(* A button that was offered for what the server still holds is not refused *)
(* and keeps to the life cycle.                                             *)
LEMMA OfferedIsAllowed ==
  ASSUME NEW r \in Record, NEW what \in Offered(r)
  PROVE  /\ ~Refused(what, r)
         /\ LET to == Effect(what, r).status
            IN r.status = to \/ <<r.status, to>> \in LifeCycle
<1>1. r.status \in Status /\ r.paid \in 0..Due
  BY DEF Record
<1>2. DeriveState(r) = IF r.status = "CONFIRMED" THEN Money(r) ELSE r.status
  BY DEF DeriveState
<1>3. Money(r) \in {"paid", "partial", "unpaid"}
  BY DEF Money
<1>4. CASE what \in {"markPaid", "record"}
  <2>1. ~Refused(what, r)
    BY <1>1, <1>4, PanelAssumption DEF Offered, Refused
  <2>2. Effect(what, r).status = r.status
    BY <1>4, <2>1 DEF Effect, Record
  <2>3. QED
    BY <2>1, <2>2
<1>5. CASE what \in {"checkOut", "confirm", "checkIn", "noShow", "cancel"}
  <2>1. /\ what = "checkOut" => r.status = "CHECKED_IN"
        /\ what = "confirm" => r.status = "TENTATIVE"
        /\ what = "checkIn" => r.status = "CONFIRMED"
        /\ what = "noShow" => r.status \in {"TENTATIVE", "CONFIRMED"}
        /\ what = "cancel" => r.status \in {"TENTATIVE", "CONFIRMED", "CHECKED_IN"}
    BY <1>1, <1>2, <1>3, <1>5 DEF Offered, Upcoming, Status
  <2>2. ~Refused(what, r)
    BY <1>5, <2>1 DEF Refused
  <2>3. Effect(what, r).status = Target[what]
    BY <1>5, <2>2 DEF Effect, Record
  <2>4. /\ what = "checkOut" => Target[what] = "CHECKED_OUT"
        /\ what = "confirm" => Target[what] = "CONFIRMED"
        /\ what = "checkIn" => Target[what] = "CHECKED_IN"
        /\ what = "noShow" => Target[what] = "NO_SHOW"
        /\ what = "cancel" => Target[what] = "CANCELLED"
    BY DEF Target
  <2>5. <<r.status, Target[what]>> \in LifeCycle
    BY <1>5, <2>1, <2>4 DEF LifeCycle
  <2>6. QED
    BY <2>2, <2>3, <2>5
<1>6. QED
  BY <1>4, <1>5, OfferedIsAButton DEF Button

LEMMA FreshClicks ==
  ASSUME DrawerInv, NEW a \in acts, Perform(a), a.seen = booking[a.id]
  PROVE  /\ ~Refused(a.what, a.seen)
         /\ LET from == a.seen.status
                to == booking'[a.id].status
            IN from = to \/ <<from, to>> \in LifeCycle
<1>1. a.id \in Card /\ a.seen \in Record /\ a.what \in Offered(a.seen)
      /\ booking \in [Card -> Record]
  BY DEF DrawerInv, DrawerOK, Action, ClicksWereOffered
<1>2. booking'[a.id] = Effect(a.what, a.seen)
  BY <1>1 DEF Perform
<1>3. QED
  BY <1>1, <1>2, OfferedIsAllowed
--------------------------------------------------------------------------------
(* The form.  What a stay costs is a number of rupees. *)
LEMMA Products == /\ \A m, n \in Nat : m * n \in Nat
                  /\ \A m, n \in Int : m * n \in Int
OBVIOUS

LEMMA HalfIs ==
  ASSUME NEW n \in Nat, NEW d \in Nat \ {0}
  PROVE  Half(n, d) \in Nat
<1>1. 2 * n + d \in Nat /\ 2 * d \in Nat /\ 2 * d > 0
  OBVIOUS
<1>2. \A m \in Nat, k \in Nat : k > 0 => m \div k \in Nat
  OBVIOUS
<1>3. QED
  BY <1>1, <1>2 DEF Half

LEMMA RoomsAndNights ==
  ASSUME NEW rooms \in SUBSET Chip, NEW dates \in Dates
  PROVE  IsFiniteSet(rooms) /\ Cardinality(rooms) \in Nat /\ NightsIn[dates] \in Nat
BY QuickAddAssumption, FS_Subset, FS_CardinalityType

LEMMA AtRateIs ==
  ASSUME NEW rooms \in SUBSET Chip, NEW dates \in Dates, NEW rate \in Int
  PROVE  AtRate(rooms, dates, rate) \in Int /\ (rate > 0 => AtRate(rooms, dates, rate) \in Nat)
<1>1. Cardinality(rooms) \in Nat /\ NightsIn[dates] \in Nat
  BY RoomsAndNights
<1>2. rate * Cardinality(rooms) \in Int /\ (rate > 0 => rate * Cardinality(rooms) \in Nat)
  <2>1. rate > 0 => rate \in Nat
    OBVIOUS
  <2> QED
    BY <1>1, <2>1, Products
<1>3. QED
  BY <1>1, <1>2, Products DEF AtRate

LEMMA ByPlansIs ==
  ASSUME PricesOK, NEW rooms \in SUBSET Chip, NEW dates \in Dates
  PROVE  ByPlans(rooms, dates) \in Nat
<1> DEFINE f == [room \in rooms |-> price[<<room, dates>>]]
<1>1. IsFiniteSet(rooms)
  BY RoomsAndNights
<1>2. price \in [Chip \X Dates -> Nat]
  BY QuickAddAssumption DEF PricesOK
<1>3. DOMAIN f = rooms /\ \A room \in rooms : f[room] \in Nat
  BY <1>2
<1> HIDE DEF f
<1>4. SumFunctionOnSet(f, rooms) \in Nat
  BY <1>1, <1>3, SumNat
<1>5. QED
  BY <1>3, <1>4 DEF SumFunction, ByPlans, f

(* The server's two prices of a stay agree, but for rates below 0. *)
LEMMA PriceIs ==
  ASSUME PricesOK, NEW rooms \in SUBSET Chip, NEW dates \in Dates, NEW sent \in Int
  PROVE  /\ QuotedPrice(rooms, dates, sent) \in Nat
         /\ BookedPrice(rooms, dates, sent) \in Int
         /\ sent >= 0 => BookedPrice(rooms, dates, sent) = QuotedPrice(rooms, dates, sent)
<1>1. sent >= 0 => (sent > 0 <=> sent # Unpriced)
  BY DEF Unpriced
<1>2. QED
  BY <1>1, AtRateIs, ByPlansIs DEF QuotedPrice, BookedPrice

LEMMA AnswersAre ==
  /\ NoQuote = NoReply /\ NoReply \notin Priced
  /\ \A r \in Priced : [r EXCEPT !.fresh = FALSE] \in Priced
<1>1. NoQuote = NoReply /\ ~NoReply.ok
  BY DEF NoQuote, NoReply
<1>2. QED
  BY <1>1 DEF Priced

LEMMA SentIs == FormOK => Sent \in Int
BY DEF FormOK, Sent, Unpriced

LEMMA CostsStay ==
  ASSUME price' = price
  PROVE  \A x, amount : Costs(x, amount)' = Costs(x, amount)
BY DEF Costs, QuotedPrice, AtRate, ByPlans

(* Calls of an effect that has been cleaned up. *)
LEMMA CleanedUp ==
  ASSUME FormInv, NEW C, C \subseteq calls, price' = price
  PROVE  \A d \in {[c EXCEPT !.active = FALSE] : c \in C} :
           d \in Question /\ ~d.active /\ Answers(d)'
<1> SUFFICES ASSUME NEW c \in C
             PROVE  LET d == [c EXCEPT !.active = FALSE]
                    IN d \in Question /\ ~d.active /\ Answers(d)'
  OBVIOUS
<1>1. c \in Question /\ Answers(c)
  BY DEF FormInv, QuotesOK
<1> DEFINE d == [c EXCEPT !.active = FALSE]
<1>2. /\ d \in Question /\ ~d.active /\ d.reply = c.reply
      /\ d.rooms = c.rooms /\ d.dates = c.dates /\ d.sent = c.sent
  BY <1>1 DEF Question
<1> HIDE DEF d
<1>3. Answers(d)
  BY <1>1, <1>2 DEF Answers
<1>4. QED
  BY <1>2, <1>3, CostsStay DEF Answers, d

(* An edit leaves the form and its effect as they were, or runs the effect. *)
LEMMA FormEditKeeps ==
  ASSUME FormInv, FormOK', UNCHANGED <<quote, price>>,
         \/ Rerun(open', form')
         \/ UNCHANGED <<calls, timer, heard, form, manual>>
  PROVE  QuotesOK'
<1>1. QuotesOK
  BY DEF FormInv
<1>2. CASE Rerun(open', form')
  <2>1. \A d \in calls' : d \in Question /\ ~d.active /\ Answers(d)'
    BY <1>2, CleanedUp DEF Rerun
  <2>2. ~heard'
    BY <1>2 DEF Rerun
  <2>3. QED
    BY <1>1, <2>1, <2>2, CostsStay DEF QuotesOK
<1>3. CASE UNCHANGED <<calls, timer, heard, form, manual>>
  <2>1. \A x : IsFor(x)' = IsFor(x)
    BY <1>3 DEF IsFor, Sent
  <2>2. \A c : Answers(c)' = Answers(c)
    BY CostsStay DEF Answers
  <2>3. QED
    BY <1>1, <1>3, <2>1, <2>2, CostsStay DEF QuotesOK
<1>4. QED
  BY <1>2, <1>3

LEMMA RerunKeeps ==
  ASSUME NEW isOpen \in BOOLEAN, NEW f, Rerun(isOpen, f)
  PROVE  timer' \in BOOLEAN /\ (timer' => isOpen) /\ heard' \in BOOLEAN
BY DEF Rerun

LEMMA SubmitsStay ==
  ASSUME SubmitsOK, UNCHANGED <<creating, pending, price>>
  PROVE  SubmitsOK'
BY CostsStay DEF SubmitsOK, BilledAsShown

LEMMA FormInit == QuickAddInit => FormInv
<1> SUFFICES ASSUME QuickAddInit PROVE FormInv
  OBVIOUS
<1>1. form \in [rooms : {{room} : room \in Chip}, dates : Dates \ {Backward},
             rate : TypedRate \cap Nat]
  BY DEF QuickAddInit
<1>2. form \in [rooms : SUBSET Chip, dates : Dates, rate : Int]
  <2>1. /\ form = [rooms |-> form.rooms, dates |-> form.dates, rate |-> form.rate]
        /\ form.rooms \in {{room} : room \in Chip}
        /\ form.dates \in Dates /\ form.rate \in Int
    BY <1>1, QuickAddAssumption
  <2>2. form.rooms \in SUBSET Chip
    BY <2>1
  <2>3. QED
    BY <2>1, <2>2
<1>3. FormOK
  BY <1>2 DEF QuickAddInit, FormOK
<1>4. PricesOK /\ QuotesOK /\ SubmitsOK
  BY DEF QuickAddInit, PricesOK, QuotesOK, SubmitsOK, BilledAsShown
<1>5. QED
  BY <1>3, <1>4 DEF FormInv

LEMMA FillKeeps ==
  ASSUME FormInv, NEW f \in [rooms : SUBSET Chip, dates : Dates, rate : Int],
         NEW m \in BOOLEAN, Fill(f, m)
  PROVE  FormInv'
<1>1. /\ open /\ form' = f /\ manual' = m /\ React(TRUE, f, m)
      /\ UNCHANGED <<open, step, quote, creating, pending, price, taken>>
  BY DEF Fill, server
<1>2. open = TRUE
  BY <1>1 DEF FormInv, FormOK
<1>3. Rerun(open', form') \/ UNCHANGED <<calls, timer, heard, form, manual>>
  BY <1>1, <1>2 DEF React
<1>4. timer' \in BOOLEAN /\ (timer' => open') /\ heard' \in BOOLEAN
  BY <1>1, <1>2, <1>3, RerunKeeps DEF FormInv, FormOK
<1>5. FormOK'
  BY <1>1, <1>4 DEF FormInv, FormOK
<1>6. PricesOK' /\ SubmitsOK'
  BY <1>1, SubmitsStay DEF FormInv, PricesOK
<1>7. QED
  BY <1>1, <1>3, <1>5, <1>6, FormEditKeeps DEF FormInv

LEMMA DeskKeeps == FormInv /\ Desk => FormInv'
<1> SUFFICES ASSUME FormInv, Desk PROVE FormInv'
  OBVIOUS
<1>1. FormOK /\ PricesOK /\ QuotesOK /\ SubmitsOK
  BY DEF FormInv
<1>2. form \in [rooms : SUBSET Chip, dates : Dates, rate : Int] /\ manual \in BOOLEAN
  BY <1>1 DEF FormOK
<1>3. ASSUME NEW rooms \in SUBSET Chip, NEW dates \in Dates, Open(rooms, dates)
      PROVE  FormInv'
  <2>1. /\ open' = TRUE /\ step' = 1 /\ manual' = FALSE
        /\ form' = [form EXCEPT !.rooms = rooms, !.dates = dates]
        /\ Rerun(TRUE, form') /\ UNCHANGED <<quote, creating, pending, price, taken>>
    BY <1>3 DEF Open, server
  <2>2. form' \in [rooms : SUBSET Chip, dates : Dates, rate : Int]
    BY <1>2, <2>1
  <2>3. FormOK'
    BY <1>1, <2>1, <2>2, RerunKeeps DEF FormOK
  <2>4. PricesOK' /\ SubmitsOK'
    BY <1>1, <2>1, SubmitsStay DEF PricesOK
  <2>5. QED
    BY <2>1, <2>3, <2>4, FormEditKeeps DEF FormInv
<1>4. ASSUME NEW room \in Chip, Toggle(room)
      PROVE  FormInv'
  <2>1. [form EXCEPT !.rooms = @ \ {room}] \in [rooms : SUBSET Chip, dates : Dates, rate : Int]
        /\ [form EXCEPT !.rooms = @ \cup {room}] \in [rooms : SUBSET Chip, dates : Dates, rate : Int]
    BY <1>2
  <2>2. QED
    BY <1>4, <2>1, FillKeeps DEF Toggle
<1>5. ASSUME NEW dates \in Dates, PickDates(dates)
      PROVE  FormInv'
  <2>1. [form EXCEPT !.dates = dates] \in [rooms : SUBSET Chip, dates : Dates, rate : Int]
    BY <1>2
  <2>2. QED
    BY <1>2, <1>5, <2>1, FillKeeps DEF PickDates
<1>6. ASSUME NEW rate \in TypedRate, TypeRate(rate)
      PROVE  FormInv'
  <2>1. [form EXCEPT !.rate = rate] \in [rooms : SUBSET Chip, dates : Dates, rate : Int]
    BY <1>2, QuickAddAssumption
  <2>2. QED
    BY <1>6, <2>1, FillKeeps DEF TypeRate
<1>7. CASE UseRatePlan
  BY <1>2, <1>7, FillKeeps DEF UseRatePlan
<1>8. CASE Close
  <2>1. /\ open' = FALSE /\ Rerun(FALSE, form)
        /\ UNCHANGED <<step, form, manual, quote, creating, pending, price, taken>>
    BY <1>8 DEF Close, server
  <2>2. FormOK'
    BY <1>1, <2>1, RerunKeeps DEF FormOK
  <2>3. PricesOK' /\ SubmitsOK'
    BY <1>1, <2>1, SubmitsStay DEF PricesOK
  <2>4. QED
    BY <2>1, <2>2, <2>3, FormEditKeeps DEF FormInv
<1>9. CASE Review \/ Back
  <2>1. /\ step' \in {1, 2}
        /\ UNCHANGED <<open, form, manual, quote, timer, calls, creating, pending, heard, price,
                       taken>>
    BY <1>9 DEF Review, Back, server
  <2>2. FormOK'
    BY <1>1, <2>1 DEF FormOK
  <2>3. PricesOK' /\ SubmitsOK'
    BY <1>1, <2>1, SubmitsStay DEF PricesOK
  <2>4. QED
    BY <2>1, <2>2, <2>3, FormEditKeeps DEF FormInv
<1>10. CASE Submit
  <2> DEFINE s == [rooms |-> form.rooms, dates |-> form.dates, sent |-> Sent,
                   shown |-> Shown, settled |-> Settled, fresh |-> quote # NoQuote /\ quote.fresh,
                   stage |-> "sent", charged |-> 0]
  <2>1. /\ ~pending /\ pending' = TRUE /\ creating' = creating \cup {s}
        /\ UNCHANGED <<open, step, form, manual, quote, timer, calls, heard, price, taken>>
    BY <1>10 DEF Submit, server
  <2>2. creating' = {s}
    BY <1>1, <2>1 DEF SubmitsOK
  <2>3. Shown \in Int
    <3>1. CASE quote # NoQuote
      <4>1. quote \in Priced
        BY <1>1, <3>1 DEF FormOK
      <4>2. QED
        BY <3>1, <4>1 DEF Shown, Priced
    <3>2. CASE quote = NoQuote
      <4>1. form.rate \in Int /\ NightsIn[form.dates] \in Int
        BY <1>2, QuickAddAssumption
      <4>2. QED
        BY <3>2, <4>1, Products DEF Shown
    <3>3. QED
      BY <3>1, <3>2
  <2>4. Settled \in BOOLEAN /\ (quote # NoQuote /\ quote.fresh) \in BOOLEAN
    BY DEF Settled
  <2>5. s \in Order
    BY <1>1, <1>2, <2>3, <2>4, SentIs DEF Order
  <2>6. s.settled /\ s.fresh => Costs(s, s.shown)
    <3>1. SUFFICES ASSUME Settled, quote # NoQuote, quote.fresh
                   PROVE  Shown = QuotedPrice(form.rooms, form.dates, Sent)
      BY DEF Costs
    <3>2. IsFor(quote) /\ Costs(quote, quote.subtotal)
      BY <1>1, <3>1 DEF Settled, QuotesOK
    <3>3. QED
      BY <3>1, <3>2 DEF IsFor, Costs, Shown
  <2>7. s.stage = "sent"
    OBVIOUS
  <2> HIDE DEF s
  <2>8. SubmitsOK'
    BY <2>1, <2>2, <2>5, <2>6, <2>7, CostsStay DEF SubmitsOK, BilledAsShown
  <2>9. FormOK' /\ PricesOK'
    BY <1>1, <2>1 DEF FormOK, PricesOK
  <2>10. QED
    BY <2>1, <2>8, <2>9, FormEditKeeps DEF FormInv
<1>11. form.rooms \in SUBSET Chip /\ form.dates \in Dates /\ \A room \in Chip : {room} \in SUBSET Chip
  BY <1>2
<1>12. QED
  BY <1>3, <1>4, <1>5, <1>6, <1>7, <1>8, <1>9, <1>10, <1>11 DEF Desk

LEMMA AskKeeps == FormInv /\ Ask => FormInv'
<1> SUFFICES ASSUME FormInv, Ask PROVE FormInv'
  OBVIOUS
<1>1. FormOK /\ PricesOK /\ QuotesOK /\ SubmitsOK
  BY DEF FormInv
<1> DEFINE d == [rooms |-> form.rooms, dates |-> form.dates, sent |-> Sent,
                 auto |-> ~manual, active |-> TRUE, reply |-> NoReply]
<1>2. /\ timer /\ timer' = FALSE /\ calls' = calls \cup {d}
      /\ UNCHANGED <<open, step, form, manual, quote, creating, pending, heard, price, taken>>
  BY DEF Ask, server
<1>3. d \in Question /\ IsFor(d) /\ d.auto = ~manual /\ d.reply = NoReply
  BY <1>1, SentIs DEF FormOK, Question, IsFor
<1> HIDE DEF d
<1>4. FormOK' /\ PricesOK' /\ SubmitsOK'
  BY <1>1, <1>2, SubmitsStay DEF FormOK, PricesOK
<1>5. \A x : IsFor(x)' = IsFor(x)
  BY <1>2 DEF IsFor, Sent
<1>6. \A c \in calls : ~c.active
  BY <1>1, <1>2 DEF QuotesOK
<1>7. \A c \in calls' : Answers(c)'
  BY <1>1, <1>2, <1>3, CostsStay DEF QuotesOK, Answers
<1>8. QuotesOK'
  BY <1>1, <1>2, <1>3, <1>5, <1>6, <1>7, CostsStay DEF QuotesOK
<1>9. QED
  BY <1>4, <1>8 DEF FormInv

LEMMA QuoteKeeps ==
  ASSUME FormInv, NEW c \in calls, Quote(c)
  PROVE  FormInv'
<1>1. FormOK /\ PricesOK /\ QuotesOK /\ SubmitsOK
  BY DEF FormInv
<1> DEFINE total == QuotedPrice(c.rooms, c.dates, c.sent)
           r == [ok |-> TRUE, rooms |-> c.rooms, dates |-> c.dates, sent |-> c.sent,
                 subtotal |-> total, nightly |-> Half(total, NightsIn[c.dates]),
                 taken |-> {room \in Chip : <<room, c.dates>> \in taken},
                 fresh |-> TRUE]
           d == [c EXCEPT !.reply = r]
<1>2. /\ calls' = (calls \ {c}) \cup {d}
      /\ UNCHANGED <<open, step, form, manual, quote, timer, creating, pending, heard, price, taken>>
  BY DEF Quote, server
<1>3. c \in Question /\ c.rooms \in SUBSET Chip /\ c.dates \in Dates /\ c.sent \in Int
  BY <1>1 DEF QuotesOK, Question
<1>4. total \in Nat
  BY <1>1, <1>3, PriceIs
<1>5. Half(total, NightsIn[c.dates]) \in Nat
  <2>1. NightsIn[c.dates] \in Nat \ {0}
    BY <1>3, QuickAddAssumption
  <2> HIDE DEF total
  <2>2. QED
    BY <1>4, <2>1, HalfIs
<1>6. Costs(r, r.subtotal)
  BY DEF Costs
<1> HIDE DEF total
<1>7. r \in Priced
  BY <1>3, <1>4, <1>5 DEF Priced
<1>8. r.rooms = c.rooms /\ r.dates = c.dates /\ r.sent = c.sent
  OBVIOUS
<1> HIDE DEF r
<1>9. /\ d \in Question /\ d.reply = r /\ d.active = c.active /\ d.auto = c.auto
      /\ d.rooms = c.rooms /\ d.dates = c.dates /\ d.sent = c.sent
  BY <1>3, <1>7 DEF Question
<1> HIDE DEF d
<1>10. FormOK' /\ PricesOK' /\ SubmitsOK'
  BY <1>1, <1>2, SubmitsStay DEF FormOK, PricesOK
<1>11. \A x : IsFor(x)' = IsFor(x)
  BY <1>2 DEF IsFor, Sent
<1>12. IsFor(d) <=> IsFor(c)
  BY <1>9 DEF IsFor
<1>13. \A x \in calls' : Answers(x)'
  BY <1>1, <1>2, <1>6, <1>8, <1>9, CostsStay DEF QuotesOK, Answers
<1>14. \A x, y \in calls' : x.active /\ y.active => x = y
  BY <1>1, <1>2, <1>9 DEF QuotesOK
<1>15. QuotesOK'
  BY <1>1, <1>2, <1>9, <1>11, <1>12, <1>13, <1>14, CostsStay DEF QuotesOK
<1>16. QED
  BY <1>10, <1>15 DEF FormInv

(* Calls that go leave the others as they were. *)
LEMMA DropKeeps ==
  ASSUME FormInv, NEW c \in calls, calls' = calls \ {c},
         UNCHANGED <<open, step, form, manual, quote, timer, creating, pending, heard, price, taken>>
  PROVE  FormInv'
<1>1. FormOK /\ PricesOK /\ QuotesOK /\ SubmitsOK
  BY DEF FormInv
<1>2. FormOK' /\ PricesOK' /\ SubmitsOK'
  BY <1>1, SubmitsStay DEF FormOK, PricesOK
<1>3. \A x : IsFor(x)' = IsFor(x)
  BY DEF IsFor, Sent
<1>4. \A x : Answers(x)' = Answers(x)
  BY CostsStay DEF Answers
<1>5. QuotesOK'
  BY <1>1, <1>3, <1>4, CostsStay DEF QuotesOK
<1>6. QED
  BY <1>2, <1>5 DEF FormInv

LEMMA AnswerKeeps ==
  ASSUME FormInv, NEW c \in calls, Answer(c)
  PROVE  FormInv'
<1>1. FormOK /\ PricesOK /\ QuotesOK /\ SubmitsOK
  BY DEF FormInv
<1> DEFINE f == IF c.auto /\ c.reply.nightly > 0 THEN [form EXCEPT !.rate = c.reply.nightly]
                ELSE form
           rest == calls \ {c}
<1>2. /\ c.reply # NoReply /\ UNCHANGED <<open, step, manual, creating, pending, price, taken>>
      /\ IF ~c.active
         THEN calls' = rest /\ UNCHANGED <<quote, form, timer, heard>>
         ELSE /\ quote' = c.reply
              /\ form' = f
              /\ IF f = form
                 THEN calls' = rest /\ heard' = TRUE /\ UNCHANGED timer
                 ELSE /\ calls' = {[d EXCEPT !.active = FALSE] : d \in rest}
                      /\ timer' = (open /\ f.rooms # {})
                      /\ heard' = FALSE
  BY DEF Answer, Take, server
<1>3. c \in Question /\ c.reply \in Priced /\ Answers(c)
  BY <1>1, <1>2 DEF QuotesOK, Question
<1>4. PricesOK' /\ SubmitsOK'
  BY <1>1, <1>2, SubmitsStay DEF PricesOK
<1>5. CASE ~c.active
  BY <1>2, <1>5, DropKeeps
<1>6. CASE c.active
  <2>1. IsFor(c) /\ c.auto = ~manual
    BY <1>1, <1>6 DEF QuotesOK
  <2>2. c.reply.nightly \in Nat /\ quote' = c.reply /\ form' = f
    BY <1>2, <1>3, <1>6 DEF Priced
  <2>3. f \in [rooms : SUBSET Chip, dates : Dates, rate : Int]
        /\ f.rooms = form.rooms /\ f.dates = form.dates
    BY <1>1, <2>2 DEF FormOK
  <2>4. quote' # NoQuote
    BY <1>3, <2>2, AnswersAre
  <2>5. quote'.fresh => Costs(quote', quote'.subtotal)
    BY <1>2, <1>3, <2>2 DEF Answers
  <2>6. CASE f = form
    <3>1. calls' = rest /\ heard' = TRUE /\ timer' = timer /\ form' = form
      BY <1>2, <1>6, <2>6
    <3>2. ~manual /\ c.reply.nightly > 0 => form.rate = c.reply.nightly
      <4>1. SUFFICES ASSUME ~manual, c.reply.nightly > 0
                     PROVE  form.rate = c.reply.nightly
        OBVIOUS
      <4>2. f = [form EXCEPT !.rate = c.reply.nightly]
        BY <2>1, <4>1
      <4>3. QED
        BY <1>1, <2>6, <4>2 DEF FormOK
    <3>3. \A x : IsFor(x)' = IsFor(x)
      BY <1>2, <3>1 DEF IsFor, Sent
    <3>4. IsFor(quote')
      BY <1>2, <1>3, <2>1, <2>2 DEF IsFor, Answers
    <3>5. \A x : Answers(x)' = Answers(x)
      BY <1>2, CostsStay DEF Answers
    <3>6. FormOK'
      BY <1>1, <1>2, <1>3, <2>2, <3>1 DEF FormOK
    <3> HIDE DEF f
    <3>7. (heard => quote # NoQuote /\ IsFor(quote)
             /\ (~manual /\ quote.nightly > 0 => form.rate = quote.nightly))'
      BY <1>2, <2>2, <2>4, <3>1, <3>2, <3>3, <3>4
    <3>8. (quote # NoQuote /\ quote.fresh => Costs(quote, quote.subtotal))'
      BY <1>2, <2>5, CostsStay
    <3>9. QuotesOK'
      BY <1>1, <1>2, <3>1, <3>3, <3>5, <3>7, <3>8 DEF QuotesOK
    <3>10. QED
      BY <1>4, <3>6, <3>9 DEF FormInv
  <2>7. CASE f # form
    <3>1. /\ calls' = {[d EXCEPT !.active = FALSE] : d \in rest}
          /\ timer' = (open /\ f.rooms # {}) /\ heard' = FALSE
      BY <1>2, <1>6, <2>7
    <3>2. \A d \in calls' : d \in Question /\ ~d.active /\ Answers(d)'
      BY <1>2, <3>1, CleanedUp
    <3>3. FormOK'
      BY <1>1, <1>2, <1>3, <2>2, <2>3, <3>1 DEF FormOK
    <3>4. (quote # NoQuote /\ quote.fresh => Costs(quote, quote.subtotal))'
      BY <1>2, <2>5, CostsStay
    <3>5. QuotesOK'
      BY <3>1, <3>2, <3>4 DEF QuotesOK
    <3>6. QED
      BY <1>4, <3>3, <3>5 DEF FormInv
  <2>8. QED
    BY <2>6, <2>7
<1>7. QED
  BY <1>5, <1>6

LEMMA RefuseKeeps ==
  ASSUME FormInv, NEW c \in calls, Refuse(c)
  PROVE  FormInv'
BY DropKeeps DEF Refuse, server

LEMMA CreateKeeps ==
  ASSUME FormInv, NEW s \in creating, Create(s)
  PROVE  FormInv'
<1>1. FormOK /\ PricesOK /\ QuotesOK /\ SubmitsOK
  BY DEF FormInv
<1>2. s \in Order /\ pending /\ creating = {s} /\ s.stage = "sent"
  BY <1>1 DEF SubmitsOK, Create
<1> DEFINE total == BookedPrice(s.rooms, s.dates, s.sent)
<1>3. total \in Int
  BY <1>1, <1>2, PriceIs DEF Order
<1>4. (s.settled /\ s.fresh /\ s.sent >= 0) => total = s.shown
  BY <1>1, <1>2, PriceIs DEF SubmitsOK, Costs, Order
<1>5. /\ UNCHANGED <<open, step, form, manual, quote, timer, calls, pending, heard, price>>
      /\ taken' = taken \/ taken' = taken \cup (s.rooms \X {s.dates})
  BY DEF Create
<1>6. \/ creating' = (creating \ {s}) \cup {[s EXCEPT !.stage = "refused"]}
      \/ \E stage \in {"created", "unpaid"} :
           creating' = (creating \ {s}) \cup {[s EXCEPT !.stage = stage, !.charged = total]}
  BY DEF Create
<1> HIDE DEF total
<1>7. PICK d : /\ creating' = {d}
               /\ \/ d = [s EXCEPT !.stage = "refused"]
                  \/ \E stage \in {"created", "unpaid"} :
                       d = [s EXCEPT !.stage = stage, !.charged = total]
  BY <1>2, <1>6
<1>8. /\ d \in Order /\ d.stage # "sent"
      /\ (d.stage \in {"created", "unpaid"} /\ d.settled /\ d.fresh /\ d.sent >= 0)
           => d.charged = d.shown
  <2>1. CASE d = [s EXCEPT !.stage = "refused"]
    BY <1>2, <2>1 DEF Order
  <2>2. ASSUME NEW stage \in {"created", "unpaid"}, d = [s EXCEPT !.stage = stage, !.charged = total]
        PROVE  /\ d \in Order /\ d.stage # "sent"
               /\ (d.stage \in {"created", "unpaid"} /\ d.settled /\ d.fresh /\ d.sent >= 0)
                    => d.charged = d.shown
    <3>1. /\ d \in Order /\ d.stage = stage /\ d.charged = total /\ d.settled = s.settled
          /\ d.fresh = s.fresh /\ d.sent = s.sent /\ d.shown = s.shown
      BY <1>2, <1>3, <2>2 DEF Order
    <3>2. QED
      BY <1>4, <3>1
  <2>3. QED
    BY <1>7, <2>1, <2>2
<1>9. SubmitsOK'
  BY <1>2, <1>5, <1>7, <1>8 DEF SubmitsOK, BilledAsShown
<1>10. FormOK' /\ PricesOK'
  BY <1>1, <1>2, <1>5 DEF FormOK, PricesOK, Order
<1>11. QED
  BY <1>5, <1>9, <1>10, FormEditKeeps DEF FormInv

LEMMA LoseKeeps ==
  ASSUME FormInv, NEW s \in creating, Lose(s)
  PROVE  FormInv'
<1>1. FormOK /\ PricesOK /\ QuotesOK /\ SubmitsOK
  BY DEF FormInv
<1>2. /\ creating' = {}
      /\ UNCHANGED <<open, step, form, manual, quote, timer, calls, pending, heard, price, taken>>
  BY <1>1 DEF Lose, SubmitsOK, server
<1>3. FormOK' /\ PricesOK' /\ SubmitsOK'
  BY <1>1, <1>2 DEF FormOK, PricesOK, SubmitsOK, BilledAsShown
<1>4. QED
  BY <1>2, <1>3, FormEditKeeps DEF FormInv

LEMMA FinishKeeps ==
  ASSUME FormInv, NEW s \in creating, Finish(s)
  PROVE  FormInv'
<1>1. FormOK /\ PricesOK /\ QuotesOK /\ SubmitsOK
  BY DEF FormInv
<1>2. /\ creating' = {} /\ pending' = FALSE
      /\ UNCHANGED <<step, form, manual, quote, price, taken>>
  BY <1>1 DEF Finish, SubmitsOK, server
<1>3. \/ open' = FALSE /\ Rerun(FALSE, form)
      \/ UNCHANGED <<open, timer, calls, heard>>
  BY DEF Finish
<1>4. SubmitsOK' /\ PricesOK'
  BY <1>1, <1>2 DEF SubmitsOK, BilledAsShown, PricesOK
<1>5. FormOK'
  <2>1. CASE open' = FALSE /\ Rerun(FALSE, form)
    <3>1. timer' \in BOOLEAN /\ ~timer' /\ heard' \in BOOLEAN
      BY <2>1 DEF Rerun
    <3>2. QED
      BY <1>1, <1>2, <2>1, <3>1 DEF FormOK
  <2>2. CASE UNCHANGED <<open, timer, calls, heard>>
    BY <1>1, <1>2, <2>2 DEF FormOK
  <2>3. QED
    BY <1>3, <2>1, <2>2
<1>6. QED
  BY <1>2, <1>3, <1>4, <1>5, FormEditKeeps DEF FormInv

LEMMA OccupyKeeps ==
  ASSUME FormInv, NEW room \in Chip, NEW dates \in Dates, Occupy(room, dates)
  PROVE  FormInv'
<1>1. FormOK /\ PricesOK /\ QuotesOK /\ SubmitsOK
  BY DEF FormInv
<1>2. /\ taken' \subseteq taken \cup {<<room, dates>>}
      /\ UNCHANGED <<open, step, form, manual, quote, timer, calls, creating, pending, heard, price>>
  BY DEF Occupy, SymDiff
<1>3. FormOK' /\ PricesOK' /\ SubmitsOK'
  BY <1>1, <1>2, SubmitsStay DEF FormOK, PricesOK
<1>4. QED
  BY <1>2, <1>3, FormEditKeeps DEF FormInv

LEMMA ChangePricesKeeps ==
  ASSUME FormInv, NEW p \in Prices, ChangePrices(p)
  PROVE  FormInv'
<1>1. FormOK /\ PricesOK /\ QuotesOK /\ SubmitsOK
  BY DEF FormInv
<1>2. /\ price' = p /\ UNCHANGED <<open, step, form, manual, timer, pending, heard, taken>>
      /\ quote' = IF quote = NoQuote THEN quote ELSE [quote EXCEPT !.fresh = FALSE]
      /\ calls' = {IF c.reply = NoReply THEN c
                   ELSE [c EXCEPT !.reply = [c.reply EXCEPT !.fresh = FALSE]] : c \in calls}
      /\ creating' = {IF s.stage = "sent" THEN [s EXCEPT !.fresh = FALSE] ELSE s : s \in creating}
  BY DEF ChangePrices
<1>3. \A x : IsFor(x)' = IsFor(x)
  BY <1>2 DEF IsFor, Sent
<1>4. /\ quote' \in Priced \cup {NoQuote} /\ (quote' = NoQuote <=> quote = NoQuote)
      /\ quote # NoQuote => /\ ~quote'.fresh /\ quote'.nightly = quote.nightly
                            /\ IsFor(quote) => IsFor(quote')
  <2>1. CASE quote = NoQuote
    BY <1>2, <2>1
  <2>2. CASE quote # NoQuote
    <3>1. quote \in Priced /\ quote' = [quote EXCEPT !.fresh = FALSE]
      BY <1>1, <1>2, <2>2 DEF FormOK
    <3>2. quote' \in Priced
      BY <3>1, AnswersAre
    <3>3. /\ ~quote'.fresh /\ quote'.nightly = quote.nightly
          /\ quote'.rooms = quote.rooms /\ quote'.dates = quote.dates /\ quote'.sent = quote.sent
      BY <3>1 DEF Priced
    <3>4. QED
      BY <2>2, <3>2, <3>3, AnswersAre DEF IsFor
  <2>3. QED
    BY <2>1, <2>2
<1>5. ASSUME NEW d \in calls'
      PROVE  \E c \in calls : /\ d = IF c.reply = NoReply THEN c
                                     ELSE [c EXCEPT !.reply = [c.reply EXCEPT !.fresh = FALSE]]
                              /\ d \in Question /\ d.active = c.active /\ d.auto = c.auto
                              /\ d.rooms = c.rooms /\ d.dates = c.dates /\ d.sent = c.sent
                              /\ Answers(d)'
  <2>1. PICK c \in calls : d = IF c.reply = NoReply THEN c
                               ELSE [c EXCEPT !.reply = [c.reply EXCEPT !.fresh = FALSE]]
    BY <1>2
  <2>2. c \in Question /\ Answers(c)
    BY <1>1 DEF QuotesOK
  <2>3. CASE c.reply = NoReply
    BY <2>1, <2>2, <2>3 DEF Answers
  <2>4. CASE c.reply # NoReply
    <3> DEFINE r == [c.reply EXCEPT !.fresh = FALSE]
    <3>1. c.reply \in Priced
      BY <2>2, <2>4 DEF Question
    <3>2. /\ r \in Priced /\ ~r.fresh
          /\ r.rooms = c.reply.rooms /\ r.dates = c.reply.dates /\ r.sent = c.reply.sent
      BY <3>1, AnswersAre DEF Priced
    <3> HIDE DEF r
    <3>3. d = [c EXCEPT !.reply = r]
      BY <2>1, <2>4 DEF r
    <3>4. /\ d \in Question /\ d.active = c.active /\ d.auto = c.auto /\ d.reply = r
          /\ d.rooms = c.rooms /\ d.dates = c.dates /\ d.sent = c.sent
      BY <2>2, <3>2, <3>3 DEF Question
    <3>5. Answers(d)'
      BY <2>2, <2>4, <3>2, <3>4 DEF Answers
    <3>6. QED
      BY <2>1, <3>4, <3>5
  <2>5. QED
    BY <2>3, <2>4
<1>6. QuotesOK'
  <2>1. ASSUME NEW x \in calls', NEW y \in calls', x.active, y.active
        PROVE  x = y
    <3> DEFINE made(c) == IF c.reply = NoReply THEN c
                          ELSE [c EXCEPT !.reply = [c.reply EXCEPT !.fresh = FALSE]]
    <3>1. PICK c \in calls : x = made(c) /\ x.active = c.active
      BY <1>5
    <3>2. PICK d \in calls : y = made(d) /\ y.active = d.active
      BY <1>5
    <3> HIDE DEF made
    <3>3. c = d
      BY <1>1, <2>1, <3>1, <3>2 DEF QuotesOK
    <3>4. QED
      BY <3>1, <3>2, <3>3
  <2>2. \A d \in calls' : d.active => IsFor(d)' /\ d.auto = ~manual
    BY <1>1, <1>3, <1>5 DEF QuotesOK, IsFor
  <2>3. timer => \A d \in calls' : ~d.active
    BY <1>1, <1>5 DEF QuotesOK
  <2>4. \A d \in calls' : d \in Question /\ Answers(d)'
    BY <1>5
  <2>5. heard => quote' # NoQuote /\ IsFor(quote')
          /\ (~manual /\ quote'.nightly > 0 => form.rate = quote'.nightly)
    BY <1>1, <1>4 DEF QuotesOK
  <2>6. quote' # NoQuote => ~quote'.fresh
    BY <1>4
  <2>7. (heard => quote # NoQuote /\ IsFor(quote)
           /\ (~manual /\ quote.nightly > 0 => form.rate = quote.nightly))'
    BY <1>2, <1>3, <2>5 DEF IsFor, Sent
  <2>8. (timer => \A c \in calls : ~c.active)' /\ (\A c \in calls : c.active => IsFor(c) /\ c.auto = ~manual)'
    BY <1>2, <2>2, <2>3
  <2>9. QED
    BY <2>1, <2>4, <2>6, <2>7, <2>8 DEF QuotesOK
<1>7. SubmitsOK'
  <2>1. ASSUME NEW d \in creating'
        PROVE  /\ d \in Order
               /\ d.stage = "sent" => ~d.fresh
               /\ (d.stage \in {"created", "unpaid"} /\ d.settled /\ d.fresh /\ d.sent >= 0)
                    => d.charged = d.shown
    <3>1. PICK s \in creating : d = IF s.stage = "sent" THEN [s EXCEPT !.fresh = FALSE] ELSE s
      BY <1>2
    <3>2. s \in Order
      BY <1>1 DEF SubmitsOK
    <3>3. CASE s.stage = "sent"
      BY <3>1, <3>2, <3>3 DEF Order
    <3>4. CASE s.stage # "sent"
      BY <1>1, <3>1, <3>2, <3>4 DEF SubmitsOK, BilledAsShown
    <3>5. QED
      BY <3>3, <3>4
  <2>2. creating' = {} \/ (pending' /\ \E s \in creating' : creating' = {s})
    <3>1. CASE creating # {}
      <4>1. PICK s \in creating : creating = {s} /\ pending
        BY <1>1, <3>1 DEF SubmitsOK
      <4>2. creating' = {IF s.stage = "sent" THEN [s EXCEPT !.fresh = FALSE] ELSE s}
        BY <1>2, <4>1
      <4>3. QED
        BY <1>2, <4>1, <4>2
    <3>2. CASE creating = {}
      BY <1>2, <3>2
    <3>3. QED
      BY <3>1, <3>2
  <2>3. \A d \in creating' : ~(d.stage = "sent" /\ d.settled /\ d.fresh)
    BY <2>1
  <2>4. BilledAsShown'
    BY <2>1 DEF BilledAsShown
  <2>5. QED
    BY <2>1, <2>2, <2>3, <2>4 DEF SubmitsOK
<1>8. FormOK' /\ PricesOK'
  BY <1>1, <1>2, <1>4 DEF FormOK, PricesOK
<1>9. QED
  BY <1>6, <1>7, <1>8 DEF FormInv

LEMMA FormStepKeeps == FormInv /\ [QuickAddNext]_quickAdd => FormInv'
<1> SUFFICES ASSUME FormInv, [QuickAddNext]_quickAdd PROVE FormInv'
  OBVIOUS
<1>1. CASE UNCHANGED quickAdd
  <2>1. UNCHANGED <<open, step, form, manual, quote, timer, calls, creating, pending, heard, price,
                    taken>>
    BY <1>1 DEF quickAdd
  <2>2. FormOK' /\ PricesOK' /\ SubmitsOK'
    BY <2>1, SubmitsStay DEF FormInv, FormOK, PricesOK
  <2>3. QED
    BY <2>1, <2>2, FormEditKeeps DEF FormInv
<1>2. CASE Others
  BY <1>2, ChangePricesKeeps, OccupyKeeps DEF Others
<1>3. CASE Reply
  BY <1>3, QuoteKeeps, AnswerKeeps, RefuseKeeps DEF Reply
<1>4. QED
  BY <1>1, <1>2, <1>3, DeskKeeps, AskKeeps, CreateKeeps, FinishKeeps, LoseKeeps DEF QuickAddNext

(* What the properties say of the form follows. *)
LEMMA FormShows == FormInv => QuickAddInv /\ ShownIsBilled
<1> SUFFICES ASSUME FormInv PROVE QuickAddInv /\ ShownIsBilled
  OBVIOUS
<1>1. FormOK /\ PricesOK /\ QuotesOK /\ SubmitsOK
  BY DEF FormInv
<1>2. Cardinality({c \in calls : c.active}) <= 1
  <2> DEFINE C == {c \in calls : c.active}
  <2>1. C = {} \/ \E m : C = {m}
    BY <1>1 DEF QuotesOK
  <2> HIDE DEF C
  <2>2. QED
    BY <2>1, AtMostOne DEF C
<1>3. Cardinality(creating) <= IF pending THEN 1 ELSE 0
  <2>1. CASE creating # {}
    <3>1. pending /\ \E s \in creating : creating = {s}
      BY <1>1, <2>1 DEF SubmitsOK
    <3>2. Cardinality(creating) <= 1
      BY <3>1, AtMostOne
    <3>3. QED
      BY <3>1, <3>2
  <2>2. CASE creating = {}
    BY <2>2, FS_EmptySet
  <2>3. QED
    BY <2>1, <2>2
<1>4. QuickAddInv
  BY <1>1, <1>2, <1>3 DEF QuickAddInv, FormOK, PricesOK
<1>5. ShownIsForTheForm
  <2>1. SUFFICES ASSUME Settled
                 PROVE  /\ quote.ok
                        /\ quote.rooms = form.rooms /\ quote.dates = form.dates /\ quote.sent = Sent
                        /\ ~manual /\ quote.nightly > 0 => form.rate = quote.nightly
    BY DEF ShownIsForTheForm
  <2>2. quote # NoQuote /\ IsFor(quote) /\ (~manual /\ quote.nightly > 0 => form.rate = quote.nightly)
    BY <1>1, <2>1 DEF Settled, QuotesOK
  <2>3. quote.ok
    BY <1>1, <2>2 DEF FormOK, Priced
  <2>4. QED
    BY <2>2, <2>3 DEF IsFor
<1>6. BilledAsShown
  BY <1>1 DEF SubmitsOK
<1>7. QED
  BY <1>4, <1>5, <1>6 DEF ShownIsBilled
LEMMA PanesShow == PanesInv => AmountsAreAsShown
<1> SUFFICES ASSUME PanesInv PROVE AmountsAreAsShown
  OBVIOUS
<1>1. PaneOK /\ AmountsFit /\ SavesWhatWasShown
  BY DEF PanesInv
<1>2. saving.stage \in {"no", "sent", "done", "refused"}
  BY <1>1, QuoteShapes DEF PaneOK, Saving
<1>3. AmountIsForChoice
  BY <1>1, <1>2 DEF PaneOK, AmountsFit, AmountIsForChoice
<1>4. QED
  BY <1>1, <1>3 DEF SavesWhatWasShown, AmountsAreAsShown

--------------------------------------------------------------------------------
(* The console: its screens take turns, and each keeps its own. *)
LEMMA ScreensStepKeep == ScreensInv /\ [ConsoleNext]_console => ScreensInv'
<1> SUFFICES ASSUME ScreensInv, [ConsoleNext]_console PROVE ScreensInv'
  OBVIOUS
<1>1. FormInv /\ DrawerInv /\ PanesInv
  BY DEF ScreensInv
<1>2. [QuickAddNext]_quickAdd
  BY DEF ConsoleNext, QuickAddStep, PanelStep, PanesStep, console
<1>3. [PanelNext]_panel
  BY DEF ConsoleNext, QuickAddStep, PanelStep, PanesStep, console
<1>4. [QuotePanelsNext]_quotePanels
  BY DEF ConsoleNext, QuickAddStep, PanelStep, PanesStep, console
<1>5. QED
  BY <1>1, <1>2, <1>3, <1>4, FormStepKeeps, DrawerStepKeeps, PanesStepKeeps DEF ScreensInv

LEMMA ScreensKeep == ConsoleSpec => []ScreensInv
<1>1. ConsoleInit => ScreensInv
  BY FormInit, DrawerInit, PanesInit DEF ConsoleInit, ScreensInv
<1>2. QED
  BY <1>1, ScreensStepKeep, PTL DEF ConsoleSpec

(* Theorem: the form never has two submissions in flight, however often it  *)
(* is closed and opened meanwhile, and the drawer shows the booking it is   *)
(* open on unless an action of another has brought that back (submit;       *)
(* BookingSidebar.tsx, seq).                                                *)
THEOREM ConsoleInvHolds == ConsoleSpec => []ConsoleInv
<1>1. ScreensInv => ConsoleInv
  BY FormShows, DrawerShows DEF ScreensInv, ConsoleInv
<1>2. QED
  BY <1>1, ScreensKeep, PTL

(* Theorem: a form at rest shows the answer to what it holds, and what is   *)
(* submitted from it is charged as shown, unless prices changed since the   *)
(* answer or a rate below 0 was typed (the pricing effect, submit).         *)
THEOREM ShownIsBilledHolds == ConsoleSpec => []ShownIsBilled
<1>1. ScreensInv => ShownIsBilled
  BY FormShows DEF ScreensInv
<1>2. QED
  BY <1>1, ScreensKeep, PTL

(* Theorem: once its loads and actions are answered the drawer shows the    *)
(* booking as it was after the actions, unless a load was refused (run,     *)
(* refreshBooking).                                                         *)
THEOREM ReadsItsWritesHolds == ConsoleSpec => []ReadsItsWrites
<1>1. ScreensInv => ReadsItsWrites
  BY DrawerShows DEF ScreensInv
<1>2. QED
  BY <1>1, ScreensKeep, PTL

(* Theorem: an action that finds its booking as the drawer showed it is not *)
(* refused, and moves it along the life cycle (the buttons that             *)
(* BookingDetailView.tsx offers for a state).                               *)
THEOREM FreshClicksSucceedHolds == ConsoleSpec => FreshClicksSucceed
<1>1. ScreensInv => \A a \in acts : Perform(a) /\ a.seen = booking[a.id] =>
        /\ ~Refused(a.what, a.seen)
        /\ LET from == a.seen.status
               to == booking'[a.id].status
           IN from = to \/ <<from, to>> \in LifeCycle
  BY FreshClicks DEF ScreensInv
<1>2. QED
  BY <1>1, ScreensKeep, PTL DEF FreshClicksSucceed

(* Theorem: an amount on screen is for what is selected, and an amount      *)
(* charged or refunded is the one that was on screen, unless the server's   *)
(* answer has changed since it was read (MovePanel, RefundPanel).           *)
THEOREM AmountsAreAsShownHolds == ConsoleSpec => []AmountsAreAsShown
<1>1. ScreensInv => AmountsAreAsShown
  BY PanesShow DEF ScreensInv
<1>2. QED
  BY <1>1, ScreensKeep, PTL
================================================================================
