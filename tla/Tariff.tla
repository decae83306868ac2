-------------------------------- MODULE Tariff --------------------------------
(***************************************************************************)
(* What a stay costs, what its invoice shows and what a cancellation gives *)
(* back: the pure functions of src/src/lib/booking/rates.ts, tax.ts,       *)
(* invoice.ts, booking/cancellation.ts, booking/availability.ts and        *)
(* dates.ts.  Money is in paise, a date is the number of its day, an       *)
(* instant the minutes since 1970 began in UTC.                            *)
(*                                                                         *)
(* The rates 0.05 and 0.18 are taken as exact fractions: as doubles they   *)
(* are off by less than half a unit in the last place, so the product of   *)
(* an amount and a rate that ends in half a paisa is still exact.          *)
(*                                                                         *)
(* A definition named D_Word beside D is a slip the runs must notice.      *)
(***************************************************************************)
EXTENDS Integers, FiniteSets, FiniteSetsExt, Functions

(* Math.round of n / d, for d > 0: halves go up. *)
Round(n, d) == (2 * n + d) \div (2 * d)

--------------------------------------------------------------------------------
(* dates.ts *)

(* utcMidnight: the day in India, 05:30 ahead, of an instant. *)
IstDay_Utc(t) == t \div 1440
IstDay(t) == (t + 330) \div 1440

(* eachNight: the nights of a stay that leaves on checkOut. *)
EachNight(checkIn, checkOut) == checkIn..(checkOut - 1)

(* bitmaskIndex: Monday is 0; getUTCDay counts from Sunday, and the first   *)
(* day of 1970 was a Thursday.                                              *)
WeekdayOf(day) == LET js == (day + 4) % 7 IN IF js = 0 THEN 6 ELSE js - 1

--------------------------------------------------------------------------------
(* booking/rates.ts.  A plan has a priority, dates [start, end), weekdays,  *)
(* and amounts for some room types; plans is a sequence, in the order the   *)
(* database returns them.                                                   *)

Applies_ThroughEnd(plan, day, type) ==
  /\ plan.start <= day /\ day <= plan.end
  /\ WeekdayOf(day) \in plan.days
  /\ type \in DOMAIN plan.amount
Applies(plan, day, type) ==
  /\ plan.start <= day /\ day < plan.end
  /\ WeekdayOf(day) \in plan.days
  /\ type \in DOMAIN plan.amount

(* sort by descending priority; the sort is stable. *)
Before(plans, p, s) ==
  \/ plans[p].priority > plans[s].priority
  \/ plans[p].priority = plans[s].priority /\ p < s

(* The plans in their order, the k-th being the one with k - 1 before it.   *)
Candidates(plans) ==
  [k \in 1..Cardinality(DOMAIN plans) |->
     CHOOSE p \in DOMAIN plans :
       Cardinality({s \in DOMAIN plans : Before(plans, s, p)}) = k - 1]

(* resolveNight: the first of the candidates that applies, and the base     *)
(* rate if none does.                                                       *)
ResolveNight(day, type, base, plans) ==
  LET order == Candidates(plans)
      applying == {k \in DOMAIN order : Applies(plans[order[k]], day, type)}
      first == order[Min(applying)]
  IN IF applying = {} THEN [rate |-> base, plan |-> 0]
     ELSE [rate |-> plans[first].amount[type], plan |-> first]

(* quoteStay: one price for each night. *)
QuoteStay(nights, type, base, plans) ==
  [day \in nights |-> ResolveNight(day, type, base, plans).rate]

Subtotal(perNight) == SumFunction(perNight)

--------------------------------------------------------------------------------
(* tax.ts *)

ThresholdPaise == 750000

(* gstRateForNightlyValue, in percent. *)
GstRate_Below(rate) == IF rate < ThresholdPaise THEN 5 ELSE 18
GstRate(rate) == IF rate <= ThresholdPaise THEN 5 ELSE 18

(* computeTax of one line for each room and night, which is how every       *)
(* caller calls it; each line is rounded.                                   *)
NightTax(rate) == Round(rate * GstRate(rate), 100)
Tax_RoundedOnce(perNight, hasGstin) ==
  IF ~hasGstin THEN 0
  ELSE Round(SumFunction([night \in DOMAIN perNight |->
                            perNight[night] * GstRate(perNight[night])]), 100)
Tax(perNight, hasGstin) ==
  IF hasGstin THEN SumFunction([night \in DOMAIN perNight |-> NightTax(perNight[night])]) ELSE 0

(* taxLabelFor: the bands in use, from the rates. *)
TaxLabel(perNight, hasGstin) ==
  IF ~hasGstin THEN {}
  ELSE {IF perNight[n] <= ThresholdPaise THEN 5 ELSE 18 : n \in DOMAIN perNight}

(* placeOfSupply: half the tax each to the centre and the state, or all of  *)
(* it to the union; the guest's state may be unknown.  With no tax there    *)
(* are no lines.                                                            *)
UnknownState == "unknown"
IntraState(propertyState, guestState) == guestState \in {UnknownState, propertyState}
PlaceOfSupply(propertyState, guestState, tax) ==
  IF IntraState(propertyState, guestState)
  THEN [cgst |-> Round(tax, 2), sgst |-> tax - Round(tax, 2), igst |-> 0]
  ELSE [cgst |-> 0, sgst |-> 0, igst |-> tax]

--------------------------------------------------------------------------------
(* booking/cancellation.ts *)

CancellationReason == {"Guest cancellation", "No-show", "Owner cancellation", "Force majeure"}

LeadDaysUntil(checkIn, now) == checkIn - IstDay(now)

RefundPct(reason, lead) ==
  IF reason \in {"Owner cancellation", "Force majeure"} THEN 100
  ELSE IF reason = "No-show" THEN 0
  ELSE IF lead >= 7 THEN 100 ELSE IF lead >= 3 THEN 50 ELSE 0

QuoteRefund(paid, checkIn, reason, now) ==
  LET refundable == Round(paid * RefundPct(reason, LeadDaysUntil(checkIn, now)), 100)
  IN [refundable |-> refundable, retained |-> paid - refundable]

--------------------------------------------------------------------------------
(* booking/availability.ts.  occupied is a set of <<room, day>>, a block a  *)
(* record with a room and its dates [start, end).                           *)

ExpandBlockNights(block, from, to) ==
  EachNight(block.start, block.end) \cap EachNight(from, to)

(* computeAvailability and freeRooms. *)
FreeRooms(rooms, occupied, blocks, from, to) ==
  {r \in rooms :
     LET unavailable == {x[2] : x \in {x \in occupied : x[1] = r}}
                          \cup UNION {ExpandBlockNights(b, from, to) :
                                        b \in {b \in blocks : b.room = r}}
     IN unavailable \cap EachNight(from, to) = {}}

(* quoteBookingAction and quote_booking ask the database instead, for a     *)
(* night in the window and for a block that overlaps it.                    *)
UnavailableRooms(occupied, blocks, from, to) ==
  {x[1] : x \in {x \in occupied : from <= x[2] /\ x[2] < to}}
    \cup {b.room : b \in {b \in blocks : b.start < to /\ b.end > from}}
================================================================================
