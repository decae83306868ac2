----------------------------- MODULE BookingPanel -----------------------------
(***************************************************************************)
(* The drawer that shows one booking over any page of the console          *)
(* (src/src/components/owner/BookingSidebar.tsx) and the view in it        *)
(* (BookingDetailView.tsx): what it loads, which buttons it offers for     *)
(* what it shows, and what it does when their actions are answered.        *)
(*                                                                         *)
(* Answers come in any order.  Meanwhile other staff change the bookings,  *)
(* and the drawer is closed or opened on another booking, which does not   *)
(* stop what was started from it.  A load carries a flag for "its number   *)
(* is still the latest of seq".  What each action does to a booking is     *)
(* the subject of Reservations and Payments; here it is one step.          *)
(*                                                                         *)
(* Online payments are off, so payments are recorded by hand.  A call that *)
(* throws takes the page down with it and is left out.                     *)
(***************************************************************************)
EXTENDS Naturals, FiniteSets

CONSTANTS
  Card,      \* bookings the desk may open
  Due,       \* what a booking costs, in payments
  MaxLoads,  \* bound: fetches in flight at once
  MaxActs,   \* bound: actions in flight at once
  MaxEvents  \* bound: openings, clicks, and changes made elsewhere

Nobody == "nobody"
ASSUME PanelAssumption ==
  /\ Nobody \notin Card /\ Due \in Nat \ {0}
  /\ MaxLoads \in Nat \ {0} /\ MaxActs \in Nat /\ MaxEvents \in Nat

VARIABLES
  booking,  \* server: status and amount paid of each booking
  openId,   \* the booking the drawer is open on
  data,     \* what is shown: the booking as it was read
  failure,  \* error: the last load was refused
  loads,    \* fetches in flight
  acts,     \* actions in flight
  crossed,  \* history: a finished action has reloaded a booking the drawer is not open on
  events    \* of the bound MaxEvents

panel == <<booking, openId, data, failure, loads, acts, crossed, events>>

Status == {"TENTATIVE", "CONFIRMED", "CHECKED_IN", "CHECKED_OUT", "CANCELLED", "NO_SHOW"}
Record == [status : Status, paid : 0..Due]
Nothing == [id |-> Nobody]
Read == [id : Card, seen : Record, since : BOOLEAN] \cup {Nothing}

(* since: read after every action of this drawer that reloads it. *)
Load == [id : Card, latest : BOOLEAN, reply : Read, stage : {"sent", "read", "refused"}]

--------------------------------------------------------------------------------
(* deriveState: the status wins over the money. *)
Money(r) == IF r.paid >= Due THEN "paid" ELSE IF r.paid > 0 THEN "partial" ELSE "unpaid"
DeriveState_MoneyFirst(r) ==
  IF r.paid >= Due /\ r.status # "CANCELLED" THEN "paid"
  ELSE IF r.status = "CONFIRMED" THEN Money(r) ELSE r.status
DeriveState(r) == IF r.status = "CONFIRMED" THEN Money(r) ELSE r.status

(* The buttons of the footer, and the panel that records a payment, of one  *)
(* unit: what staff type into it is at most what the drawer shows as due.   *)
Upcoming == {"TENTATIVE", "unpaid", "partial", "paid"}
Offered(r) ==
  LET state == DeriveState(r)
  IN {what \in {"checkOut", "confirm", "markPaid", "checkIn", "noShow", "cancel", "record"} :
        \/ what = "checkOut" /\ state = "CHECKED_IN"
        \/ what = "confirm" /\ state = "TENTATIVE"
        \/ what = "markPaid" /\ state \in {"TENTATIVE", "unpaid", "partial"}
        \/ what = "checkIn" /\ state \in {"unpaid", "partial", "paid"}
        \/ what = "noShow" /\ state \in Upcoming
        \/ what = "cancel" /\ state \notin {"CANCELLED", "CHECKED_OUT", "NO_SHOW"}
        \/ what = "record" /\ r.paid < Due}

(* What the server refuses ... *)
Refused(what, r) ==
  \/ what = "confirm" /\ r.status # "TENTATIVE"
  \/ what = "noShow" /\ r.status \notin {"TENTATIVE", "CONFIRMED"}
  \/ what = "record" /\ r.paid = Due

(* ... and what it does otherwise, whatever the status. *)
Target == [confirm |-> "CONFIRMED", checkIn |-> "CHECKED_IN", checkOut |-> "CHECKED_OUT",
           noShow |-> "NO_SHOW", cancel |-> "CANCELLED"]
Effect(what, r) ==
  IF Refused(what, r) THEN r
  ELSE IF what = "markPaid" THEN [r EXCEPT !.paid = Due]
  ELSE IF what = "record" THEN [r EXCEPT !.paid = @ + 1]
  ELSE [r EXCEPT !.status = Target[what]]

(* run() reloads the drawer; the panels refresh the page around it.         *)
Reloads(what) == what # "record"

--------------------------------------------------------------------------------
(* A fetch, and the fetches before it, whose numbers are no longer the latest. *)
Superseded == {[l EXCEPT !.latest = FALSE] : l \in loads}
Fetch(id) == [id |-> id, latest |-> TRUE, reply |-> Nothing, stage |-> "sent"]

(* The view goes when there is nothing to show; its buttons are disabled    *)
(* while an action of the same view is in flight.                           *)
Unmounted == {[a EXCEPT !.here = FALSE] : a \in acts}

OpenBooking(id) ==
  /\ events < MaxEvents /\ Cardinality(loads) < MaxLoads
  /\ events' = events + 1
  /\ openId' = id /\ failure' = FALSE /\ data' = Nothing /\ crossed' = FALSE
  /\ loads' = Superseded \cup {Fetch(id)}
  /\ acts' = Unmounted
  /\ UNCHANGED booking

(* By its buttons, by Escape, or since the page changes. *)
CloseBooking ==
  /\ openId' = Nobody /\ failure' = FALSE /\ data' = Nothing /\ crossed' = FALSE
  /\ loads' = Superseded
  /\ acts' = Unmounted
  /\ UNCHANGED <<booking, events>>

(* A button of the drawer; its action will refresh the booking the drawer   *)
(* is open on now.                                                          *)
Click(what) ==
  /\ events < MaxEvents /\ events' = events + 1
  /\ openId # Nobody /\ data # Nothing /\ Cardinality(acts) < MaxActs
  /\ what \in Offered(data.seen)
  /\ \A a \in acts : a.here => Reloads(a.what) # Reloads(what)
  /\ acts' = acts \cup {[id |-> data.id, what |-> what, seen |-> data.seen,
                         refreshes |-> openId, here |-> TRUE, stage |-> "sent"]}
  /\ UNCHANGED <<booking, openId, data, failure, loads, crossed>>

(* The server performs an action. *)
Perform(a) ==
  LET outdate(r) == IF r # Nothing /\ r.id = a.id /\ Reloads(a.what)
                    THEN [r EXCEPT !.since = FALSE] ELSE r
  IN /\ a.stage = "sent"
     /\ booking' = [booking EXCEPT ![a.id] = Effect(a.what, @)]
     /\ acts' = (acts \ {a}) \cup {[a EXCEPT !.stage = "done"]}
     /\ data' = outdate(data)
     /\ loads' = {[l EXCEPT !.reply = outdate(@)] : l \in loads}
     /\ UNCHANGED <<openId, failure, crossed, events>>

(* run: whether it was refused or not, the drawer is refreshed, also when   *)
(* it has been closed or opened on another booking since.                   *)
Finish_JoinsLoad(a) ==
  /\ a.stage = "done"
  /\ acts' = acts \ {a}
  /\ IF Reloads(a.what) /\ \A l \in loads : ~l.latest
     THEN /\ Cardinality(loads) < MaxLoads
          /\ loads' = Superseded \cup {Fetch(a.refreshes)}
          /\ crossed' = (crossed \/ a.refreshes # openId)
     ELSE UNCHANGED <<loads, crossed>>
  /\ UNCHANGED <<booking, openId, data, failure, events>>
FinishAction(a) ==
  /\ a.stage = "done"
  /\ acts' = acts \ {a}
  /\ IF Reloads(a.what)
     THEN /\ Cardinality(loads) < MaxLoads
          /\ loads' = Superseded \cup {Fetch(a.refreshes)}
          /\ crossed' = (crossed \/ a.refreshes # openId)
     ELSE UNCHANGED <<loads, crossed>>
  /\ UNCHANGED <<booking, openId, data, failure, events>>

(* fetchBookingDetailAction reads the booking, or refuses. *)
ReadDetail(l) ==
  /\ l.stage = "sent"
  /\ \/ loads' = (loads \ {l}) \cup
          {[l EXCEPT !.stage = "read",
                     !.reply = [id |-> l.id, seen |-> booking[l.id], since |-> TRUE]]}
     \/ loads' = (loads \ {l}) \cup {[l EXCEPT !.stage = "refused"]}
  /\ UNCHANGED <<booking, openId, data, failure, acts, crossed, events>>

(* The answer is shown if no later load or close has come in between. *)
Show_AnyLoad(l) ==
  /\ l.stage # "sent"
  /\ loads' = loads \ {l}
  /\ data' = IF l.stage = "read" THEN l.reply ELSE data
  /\ failure' = (failure \/ l.stage = "refused")
  /\ UNCHANGED <<booking, openId, acts, crossed, events>>
Show(l) ==
  /\ l.stage # "sent"
  /\ loads' = loads \ {l}
  /\ data' = IF l.latest /\ l.stage = "read" THEN l.reply ELSE data
  /\ failure' = (failure \/ (l.latest /\ l.stage = "refused"))
  /\ UNCHANGED <<booking, openId, acts, crossed, events>>

(* Other staff, the guest's payment, the nightly tasks. *)
Elsewhere(id, what) ==
  /\ events < MaxEvents /\ events' = events + 1
  /\ what \in Offered(booking[id])
  /\ booking' = [booking EXCEPT ![id] = Effect(what, @)]
  /\ UNCHANGED <<openId, data, failure, loads, acts, crossed>>

PanelInit ==
  /\ \E s \in {"TENTATIVE", "CONFIRMED"} : booking = [id \in Card |-> [status |-> s, paid |-> 0]]
  /\ openId = Nobody /\ data = Nothing /\ failure = FALSE
  /\ loads = {} /\ acts = {} /\ crossed = FALSE /\ events = 0

Button == {"checkOut", "confirm", "markPaid", "checkIn", "noShow", "cancel", "record"}

PanelNext ==
  \/ \E id \in Card : OpenBooking(id) \/ \E what \in Button : Elsewhere(id, what)
  \/ CloseBooking
  \/ \E what \in Button : Click(what)
  \/ \E a \in acts : Perform(a) \/ FinishAction(a)
  \/ \E l \in loads : ReadDetail(l) \/ Show(l)

(* Fetches and actions are answered. *)
PanelFairness ==
  /\ WF_panel(\E l \in loads : ReadDetail(l) \/ Show(l))
  /\ WF_panel(\E a \in acts : Perform(a) \/ FinishAction(a))

--------------------------------------------------------------------------------
(* Property: the drawer has its shape, and what it shows is the booking it  *)
(* is open on, whatever was opened and closed while loads were in flight;   *)
(* an exception is a booking brought back by an action that was started     *)
(* from the drawer when it was open on that (seq, refreshBooking).          *)
PanelInv ==
  /\ booking \in [Card -> Record]
  /\ openId \in Card \cup {Nobody} /\ data \in Read /\ failure \in BOOLEAN
  /\ loads \subseteq Load /\ Cardinality({l \in loads : l.latest}) <= 1
  /\ \A a \in acts : a.refreshes \in Card
  /\ data # Nothing /\ ~crossed => data.id = openId

(* Property: once its actions and loads have been answered, the drawer      *)
(* shows the booking as it was after them, not as it was read before or     *)
(* while they ran, unless a reload was refused (run, refreshBooking).       *)
ReadsItsWrites ==
  (/\ data # Nothing /\ ~failure
   /\ \A l \in loads : ~l.latest
   /\ \A a \in acts : Reloads(a.what) => a.id # data.id) => data.since

LifeCycle ==
  {<<"TENTATIVE", "CONFIRMED">>, <<"CONFIRMED", "CHECKED_IN">>, <<"CHECKED_IN", "CHECKED_OUT">>}
  \cup {"TENTATIVE", "CONFIRMED"} \X {"NO_SHOW", "CANCELLED"}
  \cup {<<"CHECKED_IN", "CANCELLED">>}

(* Property: an action that finds its booking as the drawer showed it is    *)
(* not refused, and moves it along the life cycle: check-in, check-out and  *)
(* cancellation are checked nowhere but in what the view offers.            *)
FreshClicksSucceed ==
  [][\A a \in acts : Perform(a) /\ a.seen = booking[a.id] =>
       /\ ~Refused(a.what, a.seen)
       /\ LET from == a.seen.status
              to == booking'[a.id].status
          IN from = to \/ <<from, to>> \in LifeCycle]_panel

(* Property: an open drawer does not say "Loading" for ever (openBooking,   *)
(* and refreshes that overtake it).                                         *)
Loading == openId # Nobody /\ data = Nothing /\ ~failure
LoadingEnds == Loading ~> ~Loading
================================================================================
