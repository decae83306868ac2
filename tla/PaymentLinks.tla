------------------------------ MODULE PaymentLinks ------------------------------
(***************************************************************************)
(* Payment links: createPaymentLinkForBooking and applyPayment of          *)
(* src/src/lib/payments/service.ts, their callers, the webhook that        *)
(* attaches a payment to a link, the task that expires links, and the link *)
(* the guest portal offers.                                                *)
(*                                                                         *)
(* The gateway's links are state of their own.  Sending a link is a        *)
(* sequence of queries and remote calls; what it has read is kept in req.  *)
(* The handler of a capture has its entry under the gateway link that was  *)
(* paid: that one capture is recorded once is the subject of Payments.     *)
(*                                                                         *)
(* A definition named D_Word beside D is a slip the runs must notice.      *)
(*                                                                         *)
(* The gateway is configured, so no link is a mock.  It is asked for no    *)
(* expiry: the date of a row is the program's own, and the guest can pay   *)
(* after it.                                                               *)
(***************************************************************************)
EXTENDS Integers, Sequences, FiniteSets

CONSTANTS
  Booking,   \* ids of the bookings
  Total,     \* Booking.totalAmount, in units of money
  Request,   \* actions and tools that may be in flight at once
  MaxLinks,  \* bound: links created at the gateway
  MaxExtra   \* bound: payments and refunds of staff, refusals of the gateway
             \* and handlers cut short, together

ASSUME LinksAssumption ==
  /\ {Total, MaxLinks, MaxExtra} \subseteq Nat
  /\ Request \cap Nat = {}

VARIABLES
  gateway,     \* external: the gateway's links, oldest first
  links,       \* the PaymentLink table, oldest first
  amountPaid,  \* Booking.amountPaid
  req,         \* the handlers in flight
  told,        \* the gateway links whose payment the webhook was told of
  revived,     \* auxiliary: the live rows that were over before
  desk,        \* payments and refunds of staff so far
  faults       \* refusals and failures so far

vars == <<gateway, links, amountPaid, req, told, revived, desk, faults>>

LinkId == 1..MaxLinks
Handler == Request \cup LinkId
Live == {"CREATED", "PARTIALLY_PAID"}
Idle == [op |-> "idle"]

GatewayLink == [booking : Booking, amount : Nat \ {0},
                state : {"open", "cancelled", "paid"}]
PaymentLink == [booking : Booking, amount : Nat \ {0}, razorpayLinkId : LinkId,
                status : Live \cup {"PAID", "CANCELLED", "EXPIRED"}]

InFlight ==
       [op : {"look"}, booking : Booking, amount : Nat \ {0}]
  \cup [op : {"clear"}, booking : Booking, amount : Nat \ {0}, old : SUBSET Nat]
  \cup [op : {"cancelled"}, booking : Booking, amount : Nat \ {0}, old : SUBSET Nat,
        row : Nat]
  \cup [op : {"insert"}, booking : Booking, amount : Nat \ {0}, razorpayLinkId : LinkId]
  \cup [op : {"capture"}, link : Nat]

(* Property: the tables, the gateway and the handlers have the shape the    *)
(* schema and the code give them (PaymentLink, createPaymentLinkForBooking).*)
TypeOK ==
  /\ gateway \in Seq(GatewayLink) /\ Len(gateway) <= MaxLinks
  /\ links \in Seq(PaymentLink)
  /\ \A l \in DOMAIN links : links[l].razorpayLinkId \in DOMAIN gateway
  /\ amountPaid \in [Booking -> Int]
  /\ req \in [Handler -> InFlight \cup {Idle}]
  /\ told \subseteq LinkId /\ revived \subseteq DOMAIN links
  /\ desk \in Nat /\ faults \in Nat /\ desk + faults <= MaxExtra

Init ==
  /\ gateway = <<>>
  /\ links = <<>>
  /\ amountPaid = [b \in Booking |-> 0]
  /\ req = [h \in Handler |-> Idle]
  /\ told = {} /\ revived = {}
  /\ desk = 0
  /\ faults = 0

HasRoom == desk + faults < MaxExtra

RowsOf(b) == {l \in DOMAIN links : links[l].booking = b}
LiveRows(b) == {l \in RowsOf(b) : links[l].status \in Live}

(* The live rows that were over before, as a step that writes rows leaves   *)
(* them.                                                                    *)
Revive ==
  revived' = {l \in DOMAIN links :
                links'[l].status \in Live /\ (l \in revived \/ links[l].status \notin Live)}

--------------------------------------------------------------------------------
(* createPaymentLinkForBooking. *)

(* The bound on links, those on their way included. *)
LinkHasRoom ==
  Len(gateway) + Cardinality({q \in Request : req[q].op \in {"look", "clear", "cancelled"}})
    < MaxLinks

(* The booking is read.  The forms ask for all that is due, which must be   *)
(* something; the assistant's tool may name any amount.                     *)
SendLink(q, b, amount) ==
  /\ req[q] = Idle
  /\ LinkHasRoom
  /\ amount > 0
  /\ req' = [req EXCEPT ![q] = [op |-> "look", booking |-> b, amount |-> amount]]
  /\ UNCHANGED <<gateway, links, amountPaid, told, revived, desk, faults>>

(* The booking's live links are read ... *)
ReadLiveLinks(q) ==
  LET b == req[q].booking
  IN /\ req[q].op = "look"
     /\ req' = [req EXCEPT ![q] = [op |-> "clear", booking |-> b, amount |-> req[q].amount,
                                   old |-> LiveRows(b)]]
     /\ UNCHANGED <<gateway, links, amountPaid, told, revived, desk, faults>>

(* ... each, in no stated order, is cancelled at the gateway, which does so *)
(* if it is open; a refusal is swallowed ...                                *)
CancelPaymentLink_RowOnly(q, refused) ==
  LET m == req[q]
      l == CHOOSE k \in m.old : TRUE
  IN /\ m.op = "clear" /\ m.old # {}
     /\ req' = [req EXCEPT ![q] = [op |-> "cancelled", booking |-> m.booking,
                                   amount |-> m.amount, old |-> m.old \ {l}, row |-> l]]
     /\ UNCHANGED <<gateway, links, amountPaid, told, revived, desk, faults>>
CancelPaymentLink(q, refused) ==
  LET m == req[q]
      l == CHOOSE k \in m.old : TRUE
      g == links[l].razorpayLinkId
  IN /\ m.op = "clear" /\ m.old # {}
     /\ \/ /\ ~refused
           /\ gateway' = IF gateway[g].state = "open"
                         THEN [gateway EXCEPT ![g].state = "cancelled"] ELSE gateway
           /\ UNCHANGED faults
        \/ /\ refused /\ HasRoom
           /\ faults' = faults + 1
           /\ UNCHANGED gateway
     /\ req' = [req EXCEPT ![q] = [op |-> "cancelled", booking |-> m.booking,
                                   amount |-> m.amount, old |-> m.old \ {l}, row |-> l]]
     /\ UNCHANGED <<links, amountPaid, told, revived, desk>>

(* ... and its row becomes CANCELLED, whatever it is by now ... *)
CancelRow(q) ==
  LET m == req[q]
  IN /\ m.op = "cancelled"
     /\ links' = [links EXCEPT ![m.row].status = "CANCELLED"]
     /\ Revive
     /\ req' = [req EXCEPT ![q] = [op |-> "clear", booking |-> m.booking,
                                   amount |-> m.amount, old |-> m.old]]
     /\ UNCHANGED <<gateway, amountPaid, told, desk, faults>>

(* ... the new link is created at the gateway, which tells the guest ...    *)
CreateAtGateway(q) ==
  LET m == req[q]
  IN /\ m.op = "clear" /\ m.old = {}
     /\ Len(gateway) < MaxLinks
     /\ gateway' = Append(gateway, [booking |-> m.booking, amount |-> m.amount,
                                    state |-> "open"])
     /\ req' = [req EXCEPT ![q] = [op |-> "insert", booking |-> m.booking,
                                   amount |-> m.amount, razorpayLinkId |-> Len(gateway')]]
     /\ UNCHANGED <<links, amountPaid, told, revived, desk, faults>>

(* ... and its row is inserted. *)
InsertRow(q) ==
  LET m == req[q]
  IN /\ m.op = "insert"
     /\ links' = Append(links, [booking |-> m.booking, amount |-> m.amount,
                                razorpayLinkId |-> m.razorpayLinkId, status |-> "CREATED"])
     /\ req' = [req EXCEPT ![q] = Idle]
     /\ UNCHANGED <<gateway, amountPaid, told, revived, desk, faults>>

--------------------------------------------------------------------------------
(* Payments. *)

(* The transaction of applyPayment, its link included: whatever the link    *)
(* was, it becomes PAID if the booking is paid in full.                     *)
ApplyPayment_ByLinkAmount(b, amount, l) ==
  /\ amountPaid' = [amountPaid EXCEPT ![b] = @ + amount]
  /\ links' = IF l = 0 THEN links
              ELSE [links EXCEPT ![l].status =
                      IF amount >= links[l].amount THEN "PAID" ELSE "PARTIALLY_PAID"]
  /\ Revive
ApplyPayment_AllLive(b, amount, l) ==
  /\ amountPaid' = [amountPaid EXCEPT ![b] = @ + amount]
  /\ links' = [k \in DOMAIN links |->
                 IF k = l \/ k \in LiveRows(b)
                 THEN [links[k] EXCEPT !.status =
                         IF amountPaid'[b] >= Total THEN "PAID" ELSE "PARTIALLY_PAID"]
                 ELSE links[k]]
  /\ Revive
ApplyPayment(b, amount, l) ==
  /\ amountPaid' = [amountPaid EXCEPT ![b] = @ + amount]
  /\ links' = IF l = 0 THEN links
              ELSE [links EXCEPT ![l].status =
                      IF amountPaid'[b] >= Total THEN "PAID" ELSE "PARTIALLY_PAID"]
  /\ Revive

(* External: the guest pays an open link; links are paid whole or not. *)
PayAtGateway(g) ==
  /\ gateway[g].state = "open"
  /\ gateway' = [gateway EXCEPT ![g].state = "paid"]
  /\ UNCHANGED <<links, amountPaid, req, told, revived, desk, faults>>

(* handlePaymentCaptured: the booking's newest link is looked up ... *)
Newest(b) == {l \in RowsOf(b) : \A k \in RowsOf(b) : k <= l}
HandlePaymentCaptured(g) ==
  /\ gateway[g].state = "paid" /\ g \notin told
  /\ told' = told \cup {g}
  /\ \E l \in Newest(gateway[g].booking) \cup {0} :
       /\ l = 0 => RowsOf(gateway[g].booking) = {}
       /\ req' = [req EXCEPT ![g] = [op |-> "capture", link |-> l]]
  /\ UNCHANGED <<gateway, links, amountPaid, revived, desk, faults>>

(* ... and the payment applied to it by a later transaction. *)
CaptureCommit(g) ==
  /\ g \in LinkId /\ req[g].op = "capture"
  /\ ApplyPayment(gateway[g].booking, gateway[g].amount, req[g].link)
  /\ req' = [req EXCEPT ![g] = Idle]
  /\ UNCHANGED <<gateway, told, desk, faults>>

(* recordPaymentAction, markPaidAction and record_payment apply a payment   *)
(* to no link.  The balance they tested may be stale by then (Payments), so *)
(* the amount is any.                                                       *)
RecordPayment(b, amount) ==
  /\ HasRoom
  /\ desk' = desk + 1
  /\ ApplyPayment(b, amount, 0)
  /\ UNCHANGED <<gateway, req, told, faults>>

(* markRefundProcessed lowers amountPaid; no link changes. *)
SettleRefund(b, amount) ==
  /\ HasRoom
  /\ desk' = desk + 1
  /\ amountPaid' = [amountPaid EXCEPT ![b] = @ - amount]
  /\ UNCHANGED <<gateway, links, req, told, revived, faults>>

--------------------------------------------------------------------------------
(* Time and failures. *)

(* expireStalePaymentLinks, run by the daily tasks.  A row's date is not    *)
(* kept: the live rows past theirs may be any.                              *)
ExpireStale(stale) ==
  /\ stale # {}
  /\ links' = [l \in DOMAIN links |->
                 IF l \in stale THEN [links[l] EXCEPT !.status = "EXPIRED"] ELSE links[l]]
  /\ Revive
  /\ UNCHANGED <<gateway, amountPaid, req, told, desk, faults>>

(* A query or a remote call fails, or the process stops. *)
Abandon(h) ==
  /\ req[h] # Idle
  /\ HasRoom
  /\ faults' = faults + 1
  /\ req' = [req EXCEPT ![h] = Idle]
  /\ UNCHANGED <<gateway, links, amountPaid, told, revived, desk>>

Proceed(h) ==
  \/ ReadLiveLinks(h) \/ CancelPaymentLink(h, FALSE) \/ CancelRow(h)
  \/ CreateAtGateway(h) \/ InsertRow(h)
  \/ CaptureCommit(h)

Receive(q) ==
  \E b \in Booking, amount \in 1..Total : SendLink(q, b, amount)

Next ==
  \/ \E q \in Request : Receive(q) \/ CancelPaymentLink(q, TRUE)
  \/ \E h \in Handler : Proceed(h) \/ Abandon(h)
  \/ \E g \in DOMAIN gateway : PayAtGateway(g) \/ HandlePaymentCaptured(g)
  \/ \E b \in Booking : \E amount \in 1..amountPaid[b] : SettleRefund(b, amount)
  \/ \E b \in Booking, amount \in 1..Total : RecordPayment(b, amount)
  \/ \E stale \in SUBSET {l \in DOMAIN links : links[l].status \in Live} : ExpireStale(stale)

Spec == Init /\ [][Next]_vars

--------------------------------------------------------------------------------
(* No row without a link of its own at the gateway, no link with two rows.  *)
RowsHaveOwnLinks ==
  /\ \A l, k \in DOMAIN links :
       links[l].razorpayLinkId = links[k].razorpayLinkId => l = k
  /\ \A q \in Request : req[q].op = "insert" =>
       /\ req[q].razorpayLinkId \in DOMAIN gateway
       /\ gateway[req[q].razorpayLinkId].state # "cancelled"
       /\ \A l \in DOMAIN links : links[l].razorpayLinkId # req[q].razorpayLinkId
       /\ \A p \in Request \ {q} :
            req[p].op = "insert" => req[p].razorpayLinkId # req[q].razorpayLinkId

(* A handler holds rows that exist; the one it is about to mark is no       *)
(* longer open at the gateway, unless the gateway refused.                  *)
HandlersHoldRows ==
  \A h \in Handler :
    /\ h \in LinkId => req[h].op \in {"idle", "capture"}
    /\ req[h].op = "capture" =>
         /\ h \in DOMAIN gateway
         /\ req[h].link # 0 => req[h].link \in RowsOf(gateway[h].booking)
    /\ req[h].op \in {"clear", "cancelled"} => req[h].old \subseteq DOMAIN links
    /\ req[h].op = "cancelled" =>
         /\ req[h].row \in DOMAIN links
         /\ faults = 0 => gateway[links[req[h].row].razorpayLinkId].state # "open"

(* Property: unless the gateway refused or a handler was cut short, a link  *)
(* the guest can pay has a row that was not cancelled, or its row is about  *)
(* to be inserted (createPaymentLinkForBooking: "cancel any still-live link *)
(* first").  The row may be PAID or EXPIRED, and the next send then passes  *)
(* the link over: it reads CREATED and PARTIALLY_PAID.                      *)
PayableIsListed ==
  faults = 0 =>
    \A g \in DOMAIN gateway : gateway[g].state = "open" =>
      \/ \E l \in DOMAIN links :
           links[l].razorpayLinkId = g /\ links[l].status # "CANCELLED"
      \/ \E q \in Request : req[q].op = "insert" /\ req[q].razorpayLinkId = g

(* Property: under the same conditions a link the portal may offer, CREATED *)
(* or PARTIALLY_PAID, was not cancelled, unless its row is about to be      *)
(* marked or a capture made live a row that was over                        *)
(* (my/bookings/[id]/page.tsx: "never a dead/superseded one").              *)
OfferedIsNotCancelled ==
  faults = 0 =>
    \A l \in DOMAIN links :
      (links[l].status \in Live /\ gateway[links[l].razorpayLinkId].state = "cancelled")
        => \/ l \in revived
           \/ \E q \in Request : req[q].op = "cancelled" /\ req[q].row = l

(* Property: the tables, the gateway and the handlers agree; it is          *)
(* inductive.                                                               *)
IInv == /\ TypeOK /\ RowsHaveOwnLinks /\ HandlersHoldRows
        /\ PayableIsListed /\ OfferedIsNotCancelled

Told(b) == {g \in told : gateway[g].booking = b}
Credited(b) == {l \in RowsOf(b) : links[l].status \in {"PAID", "PARTIALLY_PAID"}}

(* Property: no more links of a booking count as paid than the gateway      *)
(* captured payments, however captures and new links interleave             *)
(* (handlePaymentCaptured, applyPayment).                                   *)
CreditsAreCaptures ==
  \A b \in Booking : Cardinality(Credited(b)) <= Cardinality(Told(b))

(* The inductive form: a row is put down as paid by a capture that is done  *)
(* with, and a capture in flight was told of.                               *)
Applied(b) == {g \in Told(b) : req[g].op # "capture"}
CreditInv ==
  /\ told \subseteq DOMAIN gateway
  /\ \A g \in LinkId : req[g].op = "capture" => g \in told
  /\ \A b \in Booking : Cardinality(Credited(b)) <= Cardinality(Applied(b))

(* Property: a link that is over (cancelled, expired or paid) is offered    *)
(* again only by a capture that does not settle the booking, and which took *)
(* it for the newest link (handlePaymentCaptured reads the link before the  *)
(* transaction of applyPayment).                                            *)
OverUntilCapture ==
  [][\A l \in DOMAIN links :
       (links[l].status \notin Live /\ links'[l].status \in Live) =>
         \E g \in DOMAIN gateway :
           /\ req[g].op = "capture" /\ req[g].link = l /\ req'[g] = Idle
           /\ gateway[g].booking = links[l].booking
           /\ amountPaid'[links[l].booking] < Total]_vars
================================================================================
