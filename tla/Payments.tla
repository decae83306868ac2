-------------------------------- MODULE Payments --------------------------------
(***************************************************************************)
(* The payments ledger: src/src/lib/payments/service.ts, the server        *)
(* actions and MCP tools that call it, and the Razorpay webhook            *)
(* src/src/app/api/webhooks/razorpay/route.ts.                             *)
(*                                                                         *)
(* What the gateway has done (payments captured, refunds decided) is state *)
(* of its own; the webhook tells the program about it by events, each at   *)
(* any time after the fact, repeated, and in any order.  A handler is a    *)
(* sequence of steps, one per query or transaction or remote call; between *)
(* its steps it keeps what it has read in req.  Event handlers have their  *)
(* entry in req under the event: the unique WebhookEvent row allows one    *)
(* handler per event, ever.                                                *)
(*                                                                         *)
(* The gateway is configured (no mock links or mock refunds of online      *)
(* payments); the total of a booking does not change here.  The invoice    *)
(* number and the payment link that applyPayment also writes are the       *)
(* subjects of other modules.                                              *)
(*                                                                         *)
(* A definition named D_Word beside D is a slip the runs must notice: the  *)
(* same operator with one plausible mistake.  Nothing else refers to it.   *)
(***************************************************************************)
EXTENDS Integers, Sequences, FiniteSets, Functions

CONSTANTS
  Booking,         \* ids of the bookings
  Total,           \* Booking.totalAmount, in units of money
  GatewayPayment,  \* ids Razorpay may give to payments
  GatewayRefund,   \* ids Razorpay may give to refunds
  Request,         \* actions and tools that may be in flight at once
  MaxDesk,         \* bound: payments recorded by staff
  MaxRefund        \* bound: refunds started

(* The values of Payment.razorpayPaymentId and Refund.razorpayRefundId that *)
(* the gateway knows nothing of.                                            *)
Desk == "desk"
Local == "local"

ASSUME PaymentsAssumption ==
  /\ Total \in Nat /\ MaxDesk \in Nat /\ MaxRefund \in Nat
  /\ Desk \notin GatewayPayment /\ Local \notin GatewayRefund

VARIABLES
  payments,        \* the Payment table, oldest first
  refunds,         \* the Refund table, oldest first
  amountPaid,      \* Booking.amountPaid
  depositHeld,     \* Booking.depositHeld
  depositReturned, \* what the audit log says was returned or forfeited
  auditLost,       \* auxiliary: deposits paid out whose audit record was never written
  captured,        \* external: what the gateway captured, and for which booking
  decided,         \* external: what became of each refund at the gateway
  seen,            \* the WebhookEvent table
  req              \* the handlers in flight

vars == <<payments, refunds, amountPaid, depositHeld, depositReturned,
          auditLost, captured, decided, seen, req>>
deposits == <<depositHeld, depositReturned, auditLost>>
book == <<payments, refunds, amountPaid, deposits>>
gateway == <<captured, decided>>

Payment == [booking : Booking, amount : Nat, isDeposit : BOOLEAN,
            gateway : GatewayPayment \cup {Desk}, status : {"CAPTURED", "REFUNDED"}]
Refund == [booking : Booking, payment : Nat, amount : Nat,
           gateway : GatewayRefund \cup {Local},
           status : {"CREATED", "PROCESSED", "FAILED"}]

(* A capture is announced twice, by two events with ids of their own.       *)
CaptureEvent == [kind : {"payment_link.paid", "payment.captured"}, payment : GatewayPayment]
RefundEvent == [kind : {"refund"}, refund : GatewayRefund]
Event == CaptureEvent \cup RefundEvent
Handler == Request \cup Event

ASSUME HandlersAssumption == Request \cap Event = {}

Idle == [op |-> "idle"]
NotCaptured == [amount |-> 0]

InFlight ==
       [op : {"desk"}, booking : Booking, amount : Nat]
  \cup [op : {"deposit", "audit"}, booking : Booking, amount : Nat]
  \cup [op : {"refund"}, booking : Booking, payment : Nat, amount : Nat]
  \cup [op : {"initiated"}, booking : Booking, payment : Nat, amount : Nat,
        gateway : GatewayRefund]
  \cup [op : {"mark", "markFailed"}, refund : Nat]
  \cup [op : {"retry", "settle", "process", "fail"}, refund : Nat, foundOpen : BOOLEAN]
  \cup [op : {"retried"}, refund : Nat, foundOpen : BOOLEAN, gateway : GatewayRefund]
  \cup [op : {"capture"}, gateway : GatewayPayment]

(* The handlers that hold the id of a payment row, or of a refund row; of   *)
(* the latter, those that have read the row and keep, in foundOpen, whether *)
(* it was still to be settled.                                              *)
PaymentOps == {"refund", "initiated"}
HasRead == {"retry", "settle", "process", "fail", "retried"}
RefundOps == HasRead \cup {"mark", "markFailed"}

TablesOK ==
  /\ payments \in Seq(Payment)
  /\ refunds \in Seq(Refund)
  /\ amountPaid \in [Booking -> Int]
  /\ depositHeld \in [Booking -> Nat]
  /\ depositReturned \in [Booking -> Nat]
  /\ auditLost \in [Booking -> Nat]
  /\ \A r \in DOMAIN refunds : refunds[r].payment \in DOMAIN payments

GatewayOK ==
  /\ captured \in [GatewayPayment ->
                     [booking : Booking, amount : Nat \ {0}] \cup {NotCaptured}]
  /\ decided \in [GatewayRefund -> {"none", "pending", "processed", "failed"}]
  /\ seen \subseteq Event

HandlersOK ==
  /\ req \in [Handler -> InFlight \cup {Idle}]
  /\ \A h \in Handler :
       /\ req[h].op \in PaymentOps => req[h].payment \in DOMAIN payments
       /\ req[h].op \in RefundOps => req[h].refund \in DOMAIN refunds

(* Property: every table, counter and handler has the shape the schema and  *)
(* the code give it, and every reference points at a row that exists.       *)
TypeOK == TablesOK /\ GatewayOK /\ HandlersOK

Init ==
  /\ payments = <<>>
  /\ refunds = <<>>
  /\ amountPaid = [b \in Booking |-> 0]
  /\ depositHeld = [b \in Booking |-> 0]
  /\ depositReturned = [b \in Booking |-> 0]
  /\ auditLost = [b \in Booking |-> 0]
  /\ captured = [g \in GatewayPayment |-> NotCaptured]
  /\ decided = [i \in GatewayRefund |-> "none"]
  /\ seen = {}
  /\ req = [h \in Handler |-> Idle]

--------------------------------------------------------------------------------
(* The gateway. *)

(* A guest pays a link of the booking; links may be old, so the amount need *)
(* not be what is due now.                                                  *)
Capture(g, b, amount) ==
  /\ captured[g] = NotCaptured
  /\ captured' = [captured EXCEPT ![g] = [booking |-> b, amount |-> amount]]
  /\ UNCHANGED <<book, decided, seen, req>>

(* A refund that was asked for is carried out or rejected, for good. *)
Decide(i, outcome) ==
  /\ decided[i] = "pending"
  /\ decided' = [decided EXCEPT ![i] = outcome]
  /\ UNCHANGED <<book, captured, seen, req>>

--------------------------------------------------------------------------------
(* Payments. *)

(* The transaction of applyPayment: a room payment raises amountPaid, a     *)
(* deposit raises depositHeld.                                              *)
ApplyPayment_CountsDeposit(b, amount, isDeposit, g) ==
  /\ payments' = Append(payments, [booking |-> b, amount |-> amount, isDeposit |-> isDeposit,
                                   gateway |-> g, status |-> "CAPTURED"])
  /\ amountPaid' = [amountPaid EXCEPT ![b] = @ + amount]
  /\ UNCHANGED depositHeld
ApplyPayment(b, amount, isDeposit, g) ==
  /\ payments' = Append(payments, [booking |-> b, amount |-> amount, isDeposit |-> isDeposit,
                                   gateway |-> g, status |-> "CAPTURED"])
  /\ \/ /\ isDeposit
        /\ depositHeld' = [depositHeld EXCEPT ![b] = @ + amount]
        /\ UNCHANGED amountPaid
     \/ /\ ~isDeposit
        /\ amountPaid' = [amountPaid EXCEPT ![b] = @ + amount]
        /\ UNCHANGED depositHeld

(* The bound on payments recorded by staff, those on their way included. *)
DeskHasRoom ==
  Cardinality({p \in DOMAIN payments : payments[p].gateway = Desk})
    + Cardinality({q \in Request : req[q].op = "desk"}) < MaxDesk

(* recordPaymentAction, record_payment and markPaidAction: the balance due  *)
(* is read and the amount tested against it ...  markPaidAction takes all   *)
(* of it, and so does createBookingAction for a stay paid on the spot.      *)
DeskRead(q, b, amount) ==
  /\ req[q] = Idle
  /\ DeskHasRoom
  /\ amount > 0 /\ amount <= Total - amountPaid[b]
  /\ req' = [req EXCEPT ![q] = [op |-> "desk", booking |-> b, amount |-> amount]]
  /\ UNCHANGED <<book, gateway, seen>>

(* ... and the payment applied by a later transaction. *)
DeskCommit(q) ==
  /\ req[q].op = "desk"
  /\ ApplyPayment(req[q].booking, req[q].amount, FALSE, Desk)
  /\ req' = [req EXCEPT ![q] = Idle]
  /\ UNCHANGED <<refunds, depositReturned, auditLost, gateway, seen>>

(* recordPaymentAction of a deposit reads nothing it depends on. *)
RecordDeposit(b, amount) ==
  /\ DeskHasRoom
  /\ ApplyPayment(b, amount, TRUE, Desk)
  /\ UNCHANGED <<refunds, depositReturned, auditLost, gateway, seen, req>>

(* returnDepositAction: what is held is read ... *)
DepositRead(q, b) ==
  /\ req[q] = Idle
  /\ depositHeld[b] > 0
  /\ req' = [req EXCEPT ![q] = [op |-> "deposit", booking |-> b, amount |-> depositHeld[b]]]
  /\ UNCHANGED <<book, gateway, seen>>

(* ... the balance is set to zero ... *)
DepositCommit(q) ==
  LET b == req[q].booking
  IN /\ req[q].op = "deposit"
     /\ depositHeld' = [depositHeld EXCEPT ![b] = 0]
     /\ req' = [req EXCEPT ![q].op = "audit"]
     /\ UNCHANGED <<payments, refunds, amountPaid, depositReturned, auditLost, gateway, seen>>

(* ... and the audit log is told, by a query of its own, what was read.     *)
DepositAudit(q) ==
  /\ req[q].op = "audit"
  /\ depositReturned' = [depositReturned EXCEPT ![req[q].booking] = @ + req[q].amount]
  /\ req' = [req EXCEPT ![q] = Idle]
  /\ UNCHANGED <<payments, refunds, amountPaid, depositHeld, auditLost, gateway, seen>>

(* Payment.razorpayPaymentId is unique. *)
Recorded_WhileCaptured(g) ==
  \E p \in DOMAIN payments : payments[p].gateway = g /\ payments[p].status = "CAPTURED"
Recorded(g) == \E p \in DOMAIN payments : payments[p].gateway = g

(* The webhook for a capture: the event is recorded, and the handler ends   *)
(* at once if the payment is already there.  A second delivery of the same  *)
(* event changes nothing.                                                   *)
DeliverCapture(e) ==
  /\ e \notin seen
  /\ captured[e.payment] # NotCaptured
  /\ seen' = seen \cup {e}
  /\ req' = [req EXCEPT ![e] = IF Recorded(e.payment) THEN Idle
                               ELSE [op |-> "capture", gateway |-> e.payment]]
  /\ UNCHANGED <<book, gateway>>

(* handlePaymentCaptured, its call of applyPayment. *)
CaptureCommit(e) ==
  LET g == req[e].gateway
  IN /\ req[e].op = "capture"
     /\ ~Recorded(g)
     /\ ApplyPayment(captured[g].booking, captured[g].amount, FALSE, g)
     /\ req' = [req EXCEPT ![e] = Idle]
     /\ UNCHANGED <<refunds, depositReturned, auditLost, gateway, seen>>

(* The other event was faster: the unique index aborts the transaction. *)
CaptureDuplicate(e) ==
  /\ req[e].op = "capture"
  /\ Recorded(req[e].gateway)
  /\ req' = [req EXCEPT ![e] = Idle]
  /\ UNCHANGED <<book, gateway, seen>>

--------------------------------------------------------------------------------
(* Refunds. *)

(* The newest captured payment of a booking, deposits among them: the first *)
(* of payments ordered by createdAt, descending.                            *)
CapturedOf(b) ==
  {p \in DOMAIN payments : payments[p].booking = b /\ payments[p].status = "CAPTURED"}
NewestCaptured(b) == {p \in CapturedOf(b) : \A s \in CapturedOf(b) : s <= p}

(* The bound on refunds, those on their way included. *)
RefundHasRoom ==
  Len(refunds) + Cardinality({q \in Request : req[q].op \in PaymentOps}) < MaxRefund

(* createRefund: booking and payments are read and the amount tested ... *)
RefundRead(q, b, amount) ==
  /\ req[q] = Idle
  /\ RefundHasRoom
  /\ amount > 0 /\ amount <= amountPaid[b]
  /\ \E p \in NewestCaptured(b) :
       req' = [req EXCEPT ![q] = [op |-> "refund", booking |-> b,
                                  payment |-> p, amount |-> amount]]
  /\ UNCHANGED <<book, gateway, seen>>

(* The gateway gives no id twice.  Which of the unused ones comes next      *)
(* tells nothing, so one of them is chosen.                                 *)
IsNextId(i) ==
  decided[i] = "none" /\ i = CHOOSE j \in GatewayRefund : decided[j] = "none"

(* ... an online payment's refund is asked of the gateway ... *)
RefundInitiate(q, i) ==
  LET m == req[q]
  IN /\ m.op = "refund"
     /\ payments[m.payment].gateway # Desk
     /\ IsNextId(i)
     /\ decided' = [decided EXCEPT ![i] = "pending"]
     /\ req' = [req EXCEPT ![q] = [op |-> "initiated", booking |-> m.booking,
                                   payment |-> m.payment, amount |-> m.amount,
                                   gateway |-> i]]
     /\ UNCHANGED <<book, captured, seen>>

RefundRow(m, i) ==
  [booking |-> m.booking, payment |-> m.payment, amount |-> m.amount,
   gateway |-> i, status |-> "CREATED"]

(* ... and the refund is inserted.  A refund of desk money is settled next. *)
RefundInsertOnline(q) ==
  /\ req[q].op = "initiated"
  /\ refunds' = Append(refunds, RefundRow(req[q], req[q].gateway))
  /\ req' = [req EXCEPT ![q] = Idle]
  /\ UNCHANGED <<payments, amountPaid, deposits, gateway, seen>>

RefundInsertDesk(q) ==
  /\ req[q].op = "refund"
  /\ payments[req[q].payment].gateway = Desk
  /\ refunds' = Append(refunds, RefundRow(req[q], Local))
  /\ req' = [req EXCEPT ![q] = [op |-> "mark", refund |-> Len(refunds')]]
  /\ UNCHANGED <<payments, amountPaid, deposits, gateway, seen>>

(* The webhook for a refund: the event is recorded, then the refund looked  *)
(* up by its gateway id; there may be none, or none any more.               *)
OutcomeOp(outcome) == IF outcome = "processed" THEN "mark" ELSE "markFailed"
DeliverRefund(e) ==
  LET found == {r \in DOMAIN refunds : refunds[r].gateway = e.refund}
  IN /\ e \notin seen
     /\ decided[e.refund] \in {"processed", "failed"}
     /\ seen' = seen \cup {e}
     /\ \/ found = {} /\ UNCHANGED req
        \/ \E r \in found :
             req' = [req EXCEPT ![e] = [op |-> OutcomeOp(decided[e.refund]), refund |-> r]]
     /\ UNCHANGED <<book, gateway>>

(* What a handler keeps of the refund it has read. *)
IsOpen(r) == refunds[r].status # "PROCESSED"
Having(op, r) == [op |-> op, refund |-> r, foundOpen |-> IsOpen(r)]

(* markRefundProcessed: the status is read and tested ... *)
MarkRead_Always(h) ==
  /\ req[h].op = "mark"
  /\ req' = [req EXCEPT ![h] = Having("process", req[h].refund)]
  /\ UNCHANGED <<book, gateway, seen>>
MarkRead_OnlyCreated(h) ==
  /\ req[h].op = "mark"
  /\ req' = [req EXCEPT ![h] = IF refunds[req[h].refund].status = "CREATED"
                               THEN Having("process", req[h].refund) ELSE Idle]
  /\ UNCHANGED <<book, gateway, seen>>
MarkRead(h) ==
  /\ req[h].op = "mark"
  /\ req' = [req EXCEPT ![h] = IF IsOpen(req[h].refund) THEN Having("process", req[h].refund)
                               ELSE Idle]
  /\ UNCHANGED <<book, gateway, seen>>

Amounts(table) == [r \in DOMAIN table |-> table[r].amount]
ProcessedSum(table, p) ==
  SumFunctionOnSet(Amounts(table),
    {r \in DOMAIN table : table[r].payment = p /\ table[r].status = "PROCESSED"})

(* By how much settling a refund lowers amountPaid. *)
RefundedAmount_WholePayment(r) == payments[refunds[r].payment].amount
RefundedAmount(r) == refunds[r].amount

(* ... and a later transaction settles the refund, lowers amountPaid, and   *)
(* closes the payment once it is refunded in full.                          *)
Process(h) ==
  LET r == req[h].refund
      p == refunds[r].payment
  IN /\ req[h].op = "process"
     /\ refunds' = [refunds EXCEPT ![r].status = "PROCESSED"]
     /\ amountPaid' = [amountPaid EXCEPT ![refunds[r].booking] = @ - RefundedAmount(r)]
     /\ payments' = IF ProcessedSum(refunds', p) >= payments[p].amount
                    THEN [payments EXCEPT ![p].status = "REFUNDED"] ELSE payments
     /\ req' = [req EXCEPT ![h] = Idle]
     /\ UNCHANGED <<deposits, gateway, seen>>

(* markRefundFailed: the status is read and tested, then written. *)
FailRead(h) ==
  /\ req[h].op = "markFailed"
  /\ req' = [req EXCEPT ![h] = IF refunds[req[h].refund].status # "CREATED" THEN Idle
                               ELSE Having("fail", req[h].refund)]
  /\ UNCHANGED <<book, gateway, seen>>

FailCommit(h) ==
  /\ req[h].op = "fail"
  /\ refunds' = [refunds EXCEPT ![req[h].refund].status = "FAILED"]
  /\ req' = [req EXCEPT ![h] = Idle]
  /\ UNCHANGED <<payments, amountPaid, deposits, gateway, seen>>

(* retryRefundAction: only a failed refund; the gateway is asked again, and *)
(* the refund takes the new id.  Desk refunds never fail.                   *)
RetryRead(q, r) ==
  /\ req[q] = Idle
  /\ refunds[r].status = "FAILED"
  /\ req' = [req EXCEPT ![q] = Having("retry", r)]
  /\ UNCHANGED <<book, gateway, seen>>

RetryInitiate(q, i) ==
  /\ req[q].op = "retry"
  /\ IsNextId(i)
  /\ decided' = [decided EXCEPT ![i] = "pending"]
  /\ req' = [req EXCEPT ![q] = [op |-> "retried", refund |-> req[q].refund,
                                foundOpen |-> req[q].foundOpen, gateway |-> i]]
  /\ UNCHANGED <<book, captured, seen>>

RetryCommit(q) ==
  /\ req[q].op = "retried"
  /\ refunds' = [refunds EXCEPT ![req[q].refund].status = "CREATED",
                                ![req[q].refund].gateway = req[q].gateway]
  /\ req' = [req EXCEPT ![q] = Idle]
  /\ UNCHANGED <<payments, amountPaid, deposits, gateway, seen>>

(* The bound on settlements by hand: races of theirs may lower amountPaid   *)
(* without end, so none starts once it is below zero.                       *)
SettleHasRoom(r) == amountPaid[refunds[r].booking] >= 0

(* settleRefundManuallyAction: any refund not yet processed is set to       *)
(* CREATED, then handed to markRefundProcessed.                             *)
SettleRead(q, r) ==
  /\ req[q] = Idle
  /\ SettleHasRoom(r)
  /\ IsOpen(r)
  /\ req' = [req EXCEPT ![q] = Having("settle", r)]
  /\ UNCHANGED <<book, gateway, seen>>

SettleCommit(q) ==
  /\ req[q].op = "settle"
  /\ refunds' = [refunds EXCEPT ![req[q].refund].status = "CREATED"]
  /\ req' = [req EXCEPT ![q] = [op |-> "mark", refund |-> req[q].refund]]
  /\ UNCHANGED <<payments, amountPaid, deposits, gateway, seen>>

--------------------------------------------------------------------------------
(* A query or a remote call fails, or the process stops: the handler ends.  *)
Abandon(h) ==
  /\ req[h] # Idle
  /\ auditLost' = IF req[h].op = "audit"
                  THEN [auditLost EXCEPT ![req[h].booking] = @ + req[h].amount] ELSE auditLost
  /\ req' = [req EXCEPT ![h] = Idle]
  /\ UNCHANGED <<payments, refunds, amountPaid, depositHeld, depositReturned, gateway, seen>>

Proceed(h) ==
  \/ DeskCommit(h) \/ DepositCommit(h) \/ DepositAudit(h)
  \/ CaptureCommit(h) \/ CaptureDuplicate(h)
  \/ \E i \in GatewayRefund : RefundInitiate(h, i) \/ RetryInitiate(h, i)
  \/ RefundInsertOnline(h) \/ RefundInsertDesk(h)
  \/ MarkRead(h) \/ Process(h)
  \/ FailRead(h) \/ FailCommit(h)
  \/ RetryCommit(h) \/ SettleCommit(h)

Receive(q) ==
  \/ \E b \in Booking : \/ \E amount \in 1..Total : DeskRead(q, b, amount)
                        \/ \E amount \in 1..amountPaid[b] : RefundRead(q, b, amount)
                        \/ DepositRead(q, b)
  \/ \E r \in DOMAIN refunds : RetryRead(q, r) \/ SettleRead(q, r)

Deliver(e) == \/ e \in CaptureEvent /\ DeliverCapture(e)
              \/ e \in RefundEvent /\ DeliverRefund(e)

Outside ==
  \/ \E b \in Booking, amount \in 1..Total :
       RecordDeposit(b, amount) \/ \E g \in GatewayPayment : Capture(g, b, amount)
  \/ \E i \in GatewayRefund, outcome \in {"processed", "failed"} : Decide(i, outcome)

Steady == \/ Outside
          \/ \E q \in Request : Receive(q)
          \/ \E e \in Event : Deliver(e)
          \/ \E h \in Handler : Proceed(h)
Next == Steady \/ \E h \in Handler : Abandon(h)

Spec == Init /\ [][Next]_vars

(* A handler that started is run on, and the gateway delivers every event   *)
(* at least once; of one event, delivery and handling take turns.           *)
Fairness == /\ \A q \in Request : WF_vars(Proceed(q))
            /\ \A e \in Event : WF_vars(Deliver(e) \/ Proceed(e))

(* No query fails and the process stays up. *)
SteadySpec == Init /\ [][Steady]_vars /\ Fairness

(* One handler at a time. *)
SerialNext == Next /\ \A h \in Handler : req[h] # Idle => req'[h] # req[h]
SerialSpec == Init /\ [][SerialNext]_vars

--------------------------------------------------------------------------------
(* Safety under every interleaving and failure. *)

(* Every row of an online payment is a capture of the gateway, with its     *)
(* booking and amount, and no capture has two rows.                         *)
RowsAreCaptures ==
  /\ \A p \in DOMAIN payments :
       payments[p].gateway # Desk =>
         /\ captured[payments[p].gateway] =
              [booking |-> payments[p].booking, amount |-> payments[p].amount]
         /\ ~payments[p].isDeposit
  /\ \A p, s \in DOMAIN payments :
       (payments[p].gateway = payments[s].gateway /\ payments[p].gateway # Desk) => p = s

(* A refund, on its way or in the table, is of a payment of its booking. *)
RefundsStayInBooking ==
  /\ \A r \in DOMAIN refunds : payments[refunds[r].payment].booking = refunds[r].booking
  /\ \A h \in Handler :
       req[h].op \in PaymentOps => payments[req[h].payment].booking = req[h].booking

(* A handler on its way to record a capture was told of one. *)
CapturesAreReal ==
  \A h \in Handler : req[h].op = "capture" => captured[req[h].gateway] # NotCaptured

(* Property: every capture is recorded at most once, with the gateway's     *)
(* amount and for the right booking, and refunds never cross bookings,      *)
(* whatever is redelivered, reordered or lost (handlePaymentCaptured and    *)
(* createRefund).  It is inductive.                                         *)
IInv == TypeOK /\ RowsAreCaptures /\ RefundsStayInBooking /\ CapturesAreReal

(* What was paid for rooms and as deposits, and what was paid back. *)
PaidRows(b, isDeposit) ==
  {p \in DOMAIN payments : payments[p].booking = b /\ payments[p].isDeposit = isDeposit}
SettledRows(b) ==
  {r \in DOMAIN refunds : refunds[r].booking = b /\ refunds[r].status = "PROCESSED"}
Revenue(b) == SumFunctionOnSet(Amounts(payments), PaidRows(b, FALSE))
Deposits(b) == SumFunctionOnSet(Amounts(payments), PaidRows(b, TRUE))
PaidBack(b) == SumFunctionOnSet(Amounts(refunds), SettledRows(b))

(* Property: no race or failure makes a booking look better paid than its   *)
(* payments less its settled refunds; every error is to the low side        *)
(* (applyPayment, markRefundProcessed, settleRefundManuallyAction).         *)
LedgerNeverOverstates == \A b \in Booking : amountPaid[b] <= Revenue(b) - PaidBack(b)

(* A handler goes on that had read refund r and found it still to be        *)
(* settled.                                                                 *)
ActsOnOpen(r) ==
  \E h \in Handler : /\ req[h].op \in HasRead /\ req[h].refund = r /\ req[h].foundOpen
                     /\ req'[h] # req[h]

(* Property: amountPaid moves only up by a new room payment of that booking *)
(* and amount, or down by a refund of that booking and amount, at the hands *)
(* of a handler that had found that refund not settled.  So a refund that   *)
(* is settled already is taken off again, or opened again, only by a        *)
(* handler that read it before: the race between the status test and the    *)
(* write is the one way to do either.  Payments are never deleted or        *)
(* rewritten but to be closed (applyPayment, markRefundProcessed,           *)
(* settleRefundManuallyAction, retryRefundAction, markRefundFailed).        *)
MoneyMovesWithRows ==
  [][/\ Len(payments') >= Len(payments)
     /\ \A p \in DOMAIN payments :
          payments'[p] \in {payments[p], [payments[p] EXCEPT !.status = "REFUNDED"]}
     /\ \A r \in DOMAIN refunds :
          (refunds[r].status = "PROCESSED" /\ refunds'[r].status # "PROCESSED") => ActsOnOpen(r)
     /\ \A b \in Booking :
          amountPaid'[b] # amountPaid[b] =>
            \/ \E p \in DOMAIN payments' \ DOMAIN payments :
                 /\ payments'[p].booking = b /\ ~payments'[p].isDeposit
                 /\ amountPaid'[b] = amountPaid[b] + payments'[p].amount
            \/ \E r \in DOMAIN refunds :
                 /\ refunds[r].booking = b /\ refunds'[r].status = "PROCESSED"
                 /\ ActsOnOpen(r)
                 /\ amountPaid'[b] = amountPaid[b] - refunds[r].amount]_vars

(* Property: while the process stays up and no query fails, a capture that  *)
(* the webhook acknowledged is in the ledger or on its way there (route.ts, *)
(* the WebhookEvent row is written before the payment).                     *)
AcknowledgedIsRecorded ==
  \A e \in CaptureEvent :
    e \in seen => Recorded(e.payment) \/ req[e] = [op |-> "capture", gateway |-> e.payment]

--------------------------------------------------------------------------------
(* Safety of one handler at a time. *)

(* Property: amountPaid is the room payments less the settled refunds, if   *)
(* handlers do not overlap, failures included (applyPayment,                *)
(* markRefundProcessed).                                                    *)
LedgerBalances == \A b \in Booking : amountPaid[b] = Revenue(b) - PaidBack(b)

(* The handlers that have paid a deposit of b out and are to write it down. *)
Returning(b) == {h \in Handler : req[h].op = "audit" /\ req[h].booking = b}

(* Property: "it lowers depositHeld and is audited" (actions/bookings.ts:   *)
(* 442): what is held and what the audit log says was returned are together *)
(* what was received, but for the one return that is on its way into the    *)
(* log, and for those that died on that way.                                *)
DepositBalances ==
  \A b \in Booking :
    LET known == depositHeld[b] + depositReturned[b] + auditLost[b]
    IN /\ Returning(b) = {} => known = Deposits(b)
       /\ \A h \in Returning(b) : known + req[h].amount = Deposits(b)

(* Property: when handlers do not overlap, the rent balances to the paisa   *)
(* whatever fails half way, and the deposits do but for the audit records   *)
(* lost between the two queries of a return (applyPayment,                  *)
(* markRefundProcessed, returnDepositAction).                               *)
BooksBalance == LedgerBalances /\ DepositBalances

(* With one handler at a time, what it has read is still so when it writes: *)
(* no refund it is about to touch was settled meanwhile, and the deposit it *)
(* returns is the one that is held.                                         *)
ReadIsCurrent ==
  \A h \in Handler :
    /\ req[h].op \in HasRead => IsOpen(req[h].refund)
    /\ req[h].op = "deposit" => req[h].amount = depositHeld[req[h].booking]

OneInFlight == \A h, k \in Handler : (req[h] # Idle /\ req[k] # Idle) => h = k
UnseenIsIdle == \A e \in Event : e \notin seen => req[e] = Idle

(* The inductive invariant behind the balance of the books. *)
SerialInv == ReadIsCurrent /\ OneInFlight /\ UnseenIsIdle /\ BooksBalance

--------------------------------------------------------------------------------
(* Liveness. *)

(* Property: every payment the gateway captured is eventually recorded      *)
(* (route.ts: the event "is stored in WebhookEvent for replay").            *)
CaptureIsRecorded ==
  \A g \in GatewayPayment : captured[g] # NotCaptured ~> Recorded(g)

(* The row of refund r carries the gateway's id i. *)
Carries(r, i) == r \in DOMAIN refunds /\ refunds[r].gateway = i

(* Property: a refund the gateway carried out is settled in the end if its  *)
(* row carries the id the webhook is to tell of, unless a retry gives the   *)
(* row another id first: then that event finds no row (handleRefund,        *)
(* retryRefundAction).                                                      *)
KnownRefundSettles ==
  \A e \in RefundEvent, r \in 1..MaxRefund :
    (Carries(r, e.refund) /\ decided[e.refund] = "processed" /\ e \notin seen)
      ~> (r \in DOMAIN refunds /\ (~IsOpen(r) \/ ~Carries(r, e.refund)))

(* Property: while no query fails, what the gateway has taken or paid back  *)
(* reaches the books in the end: every capture, and every refund the        *)
(* webhook can still find (handlePaymentCaptured, handleRefund).            *)
MoneySettles == CaptureIsRecorded /\ KnownRefundSettles
================================================================================
