----------------------------- MODULE PaymentsProofs -----------------------------
(***************************************************************************)
(* Proofs about the payments ledger, for any sets of bookings, gateway ids *)
(* and concurrent handlers and any bounds.                                 *)
(***************************************************************************)
EXTENDS Payments, SequenceTheorems, SumTheorems, TLAPS

(* What appending a row does to a table. *)
LEMMA Appended ==
  ASSUME NEW S, NEW s \in Seq(S), NEW x \in S
  PROVE  /\ Append(s, x) \in Seq(S)
         /\ Len(Append(s, x)) = Len(s) + 1
         /\ DOMAIN Append(s, x) = DOMAIN s \cup {Len(s) + 1}
         /\ Len(s) + 1 \notin DOMAIN s
         /\ \A i \in DOMAIN s : Append(s, x)[i] = s[i]
         /\ Append(s, x)[Len(s) + 1] = x
OBVIOUS

(* What rewriting a row does to a table. *)
LEMMA Rewritten ==
  ASSUME NEW S, NEW s \in Seq(S), NEW i \in DOMAIN s, NEW x \in S
  PROVE  /\ [s EXCEPT ![i] = x] \in Seq(S)
         /\ Len([s EXCEPT ![i] = x]) = Len(s)
         /\ DOMAIN [s EXCEPT ![i] = x] = DOMAIN s
         /\ \A j \in DOMAIN s : [s EXCEPT ![i] = x][j] = IF j = i THEN x ELSE s[j]
<1>1. i \in 1..Len(s)
  BY LenProperties
<1>2. [s EXCEPT ![i] = x] \in Seq(S)
  BY <1>1, ExceptSeq
<1>3. QED
  BY <1>1, <1>2, ExceptSeq, LenProperties

(* The record a handler keeps, by the operation it performs. *)
LEMMA HandlerShape ==
  ASSUME TypeOK, NEW h \in Handler
  PROVE  /\ req[h].op \in {"desk", "deposit", "audit"} =>
              req[h].booking \in Booking /\ req[h].amount \in Nat
         /\ req[h].op \in PaymentOps =>
              /\ req[h].booking \in Booking /\ req[h].payment \in DOMAIN payments
              /\ req[h].amount \in Nat
         /\ req[h].op = "initiated" => req[h].gateway \in GatewayRefund
         /\ req[h].op \in RefundOps => req[h].refund \in DOMAIN refunds
         /\ req[h].op \in HasRead => req[h].foundOpen \in BOOLEAN
         /\ req[h].op = "retried" => req[h].gateway \in GatewayRefund
         /\ req[h].op = "capture" => req[h].gateway \in GatewayPayment
<1>1. req[h] \in InFlight \cup {Idle}
  BY DEF TypeOK, HandlersOK
<1>2. req[h].op \in {"desk", "deposit", "audit"} =>
        req[h].booking \in Booking /\ req[h].amount \in Nat
  BY <1>1 DEF InFlight, Idle
<1>3. req[h].op \in PaymentOps => req[h].booking \in Booking /\ req[h].amount \in Nat
  BY <1>1 DEF InFlight, Idle, PaymentOps
<1>4. /\ req[h].op = "initiated" => req[h].gateway \in GatewayRefund
      /\ req[h].op = "retried" => req[h].gateway \in GatewayRefund
      /\ req[h].op = "capture" => req[h].gateway \in GatewayPayment
  BY <1>1 DEF InFlight, Idle
<1>5. req[h].op \in HasRead => req[h].foundOpen \in BOOLEAN
  BY <1>1 DEF InFlight, Idle, HasRead
<1>6. QED
  BY <1>2, <1>3, <1>4, <1>5 DEF TypeOK, HandlersOK

LEMMA RowTypes ==
  ASSUME TypeOK
  PROVE  /\ \A p \in DOMAIN payments : payments[p] \in Payment /\ p \in Nat
         /\ \A r \in DOMAIN refunds : /\ refunds[r] \in Refund /\ r \in Nat
                                      /\ refunds[r].payment \in DOMAIN payments
BY ElementOfSeq, LenProperties DEF TypeOK, TablesOK

--------------------------------------------------------------------------------
(* What a step can do to the books, whichever handler takes it. *)

KeepsMoney == payments' = payments /\ refunds' = refunds /\ amountPaid' = amountPaid
KeepsDeposits == deposits' = deposits
KeepsBooks == KeepsMoney /\ KeepsDeposits

(* A deposit is paid out; its return is written down; or that is lost. *)
Returns(h) ==
  LET b == req[h].booking
  IN  /\ req[h].op = "deposit"
      /\ depositHeld' = [depositHeld EXCEPT ![b] = 0]
      /\ depositReturned' = depositReturned /\ auditLost' = auditLost
      /\ req' = [req EXCEPT ![h].op = "audit"]
      /\ KeepsMoney

Audits(h) ==
  LET b == req[h].booking
  IN  /\ req[h].op = "audit"
      /\ \/ /\ depositReturned' = [depositReturned EXCEPT ![b] = @ + req[h].amount]
            /\ auditLost' = auditLost
         \/ /\ auditLost' = [auditLost EXCEPT ![b] = @ + req[h].amount]
            /\ depositReturned' = depositReturned
      /\ depositHeld' = depositHeld
      /\ req' = [req EXCEPT ![h] = Idle]
      /\ KeepsMoney

(* A handler goes on with refund r, which it has read. *)
InHand(r) == \E h \in Handler : /\ req[h].op \in HasRead /\ req[h].refund = r
                               /\ req'[h] # req[h]

(* A payment is added; an online one is a capture not recorded before. *)
Books(x) ==
  /\ x \in Payment
  /\ payments' = Append(payments, x)
  /\ refunds' = refunds
  /\ amountPaid' = IF x.isDeposit THEN amountPaid
                   ELSE [amountPaid EXCEPT ![x.booking] = @ + x.amount]
  /\ depositHeld' = IF x.isDeposit THEN [depositHeld EXCEPT ![x.booking] = @ + x.amount]
                    ELSE depositHeld
  /\ depositReturned' = depositReturned /\ auditLost' = auditLost
  /\ x.gateway # Desk =>
       /\ ~Recorded(x.gateway)
       /\ captured[x.gateway] = [booking |-> x.booking, amount |-> x.amount]
       /\ ~x.isDeposit

(* A refund of a payment of its booking is added. *)
Opens(x) ==
  /\ x \in Refund
  /\ x.payment \in DOMAIN payments
  /\ payments[x.payment].booking = x.booking
  /\ x.status = "CREATED"
  /\ refunds' = Append(refunds, x)
  /\ payments' = payments /\ amountPaid' = amountPaid /\ KeepsDeposits

(* A refund is opened again or fails, and may change its gateway id. *)
Marks(r, y) ==
  /\ r \in DOMAIN refunds /\ InHand(r)
  /\ y \in Refund
  /\ y.booking = refunds[r].booking /\ y.payment = refunds[r].payment
  /\ y.amount = refunds[r].amount /\ y.status # "PROCESSED"
  /\ refunds' = [refunds EXCEPT ![r] = y]
  /\ payments' = payments /\ amountPaid' = amountPaid /\ KeepsDeposits

(* A refund is settled. *)
Settles(r) ==
  /\ r \in DOMAIN refunds /\ InHand(r) /\ KeepsDeposits
  /\ refunds' = [refunds EXCEPT ![r] = [refunds[r] EXCEPT !.status = "PROCESSED"]]
  /\ amountPaid' = [amountPaid EXCEPT ![refunds[r].booking] = @ - refunds[r].amount]
  /\ LET p == refunds[r].payment IN
       payments' \in {payments,
                      [payments EXCEPT ![p] = [payments[p] EXCEPT !.status = "REFUNDED"]]}

Effect == \/ KeepsBooks
          \/ \E h \in Handler : Returns(h) \/ Audits(h)
          \/ \E x \in Payment : Books(x)
          \/ \E x \in Refund : Opens(x)
          \/ \E r \in DOMAIN refunds, y \in Refund : Marks(r, y)
          \/ \E r \in DOMAIN refunds : Settles(r)

(* A payment row as applyPayment writes it. *)
LEMMA ApplyBooks ==
  ASSUME TypeOK, NEW b \in Booking, NEW amount \in Nat, NEW isDeposit \in BOOLEAN,
         NEW g \in GatewayPayment \cup {Desk},
         ApplyPayment(b, amount, isDeposit, g), refunds' = refunds,
         depositReturned' = depositReturned, auditLost' = auditLost,
         g # Desk => /\ ~Recorded(g) /\ ~isDeposit
                     /\ captured[g] = [booking |-> b, amount |-> amount]
  PROVE  Effect
<1> DEFINE x == [booking |-> b, amount |-> amount, isDeposit |-> isDeposit,
                 gateway |-> g, status |-> "CAPTURED"]
<1>1. x \in Payment
  BY DEF Payment
<1>2. Books(x)
  BY <1>1 DEF Books, ApplyPayment
<1>3. QED
  BY <1>1, <1>2 DEF Effect

(* The handler that has read a refund and goes on is no longer where it was. *)
LEMMA HandlerMoves ==
  ASSUME TypeOK, NEW h \in Handler, NEW v, req' = [req EXCEPT ![h] = v],
         req[h].op \in HasRead, v.op \notin HasRead
  PROVE  InHand(req[h].refund)
<1>1. req'[h] = v
  BY DEF TypeOK, HandlersOK
<1>2. QED
  BY <1>1 DEF InHand

LEMMA ProcessSettles ==
  ASSUME TypeOK, NEW h \in Handler, Process(h)
  PROVE  Effect
<1> DEFINE r == req[h].refund
           p == refunds[r].payment
<1>1. r \in DOMAIN refunds
  BY HandlerShape DEF Process, RefundOps, HasRead
<1>2. p \in DOMAIN payments
  BY <1>1, RowTypes
<1>3. refunds' = [refunds EXCEPT ![r] = [refunds[r] EXCEPT !.status = "PROCESSED"]]
  BY DEF Process
<1>4. payments' \in {payments,
                    [payments EXCEPT ![p] = [payments[p] EXCEPT !.status = "REFUNDED"]]}
  BY DEF Process
<1>5. amountPaid' = [amountPaid EXCEPT ![refunds[r].booking] = @ - refunds[r].amount]
  BY DEF Process, RefundedAmount
<1>6. InHand(r) /\ KeepsDeposits
  BY HandlerMoves DEF Process, HasRead, Idle, KeepsDeposits
<1> HIDE DEF r, p
<1>8. Settles(r)
  BY <1>1, <1>3, <1>4, <1>5, <1>6 DEF Settles, p
<1>7. QED
  BY <1>1, <1>8 DEF Effect

(* A refund row rewritten in its status or gateway id. *)
LEMMA MarkEffect ==
  ASSUME TypeOK, NEW r \in DOMAIN refunds,
         NEW status \in {"CREATED", "FAILED"},
         NEW g \in GatewayRefund \cup {Local},
         refunds' = [refunds EXCEPT ![r] = [refunds[r] EXCEPT !.status = status, !.gateway = g]],
         payments' = payments, amountPaid' = amountPaid, KeepsDeposits, InHand(r)
  PROVE  Effect
<1> DEFINE y == [refunds[r] EXCEPT !.status = status, !.gateway = g]
<1>1. refunds[r] \in Refund
  BY RowTypes
<1>2. /\ y \in Refund /\ y.booking = refunds[r].booking /\ y.payment = refunds[r].payment
      /\ y.amount = refunds[r].amount /\ y.status # "PROCESSED"
  BY <1>1 DEF Refund
<1>3. Marks(r, y)
  BY <1>2 DEF Marks
<1>4. QED
  BY <1>2, <1>3 DEF Effect

LEMMA StatusOnly ==
  ASSUME TypeOK, NEW r \in DOMAIN refunds,
         NEW status \in {"CREATED", "FAILED"},
         refunds' = [refunds EXCEPT ![r].status = status],
         payments' = payments, amountPaid' = amountPaid, KeepsDeposits, InHand(r)
  PROVE  Effect
<1>1. refunds[r] \in Refund
  BY RowTypes
<1>2. [refunds[r] EXCEPT !.status = status] =
        [refunds[r] EXCEPT !.status = status, !.gateway = refunds[r].gateway]
  BY <1>1 DEF Refund
<1>3. refunds[r].gateway \in GatewayRefund \cup {Local}
  BY <1>1 DEF Refund
<1>4. QED
  BY <1>2, <1>3, MarkEffect

LEMMA OpenEffect ==
  ASSUME IInv, NEW h \in Handler, NEW g \in GatewayRefund \cup {Local},
         req[h].op \in PaymentOps,
         refunds' = Append(refunds, RefundRow(req[h], g)),
         payments' = payments, amountPaid' = amountPaid, KeepsDeposits
  PROVE  Effect
<1> DEFINE x == RefundRow(req[h], g)
<1>1. /\ req[h].booking \in Booking /\ req[h].payment \in DOMAIN payments
      /\ req[h].amount \in Nat
  BY HandlerShape DEF IInv
<1>2. req[h].payment \in Nat
  BY <1>1, RowTypes DEF IInv
<1>3. x \in Refund
  BY <1>1, <1>2 DEF RefundRow, Refund
<1>4. payments[x.payment].booking = x.booking
  BY DEF RefundRow, IInv, RefundsStayInBooking
<1>5. Opens(x)
  BY <1>1, <1>3, <1>4 DEF Opens, RefundRow
<1>6. QED
  BY <1>3, <1>5 DEF Effect

LEMMA CaptureEffect ==
  ASSUME IInv, NEW e \in Handler, CaptureCommit(e)
  PROVE  Effect
<1> DEFINE g == req[e].gateway
<1>1. g \in GatewayPayment /\ captured[g] # NotCaptured
  BY HandlerShape DEF IInv, CaptureCommit, CapturesAreReal
<1>2. captured[g] \in [booking : Booking, amount : Nat \ {0}]
  BY <1>1 DEF IInv, TypeOK, GatewayOK
<1>3. QED
  BY <1>1, <1>2, ApplyBooks DEF CaptureCommit, IInv

LEMMA ProceedEffect ==
  ASSUME IInv, NEW h \in Handler, Proceed(h)
  PROVE  Effect
<1> USE DEF IInv
<1>1. CASE DeskCommit(h)
  BY <1>1, HandlerShape, ApplyBooks DEF DeskCommit
<1>12. CASE DepositCommit(h)
  BY <1>12 DEF DepositCommit, Effect, Returns, KeepsMoney
<1>13. CASE DepositAudit(h)
  BY <1>13 DEF DepositAudit, Effect, Audits, KeepsMoney
<1>2. CASE CaptureDuplicate(h) \/ MarkRead(h) \/ FailRead(h)
  BY <1>2 DEF CaptureDuplicate, MarkRead, FailRead, book, deposits, Effect, KeepsBooks, KeepsMoney, KeepsDeposits
<1>3. CASE CaptureCommit(h)
  BY <1>3, CaptureEffect
<1>4. ASSUME NEW i \in GatewayRefund, RefundInitiate(h, i) \/ RetryInitiate(h, i) PROVE Effect
  BY <1>4 DEF RefundInitiate, RetryInitiate, book, deposits, Effect, KeepsBooks, KeepsMoney, KeepsDeposits
<1>5. CASE RefundInsertOnline(h)
  BY <1>5, OpenEffect, HandlerShape DEF RefundInsertOnline, PaymentOps, KeepsDeposits
<1>6. CASE RefundInsertDesk(h)
  BY <1>6, OpenEffect, HandlerShape DEF RefundInsertDesk, PaymentOps, KeepsDeposits
<1>7. CASE Process(h)
  BY <1>7, ProcessSettles
<1>8. CASE FailCommit(h)
  <2>1. InHand(req[h].refund) /\ KeepsDeposits /\ req[h].refund \in DOMAIN refunds
    BY <1>8, HandlerMoves, HandlerShape DEF FailCommit, RefundOps, HasRead, Idle, KeepsDeposits
  <2>2. QED
    BY <1>8, <2>1, StatusOnly DEF FailCommit
<1>9. CASE SettleCommit(h)
  <2>1. InHand(req[h].refund) /\ KeepsDeposits /\ req[h].refund \in DOMAIN refunds
    BY <1>9, HandlerMoves, HandlerShape DEF SettleCommit, RefundOps, HasRead, KeepsDeposits
  <2>2. QED
    BY <1>9, <2>1, StatusOnly DEF SettleCommit
<1>10. CASE RetryCommit(h)
  <2>1. req[h].refund \in DOMAIN refunds /\ req[h].gateway \in GatewayRefund
    BY <1>10, HandlerShape DEF RetryCommit, RefundOps, HasRead
  <2>2. refunds' = [refunds EXCEPT ![req[h].refund] =
                      [refunds[req[h].refund] EXCEPT !.status = "CREATED",
                                                     !.gateway = req[h].gateway]]
    BY <1>10, <2>1, RowTypes DEF RetryCommit, Refund
  <2>3. InHand(req[h].refund) /\ KeepsDeposits
    BY <1>10, HandlerMoves DEF RetryCommit, HasRead, Idle, KeepsDeposits
  <2>4. QED
    BY <1>10, <2>1, <2>2, <2>3, MarkEffect DEF RetryCommit
<1>11. QED
  BY <1>1, <1>2, <1>3, <1>4, <1>5, <1>6, <1>7, <1>8, <1>9, <1>10, <1>12, <1>13 DEF Proceed

LEMMA NextEffect == IInv /\ [Next]_vars => Effect
<1> SUFFICES ASSUME IInv, [Next]_vars PROVE Effect
  OBVIOUS
<1>1. ASSUME NEW b \in Booking, NEW amount \in 1..Total, RecordDeposit(b, amount) PROVE Effect
  <2>1. amount \in Nat /\ TRUE \in BOOLEAN /\ Desk \in GatewayPayment \cup {Desk}
    BY PaymentsAssumption
  <2>2. /\ ApplyPayment(b, amount, TRUE, Desk)
        /\ refunds' = refunds /\ depositReturned' = depositReturned /\ auditLost' = auditLost
    BY <1>1 DEF RecordDeposit
  <2>3. QED
    BY <2>1, <2>2, ApplyBooks DEF IInv
<1>2. ASSUME NEW b \in Booking, NEW amount \in 1..Total, NEW g \in GatewayPayment,
             Capture(g, b, amount)
      PROVE  Effect
  BY <1>2 DEF Capture, book, deposits, Effect, KeepsBooks, KeepsMoney, KeepsDeposits
<1>3. ASSUME NEW i \in GatewayRefund, NEW outcome, Decide(i, outcome) PROVE Effect
  BY <1>3 DEF Decide, book, deposits, Effect, KeepsBooks, KeepsMoney, KeepsDeposits
<1>4. ASSUME NEW q \in Request, Receive(q) PROVE Effect
  BY <1>4 DEF Receive, DeskRead, RefundRead, DepositRead, RetryRead, SettleRead, book, deposits,
              Effect, KeepsBooks, KeepsMoney, KeepsDeposits
<1>5. ASSUME NEW e \in Event, Deliver(e) PROVE Effect
  BY <1>5 DEF Deliver, DeliverCapture, DeliverRefund, book, deposits, Effect, KeepsBooks, KeepsMoney, KeepsDeposits
<1>6. ASSUME NEW h \in Handler, Abandon(h) PROVE Effect
  <2>1. CASE req[h].op = "audit"
    BY <1>6, <2>1 DEF Abandon, Effect, Audits, KeepsMoney
  <2>2. CASE req[h].op # "audit"
    BY <1>6, <2>2 DEF Abandon, Effect, deposits, KeepsBooks, KeepsMoney, KeepsDeposits
  <2>3. QED
    BY <2>1, <2>2
<1>7. CASE UNCHANGED vars
  BY <1>7 DEF vars, deposits, Effect, KeepsBooks, KeepsMoney, KeepsDeposits
<1>8. QED
  BY <1>1, <1>2, <1>3, <1>4, <1>5, <1>6, <1>7, ProceedEffect DEF Next, Steady, Outside

--------------------------------------------------------------------------------
(* What a step can do to the handlers. *)

(* Handler h goes on with v, all of whose references are good. *)
Goes(h, v) ==
  /\ req' = [req EXCEPT ![h] = v]
  /\ v \in InFlight \cup {Idle}
  /\ v.op \in PaymentOps => /\ v.payment \in DOMAIN payments
                           /\ payments[v.payment].booking = v.booking
  /\ v.op \in RefundOps => v.refund \in DOMAIN refunds'
  /\ v.op \in HasRead => (v.foundOpen \/ (req[h].op \in HasRead /\ req[h].foundOpen = v.foundOpen))
  /\ v.op = "capture" => captured[v.gateway] # NotCaptured

HandlerStep == req' = req \/ \E h \in Handler, v \in InFlight \cup {Idle} : Goes(h, v)

LEMMA GoesIdle ==
  ASSUME NEW h \in Handler, req' = [req EXCEPT ![h] = Idle]
  PROVE  HandlerStep
<1>1. Idle.op = "idle"
  BY DEF Idle
<1>2. Goes(h, Idle)
  BY <1>1 DEF Goes, PaymentOps, RefundOps, HasRead
<1>3. QED
  BY <1>2 DEF HandlerStep

LEMMA GoesRefund ==
  ASSUME NEW h \in Handler, NEW op \in {"mark", "markFailed"}, NEW r \in Nat,
         r \in DOMAIN refunds',
         req' = [req EXCEPT ![h] = [op |-> op, refund |-> r]]
  PROVE  HandlerStep
<1> DEFINE v == [op |-> op, refund |-> r]
<1>1. v \in InFlight
  BY DEF InFlight, RefundOps, HasRead
<1>2. Goes(h, v)
  BY <1>1 DEF Goes, RefundOps, HasRead, PaymentOps
<1>3. QED
  BY <1>1, <1>2 DEF HandlerStep

LEMMA GoesHaving ==
  ASSUME NEW h \in Handler, NEW op \in {"retry", "settle", "process", "fail"}, NEW r \in Nat,
         r \in DOMAIN refunds', IsOpen(r),
         req' = [req EXCEPT ![h] = Having(op, r)]
  PROVE  HandlerStep
<1> DEFINE v == Having(op, r)
<1>1. v = [op |-> op, refund |-> r, foundOpen |-> TRUE]
  BY DEF Having
<1> HIDE DEF v
<1>2. v \in InFlight
  BY <1>1 DEF InFlight
<1>3. Goes(h, v)
  BY <1>1, <1>2 DEF Goes, v, RefundOps, HasRead, PaymentOps
<1>4. QED
  BY <1>2, <1>3 DEF HandlerStep

LEMMA ReceiveStep ==
  ASSUME IInv, NEW q \in Request, Receive(q)
  PROVE  HandlerStep
<1> USE DEF Handler
<1>1. ASSUME NEW b \in Booking, NEW amount \in 1..Total, DeskRead(q, b, amount)
      PROVE  HandlerStep
  <2> DEFINE v == [op |-> "desk", booking |-> b, amount |-> amount]
  <2>1. v \in InFlight
    BY PaymentsAssumption DEF InFlight
  <2>2. Goes(q, v)
    BY <1>1, <2>1 DEF Goes, DeskRead, RefundOps, HasRead, PaymentOps
  <2>3. QED
    BY <2>1, <2>2 DEF HandlerStep
<1>2. ASSUME NEW b \in Booking, NEW amount \in 1..amountPaid[b], RefundRead(q, b, amount)
      PROVE  HandlerStep
  <2>1. PICK p \in NewestCaptured(b) :
          req' = [req EXCEPT ![q] = [op |-> "refund", booking |-> b,
                                     payment |-> p, amount |-> amount]]
    BY <1>2 DEF RefundRead
  <2>2. p \in DOMAIN payments /\ payments[p].booking = b
    BY DEF NewestCaptured, CapturedOf
  <2>3. p \in Nat
    BY <2>2, RowTypes DEF IInv
  <2>4. amount \in Nat
    BY DEF IInv, TypeOK, TablesOK
  <2> DEFINE v == [op |-> "refund", booking |-> b, payment |-> p, amount |-> amount]
  <2>5. v \in InFlight
    BY <2>3, <2>4 DEF InFlight
  <2>6. Goes(q, v)
    BY <2>1, <2>2, <2>5 DEF Goes, RefundOps, HasRead, PaymentOps
  <2>7. QED
    BY <2>5, <2>6 DEF HandlerStep
<1>3. ASSUME NEW b \in Booking, DepositRead(q, b) PROVE HandlerStep
  <2> DEFINE v == [op |-> "deposit", booking |-> b, amount |-> depositHeld[b]]
  <2>1. v \in InFlight
    BY DEF InFlight, IInv, TypeOK, TablesOK
  <2>2. Goes(q, v)
    BY <1>3, <2>1 DEF Goes, DepositRead, RefundOps, HasRead, PaymentOps
  <2>3. QED
    BY <2>1, <2>2 DEF HandlerStep
<1>4. ASSUME NEW r \in DOMAIN refunds, RetryRead(q, r) \/ SettleRead(q, r) PROVE HandlerStep
  <2>1. r \in Nat /\ refunds' = refunds
    BY <1>4, RowTypes DEF IInv, RetryRead, SettleRead, book, deposits
  <2>2. QED
    BY <1>4, <2>1, GoesHaving DEF RetryRead, SettleRead, IsOpen
<1>5. QED
  BY <1>1, <1>2, <1>3, <1>4 DEF Receive

LEMMA DeliverStep ==
  ASSUME IInv, NEW e \in Event, Deliver(e)
  PROVE  HandlerStep
<1> USE DEF Handler
<1>1. ASSUME e \in CaptureEvent, DeliverCapture(e) PROVE HandlerStep
  <2> DEFINE v == [op |-> "capture", gateway |-> e.payment]
  <2>1. v \in InFlight
    BY <1>1 DEF InFlight, CaptureEvent
  <2>2. CASE Recorded(e.payment)
    BY <1>1, <2>2, GoesIdle DEF DeliverCapture
  <2>3. CASE ~Recorded(e.payment)
    <3>1. Goes(e, v)
      BY <1>1, <2>1, <2>3 DEF Goes, DeliverCapture, RefundOps, HasRead, PaymentOps
    <3>2. QED
      BY <2>1, <3>1 DEF HandlerStep
  <2>4. QED
    BY <2>2, <2>3
<1>2. ASSUME e \in RefundEvent, DeliverRefund(e) PROVE HandlerStep
  <2>1. CASE req' = req
    BY <2>1 DEF HandlerStep
  <2>2. CASE req' # req
    <3>1. PICK r \in DOMAIN refunds :
            req' = [req EXCEPT ![e] = [op |-> OutcomeOp(decided[e.refund]), refund |-> r]]
      BY <1>2, <2>2 DEF DeliverRefund
    <3>2. r \in Nat /\ r \in DOMAIN refunds'
      BY <1>2, RowTypes DEF IInv, DeliverRefund, book, deposits
    <3>3. OutcomeOp(decided[e.refund]) \in {"mark", "markFailed"}
      BY DEF OutcomeOp
    <3>4. QED
      BY <3>1, <3>2, <3>3, GoesRefund
  <2>3. QED
    BY <2>1, <2>2
<1>3. QED
  BY <1>1, <1>2 DEF Deliver

LEMMA ProceedStep ==
  ASSUME IInv, NEW h \in Handler, Proceed(h)
  PROVE  HandlerStep
<1>1. CASE DeskCommit(h) \/ DepositAudit(h) \/ CaptureCommit(h) \/ CaptureDuplicate(h)
           \/ RefundInsertOnline(h) \/ Process(h) \/ FailCommit(h) \/ RetryCommit(h)
  BY <1>1, GoesIdle DEF DeskCommit, DepositAudit, CaptureCommit, CaptureDuplicate,
       RefundInsertOnline, Process, FailCommit, RetryCommit
<1>2. ASSUME NEW i \in GatewayRefund, RefundInitiate(h, i) PROVE HandlerStep
  <2> DEFINE m == req[h]
             v == [op |-> "initiated", booking |-> m.booking, payment |-> m.payment,
                   amount |-> m.amount, gateway |-> i]
  <2>1. /\ m.booking \in Booking /\ m.payment \in DOMAIN payments /\ m.amount \in Nat
        /\ payments[m.payment].booking = m.booking
    BY <1>2, HandlerShape DEF IInv, RefundInitiate, PaymentOps, RefundsStayInBooking
  <2>2. m.payment \in Nat
    BY <2>1, RowTypes DEF IInv
  <2>3. v \in InFlight
    BY <2>1, <2>2 DEF InFlight
  <2>4. Goes(h, v)
    BY <1>2, <2>1, <2>3 DEF Goes, RefundInitiate, RefundOps, HasRead, PaymentOps
  <2>5. QED
    BY <2>3, <2>4 DEF HandlerStep
<1>3. ASSUME NEW i \in GatewayRefund, RetryInitiate(h, i) PROVE HandlerStep
  <2> DEFINE v == [op |-> "retried", refund |-> req[h].refund,
                   foundOpen |-> req[h].foundOpen, gateway |-> i]
  <2>1. /\ req[h].refund \in DOMAIN refunds /\ refunds' = refunds
        /\ req[h].foundOpen \in BOOLEAN
    BY <1>3, HandlerShape DEF IInv, RetryInitiate, RefundOps, HasRead, book, deposits
  <2>2. v \in InFlight
    BY <2>1, RowTypes DEF InFlight, IInv
  <2>3. Goes(h, v)
    BY <1>3, <2>1, <2>2 DEF Goes, RetryInitiate, RefundOps, HasRead, PaymentOps
  <2>4. QED
    BY <2>2, <2>3 DEF HandlerStep
<1>4. CASE RefundInsertDesk(h)
  <2>1. Len(refunds') \in Nat /\ Len(refunds') \in DOMAIN refunds'
    <3>1. RefundRow(req[h], Local) \in Refund
      BY <1>4, HandlerShape, RowTypes DEF IInv, RefundInsertDesk, RefundRow, Refund, PaymentOps
    <3>2. refunds \in Seq(Refund)
      BY DEF IInv, TypeOK, TablesOK
    <3>3. refunds' = Append(refunds, RefundRow(req[h], Local))
      BY <1>4 DEF RefundInsertDesk
    <3>4. QED
      BY <3>1, <3>2, <3>3, Appended, LenProperties
  <2>2. req' = [req EXCEPT ![h] = [op |-> "mark", refund |-> Len(refunds')]]
    BY <1>4 DEF RefundInsertDesk
  <2>3. "mark" \in {"mark", "markFailed"}
    OBVIOUS
  <2>4. QED
    BY <2>1, <2>2, <2>3, GoesRefund
<1>5. CASE MarkRead(h)
  <2>1. req[h].refund \in Nat /\ req[h].refund \in DOMAIN refunds'
    BY <1>5, HandlerShape, RowTypes DEF IInv, MarkRead, RefundOps, HasRead, book, deposits
  <2>2. \/ req' = [req EXCEPT ![h] = Idle]
        \/ /\ req' = [req EXCEPT ![h] = Having("process", req[h].refund)]
           /\ IsOpen(req[h].refund)
    BY <1>5 DEF MarkRead, IsOpen
  <2>3. QED
    BY <2>1, <2>2, GoesHaving, GoesIdle
<1>6. CASE FailRead(h)
  <2>1. req[h].refund \in Nat /\ req[h].refund \in DOMAIN refunds'
    BY <1>6, HandlerShape, RowTypes DEF IInv, FailRead, RefundOps, HasRead, book, deposits
  <2>2. \/ req' = [req EXCEPT ![h] = Idle]
        \/ /\ req' = [req EXCEPT ![h] = Having("fail", req[h].refund)]
           /\ IsOpen(req[h].refund)
    BY <1>6 DEF FailRead, IsOpen
  <2>3. QED
    BY <2>1, <2>2, GoesHaving, GoesIdle
<1>7. CASE SettleCommit(h)
  <2>1. req[h].refund \in DOMAIN refunds
    BY <1>7, HandlerShape DEF IInv, SettleCommit, RefundOps, HasRead
  <2>2. req[h].refund \in Nat /\ req[h].refund \in DOMAIN refunds'
    BY <1>7, <2>1, RowTypes DEF IInv, SettleCommit
  <2>3. req' = [req EXCEPT ![h] = [op |-> "mark", refund |-> req[h].refund]]
    BY <1>7 DEF SettleCommit
  <2>4. "mark" \in {"mark", "markFailed"}
    OBVIOUS
  <2>5. QED
    BY <2>2, <2>3, <2>4, GoesRefund
<1>9. CASE DepositCommit(h)
  <2> DEFINE v == [req[h] EXCEPT !.op = "audit"]
  <2>1. req[h] \in [op : {"deposit", "audit"}, booking : Booking, amount : Nat]
    BY <1>9 DEF DepositCommit, IInv, TypeOK, HandlersOK, InFlight, Idle
  <2>2. v \in InFlight /\ v.op = "audit"
    BY <2>1 DEF InFlight
  <2>3. req' = [req EXCEPT ![h] = v]
    BY <1>9 DEF DepositCommit
  <2> HIDE DEF v
  <2>4. Goes(h, v)
    BY <2>2, <2>3 DEF Goes, RefundOps, HasRead, PaymentOps
  <2>5. QED
    BY <2>2, <2>4 DEF HandlerStep
<1>8. QED
  BY <1>1, <1>2, <1>3, <1>4, <1>5, <1>6, <1>7, <1>9 DEF Proceed

LEMMA NextHandlerStep == IInv /\ [Next]_vars => HandlerStep
<1> SUFFICES ASSUME IInv, [Next]_vars PROVE HandlerStep
  OBVIOUS
<1>1. CASE Outside \/ UNCHANGED vars
  BY <1>1 DEF Outside, RecordDeposit, Capture, Decide, vars, HandlerStep
<1>2. ASSUME NEW h \in Handler, Abandon(h) PROVE HandlerStep
  BY <1>2, GoesIdle DEF Abandon
<1>3. QED
  BY <1>1, <1>2, ReceiveStep, DeliverStep, ProceedStep DEF Next, Steady

--------------------------------------------------------------------------------
(* What a step can do to the gateway and the deposits. *)

(* What was captured stays captured. *)
CapturesStay == \A g \in GatewayPayment : captured[g] # NotCaptured => captured'[g] = captured[g]

LEMMA NextGateway == IInv /\ [Next]_vars => GatewayOK' /\ CapturesStay
<1> SUFFICES ASSUME IInv, [Next]_vars PROVE GatewayOK' /\ CapturesStay
  OBVIOUS
<1> USE DEF IInv, TypeOK, GatewayOK, CapturesStay
<1>1. ASSUME NEW b \in Booking, NEW amount \in 1..Total, RecordDeposit(b, amount)
      PROVE  GatewayOK' /\ CapturesStay
  BY <1>1 DEF RecordDeposit, gateway
<1>2. ASSUME NEW b \in Booking, NEW amount \in 1..Total, NEW g \in GatewayPayment,
             Capture(g, b, amount)
      PROVE  GatewayOK' /\ CapturesStay
  <2>1. amount \in Nat \ {0}
    BY PaymentsAssumption
  <2>2. QED
    BY <1>2, <2>1 DEF Capture
<1>3. ASSUME NEW i \in GatewayRefund, NEW outcome \in {"processed", "failed"}, Decide(i, outcome)
      PROVE  GatewayOK' /\ CapturesStay
  BY <1>3 DEF Decide
<1>4. ASSUME NEW q \in Request, Receive(q) PROVE GatewayOK' /\ CapturesStay
  BY <1>4 DEF Receive, DeskRead, RefundRead, DepositRead, RetryRead, SettleRead, gateway
<1>5. ASSUME NEW e \in Event, Deliver(e) PROVE GatewayOK' /\ CapturesStay
  BY <1>5 DEF Deliver, DeliverCapture, DeliverRefund, gateway
<1>6. ASSUME NEW h \in Handler, Abandon(h) PROVE GatewayOK' /\ CapturesStay
  BY <1>6 DEF Abandon, gateway
<1>7. ASSUME NEW h \in Handler, Proceed(h) PROVE GatewayOK' /\ CapturesStay
  <2>1. ASSUME NEW i \in GatewayRefund, RefundInitiate(h, i) \/ RetryInitiate(h, i)
        PROVE  GatewayOK' /\ CapturesStay
    BY <2>1 DEF RefundInitiate, RetryInitiate
  <2>2. ASSUME ~\E i \in GatewayRefund : RefundInitiate(h, i) \/ RetryInitiate(h, i)
        PROVE  GatewayOK' /\ CapturesStay
    BY <1>7, <2>2 DEF Proceed, DeskCommit, DepositCommit, DepositAudit, CaptureCommit, CaptureDuplicate,
         RefundInsertOnline, RefundInsertDesk, MarkRead, Process, FailRead, FailCommit,
         RetryCommit, SettleCommit, gateway
  <2>3. QED
    BY <2>1, <2>2
<1>8. CASE UNCHANGED vars
  BY <1>8 DEF vars
<1>9. QED
  BY <1>1, <1>2, <1>3, <1>4, <1>5, <1>6, <1>7, <1>8 DEF Next, Steady, Outside

DepositsOK == /\ depositHeld \in [Booking -> Nat] /\ depositReturned \in [Booking -> Nat]
              /\ auditLost \in [Booking -> Nat]

LEMMA NextDeposits == IInv /\ [Next]_vars => DepositsOK'
<1> SUFFICES ASSUME IInv, [Next]_vars PROVE DepositsOK'
  OBVIOUS
<1>1. DepositsOK
  BY DEF IInv, TypeOK, TablesOK, DepositsOK
<1>2. ASSUME NEW b \in Booking, NEW amount \in 1..Total, RecordDeposit(b, amount) PROVE DepositsOK'
  <2>1. amount \in Nat
    BY PaymentsAssumption
  <2>2. /\ depositHeld' = [depositHeld EXCEPT ![b] = @ + amount]
        /\ depositReturned' = depositReturned /\ auditLost' = auditLost
    BY <1>2 DEF RecordDeposit, ApplyPayment
  <2>3. QED
    BY <1>1, <2>1, <2>2 DEF DepositsOK
<1>3. ASSUME NEW h \in Handler, DepositCommit(h) \/ DepositAudit(h) \/ Abandon(h)
      PROVE  DepositsOK'
  <2>1. req[h].op \in {"deposit", "audit"} => req[h].booking \in Booking /\ req[h].amount \in Nat
    BY HandlerShape DEF IInv
  <2>2. QED
    BY <1>1, <1>3, <2>1 DEF DepositCommit, DepositAudit, Abandon, DepositsOK
<1>4. ASSUME NEW h \in Handler, Proceed(h), ~DepositCommit(h), ~DepositAudit(h) PROVE DepositsOK'
  <2>1. CASE DeskCommit(h) \/ CaptureCommit(h)
    <3>1. /\ depositHeld' = depositHeld /\ depositReturned' = depositReturned
          /\ auditLost' = auditLost
      BY <2>1 DEF DeskCommit, CaptureCommit, ApplyPayment
    <3>2. QED
      BY <1>1, <3>1 DEF DepositsOK
  <2>2. CASE ~DeskCommit(h) /\ ~CaptureCommit(h)
    <3>1. deposits' = deposits
      BY <1>4, <2>2 DEF Proceed, CaptureDuplicate, RefundInitiate, RetryInitiate,
           RefundInsertOnline, RefundInsertDesk, MarkRead, Process, FailRead, FailCommit,
           RetryCommit, SettleCommit, book
    <3>2. QED
      BY <1>1, <3>1 DEF deposits, DepositsOK
  <2>3. QED
    BY <2>1, <2>2
<1>5. CASE Next /\ (book' = book)
  BY <1>1, <1>5 DEF book, deposits, DepositsOK
<1>6. ASSUME NEW q \in Request, Receive(q) PROVE book' = book
  BY <1>6 DEF Receive, DeskRead, RefundRead, DepositRead, RetryRead, SettleRead, book, deposits
<1>7. ASSUME NEW e \in Event, Deliver(e) PROVE book' = book
  BY <1>7 DEF Deliver, DeliverCapture, DeliverRefund, book, deposits
<1>9. ASSUME NEW g, NEW b, NEW amount, Capture(g, b, amount) PROVE book' = book
  BY <1>9 DEF Capture, book, deposits
<1>10. ASSUME NEW i, NEW outcome, Decide(i, outcome) PROVE book' = book
  BY <1>10 DEF Decide, book, deposits
<1>11. CASE UNCHANGED vars
  BY <1>1, <1>11 DEF vars, DepositsOK
<1>12. QED
  BY <1>2, <1>3, <1>4, <1>5, <1>6, <1>7, <1>9, <1>10, <1>11 DEF Next, Steady, Outside

--------------------------------------------------------------------------------
(* The invariant is preserved. *)

(* The same payment, closed or not. *)
SameRow(x, y) == y \in {x, [x EXCEPT !.status = "REFUNDED"]}

LEMMA Closed ==
  ASSUME NEW x \in Payment, NEW y, SameRow(x, y)
  PROVE  /\ y \in Payment
         /\ y.booking = x.booking /\ y.amount = x.amount /\ y.isDeposit = x.isDeposit
         /\ y.gateway = x.gateway
BY DEF SameRow, Payment

(* Payments are kept; one may be added, which Books describes. *)
LEMMA PaymentsStay ==
  ASSUME TypeOK, Effect
  PROVE  /\ payments' \in Seq(Payment)
         /\ DOMAIN payments \subseteq DOMAIN payments' /\ Len(payments') >= Len(payments)
         /\ \A p \in DOMAIN payments : SameRow(payments[p], payments'[p])
         /\ \A p \in DOMAIN payments' \ DOMAIN payments :
              p = Len(payments) + 1 /\ Books(payments'[p])
<1>1. payments \in Seq(Payment)
  BY DEF TypeOK, TablesOK
<1>2. CASE payments' = payments
  BY <1>1, <1>2, LenProperties DEF SameRow
<1>3. ASSUME NEW x \in Payment, Books(x)
      PROVE  /\ payments' \in Seq(Payment)
             /\ DOMAIN payments \subseteq DOMAIN payments' /\ Len(payments') >= Len(payments)
             /\ \A p \in DOMAIN payments : SameRow(payments[p], payments'[p])
             /\ \A p \in DOMAIN payments' \ DOMAIN payments :
                  p = Len(payments) + 1 /\ Books(payments'[p])
  <2>1. payments' = Append(payments, x)
    BY <1>3 DEF Books
  <2>2. QED
    BY <1>1, <1>3, <2>1, Appended, LenProperties DEF SameRow
<1>4. ASSUME NEW r \in DOMAIN refunds, Settles(r), payments' # payments
      PROVE  /\ payments' \in Seq(Payment)
             /\ DOMAIN payments \subseteq DOMAIN payments' /\ Len(payments') >= Len(payments)
             /\ \A p \in DOMAIN payments : SameRow(payments[p], payments'[p])
             /\ \A p \in DOMAIN payments' \ DOMAIN payments :
                  p = Len(payments) + 1 /\ Books(payments'[p])
  <2> DEFINE q == refunds[r].payment
             y == [payments[q] EXCEPT !.status = "REFUNDED"]
  <2>1. q \in DOMAIN payments /\ payments[q] \in Payment
    BY RowTypes
  <2>2. y \in Payment
    BY <2>1 DEF Payment
  <2>3. payments' = [payments EXCEPT ![q] = y]
    BY <1>4 DEF Settles
  <2>4. /\ payments' \in Seq(Payment) /\ Len(payments') = Len(payments)
        /\ DOMAIN payments' = DOMAIN payments
        /\ \A p \in DOMAIN payments : payments'[p] = IF p = q THEN y ELSE payments[p]
    BY <1>1, <2>1, <2>2, <2>3, Rewritten
  <2>5. QED
    BY <1>1, <2>4, LenProperties DEF SameRow
<1>5. QED
  BY <1>2, <1>3, <1>4 DEF Effect, KeepsBooks, KeepsMoney, Returns, Audits, Opens, Marks, Settles

(* Refunds are kept, with their booking and payment; one may be added,      *)
(* which Opens describes.                                                   *)
LEMMA RefundsStay ==
  ASSUME TypeOK, Effect
  PROVE  /\ refunds' \in Seq(Refund)
         /\ DOMAIN refunds \subseteq DOMAIN refunds'
         /\ \A r \in DOMAIN refunds : /\ refunds'[r].booking = refunds[r].booking
                                      /\ refunds'[r].payment = refunds[r].payment
         /\ \A r \in DOMAIN refunds' \ DOMAIN refunds : Opens(refunds'[r])
<1> DEFINE Goal == /\ refunds' \in Seq(Refund)
                   /\ DOMAIN refunds \subseteq DOMAIN refunds'
                   /\ \A r \in DOMAIN refunds : /\ refunds'[r].booking = refunds[r].booking
                                                /\ refunds'[r].payment = refunds[r].payment
                   /\ \A r \in DOMAIN refunds' \ DOMAIN refunds : Opens(refunds'[r])
<1>1. refunds \in Seq(Refund)
  BY DEF TypeOK, TablesOK
<1>2. CASE refunds' = refunds
  BY <1>1, <1>2
<1>3. ASSUME NEW x \in Refund, Opens(x) PROVE Goal
  <2>1. refunds' = Append(refunds, x)
    BY <1>3 DEF Opens
  <2>2. QED
    BY <1>1, <1>3, <2>1, Appended
<1>4. ASSUME NEW r \in DOMAIN refunds, NEW y \in Refund, y.booking = refunds[r].booking,
             y.payment = refunds[r].payment, refunds' = [refunds EXCEPT ![r] = y]
      PROVE  Goal
  BY <1>1, <1>4, Rewritten
<1>5. ASSUME NEW r \in DOMAIN refunds, Settles(r) PROVE Goal
  <2> DEFINE y == [refunds[r] EXCEPT !.status = "PROCESSED"]
  <2>1. y \in Refund /\ y.booking = refunds[r].booking /\ y.payment = refunds[r].payment
    BY RowTypes DEF Refund
  <2>2. refunds' = [refunds EXCEPT ![r] = y]
    BY <1>5 DEF Settles
  <2>3. QED
    BY <1>4, <2>1, <2>2
<1>6. QED
  BY <1>2, <1>3, <1>4, <1>5 DEF Effect, KeepsBooks, KeepsMoney, Returns, Audits, Books, Marks

LEMMA AmountStep ==
  ASSUME TypeOK, Effect
  PROVE  amountPaid' \in [Booking -> Int]
<1>1. amountPaid \in [Booking -> Int]
  BY DEF TypeOK, TablesOK
<1>2. ASSUME NEW x \in Payment, Books(x) PROVE amountPaid' \in [Booking -> Int]
  BY <1>1, <1>2 DEF Books, Payment
<1>3. ASSUME NEW r \in DOMAIN refunds, Settles(r) PROVE amountPaid' \in [Booking -> Int]
  BY <1>1, <1>3, RowTypes DEF Settles, Refund
<1>4. QED
  BY <1>1, <1>2, <1>3 DEF Effect, KeepsBooks, KeepsMoney, Returns, Audits, Opens, Marks

(* Every refund of the next state is of a payment of its booking. *)
LEMMA RefundRefs ==
  ASSUME IInv, Effect
  PROVE  \A r \in DOMAIN refunds' :
           /\ refunds'[r].payment \in DOMAIN payments'
           /\ payments'[refunds'[r].payment].booking = refunds'[r].booking
<1> SUFFICES ASSUME NEW r \in DOMAIN refunds'
             PROVE  /\ refunds'[r].payment \in DOMAIN payments'
                    /\ payments'[refunds'[r].payment].booking = refunds'[r].booking
  OBVIOUS
<1> DEFINE p == refunds'[r].payment
<1>1. p \in DOMAIN payments /\ payments[p].booking = refunds'[r].booking
  <2>1. CASE r \in DOMAIN refunds
    BY <2>1, RefundsStay, RowTypes DEF IInv, RefundsStayInBooking
  <2>2. CASE r \notin DOMAIN refunds
    BY <2>2, RefundsStay DEF IInv, Opens
  <2>3. QED
    BY <2>1, <2>2
<1>2. SameRow(payments[p], payments'[p]) /\ p \in DOMAIN payments'
  BY <1>1, PaymentsStay DEF IInv
<1>3. QED
  BY <1>1, <1>2, Closed, RowTypes DEF IInv

LEMMA NextTables == IInv /\ [Next]_vars => TablesOK'
<1> SUFFICES ASSUME IInv, [Next]_vars PROVE TablesOK'
  OBVIOUS
<1>1. Effect /\ TypeOK
  BY NextEffect DEF IInv
<1>2. QED
  BY <1>1, PaymentsStay, RefundsStay, AmountStep, RefundRefs, NextDeposits DEF TablesOK, DepositsOK

(* The handlers after a step, one that goes on and one that does not. *)
LEMMA NextHandlers ==
  IInv /\ [Next]_vars =>
    /\ HandlersOK'
    /\ \A h \in Handler :
         (req[h].op \in PaymentOps)' =>
           (payments[req[h].payment].booking = req[h].booking)'
    /\ CapturesAreReal'
<1> SUFFICES ASSUME IInv, [Next]_vars
             PROVE  /\ HandlersOK'
                    /\ \A h \in Handler :
                         req'[h].op \in PaymentOps =>
                           payments'[req'[h].payment].booking = req'[h].booking
                    /\ CapturesAreReal'
  OBVIOUS
<1> DEFINE Good(v) ==
      /\ v \in InFlight \cup {Idle}
      /\ v.op \in PaymentOps => /\ v.payment \in DOMAIN payments
                               /\ payments[v.payment].booking = v.booking
      /\ v.op \in RefundOps => v.refund \in DOMAIN refunds'
      /\ v.op = "capture" => captured[v.gateway] # NotCaptured
<1>1. Effect /\ TypeOK /\ HandlerStep /\ CapturesStay
  BY NextEffect, NextHandlerStep, NextGateway DEF IInv
<1>2. \A h \in Handler : Good(req[h])
  BY <1>1, RefundsStay DEF IInv, TypeOK, HandlersOK, RefundsStayInBooking, CapturesAreReal
<1>3. req' \in [Handler -> InFlight \cup {Idle}] /\ \A h \in Handler : Good(req'[h])
  <2>1. req \in [Handler -> InFlight \cup {Idle}]
    BY DEF IInv, TypeOK, HandlersOK
  <2>2. ASSUME NEW h \in Handler, NEW v \in InFlight \cup {Idle}, Goes(h, v)
        PROVE  req' \in [Handler -> InFlight \cup {Idle}] /\ \A k \in Handler : Good(req'[k])
    <3>1. Good(v) /\ req' = [req EXCEPT ![h] = v]
      BY <2>2 DEF Goes
    <3> HIDE DEF Good
    <3>2. QED
      BY <1>2, <2>1, <3>1
  <2> HIDE DEF Good
  <2>3. QED
    BY <1>1, <1>2, <2>1, <2>2 DEF HandlerStep
<1>4. ASSUME NEW h \in Handler, req'[h].op \in PaymentOps
      PROVE  /\ req'[h].payment \in DOMAIN payments'
             /\ payments'[req'[h].payment].booking = req'[h].booking
  <2> DEFINE p == req'[h].payment
  <2>1. p \in DOMAIN payments /\ payments[p].booking = req'[h].booking
    BY <1>3, <1>4
  <2>2. QED
    BY <1>1, <2>1, PaymentsStay, RowTypes, Closed
<1>5. HandlersOK'
  BY <1>3, <1>4 DEF HandlersOK
<1>6. CapturesAreReal'
  <2> SUFFICES ASSUME NEW h \in Handler, req'[h].op = "capture"
               PROVE  captured'[req'[h].gateway] # NotCaptured
    BY DEF CapturesAreReal
  <2>1. req'[h].gateway \in GatewayPayment
    BY <1>3 DEF InFlight, Idle
  <2>2. QED
    BY <1>1, <1>3, <2>1 DEF CapturesStay
<1>7. QED
  BY <1>4, <1>5, <1>6

LEMMA NextRows == IInv /\ [Next]_vars => RowsAreCaptures'
<1> SUFFICES ASSUME IInv, [Next]_vars PROVE RowsAreCaptures'
  OBVIOUS
<1>1. Effect /\ TypeOK /\ CapturesStay
  BY NextEffect, NextGateway DEF IInv
<1>2. ASSUME NEW p \in DOMAIN payments'
      PROVE  /\ payments'[p] \in Payment
             /\ p \in DOMAIN payments => /\ payments[p] \in Payment
                                         /\ payments'[p].gateway = payments[p].gateway
                                         /\ payments'[p].booking = payments[p].booking
                                         /\ payments'[p].amount = payments[p].amount
                                         /\ payments'[p].isDeposit = payments[p].isDeposit
             /\ p \notin DOMAIN payments => p = Len(payments) + 1 /\ Books(payments'[p])
  BY <1>1, PaymentsStay, RowTypes, Closed, ElementOfSeq
<1>3. ASSUME NEW p \in DOMAIN payments', payments'[p].gateway # Desk
      PROVE  /\ captured'[payments'[p].gateway] =
                  [booking |-> payments'[p].booking, amount |-> payments'[p].amount]
             /\ ~payments'[p].isDeposit
  <2>1. payments'[p].gateway \in GatewayPayment
    BY <1>2, <1>3 DEF Payment
  <2>2. /\ captured[payments'[p].gateway] =
             [booking |-> payments'[p].booking, amount |-> payments'[p].amount]
        /\ ~payments'[p].isDeposit
    BY <1>2, <1>3 DEF IInv, RowsAreCaptures, Books
  <2>3. captured[payments'[p].gateway] # NotCaptured
    <3>1. DOMAIN captured[payments'[p].gateway] = {"booking", "amount"}
      BY <2>2
    <3>2. DOMAIN NotCaptured = {"amount"}
      BY DEF NotCaptured
    <3>3. QED
      BY <3>1, <3>2
  <2>4. QED
    BY <1>1, <2>1, <2>2, <2>3 DEF CapturesStay
<1>4. ASSUME NEW p \in DOMAIN payments', NEW s \in DOMAIN payments',
             payments'[p].gateway = payments'[s].gateway, payments'[p].gateway # Desk
      PROVE  p = s
  <2>1. CASE p \in DOMAIN payments /\ s \in DOMAIN payments
    BY <1>2, <1>4, <2>1 DEF IInv, RowsAreCaptures
  <2>2. CASE p \notin DOMAIN payments /\ s \notin DOMAIN payments
    BY <1>2, <2>2
  <2>3. ASSUME NEW i \in DOMAIN payments', NEW j \in DOMAIN payments', i \in DOMAIN payments,
               j \notin DOMAIN payments, payments'[i].gateway = payments'[j].gateway,
               payments'[j].gateway # Desk
        PROVE  FALSE
    <3>1. ~Recorded(payments'[j].gateway)
      BY <1>2, <2>3 DEF Books
    <3>2. payments[i].gateway = payments'[j].gateway
      BY <1>2, <2>3
    <3>3. QED
      BY <2>3, <3>1, <3>2 DEF Recorded
  <2>4. CASE p \in DOMAIN payments /\ s \notin DOMAIN payments
    BY <1>4, <2>3, <2>4
  <2>5. CASE s \in DOMAIN payments /\ p \notin DOMAIN payments
    BY <1>4, <2>3, <2>5
  <2>6. QED
    BY <2>1, <2>2, <2>4, <2>5
<1>5. QED
  BY <1>3, <1>4 DEF RowsAreCaptures

LEMMA InitIInv == Init => IInv
<1> SUFFICES ASSUME Init PROVE IInv
  OBVIOUS
<1>1. payments = <<>> /\ refunds = <<>> /\ DOMAIN payments = {} /\ DOMAIN refunds = {}
  BY DEF Init
<1>2. Idle.op = "idle"
  BY DEF Idle
<1>3. \A h \in Handler : req[h] = Idle
  BY DEF Init
<1>4. TablesOK
  BY <1>1 DEF Init, TablesOK
<1>5. GatewayOK
  BY DEF Init, GatewayOK
<1>6. HandlersOK
  BY <1>2, <1>3 DEF Init, HandlersOK, PaymentOps, RefundOps, HasRead
<1>7. RowsAreCaptures
  BY <1>1 DEF RowsAreCaptures
<1>8. RefundsStayInBooking /\ CapturesAreReal
  BY <1>1, <1>2, <1>3 DEF RefundsStayInBooking, CapturesAreReal, PaymentOps
<1>9. QED
  BY <1>4, <1>5, <1>6, <1>7, <1>8 DEF IInv, TypeOK

LEMMA NextIInv == IInv /\ [Next]_vars => IInv'
<1> SUFFICES ASSUME IInv, [Next]_vars PROVE IInv'
  OBVIOUS
<1>1. TablesOK' /\ GatewayOK' /\ RowsAreCaptures'
  BY NextTables, NextGateway, NextRows
<1>2. HandlersOK' /\ CapturesAreReal'
  BY NextHandlers
<1>3. RefundsStayInBooking'
  BY NextEffect, RefundRefs, NextHandlers DEF RefundsStayInBooking
<1>4. QED
  BY <1>1, <1>2, <1>3 DEF IInv, TypeOK

(* Every capture is recorded at most once, as the gateway has it, and no    *)
(* refund crosses bookings, whatever interleaves, is redelivered or fails   *)
(* (handlePaymentCaptured, createRefund).                                   *)
THEOREM Invariance == Spec => []IInv
<1>1. QED
  BY InitIInv, NextIInv, PTL DEF Spec

(* Tables, counters and handlers keep their shape, and references point at  *)
(* rows that exist (schema.prisma's foreign keys).                          *)
THEOREM TypeCorrect == Spec => []TypeOK
<1>1. IInv => TypeOK
  BY DEF IInv
<1>2. QED
  BY <1>1, Invariance, PTL

(* A handler that has read a refund had found it still to be settled, and   *)
(* no step of its reads again.                                              *)
FoundOpen == \A h \in Handler : req[h].op \in HasRead => req[h].foundOpen

LEMMA FoundOpenHolds == Spec => []FoundOpen
<1>1. Init => FoundOpen
  BY DEF Init, FoundOpen, Idle, HasRead
<1>2. IInv /\ FoundOpen /\ [Next]_vars => FoundOpen'
  <2> SUFFICES ASSUME IInv, FoundOpen, [Next]_vars PROVE FoundOpen'
    OBVIOUS
  <2>1. req \in [Handler -> InFlight \cup {Idle}]
    BY DEF IInv, TypeOK, HandlersOK
  <2>2. ASSUME NEW h \in Handler, NEW v \in InFlight \cup {Idle}, Goes(h, v) PROVE FoundOpen'
    <3>1. req' = [req EXCEPT ![h] = v] /\ (v.op \in HasRead => v.foundOpen)
      BY <2>2 DEF Goes, FoundOpen
    <3>2. QED
      BY <2>1, <3>1 DEF FoundOpen
  <2>3. CASE req' = req
    BY <2>3 DEF FoundOpen
  <2>4. QED
    BY <2>2, <2>3, NextHandlerStep DEF HandlerStep
<1>3. QED
  BY <1>1, <1>2, Invariance, PTL DEF Spec

(* What a step may do to payments, to settled refunds and to amountPaid. *)
MovesWithRows ==
  /\ Len(payments') >= Len(payments)
  /\ \A p \in DOMAIN payments :
       payments'[p] \in {payments[p], [payments[p] EXCEPT !.status = "REFUNDED"]}
  /\ \A r \in DOMAIN refunds :
       (refunds[r].status = "PROCESSED" /\ refunds'[r].status # "PROCESSED") => ActsOnOpen(r)
  /\ \A b \in Booking :
       amountPaid'[b] # amountPaid[b] =>
         \/ \E p \in DOMAIN payments' \ DOMAIN payments :
              /\ payments'[p].booking = b /\ ~payments'[p].isDeposit
              /\ amountPaid'[b] = amountPaid[b] + payments'[p].amount
         \/ \E r \in DOMAIN refunds :
              /\ refunds[r].booking = b /\ refunds'[r].status = "PROCESSED"
              /\ ActsOnOpen(r)
              /\ amountPaid'[b] = amountPaid[b] - refunds[r].amount

(* A refund that is opened again was read before it was settled. *)
LEMMA EffectReopens ==
  ASSUME TypeOK, Effect, NEW r \in DOMAIN refunds,
         refunds[r].status = "PROCESSED", refunds'[r].status # "PROCESSED"
  PROVE  InHand(r)
<1>1. refunds \in Seq(Refund)
  BY DEF TypeOK, TablesOK
<1>2. ASSUME NEW x \in Refund, Opens(x) PROVE FALSE
  <2>1. refunds'[r] = refunds[r]
    BY <1>1, <1>2, Appended DEF Opens
  <2>2. QED
    BY <2>1
<1>3. ASSUME NEW s \in DOMAIN refunds, NEW y \in Refund, Marks(s, y) PROVE InHand(r)
  <2>1. refunds' = [refunds EXCEPT ![s] = y] /\ InHand(s)
    BY <1>3 DEF Marks
  <2>2. r # s => refunds'[r] = refunds[r]
    BY <2>1
  <2>3. QED
    BY <2>1, <2>2
<1>4. ASSUME NEW s \in DOMAIN refunds, Settles(s) PROVE InHand(r)
  <2>1. refunds' = [refunds EXCEPT ![s] = [refunds[s] EXCEPT !.status = "PROCESSED"]] /\ InHand(s)
    BY <1>4 DEF Settles
  <2>2. r # s => refunds'[r] = refunds[r]
    BY <2>1
  <2>3. QED
    BY <2>1, <2>2
<1>5. QED
  BY <1>2, <1>3, <1>4 DEF Effect, KeepsBooks, KeepsMoney, Returns, Audits, Books

LEMMA EffectMovesMoney ==
  ASSUME IInv, FoundOpen, Effect
  PROVE  MovesWithRows
<1>1. TypeOK
  BY DEF IInv
<1>2. payments \in Seq(Payment) /\ refunds \in Seq(Refund) /\ amountPaid \in [Booking -> Int]
  BY <1>1 DEF TypeOK, TablesOK
<1>3. \A r \in DOMAIN refunds : InHand(r) => ActsOnOpen(r)
  BY DEF InHand, FoundOpen, ActsOnOpen
<1>4. ASSUME NEW b \in Booking, amountPaid'[b] # amountPaid[b]
      PROVE  \/ \E p \in DOMAIN payments' \ DOMAIN payments :
                  /\ payments'[p].booking = b /\ ~payments'[p].isDeposit
                  /\ amountPaid'[b] = amountPaid[b] + payments'[p].amount
             \/ \E r \in DOMAIN refunds :
                  /\ refunds[r].booking = b /\ refunds'[r].status = "PROCESSED"
                  /\ ActsOnOpen(r)
                  /\ amountPaid'[b] = amountPaid[b] - refunds[r].amount
  <2>1. ASSUME NEW x \in Payment, Books(x)
        PROVE  \E p \in DOMAIN payments' \ DOMAIN payments :
                 /\ payments'[p].booking = b /\ ~payments'[p].isDeposit
                 /\ amountPaid'[b] = amountPaid[b] + payments'[p].amount
    <3> DEFINE p == Len(payments) + 1
    <3>1. p \in DOMAIN payments' \ DOMAIN payments /\ payments'[p] = x
      BY <1>2, <2>1, Appended DEF Books
    <3>2. ~x.isDeposit /\ x.booking = b /\ amountPaid'[b] = amountPaid[b] + x.amount
      BY <1>2, <1>4, <2>1 DEF Books
    <3>3. QED
      BY <3>1, <3>2
  <2>2. ASSUME NEW r \in DOMAIN refunds, Settles(r)
        PROVE  /\ refunds[r].booking = b /\ refunds'[r].status = "PROCESSED"
               /\ ActsOnOpen(r)
               /\ amountPaid'[b] = amountPaid[b] - refunds[r].amount
    <3>1. refunds'[r] = [refunds[r] EXCEPT !.status = "PROCESSED"]
      BY <1>2, <2>2 DEF Settles
    <3>2. refunds[r] \in Refund
      BY <1>1, RowTypes
    <3>3. refunds[r].booking = b /\ amountPaid'[b] = amountPaid[b] - refunds[r].amount
      BY <1>2, <1>4, <2>2 DEF Settles
    <3>4. ActsOnOpen(r)
      BY <1>3, <2>2 DEF Settles
    <3>5. QED
      BY <3>1, <3>2, <3>3, <3>4 DEF Refund
  <2>3. QED
    BY <1>4, <2>1, <2>2 DEF Effect, KeepsBooks, KeepsMoney, Returns, Audits, Opens, Marks
<1>5. \A p \in DOMAIN payments :
        payments'[p] \in {payments[p], [payments[p] EXCEPT !.status = "REFUNDED"]}
  BY <1>1, PaymentsStay DEF SameRow
<1>6. QED
  BY <1>1, <1>3, <1>4, <1>5, PaymentsStay, EffectReopens DEF MovesWithRows

(* amountPaid moves only with a payment added or a refund settled, by that  *)
(* row's amount; a refund settled before is taken off again, or opened      *)
(* again, only by a handler that had read it before it was settled; and     *)
(* payments are never rewritten but to be closed (applyPayment,             *)
(* markRefundProcessed, markRefundFailed, settleRefundManuallyAction).      *)
THEOREM MoneyMovesWithRowsHolds == Spec => MoneyMovesWithRows
<1>1. IInv /\ FoundOpen /\ [Next]_vars => [MovesWithRows]_vars
  BY NextEffect, EffectMovesMoney
<1>2. QED
  BY <1>1, Invariance, FoundOpenHolds, PTL DEF Spec, MoneyMovesWithRows, MovesWithRows

--------------------------------------------------------------------------------
(* What a step does to the sums of the ledger. *)

LEMMA FiniteRows ==
  ASSUME NEW S, NEW table \in Seq(S), NEW R \in SUBSET DOMAIN table
  PROVE  IsFiniteSet(R)
<1>1. DOMAIN table = 1..Len(table) /\ Len(table) \in Nat
  BY LenProperties
<1>2. IsFiniteSet(DOMAIN table)
  BY <1>1, FS_Interval
<1> QED
  BY <1>2, FS_Subset

(* Over rows that keep their amount the sum stays, and a row more adds its. *)
LEMMA SumOfRows ==
  ASSUME NEW S, \A x \in S : x.amount \in Nat, NEW table \in Seq(S), NEW later \in Seq(S),
         NEW R \in SUBSET (DOMAIN table \cap DOMAIN later),
         \A p \in R : later[p].amount = table[p].amount
  PROVE  /\ SumFunctionOnSet(Amounts(later), R) = SumFunctionOnSet(Amounts(table), R)
         /\ \A p \in DOMAIN later \ R :
              SumFunctionOnSet(Amounts(later), R \cup {p})
                = SumFunctionOnSet(Amounts(table), R) + later[p].amount
         /\ SumFunctionOnSet(Amounts(table), R) \in Nat
<1>1. IsFiniteSet(R)
  BY FiniteRows
<1>2. \A p \in R : /\ Amounts(later)[p] = Amounts(table)[p]
                   /\ Amounts(table)[p] \in Nat
  BY ElementOfSeq, LenProperties DEF Amounts
<1>3. SumFunctionOnSet(Amounts(later), R) = SumFunctionOnSet(Amounts(table), R)
  BY <1>1, <1>2, SumSame
<1>4. SumFunctionOnSet(Amounts(table), R) \in Nat
  BY <1>1, <1>2, SumNat
<1>5. ASSUME NEW p \in DOMAIN later \ R
      PROVE  SumFunctionOnSet(Amounts(later), R \cup {p})
               = SumFunctionOnSet(Amounts(table), R) + later[p].amount
  <2>1. Amounts(later)[p] = later[p].amount
    BY DEF Amounts
  <2>2. \A i \in R \cup {p} : Amounts(later)[i] \in Int
    BY ElementOfSeq, LenProperties DEF Amounts
  <2>3. p \notin R
    OBVIOUS
  <2>4. SumFunctionOnSet(Amounts(later), R \cup {p})
          = SumFunctionOnSet(Amounts(later), R) + Amounts(later)[p]
    BY <1>1, <2>2, <2>3, SumAdd
  <2> QED
    BY <1>3, <2>1, <2>4
<1> QED
  BY <1>3, <1>4, <1>5

Paid(b, isDeposit) == SumFunctionOnSet(Amounts(payments), PaidRows(b, isDeposit))

(* What was paid grows by the payment the step adds, if it adds one. *)
LEMMA PaidStep ==
  ASSUME TypeOK, Effect, NEW b \in Booking, NEW isDeposit \in BOOLEAN
  PROVE  /\ Paid(b, isDeposit) \in Nat
         /\ (~\E x \in Payment : Books(x)) => Paid(b, isDeposit)' = Paid(b, isDeposit)
         /\ \A x \in Payment : Books(x) =>
              Paid(b, isDeposit)' = Paid(b, isDeposit)
                + (IF x.booking = b /\ x.isDeposit = isDeposit THEN x.amount ELSE 0)
<1> DEFINE R == PaidRows(b, isDeposit)
<1>1. /\ payments \in Seq(Payment) /\ payments' \in Seq(Payment)
      /\ DOMAIN payments \subseteq DOMAIN payments'
  BY PaymentsStay DEF TypeOK, TablesOK
<1>2. \A p \in DOMAIN payments : /\ payments'[p].booking = payments[p].booking
                                 /\ payments'[p].amount = payments[p].amount
                                 /\ payments'[p].isDeposit = payments[p].isDeposit
  BY PaymentsStay, RowTypes, Closed
<1>3. R \in SUBSET (DOMAIN payments \cap DOMAIN payments')
  BY <1>1 DEF PaidRows
<1>4. \A x \in Payment : x.amount \in Nat
  BY DEF Payment
<1>5. /\ SumFunctionOnSet(Amounts(payments'), R) = Paid(b, isDeposit)
      /\ \A p \in DOMAIN payments' \ R :
           SumFunctionOnSet(Amounts(payments'), R \cup {p}) = Paid(b, isDeposit) + payments'[p].amount
      /\ Paid(b, isDeposit) \in Nat
  <2>1. \A p \in R : payments'[p].amount = payments[p].amount
    BY <1>2, <1>3
  <2> HIDE DEF R
  <2> QED
    BY <1>1, <1>3, <1>4, <2>1, SumOfRows DEF Paid, R
<1>6. Paid(b, isDeposit)' = SumFunctionOnSet(Amounts(payments'), R')
  BY DEF Paid, Amounts
<1>7. ASSUME ~\E x \in Payment : Books(x)
      PROVE  Paid(b, isDeposit)' = Paid(b, isDeposit)
  <2>1. \A p \in DOMAIN payments' \ DOMAIN payments : payments'[p] \in Payment
    BY <1>1, ElementOfSeq, LenProperties
  <2>2. DOMAIN payments' = DOMAIN payments
    BY <1>1, <1>7, <2>1, PaymentsStay
  <2>3. R' = R
    BY <1>2, <2>2 DEF PaidRows
  <2> QED
    BY <1>5, <1>6, <2>3
<1>8. ASSUME NEW x \in Payment, Books(x)
      PROVE  Paid(b, isDeposit)' = Paid(b, isDeposit)
               + (IF x.booking = b /\ x.isDeposit = isDeposit THEN x.amount ELSE 0)
  <2> DEFINE n == Len(payments) + 1
  <2>1. /\ DOMAIN payments' = DOMAIN payments \cup {n} /\ n \notin DOMAIN payments
        /\ payments'[n] = x
    BY <1>1, <1>8, Appended DEF Books
  <2> HIDE DEF n
  <2>2. CASE x.booking = b /\ x.isDeposit = isDeposit
    <3>1. R' = R \cup {n} /\ n \in DOMAIN payments' \ R
      BY <1>2, <2>1, <2>2 DEF PaidRows
    <3> QED
      BY <1>5, <1>6, <2>1, <2>2, <3>1
  <2>3. CASE ~(x.booking = b /\ x.isDeposit = isDeposit)
    <3>1. R' = R
      BY <1>2, <2>1, <2>3 DEF PaidRows
    <3> QED
      BY <1>5, <1>6, <2>3, <3>1
  <2> QED
    BY <2>2, <2>3
<1> QED
  BY <1>5, <1>7, <1>8

LEMMA SumOfRefunds ==
  ASSUME TypeOK, refunds' \in Seq(Refund), NEW R \in SUBSET (DOMAIN refunds \cap DOMAIN refunds'),
         \A p \in R : refunds'[p].amount = refunds[p].amount
  PROVE  /\ SumFunctionOnSet(Amounts(refunds'), R) = SumFunctionOnSet(Amounts(refunds), R)
         /\ \A p \in DOMAIN refunds' \ R :
              SumFunctionOnSet(Amounts(refunds'), R \cup {p})
                = SumFunctionOnSet(Amounts(refunds), R) + refunds'[p].amount
         /\ SumFunctionOnSet(Amounts(refunds), R) \in Nat
<1>1. refunds \in Seq(Refund) /\ (\A x \in Refund : x.amount \in Nat)
  BY DEF TypeOK, TablesOK, Refund
<1> QED
  BY <1>1, SumOfRows

(* What was paid back grows only by a refund that the step settles. *)
LEMMA PaidBackSame ==
  ASSUME TypeOK, Effect, NEW b \in Booking, SettledRows(b)' = SettledRows(b),
         \A r \in SettledRows(b) : refunds'[r].amount = refunds[r].amount
  PROVE  PaidBack(b)' = PaidBack(b)
<1>1. refunds \in Seq(Refund) /\ refunds' \in Seq(Refund) /\ DOMAIN refunds \subseteq DOMAIN refunds'
  BY RefundsStay DEF TypeOK, TablesOK
<1>3. SettledRows(b) \in SUBSET (DOMAIN refunds \cap DOMAIN refunds')
  BY <1>1 DEF SettledRows
<1>4. SumFunctionOnSet(Amounts(refunds'), SettledRows(b)) = PaidBack(b)
  BY <1>1, <1>3, SumOfRefunds DEF PaidBack
<1> QED
  BY <1>4 DEF PaidBack, Amounts

(* Row r is rewritten as y, of the same booking and amount. *)
Rewrites(r, y) == refunds' = [refunds EXCEPT ![r] = y]

LEMMA PaidBackRewritten ==
  ASSUME TypeOK, NEW b \in Booking, NEW r \in DOMAIN refunds, NEW y \in Refund,
         y.booking = refunds[r].booking, y.amount = refunds[r].amount,
         Rewrites(r, y)
  PROVE  LET counts(x) == IF x.booking = b /\ x.status = "PROCESSED" THEN x.amount ELSE 0
         IN  /\ PaidBack(b) \in Nat
             /\ PaidBack(b)' = PaidBack(b) - counts(refunds[r]) + counts(y)
<1> DEFINE counts(x) == IF x.booking = b /\ x.status = "PROCESSED" THEN x.amount ELSE 0
           R == SettledRows(b) \ {r}
<1>1. refunds \in Seq(Refund) /\ (\A x \in Refund : x.amount \in Nat)
  BY DEF TypeOK, TablesOK, Refund
<1>2. /\ refunds' \in Seq(Refund) /\ DOMAIN refunds' = DOMAIN refunds
      /\ \A j \in DOMAIN refunds : refunds'[j] = IF j = r THEN y ELSE refunds[j]
  BY <1>1, Rewritten DEF Rewrites
<1>3. R \in SUBSET (DOMAIN refunds \cap DOMAIN refunds') /\ r \notin R
  BY <1>2 DEF SettledRows
<1>4. \A p \in R : refunds'[p].amount = refunds[p].amount
  BY <1>2, <1>3
<1> DEFINE rest == SumFunctionOnSet(Amounts(refunds), R)
<1>5. rest \in Nat /\ SumFunctionOnSet(Amounts(refunds'), R) = rest
      /\ SumFunctionOnSet(Amounts(refunds'), R \cup {r}) = rest + y.amount
  <2>1. refunds'[r] = y /\ r \in DOMAIN refunds' \ R
    BY <1>2
  <2> HIDE DEF R
  <2>2. /\ SumFunctionOnSet(Amounts(refunds'), R) = SumFunctionOnSet(Amounts(refunds), R)
        /\ \A p \in DOMAIN refunds' \ R :
             SumFunctionOnSet(Amounts(refunds'), R \cup {p})
               = SumFunctionOnSet(Amounts(refunds), R) + refunds'[p].amount
        /\ SumFunctionOnSet(Amounts(refunds), R) \in Nat
    BY <1>2, <1>3, <1>4, SumOfRefunds
  <2> QED
    BY <2>1, <2>2
<1>6. SumFunctionOnSet(Amounts(refunds), R \cup {r}) = rest + refunds[r].amount
  <2>1. R \in SUBSET (DOMAIN refunds \cap DOMAIN refunds)
    BY <1>3
  <2> HIDE DEF R
  <2> QED
    BY <1>1, <1>3, <2>1, SumOfRows
<1>7. PaidBack(b) = rest + counts(refunds[r])
  <2>1. CASE r \in SettledRows(b)
    <3>1. SettledRows(b) = R \cup {r} /\ counts(refunds[r]) = refunds[r].amount
      BY <2>1 DEF SettledRows
    <3> HIDE DEF rest, R, counts
    <3> QED
      BY <1>6, <3>1 DEF PaidBack
  <2>2. CASE r \notin SettledRows(b)
    <3>1. SettledRows(b) = R /\ counts(refunds[r]) = 0
      BY <2>2 DEF SettledRows
    <3>2. PaidBack(b) = rest
      BY <3>1 DEF PaidBack
    <3> HIDE DEF rest, R, counts
    <3> QED
      BY <1>5, <3>1, <3>2
  <2> QED
    BY <2>1, <2>2
<1>8. PaidBack(b)' = rest + counts(y)
  <2>1. PaidBack(b)' = SumFunctionOnSet(Amounts(refunds'), SettledRows(b)')
    BY DEF PaidBack, Amounts
  <2>2. CASE y.booking = b /\ y.status = "PROCESSED"
    <3>1. SettledRows(b)' = R \cup {r} /\ counts(y) = y.amount
      BY <1>2, <2>2 DEF SettledRows
    <3> HIDE DEF rest, R, counts
    <3> QED
      BY <1>5, <2>1, <3>1
  <2>3. CASE ~(y.booking = b /\ y.status = "PROCESSED")
    <3>1. SettledRows(b)' = R /\ counts(y) = 0
      BY <1>2, <2>3 DEF SettledRows
    <3> HIDE DEF rest, R, counts
    <3> QED
      BY <1>5, <2>1, <3>1
  <2> QED
    BY <2>2, <2>3
<1>9. counts(y) \in Nat /\ counts(refunds[r]) \in Nat
  BY RowTypes DEF Refund
<1> HIDE DEF rest, counts
<1>10. PaidBack(b) \in Nat /\ PaidBack(b)' = PaidBack(b) - counts(refunds[r]) + counts(y)
  BY <1>5, <1>7, <1>8, <1>9
<1> QED
  BY <1>10 DEF counts

(* The two ways a row of the refunds is rewritten. *)
LEMMA MarksPaidBack ==
  ASSUME TypeOK, NEW b \in Booking, NEW r \in DOMAIN refunds, NEW y \in Refund, Marks(r, y)
  PROVE  /\ PaidBack(b) \in Nat /\ PaidBack(b)' \in Nat
         /\ PaidBack(b)' <= PaidBack(b)
         /\ refunds[r].status # "PROCESSED" => PaidBack(b)' = PaidBack(b)
<1>1. Rewrites(r, y) /\ y.booking = refunds[r].booking /\ y.amount = refunds[r].amount
      /\ y.status # "PROCESSED"
  BY DEF Marks, Rewrites
<1>2. refunds[r].amount \in Nat
  BY RowTypes DEF Refund
<1> DEFINE old == IF refunds[r].booking = b /\ refunds[r].status = "PROCESSED"
                  THEN refunds[r].amount ELSE 0
<1>3. PaidBack(b) \in Nat /\ PaidBack(b)' = PaidBack(b) - old + 0
  BY <1>1, PaidBackRewritten
<1>4. PaidBack(b)' \in Nat
  <2>2. PaidBack(b)' = SumFunctionOnSet(Amounts(refunds'), SettledRows(b)')
    BY DEF PaidBack, Amounts
  <2>3. refunds' \in Seq(Refund)
    BY <1>1, Rewritten DEF TypeOK, TablesOK, Rewrites
  <2>4. SettledRows(b)' \in SUBSET (DOMAIN refunds' \cap DOMAIN refunds')
    BY DEF SettledRows
  <2>5. \A x \in Refund : x.amount \in Nat
    BY DEF Refund
  <2> QED
    BY <2>2, <2>3, <2>4, <2>5, SumOfRows
<1>5. old \in Nat /\ (refunds[r].status # "PROCESSED" => old = 0)
  BY <1>2
<1> HIDE DEF old
<1> QED
  BY <1>3, <1>4, <1>5

LEMMA SettlesPaidBack ==
  ASSUME TypeOK, NEW b \in Booking, NEW r \in DOMAIN refunds, Settles(r)
  PROVE  LET share == IF refunds[r].booking = b THEN refunds[r].amount ELSE 0
         IN  /\ PaidBack(b) \in Nat /\ PaidBack(b)' \in Nat
             /\ PaidBack(b)' <= PaidBack(b) + share
             /\ refunds[r].status # "PROCESSED" => PaidBack(b)' = PaidBack(b) + share
<1> DEFINE y == [refunds[r] EXCEPT !.status = "PROCESSED"]
           share == IF refunds[r].booking = b THEN refunds[r].amount ELSE 0
           old == IF refunds[r].booking = b /\ refunds[r].status = "PROCESSED"
                  THEN refunds[r].amount ELSE 0
<1>1. refunds[r] \in Refund
  BY RowTypes
<1>2. /\ y \in Refund /\ y.booking = refunds[r].booking /\ y.amount = refunds[r].amount
      /\ y.status = "PROCESSED"
  BY <1>1 DEF Refund
<1>3. Rewrites(r, y)
  BY DEF Settles, Rewrites
<1> HIDE DEF y
<1>4. PaidBack(b) \in Nat /\ PaidBack(b)' = PaidBack(b) - old + share
  BY <1>2, <1>3, PaidBackRewritten
<1>5. /\ old \in Nat /\ share \in Nat /\ old <= share
      /\ refunds[r].status # "PROCESSED" => old = 0
  BY <1>1 DEF Refund
<1> HIDE DEF old, share
<1>6. /\ PaidBack(b) \in Nat /\ PaidBack(b)' \in Nat
      /\ PaidBack(b)' <= PaidBack(b) + share
      /\ refunds[r].status # "PROCESSED" => PaidBack(b)' = PaidBack(b) + share
  BY <1>4, <1>5
<1> QED
  BY <1>6 DEF share

(* Other steps settle nothing. *)
LEMMA OpensPaidBack ==
  ASSUME TypeOK, Effect, NEW b \in Booking, NEW x \in Refund, Opens(x)
  PROVE  PaidBack(b)' = PaidBack(b)
<1>1. refunds \in Seq(Refund)
  BY DEF TypeOK, TablesOK
<1> DEFINE n == Len(refunds) + 1
<1>2. /\ DOMAIN refunds' = DOMAIN refunds \cup {n}
      /\ \A r \in DOMAIN refunds : refunds'[r] = refunds[r]
      /\ refunds'[n].status = "CREATED"
  BY <1>1, Appended DEF Opens
<1>3. SettledRows(b)' = SettledRows(b)
  BY <1>2 DEF SettledRows
<1>4. \A r \in SettledRows(b) : refunds'[r].amount = refunds[r].amount
  BY <1>2 DEF SettledRows
<1> QED
  BY <1>3, <1>4, PaidBackSame

LEMMA KeptPaidBack ==
  ASSUME TypeOK, NEW b \in Booking, refunds' = refunds
  PROVE  PaidBack(b)' = PaidBack(b)
BY DEF PaidBack, SettledRows, Amounts

LEMMA PaidBackNat ==
  ASSUME TypeOK, NEW b \in Booking
  PROVE  PaidBack(b) \in Nat
<1>1. refunds \in Seq(Refund) /\ (\A x \in Refund : x.amount \in Nat)
  BY DEF TypeOK, TablesOK, Refund
<1>2. SettledRows(b) \in SUBSET (DOMAIN refunds \cap DOMAIN refunds)
  BY DEF SettledRows
<1> QED
  BY <1>1, <1>2, SumOfRows DEF PaidBack

(* The balance of a booking, and by how much a step moves it from           *)
(* amountPaid: not at all, unless it settles a settled refund or opens one  *)
(* again.                                                                   *)
Balance(b) == Revenue(b) - PaidBack(b)

LEMMA BalanceStep ==
  ASSUME TypeOK, Effect, NEW b \in Booking
  PROVE  /\ Balance(b) \in Int /\ Balance(b)' \in Int
         /\ amountPaid'[b] - Balance(b)' <= amountPaid[b] - Balance(b)
         /\ (\A r \in DOMAIN refunds : InHand(r) => refunds[r].status # "PROCESSED") =>
              amountPaid'[b] - Balance(b)' = amountPaid[b] - Balance(b)
<1> DEFINE Fresh == \A r \in DOMAIN refunds : InHand(r) => refunds[r].status # "PROCESSED"
           Good == /\ Balance(b) \in Int /\ Balance(b)' \in Int
                   /\ amountPaid'[b] - Balance(b)' <= amountPaid[b] - Balance(b)
                   /\ Fresh => amountPaid'[b] - Balance(b)' = amountPaid[b] - Balance(b)
<1>1. amountPaid \in [Booking -> Int] /\ amountPaid' \in [Booking -> Int]
  BY AmountStep DEF TypeOK, TablesOK
<1>2. PaidBack(b) \in Nat /\ Revenue(b) \in Nat
  BY PaidBackNat, PaidStep DEF Revenue, Paid
<1>3. ASSUME NEW x \in Payment, Books(x) PROVE Good
  <2> DEFINE gain == IF x.booking = b /\ x.isDeposit = FALSE THEN x.amount ELSE 0
  <2>1. Revenue(b)' = Revenue(b) + gain
    BY <1>3, PaidStep DEF Revenue, Paid
  <2>2. PaidBack(b)' = PaidBack(b)
    BY <1>3, KeptPaidBack DEF Books
  <2>3. gain \in Nat
    BY DEF Payment
  <2>4. amountPaid'[b] = amountPaid[b] + gain
    BY <1>1, <1>3 DEF Books, Payment
  <2> HIDE DEF gain
  <2> QED
    BY <1>1, <1>2, <2>1, <2>2, <2>3, <2>4 DEF Balance
<1>4. ASSUME ~\E x \in Payment : Books(x)
      PROVE  Revenue(b)' = Revenue(b)
  BY <1>4, PaidStep DEF Revenue, Paid
<1>5. ASSUME Revenue(b)' = Revenue(b), KeepsMoney PROVE Good
  <2>1. PaidBack(b)' = PaidBack(b) /\ amountPaid'[b] = amountPaid[b]
    BY <1>5, KeptPaidBack DEF KeepsMoney
  <2> QED
    BY <1>1, <1>2, <1>5, <2>1 DEF Balance
<1>6. ASSUME Revenue(b)' = Revenue(b), NEW x \in Refund, Opens(x) PROVE Good
  <2>1. PaidBack(b)' = PaidBack(b) /\ amountPaid'[b] = amountPaid[b]
    BY <1>6, OpensPaidBack DEF Opens
  <2> QED
    BY <1>1, <1>2, <1>6, <2>1 DEF Balance
<1>7. ASSUME Revenue(b)' = Revenue(b), NEW r \in DOMAIN refunds, NEW y \in Refund, Marks(r, y)
      PROVE  Good
  <2>1. /\ PaidBack(b)' \in Nat /\ PaidBack(b)' <= PaidBack(b)
        /\ refunds[r].status # "PROCESSED" => PaidBack(b)' = PaidBack(b)
    BY <1>7, MarksPaidBack
  <2>2. InHand(r) /\ amountPaid'[b] = amountPaid[b]
    BY <1>7 DEF Marks
  <2> QED
    BY <1>1, <1>2, <1>7, <2>1, <2>2 DEF Balance
<1>8. ASSUME Revenue(b)' = Revenue(b), NEW r \in DOMAIN refunds, Settles(r) PROVE Good
  <2> DEFINE share == IF refunds[r].booking = b THEN refunds[r].amount ELSE 0
  <2>1. /\ PaidBack(b)' \in Nat /\ PaidBack(b)' <= PaidBack(b) + share
        /\ refunds[r].status # "PROCESSED" => PaidBack(b)' = PaidBack(b) + share
    BY <1>8, SettlesPaidBack
  <2>2. refunds[r] \in Refund
    BY RowTypes
  <2>3. share \in Nat /\ InHand(r) /\ amountPaid'[b] = amountPaid[b] - share
    BY <1>1, <1>8, <2>2 DEF Settles, Refund
  <2> HIDE DEF share
  <2> QED
    BY <1>1, <1>2, <1>8, <2>1, <2>3 DEF Balance
<1> HIDE DEF Good, Fresh
<1>9. Good
  BY <1>3, <1>4, <1>5, <1>6, <1>7, <1>8 DEF Effect, KeepsBooks, Returns, Audits
<1> QED
  BY <1>9 DEF Good, Fresh

LEMMA InitBalances == Init => BooksBalance
<1> SUFFICES ASSUME Init, NEW b \in Booking
             PROVE  /\ amountPaid[b] = Revenue(b) - PaidBack(b)
                    /\ depositHeld[b] + depositReturned[b] + auditLost[b] = Deposits(b)
                    /\ Returning(b) = {}
  BY DEF BooksBalance, LedgerBalances, DepositBalances
<1>1. SettledRows(b) = {} /\ (\A d \in BOOLEAN : PaidRows(b, d) = {})
  BY DEF Init, SettledRows, PaidRows
<1>2. Revenue(b) = 0 /\ PaidBack(b) = 0 /\ Deposits(b) = 0
  BY <1>1, SumEmpty DEF Revenue, PaidBack, Deposits
<1>3. Returning(b) = {}
  BY DEF Init, Returning, Idle
<1> QED
  BY <1>2, <1>3 DEF Init

(* No race, redelivery or failure makes a booking look better paid than its *)
(* rows say (applyPayment, markRefundProcessed,                             *)
(* settleRefundManuallyAction).                                             *)
THEOREM LedgerNeverOverstatesHolds == Spec => []LedgerNeverOverstates
<1>1. Init => LedgerNeverOverstates
  <2>1. Init => LedgerBalances
    BY InitBalances DEF BooksBalance
  <2>2. Init => \A b \in Booking : amountPaid[b] = 0
    BY DEF Init
  <2> QED
    BY <2>1, <2>2 DEF LedgerBalances, LedgerNeverOverstates
<1>2. IInv /\ LedgerNeverOverstates /\ [Next]_vars => LedgerNeverOverstates'
  <2> SUFFICES ASSUME IInv, LedgerNeverOverstates, [Next]_vars, NEW b \in Booking
               PROVE  amountPaid'[b] <= Balance(b)'
    BY DEF LedgerNeverOverstates, Balance
  <2>1. TypeOK /\ Effect
    BY NextEffect DEF IInv
  <2>2. amountPaid[b] \in Int /\ amountPaid'[b] \in Int
    BY <2>1, AmountStep DEF TypeOK, TablesOK
  <2>3. amountPaid[b] <= Balance(b)
    BY DEF LedgerNeverOverstates, Balance
  <2>4. /\ Balance(b) \in Int /\ Balance(b)' \in Int
        /\ amountPaid'[b] - Balance(b)' <= amountPaid[b] - Balance(b)
    BY <2>1, BalanceStep
  <2> QED
    BY <2>2, <2>3, <2>4
<1> QED
  BY <1>1, <1>2, InitIInv, NextIInv, PTL DEF Spec

--------------------------------------------------------------------------------
(* One handler at a time. *)

(* A handler that a step puts to work has read what it keeps in that step,  *)
(* or goes on from what it had read.                                        *)
FreshAt(h) ==
  /\ req[h].op \in HasRead => IsOpen(req[h].refund)
  /\ req[h].op = "deposit" => req[h].amount = depositHeld[req[h].booking]

LEMMA FreshRefund ==
  ASSUME NEW h \in Handler, NEW op, NEW r, op # "deposit",
         req'[h] = Having(op, r), refunds' = refunds, IsOpen(r)
  PROVE  FreshAt(h)'
BY DEF FreshAt, Having, IsOpen

LEMMA FreshRest ==
  ASSUME NEW h \in Handler, req'[h].op \notin HasRead, req'[h].op # "deposit"
  PROVE  FreshAt(h)'
BY DEF FreshAt

LEMMA FreshReceive ==
  ASSUME IInv, NEW q \in Request, Receive(q)
  PROVE  FreshAt(q)'
<1> USE DEF Handler
<1>1. req \in [Handler -> InFlight \cup {Idle}]
  BY DEF IInv, TypeOK, HandlersOK
<1>2. ASSUME NEW b \in Booking, NEW amount, DeskRead(q, b, amount) \/ RefundRead(q, b, amount)
      PROVE  FreshAt(q)'
  BY <1>1, <1>2, FreshRest DEF DeskRead, RefundRead, HasRead
<1>3. ASSUME NEW b \in Booking, DepositRead(q, b) PROVE FreshAt(q)'
  <2>1. /\ req'[q] = [op |-> "deposit", booking |-> b, amount |-> depositHeld[b]]
        /\ depositHeld' = depositHeld
    BY <1>1, <1>3 DEF DepositRead, book, deposits
  <2> QED
    BY <2>1 DEF FreshAt, HasRead
<1>4. ASSUME NEW r \in DOMAIN refunds, RetryRead(q, r) \/ SettleRead(q, r) PROVE FreshAt(q)'
  <2>1. \E op \in {"retry", "settle"} : req'[q] = Having(op, r)
    BY <1>1, <1>4 DEF RetryRead, SettleRead
  <2>2. refunds' = refunds /\ IsOpen(r)
    BY <1>4 DEF RetryRead, SettleRead, IsOpen, book, deposits
  <2> QED
    BY <2>1, <2>2, FreshRefund
<1> QED
  BY <1>2, <1>3, <1>4 DEF Receive

LEMMA FreshDeliver ==
  ASSUME IInv, NEW e \in Event, Deliver(e), FreshAt(e)
  PROVE  FreshAt(e)'
<1> USE DEF Handler
<1>1. req \in [Handler -> InFlight \cup {Idle}]
  BY DEF IInv, TypeOK, HandlersOK
<1>2. CASE DeliverCapture(e)
  BY <1>1, <1>2, FreshRest DEF DeliverCapture, HasRead, Idle
<1>3. CASE DeliverRefund(e)
  <2>1. CASE req' = req
    BY <1>3, <2>1 DEF DeliverRefund, book, deposits, FreshAt, IsOpen
  <2>2. CASE req' # req
    BY <1>1, <1>3, <2>2, FreshRest DEF DeliverRefund, HasRead, OutcomeOp
  <2> QED
    BY <2>1, <2>2
<1> QED
  BY <1>2, <1>3 DEF Deliver

LEMMA FreshProceed ==
  ASSUME IInv, NEW h \in Handler, Proceed(h), FreshAt(h)
  PROVE  FreshAt(h)'
<1>1. req \in [Handler -> InFlight \cup {Idle}]
  BY DEF IInv, TypeOK, HandlersOK
<1>2. CASE DeskCommit(h) \/ DepositAudit(h) \/ CaptureCommit(h) \/ CaptureDuplicate(h)
           \/ RefundInsertOnline(h) \/ Process(h) \/ FailCommit(h) \/ RetryCommit(h)
  <2>1. req'[h] = Idle
    BY <1>1, <1>2 DEF DeskCommit, DepositAudit, CaptureCommit, CaptureDuplicate,
         RefundInsertOnline, Process, FailCommit, RetryCommit
  <2> QED
    BY <2>1, FreshRest DEF Idle, HasRead
<1>3. ASSUME NEW i \in GatewayRefund, RefundInitiate(h, i) PROVE FreshAt(h)'
  BY <1>1, <1>3, FreshRest DEF RefundInitiate, HasRead
<1>4. CASE RefundInsertDesk(h) \/ SettleCommit(h) \/ DepositCommit(h)
  <2>1. req'[h].op \in {"mark", "audit"}
    <3>1. CASE DepositCommit(h)
      <4>1. req[h] \in [op : {"deposit", "audit"}, booking : Booking, amount : Nat]
        BY <1>1, <3>1 DEF DepositCommit, InFlight, Idle
      <4>2. req'[h] = [req[h] EXCEPT !.op = "audit"]
        BY <1>1, <3>1 DEF DepositCommit
      <4>3. QED
        BY <4>1, <4>2
    <3>2. QED
      BY <1>1, <1>4, <3>1 DEF RefundInsertDesk, SettleCommit
  <2> QED
    BY <2>1, FreshRest DEF HasRead
<1>5. ASSUME NEW i \in GatewayRefund, RetryInitiate(h, i) PROVE FreshAt(h)'
  <2>1. req'[h].op = "retried" /\ req'[h].refund = req[h].refund /\ req[h].op = "retry"
    BY <1>1, <1>5 DEF RetryInitiate
  <2>2. refunds' = refunds
    BY <1>5 DEF RetryInitiate, book, deposits
  <2> QED
    BY <2>1, <2>2 DEF FreshAt, HasRead, IsOpen
<1>6. CASE MarkRead(h) \/ FailRead(h)
  <2> DEFINE r == req[h].refund
  <2>1. \/ req'[h] = Idle
        \/ /\ \E op \in {"process", "fail"} : req'[h] = Having(op, r)
           /\ IsOpen(r)
    BY <1>1, <1>6 DEF MarkRead, FailRead, IsOpen
  <2>2. refunds' = refunds
    BY <1>6 DEF MarkRead, FailRead, book, deposits
  <2> QED
    BY <2>1, <2>2, FreshRefund, FreshRest DEF Idle, HasRead
<1> QED
  BY <1>2, <1>3, <1>4, <1>5, <1>6 DEF Proceed

(* Of the others nothing is left to read: they were idle. *)
LEMMA OnlyOneMoves ==
  ASSUME IInv, [SerialNext]_vars
  PROVE  \/ UNCHANGED vars
         \/ /\ Next
            /\ \A h \in Handler : req'[h] = req[h] => req'[h] = Idle
BY DEF SerialNext

LEMMA SerialFresh ==
  ASSUME IInv, ReadIsCurrent, [SerialNext]_vars
  PROVE  ReadIsCurrent'
<1>1. \A h \in Handler : FreshAt(h)
  BY DEF ReadIsCurrent, FreshAt
<1>2. SUFFICES ASSUME NEW h \in Handler PROVE FreshAt(h)'
  BY DEF ReadIsCurrent, FreshAt
<1>3. CASE UNCHANGED vars
  BY <1>1, <1>3 DEF vars, FreshAt, IsOpen
<1>4. CASE Next /\ req'[h] # req[h]
  <2>1. req \in [Handler -> InFlight \cup {Idle}]
    BY DEF IInv, TypeOK, HandlersOK
  <2>2. CASE Outside
    BY <1>4, <2>2 DEF Outside, RecordDeposit, Capture, Decide
  <2>3. ASSUME NEW q \in Request, Receive(q) PROVE FreshAt(h)'
    <3>1. q = h
      BY <1>4, <2>1, <2>3 DEF Receive, DeskRead, RefundRead, DepositRead, RetryRead, SettleRead,
           Handler
    <3> QED
      BY <2>3, <3>1, FreshReceive
  <2>4. ASSUME NEW e \in Event, Deliver(e) PROVE FreshAt(h)'
    <3>1. e = h
      BY <1>4, <2>1, <2>4 DEF Deliver, DeliverCapture, DeliverRefund, Handler
    <3> QED
      BY <1>1, <2>4, <3>1, FreshDeliver
  <2>5. ASSUME NEW k \in Handler, Proceed(k) PROVE FreshAt(h)'
    <3>1. k = h
      BY <1>4, <2>1, <2>5 DEF Proceed, DeskCommit, DepositCommit, DepositAudit, CaptureCommit,
           CaptureDuplicate, RefundInitiate, RetryInitiate, RefundInsertOnline,
           RefundInsertDesk, MarkRead, Process, FailRead, FailCommit, RetryCommit, SettleCommit
    <3> QED
      BY <1>1, <2>5, <3>1, FreshProceed
  <2>6. ASSUME NEW k \in Handler, Abandon(k) PROVE FreshAt(h)'
    <3>1. req'[h] = Idle
      BY <1>4, <2>1, <2>6 DEF Abandon
    <3> QED
      BY <3>1, FreshRest DEF Idle, HasRead
  <2> QED
    BY <1>4, <2>2, <2>3, <2>4, <2>5, <2>6 DEF Next, Steady
<1>5. CASE req'[h] = Idle
  BY <1>5, FreshRest DEF Idle, HasRead
<1> QED
  BY <1>3, <1>4, <1>5, OnlyOneMoves

LEMMA SerialLedger ==
  ASSUME IInv, ReadIsCurrent, LedgerBalances, [Next]_vars
  PROVE  LedgerBalances'
<1> SUFFICES ASSUME NEW b \in Booking PROVE amountPaid'[b] = Balance(b)'
  BY DEF LedgerBalances, Balance
<1>1. TypeOK /\ Effect
  BY NextEffect DEF IInv
<1>2. \A r \in DOMAIN refunds : InHand(r) => refunds[r].status # "PROCESSED"
  BY DEF InHand, ReadIsCurrent, IsOpen
<1>3. amountPaid[b] = Balance(b)
  BY DEF LedgerBalances, Balance
<1>4. amountPaid[b] \in Int /\ amountPaid'[b] \in Int
  BY <1>1, AmountStep DEF TypeOK, TablesOK
<1>5. /\ Balance(b) \in Int /\ Balance(b)' \in Int
      /\ amountPaid'[b] - Balance(b)' = amountPaid[b] - Balance(b)
  BY <1>1, <1>2, BalanceStep
<1> QED
  BY <1>3, <1>4, <1>5

LEMMA SerialOne ==
  ASSUME IInv, OneInFlight, [SerialNext]_vars
  PROVE  OneInFlight'
<1>1. CASE UNCHANGED vars
  BY <1>1 DEF vars, OneInFlight
<1>2. CASE SerialNext
  <2>1. \A h \in Handler : req[h] # Idle => req'[h] # req[h]
    BY <1>2 DEF SerialNext
  <2>2. req \in [Handler -> InFlight \cup {Idle}]
    BY DEF IInv, TypeOK, HandlersOK
  <2>3. HandlerStep
    BY <1>2, NextHandlerStep DEF SerialNext
  <2>4. CASE req' = req
    BY <2>1, <2>4 DEF OneInFlight
  <2>5. ASSUME NEW h \in Handler, NEW v \in InFlight \cup {Idle}, Goes(h, v) PROVE OneInFlight'
    <3>1. req' = [req EXCEPT ![h] = v]
      BY <2>5 DEF Goes
    <3>2. \A k \in Handler \ {h} : req'[k] = req[k] /\ req[k] = Idle
      BY <2>1, <2>2, <3>1
    <3>3. QED
      BY <3>2 DEF OneInFlight
  <2>6. QED
    BY <2>3, <2>4, <2>5 DEF HandlerStep
<1>3. QED
  BY <1>1, <1>2

(* A handler that takes a step keeps the others as they are. *)
LEMMA OthersRest ==
  ASSUME IInv, NEW h \in Handler, Proceed(h) \/ Abandon(h), NEW k \in Handler, k # h
  PROVE  req'[k] = req[k]
<1>1. req \in [Handler -> InFlight \cup {Idle}]
  BY DEF IInv, TypeOK, HandlersOK
<1>2. QED
  BY <1>1 DEF Proceed, Abandon, DeskCommit, DepositCommit, DepositAudit, CaptureCommit,
       CaptureDuplicate, RefundInitiate, RetryInitiate, RefundInsertOnline, RefundInsertDesk,
       MarkRead, Process, FailRead, FailCommit, RetryCommit, SettleCommit

LEMMA UnseenRests ==
  ASSUME IInv, UnseenIsIdle, [Next]_vars
  PROVE  UnseenIsIdle'
<1> SUFFICES ASSUME NEW e \in Event, e \notin seen' PROVE req'[e] = Idle
  BY DEF UnseenIsIdle
<1> USE HandlersAssumption DEF Handler
<1>1. req \in [Handler -> InFlight \cup {Idle}]
  BY DEF IInv, TypeOK, HandlersOK
<1>2. CASE Outside \/ UNCHANGED vars
  BY <1>2 DEF Outside, RecordDeposit, Capture, Decide, UnseenIsIdle, vars
<1>3. ASSUME NEW q \in Request, Receive(q) PROVE req'[e] = Idle
  <2>1. seen' = seen /\ req'[e] = req[e]
    BY <1>1, <1>3 DEF Receive, DeskRead, RefundRead, DepositRead, RetryRead, SettleRead
  <2>2. QED
    BY <2>1 DEF UnseenIsIdle
<1>4. ASSUME NEW k \in Event, Deliver(k) PROVE req'[e] = Idle
  <2>1. e \notin seen /\ e # k
    BY <1>4 DEF Deliver, DeliverCapture, DeliverRefund
  <2>2. req'[e] = req[e]
    BY <1>1, <1>4, <2>1 DEF Deliver, DeliverCapture, DeliverRefund
  <2>3. QED
    BY <2>1, <2>2 DEF UnseenIsIdle
<1>5. ASSUME NEW h \in Handler, Proceed(h) \/ Abandon(h) PROVE req'[e] = Idle
  <2>1. seen' = seen
    BY <1>5 DEF Proceed, Abandon, DeskCommit, DepositCommit, DepositAudit, CaptureCommit,
         CaptureDuplicate, RefundInitiate, RetryInitiate, RefundInsertOnline, RefundInsertDesk,
         MarkRead, Process, FailRead, FailCommit, RetryCommit, SettleCommit
  <2>2. req[h].op # "idle"
    BY <1>1, <1>5 DEF Proceed, Abandon, DeskCommit, DepositCommit, DepositAudit, CaptureCommit,
         CaptureDuplicate, RefundInitiate, RetryInitiate, RefundInsertOnline, RefundInsertDesk,
         MarkRead, Process, FailRead, FailCommit, RetryCommit, SettleCommit, InFlight, Idle
  <2>3. req[e] = Idle
    BY <2>1 DEF UnseenIsIdle
  <2>4. e # h
    BY <2>2, <2>3 DEF Idle
  <2>5. QED
    BY <1>5, <2>3, <2>4, OthersRest
<1>6. QED
  BY <1>2, <1>3, <1>4, <1>5 DEF Next, Steady

(* Only the two steps of a return touch a deposit on its way into the log.  *)
StillReturning ==
  \A h \in Handler : (req[h].op = "audit" \/ req'[h].op = "audit") => req'[h] = req[h]

LEMMA ProceedReturns ==
  ASSUME IInv, NEW h \in Handler, Proceed(h) \/ Abandon(h)
  PROVE  Returns(h) \/ Audits(h) \/ StillReturning
<1>1. req \in [Handler -> InFlight \cup {Idle}]
  BY DEF IInv, TypeOK, HandlersOK
<1>2. CASE DepositCommit(h)
  BY <1>2 DEF DepositCommit, Returns, KeepsMoney
<1>3. CASE DepositAudit(h)
  BY <1>3 DEF DepositAudit, Audits, KeepsMoney
<1>4. CASE Abandon(h) /\ req[h].op = "audit"
  BY <1>4 DEF Abandon, Audits, KeepsMoney
<1>5. ASSUME ~DepositCommit(h), ~DepositAudit(h), ~(Abandon(h) /\ req[h].op = "audit")
      PROVE  StillReturning
  <2>1. req[h].op # "audit"
    BY <1>5 DEF Proceed, DeskCommit, CaptureCommit, CaptureDuplicate, RefundInitiate,
         RetryInitiate, RefundInsertOnline, RefundInsertDesk, MarkRead, Process, FailRead,
         FailCommit, RetryCommit, SettleCommit
  <2>2. ASSUME NEW i \in GatewayRefund, RefundInitiate(h, i) \/ RetryInitiate(h, i)
        PROVE  req'[h].op # "audit"
    BY <1>1, <2>2 DEF RefundInitiate, RetryInitiate
  <2>3. ASSUME RefundInsertDesk(h) \/ SettleCommit(h) PROVE req'[h].op # "audit"
    <3>1. req'[h].op = "mark"
      BY <1>1, <2>3 DEF RefundInsertDesk, SettleCommit
    <3>2. QED
      BY <3>1
  <2>4. ASSUME MarkRead(h) \/ FailRead(h) PROVE req'[h].op # "audit"
    BY <1>1, <2>4 DEF MarkRead, FailRead, Having, Idle
  <2>5. ASSUME \/ DeskCommit(h) \/ CaptureCommit(h) \/ CaptureDuplicate(h)
               \/ RefundInsertOnline(h) \/ Process(h) \/ FailCommit(h) \/ RetryCommit(h)
               \/ Abandon(h)
        PROVE  req'[h].op # "audit"
    <3>1. req'[h] = Idle
      BY <1>1, <2>5 DEF DeskCommit, CaptureCommit, CaptureDuplicate, RefundInsertOnline, Process,
           FailCommit, RetryCommit, Abandon
    <3>2. QED
      BY <3>1 DEF Idle
  <2>6. req'[h].op # "audit"
    BY <1>5, <2>2, <2>3, <2>4, <2>5 DEF Proceed
  <2>7. QED
    BY <2>1, <2>6, OthersRest DEF StillReturning
<1>6. QED
  BY <1>2, <1>3, <1>4, <1>5

LEMMA NextReturns ==
  ASSUME IInv, UnseenIsIdle, [Next]_vars
  PROVE  (\E h \in Handler : Returns(h) \/ Audits(h)) \/ StillReturning
<1>1. req \in [Handler -> InFlight \cup {Idle}]
  BY DEF IInv, TypeOK, HandlersOK
<1>2. CASE req' = req
  BY <1>2 DEF StillReturning
<1>3. ASSUME NEW q \in Request, Receive(q) PROVE StillReturning
  <2>1. req[q].op = "idle" /\ \E v : req' = [req EXCEPT ![q] = v] /\ v.op # "audit"
    BY <1>3 DEF Receive, DeskRead, RefundRead, DepositRead, RetryRead, SettleRead, Having, Idle
  <2>2. QED
    BY <1>1, <2>1 DEF StillReturning, Handler
<1>4. ASSUME NEW e \in Event, Deliver(e), req' # req PROVE StillReturning
  <2>1. req[e].op = "idle"
    BY <1>4 DEF Deliver, DeliverCapture, DeliverRefund, UnseenIsIdle, Idle
  <2>2. e \in Handler /\ \A h \in Handler \ {e} : req'[h] = req[h]
    BY <1>1, <1>4 DEF Deliver, DeliverCapture, DeliverRefund, Handler
  <2>3. ASSUME DeliverCapture(e) PROVE req'[e].op # "audit"
    BY <1>1, <2>2, <2>3 DEF DeliverCapture, Idle
  <2>4. ASSUME DeliverRefund(e) PROVE req'[e].op # "audit"
    <3>1. req'[e].op = OutcomeOp(decided[e.refund])
      BY <1>1, <1>4, <2>2, <2>4 DEF DeliverRefund
    <3>2. QED
      BY <3>1 DEF OutcomeOp
  <2>5. QED
    BY <1>4, <2>1, <2>2, <2>3, <2>4 DEF Deliver, StillReturning
<1>5. CASE Outside \/ UNCHANGED vars
  BY <1>2, <1>5 DEF Outside, RecordDeposit, Capture, Decide, vars
<1>6. QED
  BY <1>2, <1>3, <1>4, <1>5, ProceedReturns DEF Next, Steady

(* What is known of the deposits of b. *)
Known(b) == depositHeld[b] + depositReturned[b] + auditLost[b]

LEMMA SerialDeposits ==
  ASSUME IInv, ReadIsCurrent, OneInFlight, UnseenIsIdle, DepositBalances, [Next]_vars
  PROVE  DepositBalances'
<1> SUFFICES ASSUME NEW b \in Booking
             PROVE  /\ Returning(b)' = {} => Known(b)' = Deposits(b)'
                    /\ \A h \in Returning(b)' : Known(b)' + req'[h].amount = Deposits(b)'
  BY DEF DepositBalances, Known
<1> DEFINE Goal == /\ Returning(b)' = {} => Known(b)' = Deposits(b)'
                   /\ \A h \in Returning(b)' : Known(b)' + req'[h].amount = Deposits(b)'
<1>1. TypeOK /\ Effect
  BY NextEffect DEF IInv
<1>2. /\ depositHeld \in [Booking -> Nat] /\ depositReturned \in [Booking -> Nat]
      /\ auditLost \in [Booking -> Nat] /\ req \in [Handler -> InFlight \cup {Idle}]
  BY <1>1 DEF TypeOK, TablesOK, HandlersOK
<1>3. /\ Returning(b) = {} => Known(b) = Deposits(b)
      /\ \A h \in Returning(b) : Known(b) + req[h].amount = Deposits(b)
      /\ Deposits(b) \in Nat
  BY <1>1, PaidStep DEF DepositBalances, Known, Deposits, Paid
<1>4. Known(b) \in Nat
  BY <1>2 DEF Known
<1>5. ASSUME ~\E x \in Payment : Books(x)
      PROVE  Deposits(b)' = Deposits(b)
  BY <1>1, <1>5, PaidStep DEF Deposits, Paid
<1>6. ASSUME NEW h \in Handler, req[h].op \in {"deposit", "audit"}
      PROVE  \A k \in Handler \ {h} : req[k].op = "idle"
  BY <1>6 DEF OneInFlight, Idle
<1>7. ASSUME NEW h \in Handler, Returns(h), Deposits(b)' = Deposits(b) PROVE Goal
  <2>1. /\ req[h].booking \in Booking /\ req[h].amount \in Nat
        /\ req[h].amount = depositHeld[req[h].booking] /\ req[h].op = "deposit"
    BY <1>1, <1>7, HandlerShape DEF Returns, ReadIsCurrent
  <2>2. req[h] \in [op : {"deposit", "audit"}, booking : Booking, amount : Nat]
    BY <1>2, <2>1 DEF InFlight, Idle
  <2>3. /\ req'[h].op = "audit" /\ req'[h].booking = req[h].booking
        /\ req'[h].amount = req[h].amount
        /\ \A k \in Handler \ {h} : req'[k] = req[k]
    BY <1>2, <1>7, <2>2 DEF Returns
  <2>4. Returning(b) = {} /\ Returning(b)' = IF req[h].booking = b THEN {h} ELSE {}
    BY <1>6, <2>1, <2>3 DEF Returning
  <2>5. Known(b)' = IF req[h].booking = b THEN Known(b) - req[h].amount ELSE Known(b)
    BY <1>2, <1>7, <2>1 DEF Known, Returns
  <2>6. QED
    BY <1>3, <1>4, <1>7, <2>1, <2>3, <2>4, <2>5
<1>8. ASSUME NEW h \in Handler, Audits(h), Deposits(b)' = Deposits(b) PROVE Goal
  <2>1. req[h].booking \in Booking /\ req[h].amount \in Nat /\ req[h].op = "audit"
    BY <1>1, <1>8, HandlerShape DEF Audits
  <2>2. req'[h] = Idle /\ \A k \in Handler \ {h} : req'[k] = req[k]
    BY <1>2, <1>8 DEF Audits
  <2>3. Returning(b)' = {} /\ Returning(b) = IF req[h].booking = b THEN {h} ELSE {}
    BY <1>6, <2>1, <2>2 DEF Returning, Idle
  <2>4. Known(b)' = IF req[h].booking = b THEN Known(b) + req[h].amount ELSE Known(b)
    BY <1>2, <1>8, <2>1 DEF Known, Audits
  <2>5. QED
    BY <1>3, <1>4, <1>8, <2>1, <2>3, <2>4
<1>9. ASSUME StillReturning,
             NEW gain \in Nat, Known(b)' = Known(b) + gain, Deposits(b)' = Deposits(b) + gain
      PROVE  Goal
  <2>1. Returning(b)' = Returning(b) /\ \A h \in Returning(b) : req'[h] = req[h]
    BY <1>9 DEF StillReturning, Returning
  <2>2. \A h \in Returning(b) : req[h].amount \in Nat
    BY <1>1, HandlerShape DEF Returning
  <2>3. QED
    BY <1>3, <1>4, <1>9, <2>1, <2>2
<1>10. ASSUME StillReturning, NEW x \in Payment, Books(x) PROVE Goal
  <2> DEFINE gain == IF x.booking = b /\ x.isDeposit = TRUE THEN x.amount ELSE 0
  <2>1. Deposits(b)' = Deposits(b) + gain
    BY <1>1, <1>10, PaidStep DEF Deposits, Paid
  <2>2. gain \in Nat /\ depositHeld'[b] = depositHeld[b] + gain
    BY <1>2, <1>10 DEF Books, Payment
  <2>3. depositReturned' = depositReturned /\ auditLost' = auditLost
    BY <1>10 DEF Books
  <2> HIDE DEF gain
  <2>4. Known(b)' = Known(b) + gain
    BY <1>2, <2>2, <2>3 DEF Known
  <2> HIDE DEF Goal
  <2> QED
    BY <1>9, <1>10, <2>1, <2>2, <2>4
<1>11. ASSUME StillReturning, KeepsDeposits, Deposits(b)' = Deposits(b) PROVE Goal
  <2>1. Known(b)' = Known(b) + 0
    BY <1>4, <1>11 DEF Known, KeepsDeposits, deposits
  <2>2. Deposits(b)' = Deposits(b) + 0
    BY <1>3, <1>11
  <2> HIDE DEF Goal
  <2> QED
    BY <1>9, <1>11, <2>1, <2>2
<1> HIDE DEF Goal
<1>12. Goal
  <2>1. CASE \E x \in Payment : Books(x)
    <3>1. ASSUME NEW h \in Handler, Returns(h) \/ Audits(h) PROVE FALSE
      <4>1. payments \in Seq(Payment) /\ payments' = payments
        BY <1>1, <3>1 DEF Returns, Audits, KeepsMoney, TypeOK, TablesOK
      <4>2. PICK x \in Payment : payments' = Append(payments, x)
        BY <2>1 DEF Books
      <4>3. Len(payments') = Len(payments) + 1 /\ Len(payments) \in Nat
        BY <4>1, <4>2, Appended, LenProperties
      <4>4. QED
        BY <4>1, <4>3
    <3>2. QED
      BY <1>10, <2>1, <3>1, NextReturns
  <2>2. CASE ~\E x \in Payment : Books(x)
    <3>1. Deposits(b)' = Deposits(b)
      BY <1>5, <2>2
    <3>2. (\E h \in Handler : Returns(h) \/ Audits(h)) \/ KeepsDeposits
      BY <1>1, <2>2 DEF Effect, KeepsBooks, Opens, Marks, Settles
    <3>3. QED
      BY <1>7, <1>8, <1>11, <3>1, <3>2, NextReturns
  <2>3. QED
    BY <2>1, <2>2
<1> QED
  BY <1>12 DEF Goal

(* With one handler at a time, what a handler has read holds when it        *)
(* writes.  So the rent balances whatever fails half way, and the deposits  *)
(* do but for the one return on its way into the audit log and for those    *)
(* that died between their two queries (applyPayment, markRefundProcessed,  *)
(* returnDepositAction).                                                    *)
THEOREM BooksBalanceHolds == SerialSpec => []BooksBalance
<1>1. Init => SerialInv
  <2>1. Init => ReadIsCurrent
    BY DEF Init, ReadIsCurrent, Idle, HasRead
  <2>2. Init => OneInFlight /\ UnseenIsIdle
    BY DEF Init, OneInFlight, UnseenIsIdle, Handler
  <2> QED
    BY <2>1, <2>2, InitBalances DEF SerialInv
<1>2. IInv /\ SerialInv /\ [SerialNext]_vars => SerialInv'
  <2>1. [SerialNext]_vars => [Next]_vars
    BY DEF SerialNext
  <2> QED
    BY <2>1, SerialFresh, SerialOne, UnseenRests, SerialLedger, SerialDeposits
       DEF SerialInv, BooksBalance
<1>3. IInv /\ [SerialNext]_vars => IInv'
  BY NextIInv DEF SerialNext
<1>4. SerialInv => BooksBalance
  BY DEF SerialInv
<1> QED
  BY <1>1, <1>2, <1>3, <1>4, InitIInv, PTL DEF SerialSpec

--------------------------------------------------------------------------------
(* Acknowledged captures. *)

(* A capture on its way leaves the handler only once it is recorded. *)
LEMMA ProceedAcknowledged ==
  ASSUME IInv, NEW e \in Handler, NEW g, req[e] = [op |-> "capture", gateway |-> g],
         NEW h \in Handler, Proceed(h)
  PROVE  req'[e] = req[e] \/ Recorded(g) \/ Recorded(g)'
<1>0. req \in [Handler -> InFlight \cup {Idle}]
  BY DEF IInv, TypeOK, HandlersOK
<1>1. CASE h # e
  BY <1>0, <1>1 DEF Proceed, DeskCommit, DepositCommit, DepositAudit, CaptureCommit, CaptureDuplicate,
       RefundInitiate, RetryInitiate, RefundInsertOnline, RefundInsertDesk, MarkRead, Process,
       FailRead, FailCommit, RetryCommit, SettleCommit
<1>2. CASE h = e
  <2>1. CaptureCommit(e) \/ CaptureDuplicate(e)
    <3>1. req[e].op = "capture"
      OBVIOUS
    <3>2. QED
      BY <1>2, <3>1 DEF Proceed, DeskCommit, DepositCommit, DepositAudit, RefundInitiate, RetryInitiate,
         RefundInsertOnline, RefundInsertDesk, MarkRead, Process, FailRead, FailCommit,
         RetryCommit, SettleCommit
  <2>2. CASE CaptureDuplicate(e)
    BY <2>2 DEF CaptureDuplicate
  <2>3. CASE CaptureCommit(e)
    <3>1. payments \in Seq(Payment)
      BY DEF IInv, TypeOK, TablesOK
    <3> DEFINE x == [booking |-> captured[g].booking, amount |-> captured[g].amount,
                     isDeposit |-> FALSE, gateway |-> g, status |-> "CAPTURED"]
    <3>2. payments' = Append(payments, x)
      BY <2>3 DEF CaptureCommit, ApplyPayment
    <3>3. Len(payments) + 1 \in DOMAIN payments' /\ payments'[Len(payments) + 1].gateway = g
      BY <3>1, <3>2, LenProperties
    <3>4. QED
      BY <3>3 DEF Recorded
  <2>4. QED
    BY <2>1, <2>2, <2>3
<1>3. QED
  BY <1>1, <1>2

LEMMA RecordedStays ==
  ASSUME IInv, [Next]_vars, NEW g, Recorded(g)
  PROVE  Recorded(g)'
<1>1. Effect /\ TypeOK
  BY NextEffect DEF IInv
<1>2. PICK p \in DOMAIN payments : payments[p].gateway = g
  BY DEF Recorded
<1>3. p \in DOMAIN payments' /\ payments'[p].gateway = g
  BY <1>1, <1>2, PaymentsStay, RowTypes, Closed
<1>4. QED
  BY <1>3 DEF Recorded

LEMMA SteadyAcknowledged ==
  IInv /\ AcknowledgedIsRecorded /\ [Steady]_vars => AcknowledgedIsRecorded'
<1> SUFFICES ASSUME IInv, AcknowledgedIsRecorded, [Steady]_vars, NEW e \in CaptureEvent,
                    e \in seen'
             PROVE  Recorded(e.payment)' \/ req'[e] = [op |-> "capture", gateway |-> e.payment]
  BY DEF AcknowledgedIsRecorded
<1> DEFINE way == [op |-> "capture", gateway |-> e.payment]
<1>1. [Next]_vars
  BY DEF Next
<1>2. e \in Handler /\ e \notin RefundEvent /\ way # Idle
  BY DEF Handler, Event, CaptureEvent, RefundEvent, Idle
<1>3. req \in [Handler -> InFlight \cup {Idle}]
  BY DEF IInv, TypeOK, HandlersOK
<1>4. CASE Recorded(e.payment)
  BY <1>1, <1>4, RecordedStays
<1>5. ASSUME ~Recorded(e.payment), NEW k \in Event, Deliver(k)
      PROVE  req'[e] = way
  <2>1. CASE k = e
    BY <1>2, <1>3, <1>5, <2>1 DEF Deliver, DeliverCapture
  <2>2. CASE k # e
    <3>1. e \in seen
      BY <1>5, <2>2 DEF Deliver, DeliverCapture, DeliverRefund
    <3>2. req'[e] = req[e]
      BY <1>2, <1>3, <1>5, <2>2 DEF Deliver, DeliverCapture, DeliverRefund
    <3>3. QED
      BY <1>5, <3>1, <3>2 DEF AcknowledgedIsRecorded
  <2>3. QED
    BY <2>1, <2>2
<1>6. ASSUME ~Recorded(e.payment), ~\E k \in Event : Deliver(k)
      PROVE  Recorded(e.payment)' \/ req'[e] = way
  <2>1. seen' = seen
    BY <1>6 DEF Steady, Outside, RecordDeposit, Capture, Decide, Receive, DeskRead, RefundRead,
         DepositRead, RetryRead, SettleRead, Proceed, DeskCommit, DepositCommit, DepositAudit, CaptureCommit,
         CaptureDuplicate, RefundInitiate, RetryInitiate, RefundInsertOnline, RefundInsertDesk,
         MarkRead, Process, FailRead, FailCommit, RetryCommit, SettleCommit, vars
  <2>2. req[e] = way
    BY <1>6, <2>1 DEF AcknowledgedIsRecorded
  <2>3. CASE Outside \/ UNCHANGED vars
    BY <2>2, <2>3 DEF Outside, RecordDeposit, Capture, Decide, vars
  <2>4. ASSUME NEW q \in Request, Receive(q) PROVE req'[e] = way
    <3>1. req[q] = Idle
      BY <2>4 DEF Receive, DeskRead, RefundRead, DepositRead, RetryRead, SettleRead
    <3>2. q # e
      BY <1>2, <2>2, <3>1
    <3>3. QED
      BY <1>2, <1>3, <2>2, <2>4, <3>2 DEF Receive, DeskRead, RefundRead, DepositRead, RetryRead, SettleRead
  <2>5. ASSUME NEW h \in Handler, Proceed(h) PROVE Recorded(e.payment)' \/ req'[e] = way
    BY <1>2, <1>6, <2>2, <2>5, ProceedAcknowledged
  <2>6. QED
    BY <1>6, <2>3, <2>4, <2>5 DEF Steady
<1>7. QED
  BY <1>4, <1>5, <1>6

(* While no query fails, a capture the webhook acknowledged is recorded or  *)
(* a handler is on its way to record it (route.ts: the WebhookEvent row     *)
(* comes before the payment).                                               *)
THEOREM AcknowledgedIsRecordedHolds == SteadySpec => []AcknowledgedIsRecorded
<1>1. Init => AcknowledgedIsRecorded
  BY DEF Init, AcknowledgedIsRecorded
<1>2. [Steady]_vars => [Next]_vars
  BY DEF Next
<1>3. QED
  BY <1>1, <1>2, InitIInv, NextIInv, SteadyAcknowledged, PTL DEF SteadySpec

================================================================================
