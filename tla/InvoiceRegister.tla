---------------------------- MODULE InvoiceRegister ----------------------------
(***************************************************************************)
(* The numbers of tax invoices (issueInvoiceNumber of src/src/lib/          *)
(* invoice.ts, called inside applyPayment's transaction,                    *)
(* src/src/lib/payments/service.ts), for several properties of one          *)
(* database.  A number is a prefix the owner may change, a financial year   *)
(* (April to March in India) and a serial; the schema holds numbers unique. *)
(*                                                                         *)
(* Payments and refunds are one transaction each, so each is one step; what *)
(* happens around them is in Payments.  A folio is a booking as it is       *)
(* billed; deposits raise depositHeld instead and come to no invoice.       *)
(*                                                                         *)
(* A definition named D_Word beside D is a slip the run must notice.        *)
(***************************************************************************)
EXTENDS Integers

CONSTANTS
  Site,      \* ids of properties
  Folio,     \* ids of bookings
  SiteOf,    \* Booking.propertyId
  Prefix,    \* what owners enter as the invoice prefix
  LastYear,  \* bound: the last financial year
  MaxPaid    \* bound: what a booking may have paid, or owe from refunds

ASSUME RegisterAssumption ==
  /\ SiteOf \in [Folio -> Site]
  /\ LastYear \in Nat \ {0} /\ MaxPaid \in Nat

VARIABLES
  fyLabel,     \* Property.invoiceFyLabel; 0 before the first number
  counter,     \* Property.invoiceCounter
  prefix,      \* Property.invoicePrefix
  number,      \* Booking.invoiceNumber
  amountPaid,  \* Booking.amountPaid
  year         \* financialYearLabel(now)

register == <<fyLabel, counter, prefix, number, amountPaid, year>>

NoNumber == [prefix |-> "none", year |-> 0, serial |-> 0]
Number == [prefix : Prefix, year : 1..LastYear, serial : Nat \ {0}]

RegisterTypeOK ==
  /\ fyLabel \in [Site -> 0..LastYear]
  /\ counter \in [Site -> Nat]
  /\ prefix \in [Site -> Prefix]
  /\ number \in [Folio -> Number \cup {NoNumber}]
  /\ amountPaid \in [Folio -> Int]
  /\ year \in 1..LastYear

RegisterInit ==
  /\ fyLabel = [s \in Site |-> 0]
  /\ counter = [s \in Site |-> 0]
  /\ prefix \in [Site -> Prefix]
  /\ number = [f \in Folio |-> NoNumber]
  /\ amountPaid = [f \in Folio |-> 0]
  /\ year = 1

Numbered(f) == number[f] # NoNumber

NextSerial_RunsOn(s) == counter[s] + 1
NextSerial(s) == IF fyLabel[s] = year THEN counter[s] + 1 ELSE 1

NextNumber(s) == [prefix |-> prefix[s], year |-> year, serial |-> NextSerial(s)]

(* The unique constraint on Booking.invoiceNumber. *)
Taken(s) == \E f \in Folio : number[f] = NextNumber(s)

(* The test in applyPayment: amountPaid as the payment leaves it. *)
NeedsNumber(f, amount) == ~Numbered(f) /\ amountPaid[f] + amount > 0

(* applyPayment when no number is issued. *)
PayOnly(f, amount) ==
  /\ ~NeedsNumber(f, amount)
  /\ amountPaid' = [amountPaid EXCEPT ![f] = @ + amount]
  /\ UNCHANGED <<fyLabel, counter, prefix, number, year>>

(* applyPayment with issueInvoiceNumber; if the number is taken the whole   *)
(* transaction fails, payment and counter with it.                          *)
PayAndIssue_KeepsLabel(f, amount) ==
  LET s == SiteOf[f]
  IN /\ NeedsNumber(f, amount)
     /\ ~Taken(s)
     /\ amountPaid' = [amountPaid EXCEPT ![f] = @ + amount]
     /\ counter' = [counter EXCEPT ![s] = NextSerial(s)]
     /\ number' = [number EXCEPT ![f] = NextNumber(s)]
     /\ UNCHANGED <<fyLabel, prefix, year>>
PayAndIssue(f, amount) ==
  LET s == SiteOf[f]
  IN /\ NeedsNumber(f, amount)
     /\ ~Taken(s)
     /\ amountPaid' = [amountPaid EXCEPT ![f] = @ + amount]
     /\ counter' = [counter EXCEPT ![s] = NextSerial(s)]
     /\ fyLabel' = [fyLabel EXCEPT ![s] = year]
     /\ number' = [number EXCEPT ![f] = NextNumber(s)]
     /\ UNCHANGED <<prefix, year>>

ApplyPayment(f, amount) ==
  /\ amountPaid[f] + amount <= MaxPaid
  /\ PayOnly(f, amount) \/ PayAndIssue(f, amount)

(* markRefundProcessed, which may settle one refund twice (Payments). *)
SettleRefund(f, amount) ==
  /\ amountPaid[f] - amount >= -MaxPaid
  /\ amountPaid' = [amountPaid EXCEPT ![f] = @ - amount]
  /\ UNCHANGED <<fyLabel, counter, prefix, number, year>>

(* updatePropertyAction. *)
ChangePrefix(s, p) ==
  /\ prefix' = [prefix EXCEPT ![s] = p]
  /\ UNCHANGED <<fyLabel, counter, number, amountPaid, year>>

(* The first of April. *)
NewYear ==
  /\ year < LastYear
  /\ year' = year + 1
  /\ UNCHANGED <<fyLabel, counter, prefix, number, amountPaid>>

RegisterNext ==
  \/ \E f \in Folio, amount \in 1..MaxPaid : ApplyPayment(f, amount) \/ SettleRefund(f, amount)
  \/ \E s \in Site, p \in Prefix : ChangePrefix(s, p)
  \/ NewYear

RegisterSpec == RegisterInit /\ [][RegisterNext]_register

--------------------------------------------------------------------------------
FoliosOf(s, y) == {f \in Folio : SiteOf[f] = s /\ number[f].year = y}
SerialsOf(s, y) == {number[f].serial : f \in FoliosOf(s, y)}

(* Property: in every year the invoices of a property are numbered 1, 2, 3  *)
(* and so on with no gap and no number used twice, whatever prefixes they   *)
(* carry, whichever payments failed and whatever was refunded: "the         *)
(* register is gapless" (invoice.ts:8).                                     *)
Gapless ==
  \A s \in Site, y \in 1..LastYear :
    /\ \E n \in SerialsOf(s, y) \cup {0} : SerialsOf(s, y) = 1..n
    /\ \A f, g \in FoliosOf(s, y) : number[f].serial = number[g].serial => f = g

(* The counter is the length of the register of its year, and no number is  *)
(* from a later one.                                                        *)
CounterIsLength ==
  \A s \in Site :
    /\ fyLabel[s] <= year
    /\ fyLabel[s] > 0 => SerialsOf(s, fyLabel[s]) = 1..counter[s]
    /\ \A y \in 1..LastYear : y > fyLabel[s] => FoliosOf(s, y) = {}

(* Property: the inductive invariant behind the register (invoice.ts, the   *)
(* counter and its year).                                                   *)
RegisterInv == RegisterTypeOK /\ CounterIsLength /\ Gapless

(* Property: no two bookings of any property carry the same number, and a   *)
(* booking with revenue has one (schema.prisma, invoiceNumber @unique).     *)
RevenueIsNumbered ==
  /\ \A f, g \in Folio : (Numbered(f) /\ number[f] = number[g]) => f = g
  /\ \A f \in Folio : amountPaid[f] > 0 => Numbered(f)

(* Property: a number once issued stays, through refunds, new prefixes and  *)
(* new years: "persist it on the booking, and never regenerate it"          *)
(* (invoice.ts:7).                                                          *)
NumbersStay ==
  [][\A f \in Folio : Numbered(f) => number'[f] = number[f]]_register

(* Property: a payment fails for its number only if a booking of another    *)
(* property has the prefix: a property's own invoices never stand in the    *)
(* way of the next (issueInvoiceNumber).                                    *)
OwnNumbersFree ==
  \A s \in Site : Taken(s) =>
    \E f \in Folio : SiteOf[f] # s /\ number[f].prefix = prefix[s] /\ number[f].year = year
================================================================================
