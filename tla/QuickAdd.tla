------------------------------- MODULE QuickAdd -------------------------------
(***************************************************************************)
(* The form in which the desk enters a booking                             *)
(* (src/src/components/owner/QuickAdd.tsx).  It prices what is entered as  *)
(* it is entered: an effect waits, asks the server, and fills the rate     *)
(* field from the answer unless staff typed a rate, which changes the form *)
(* and runs the effect again.  Answers may come late, in any order or not  *)
(* at all; the server's prices and free rooms change in between.  A        *)
(* behaviour lasts until the page is loaded again.                         *)
(*                                                                         *)
(* React's cleanup of an effect is the flag active of the call it made.    *)
(* Fields that neither price nor place the stay are left out, and so are   *)
(* maintenance blocks, which a quote looks at and createBooking does not.  *)
(***************************************************************************)
EXTENDS Integers, FiniteSets, FiniteSetsExt, Functions

CONSTANTS
  Chip,        \* rooms staff may pick
  Dates,       \* check-in and check-out staff may enter, Backward among them
  Backward,    \* dates the server refuses: check-out is not after check-in
  NightsIn,    \* number of nights of dates, at least 1
  TypedRate,   \* nightly rates staff may type, the field's minimum or not
  Prices,      \* what the rate plans may make of a room and dates
  MaxCalls,    \* bound: quotes in flight at once
  MaxEdits     \* bound: what the desk and others do

ASSUME QuickAddAssumption ==
  /\ Backward \in Dates /\ IsFiniteSet(Chip)
  /\ NightsIn \in [Dates -> Nat \ {0}]
  /\ TypedRate \subseteq Int
  /\ Prices \subseteq [Chip \X Dates -> Nat]
  /\ MaxCalls \in Nat \ {0} /\ MaxEdits \in Nat

NoQuote == [ok |-> FALSE]
NoReply == [ok |-> FALSE]
Unpriced == 0   \* the rate is left to the rate plans: undefined in the code

VARIABLES
  open,      \* is ?new=1 in the address?
  step,      \* 1 entering, 2 reviewing
  form,      \* rooms, dates and nightly rate of the form
  manual,    \* rateManual
  quote,     \* the last answer taken
  timer,     \* is the effect's timer running?
  calls,     \* quotes in flight
  creating,  \* submissions in flight
  pending,   \* is the submit button disabled?
  heard,     \* history: the present form has been answered
  price,     \* server: what the rate plans make of each stay
  taken,     \* server: rooms and dates with nights of other bookings
  edits      \* of the bound MaxEdits

quickAdd == <<open, step, form, manual, quote, timer, calls, creating, pending, heard,
              price, taken, edits>>

Sent == IF manual THEN form.rate ELSE Unpriced

(* A typed rate is for every room and night; else each room has its price.  *)
AtRate(rooms, dates, rate) == rate * Cardinality(rooms) * NightsIn[dates]
ByPlans(rooms, dates) == SumFunction([room \in rooms |-> price[<<room, dates>>]])

(* quoteBookingAction takes a typed rate above 0, createBookingAction any   *)
(* that is not 0.                                                           *)
QuotedPrice(rooms, dates, sent) ==
  IF sent > 0 THEN AtRate(rooms, dates, sent) ELSE ByPlans(rooms, dates)
BookedPrice(rooms, dates, sent) ==
  IF sent # Unpriced THEN AtRate(rooms, dates, sent) ELSE ByPlans(rooms, dates)

Half(n, d) == (2 * n + d) \div (2 * d)   \* Math.round(n / d)

(* What the desk sees: the last answer, a flat estimate before the first.   *)
Shown == IF quote # NoQuote THEN quote.subtotal ELSE form.rate * NightsIn[form.dates]

(* The rooms the last answer named as taken. *)
SeenTaken == IF quote # NoQuote THEN quote.taken ELSE {}

--------------------------------------------------------------------------------
(* Dependencies of the effect have changed: the call it made is dropped and *)
(* a timer is started if there is something to price.                       *)
Rerun(isOpen, f) ==
  /\ calls' = {[c EXCEPT !.active = FALSE] : c \in calls}
  /\ timer' = (isOpen /\ f.rooms # {})
  /\ heard' = FALSE

(* An edit that leaves the dependencies as they were runs nothing. *)
React(isOpen, f, m) ==
  IF <<isOpen, f, m>> # <<open, form, manual>>
  THEN Rerun(isOpen, f)
  ELSE UNCHANGED <<calls, timer, heard>>

Counted == edits < MaxEdits /\ edits' = edits + 1
server == <<price, taken>>

(* The form is opened as it was left, or on a cell of the calendar. *)
Open(rooms, dates) ==
  /\ Counted /\ ~open
  /\ open' = TRUE /\ step' = 1 /\ manual' = FALSE
  /\ form' = [form EXCEPT !.rooms = rooms, !.dates = dates]
  /\ Rerun(TRUE, form')
  /\ UNCHANGED <<quote, creating, pending, server>>

(* The cross and the backdrop close it also while a booking is being        *)
(* created; Cancel does not.                                                *)
Close ==
  /\ Counted /\ open
  /\ open' = FALSE
  /\ Rerun(FALSE, form)
  /\ UNCHANGED <<step, form, manual, quote, creating, pending, server>>

Fill(f, m) ==
  /\ Counted /\ open /\ step = 1
  /\ form' = f /\ manual' = m
  /\ React(TRUE, f, m)
  /\ UNCHANGED <<open, step, quote, creating, pending, server>>

(* A room chip, which returns to the rate plans; a taken room can only be   *)
(* deselected.                                                              *)
Toggle(room) ==
  \/ room \in form.rooms /\ Fill([form EXCEPT !.rooms = @ \ {room}], FALSE)
  \/ room \notin form.rooms \cup SeenTaken /\ Fill([form EXCEPT !.rooms = @ \cup {room}], FALSE)

PickDates(dates) == Fill([form EXCEPT !.dates = dates], manual)

TypeRate(rate) == Fill([form EXCEPT !.rate = rate], TRUE)

UseRatePlan == manual /\ Fill(form, FALSE)

(* After 200 ms the effect asks for what the form held when it ran. *)
Ask ==
  /\ timer /\ Cardinality(calls) < MaxCalls
  /\ timer' = FALSE
  /\ calls' = calls \cup {[rooms |-> form.rooms, dates |-> form.dates, sent |-> Sent,
                           auto |-> ~manual, active |-> TRUE, reply |-> NoReply]}
  /\ UNCHANGED <<open, step, form, manual, quote, creating, pending, heard, server, edits>>

(* quoteBookingAction answers; it refuses dates that run backward.          *)
Quote(c) ==
  LET total == QuotedPrice(c.rooms, c.dates, c.sent)
      reply == [ok |-> TRUE, rooms |-> c.rooms, dates |-> c.dates, sent |-> c.sent,
                subtotal |-> total, nightly |-> Half(total, NightsIn[c.dates]),
                taken |-> {room \in Chip : <<room, c.dates>> \in taken},
                fresh |-> TRUE]
  IN /\ c.reply = NoReply /\ c.dates # Backward
     /\ calls' = (calls \ {c}) \cup {[c EXCEPT !.reply = reply]}
     /\ UNCHANGED <<open, step, form, manual, quote, timer, creating, pending, heard,
                    server, edits>>

(* The answer is taken unless its effect was cleaned up, and in the mode    *)
(* without a typed rate the field follows it.                               *)
Take(c, current) ==
  LET f == IF c.auto /\ c.reply.nightly > 0 THEN [form EXCEPT !.rate = c.reply.nightly]
           ELSE form
      rest == calls \ {c}
  IN /\ c.reply # NoReply
     /\ IF ~current
        THEN calls' = rest /\ UNCHANGED <<quote, form, timer, heard>>
        ELSE /\ quote' = c.reply
             /\ form' = f
             /\ IF f = form
                THEN calls' = rest /\ heard' = TRUE /\ UNCHANGED timer
                ELSE /\ calls' = {[d EXCEPT !.active = FALSE] : d \in rest}
                     /\ timer' = (open /\ f.rooms # {})
                     /\ heard' = FALSE
     /\ UNCHANGED <<open, step, manual, creating, pending, server, edits>>
Answer_Always(c) == Take(c, TRUE)
Answer_Reasks(c) ==
  /\ c.reply # NoReply
  /\ calls' = calls \ {c}
  /\ IF c.active THEN quote' = c.reply /\ timer' = TRUE /\ heard' = FALSE
     ELSE UNCHANGED <<quote, timer, heard>>
  /\ UNCHANGED <<open, step, form, manual, creating, pending, server, edits>>
Answer(c) == Take(c, c.active)

(* A quote that is refused, or fails on the way, changes nothing. *)
Refuse(c) ==
  /\ c.reply = NoReply
  /\ calls' = calls \ {c}
  /\ UNCHANGED <<open, step, form, manual, quote, timer, creating, pending, heard,
                 server, edits>>

(* Review, which looks at the last answer only, and Back. *)
Review ==
  /\ Counted /\ open /\ step = 1 /\ form.rooms # {}
  /\ form.rooms \cap SeenTaken = {}
  /\ step' = 2
  /\ UNCHANGED <<open, form, manual, quote, timer, calls, creating, pending, heard, server>>

Back ==
  /\ Counted /\ open /\ step = 2 /\ ~pending
  /\ step' = 1
  /\ UNCHANGED <<open, form, manual, quote, timer, calls, creating, pending, heard, server>>

--------------------------------------------------------------------------------
(* The last answer is to the form as it is, and nothing is under way. *)
Quiet == ~timer /\ \A c \in calls : ~c.active
Settled == open /\ heard /\ Quiet

(* submit: the rate is sent only if it was typed. *)
Submit ==
  /\ Counted /\ open /\ step = 2 /\ ~pending
  /\ pending' = TRUE
  /\ creating' = creating \cup
       {[rooms |-> form.rooms, dates |-> form.dates, sent |-> Sent,
         shown |-> Shown, settled |-> Settled, fresh |-> quote # NoQuote /\ quote.fresh,
         stage |-> "sent", charged |-> 0]}
  /\ UNCHANGED <<open, step, form, manual, quote, timer, calls, heard, server>>

(* createBookingAction.  If the payment of a booking just created fails, it *)
(* reports a failure and the booking stays.                                 *)
Create(s) ==
  /\ s.stage = "sent"
  /\ \/ /\ s.dates = Backward \/ (s.rooms \X {s.dates}) \cap taken # {}
        /\ creating' = (creating \ {s}) \cup {[s EXCEPT !.stage = "refused"]}
        /\ UNCHANGED taken
     \/ /\ s.dates # Backward /\ (s.rooms \X {s.dates}) \cap taken = {}
        /\ \E stage \in {"created", "unpaid"} :
             creating' = (creating \ {s}) \cup
               {[s EXCEPT !.stage = stage,
                          !.charged = BookedPrice(s.rooms, s.dates, s.sent)]}
        /\ taken' = taken \cup (s.rooms \X {s.dates})
  /\ UNCHANGED <<open, step, form, manual, quote, timer, calls, pending, heard, price, edits>>

(* The answer closes the form that is open then, whichever it is; a refusal *)
(* or failure is shown in it.                                               *)
Finish(s) ==
  /\ s.stage # "sent"
  /\ creating' = creating \ {s}
  /\ pending' = FALSE
  /\ IF s.stage = "created" /\ open
     THEN open' = FALSE /\ Rerun(FALSE, form)
     ELSE UNCHANGED <<open, timer, calls, heard>>
  /\ UNCHANGED <<step, form, manual, quote, server, edits>>

(* The call is rejected or its answer lost, before or after a booking was   *)
(* created: submit goes no further, and the button stays disabled.          *)
Lose(s) ==
  /\ creating' = creating \ {s}
  /\ UNCHANGED <<open, step, form, manual, quote, timer, calls, pending, heard, server, edits>>

(* Others edit rate plans, and book or release rooms.                       *)
ChangePrices(p) ==
  /\ Counted
  /\ price' = p
  /\ quote' = IF quote = NoQuote THEN quote ELSE [quote EXCEPT !.fresh = FALSE]
  /\ calls' = {IF c.reply = NoReply THEN c ELSE [c EXCEPT !.reply.fresh = FALSE] : c \in calls}
  /\ creating' = {IF s.stage = "sent" THEN [s EXCEPT !.fresh = FALSE] ELSE s : s \in creating}
  /\ UNCHANGED <<open, step, form, manual, timer, pending, heard, taken>>

Occupy(room, dates) ==
  /\ Counted
  /\ taken' = SymDiff(taken, {<<room, dates>>})
  /\ UNCHANGED <<open, step, form, manual, quote, timer, calls, creating, pending, heard,
                 price>>

QuickAddInit ==
  /\ open = FALSE /\ step = 1 /\ manual = FALSE
  /\ form \in [rooms : {{room} : room \in Chip}, dates : Dates \ {Backward},
              rate : TypedRate \cap Nat]
  /\ quote = NoQuote /\ timer = FALSE /\ calls = {} /\ creating = {}
  /\ pending = FALSE /\ heard = FALSE
  /\ price \in Prices /\ taken = {} /\ edits = 0

Desk ==
  \/ Open(form.rooms, form.dates)
  \/ \E room \in Chip : Toggle(room) \/ \E dates \in Dates : Open({room}, dates)
  \/ \E dates \in Dates : PickDates(dates)
  \/ \E rate \in TypedRate : TypeRate(rate)
  \/ Close \/ UseRatePlan \/ Review \/ Back \/ Submit

Reply == \E c \in calls : Quote(c) \/ Answer(c) \/ Refuse(c)

Others ==
  \/ \E p \in Prices : ChangePrices(p)
  \/ \E room \in Chip, dates \in Dates \ {Backward} : Occupy(room, dates)

QuickAddNext ==
  \/ Desk \/ Ask \/ Reply \/ Others
  \/ \E s \in creating : Create(s) \/ Finish(s) \/ Lose(s)

(* The browser's timer fires, and quotes are answered or fail; of           *)
(* submissions nothing is assumed.                                          *)
QuickAddFairness == WF_quickAdd(Ask) /\ WF_quickAdd(Reply)

--------------------------------------------------------------------------------
(* Property: the form has its shape, and no more than one submission is in  *)
(* flight, with the button disabled, however often the form is closed and   *)
(* opened meanwhile.  After a lost call the button is disabled with none    *)
(* (submit, close).                                                         *)
QuickAddInv ==
  /\ open \in BOOLEAN /\ step \in {1, 2} /\ manual \in BOOLEAN /\ heard \in BOOLEAN
  /\ form \in [rooms : SUBSET Chip, dates : Dates, rate : Int]
  /\ timer \in BOOLEAN /\ (timer => open)
  /\ taken \subseteq Chip \X Dates
  /\ Cardinality({c \in calls : c.active}) <= 1
  /\ Cardinality(creating) <= IF pending THEN 1 ELSE 0

(* Property: once the effect has come to rest after an answer, the answer   *)
(* on screen is to the form as it stands: rooms, dates and rate, however    *)
(* edits, late answers and filled-in rates came in between (the effect and  *)
(* its cleanup).                                                            *)
ShownIsForTheForm ==
  Settled =>
    /\ quote.ok
    /\ quote.rooms = form.rooms /\ quote.dates = form.dates /\ quote.sent = Sent
    /\ ~manual /\ quote.nightly > 0 => form.rate = quote.nightly

(* Property: a booking submitted from a form at rest is charged what the    *)
(* review showed, unless prices have changed since the answer or a rate     *)
(* below 0 was typed, which is charged and not shown (submit against        *)
(* quoteBookingAction, whose comment has it that the screen always matches  *)
(* the invoice).                                                            *)
BilledAsShown ==
  \A s \in creating :
    (s.stage \in {"created", "unpaid"} /\ s.settled /\ s.fresh /\ s.sent >= 0)
      => s.charged = s.shown

(* Property: both of the form's answers, the one on screen and the one on   *)
(* the invoice, are to what staff see (the pricing effect, submit).         *)
ShownIsBilled == ShownIsForTheForm /\ BilledAsShown

(* Property: pricing comes to rest: filling the rate in from the answer     *)
(* does not ask again for ever (the effect depends on the field it sets).   *)
QuoteSettles == ~Quiet ~> Quiet
================================================================================
