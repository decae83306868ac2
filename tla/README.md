# StayKit: a verification project

StayKit is a property management system for small Indian homestays: one
Next.js process, one SQLite database behind Prisma, a few staff, a Razorpay
account, a messaging account, and an MCP endpoint through which an assistant
calls the same operations as the web pages. This directory holds TLA+ models of
its core, the TLC configurations that check them on small instances and the
TLAPS proofs of the properties that matter most. Paths are relative to the
directory that holds `tla/` and `src/`; `lib/` is short for `src/src/lib/`.

## How the program executes, and what that makes atomic

* `lib/db.ts` opens SQLite with `connection_limit=1`. An interactive
  transaction (`prisma.$transaction(async tx => ...)`) owns the only connection,
  so it runs alone; a batch transaction and a single query do too. Each is one
  step of the models, however many statements it has.
* Between two awaited queries of a handler anything else may run: other server
  actions, MCP tools, webhook deliveries, the worker's tick. A handler that
  reads, decides and then writes is therefore two steps or more, and what it
  has read is part of the state (`req`, `tick`, `work`).
* The process may stop between two steps, and a query may fail. The tables
  survive; the handlers do not, and nothing resumes them (`Abandon`, `Restart`,
  `Crash`).
* Remote services (Razorpay, the message provider) answer, fail, answer late,
  and call the webhooks back more than once and in any order. They are modelled
  from what the code does with them and marked external in `PROJECT.json`.
* One process is assumed, with the worker inside it, as
  `src/src/instrumentation.ts` starts it.

## Inventory

| Component | State | Operations | What makes it correct | Module |
|---|---|---|---|---|
| Reservation engine, `lib/booking/engine.ts`, called by `lib/actions/bookings.ts` and `lib/mcp/tools.ts` | `Booking` status and dates, `BookingRoom` (a row per room and night, unique), `Room.cleanliness` | create, move, check in, check out, confirm a hold, no-show, cancel | no night let twice; nights always those of the dates; released bookings hold none | `Reservations`, `NightLedger` |
| Maintenance blocks, `lib/actions/rateplans.ts` | `MaintenanceBlock` | create, delete | no overlap of block and booked nights (the code does not ensure it) | `Reservations` |
| Payments ledger, `lib/payments/service.ts`, `lib/actions/payments.ts` | `Payment`, `Refund`, `Booking.amountPaid`, `Booking.depositHeld` | apply a payment, refund, retry, settle by hand, return a deposit | amountPaid is payments less refunds; one row a gateway id | `Payments` |
| Razorpay webhook, `src/src/app/api/webhooks/razorpay/route.ts` | `WebhookEvent` | deduplicate, dispatch | every capture is recorded, once, whatever is redelivered, reordered or lost | `Payments` |
| Guests' documents, `lib/storage/`, `lib/actions/guests.ts` | `FileUpload`, bytes on disk, `Guest.idFileId` | upload, erase, purge | a row has its bytes, a document its guest, an erased guest none | `Documents` |
| Notification outbox, `lib/notify/`, `src/src/app/api/webhooks/msg91/` | `NotificationLog` | enqueue, drain, send now, receipts | each message sent, once, with bounded retries; a settled row is not sent again | `Outbox` |
| Background worker, `lib/jobs/worker.ts` | two variables in memory | tick, daily run | one tick at a time; the tasks once a day | `Outbox`, `DailyTasks` |
| Daily tasks, `lib/jobs/tasks.ts` | `DailyOccupancy`, rows of the outbox and the audit log | snapshot, Form C nudge, arrival reminders, purges | done on the right Indian day, none twice, none lost to a restart | `DailyTasks`, `Documents` |
| Payment links, `lib/payments/service.ts`, the portal's page `my/bookings/[id]` | `PaymentLink`, the gateway's links | send (cancel the live ones, create, insert), capture, expire, offer | what the guest can pay is known; no more links count as paid than payments came; a link that is over stays so but for a capture | `PaymentLinks` |
| Tariff, `lib/booking/rates.ts`, `lib/tax.ts`, `lib/booking/cancellation.ts`, `lib/booking/availability.ts` | none | quote, tax, label, invoice lines, refund quote, availability | agree with their definitions at every boundary, and with each other | `Tariff` |
| Rate plans, rooms and types, `lib/actions/rateplans.ts`, `lib/actions/rooms.ts` | `RatePlan`, `RoomType`, `Room`, amounts of `Booking` and `BookingRoom` | create, edit, delete; price a new or moved stay | amounts are those of the rows; a stay is priced from what was read | `Pricing` |
| Invoice register, `lib/invoice.ts` | invoice counter, its year and the prefix of each property, `Booking.invoiceNumber` | issue with a payment, refund, change the prefix, new financial year | gapless per property and year; only another property's prefix stands in the way | `InvoiceRegister` |
| Booking form, `components/owner/QuickAdd.tsx` | React state, calls in flight | edit, price, review, submit, close and open again | what is shown is for the form as it stands, and is what is charged | `QuickAdd` |
| Booking drawer, `components/owner/BookingSidebar.tsx`, `BookingDetailView.tsx` | React state, loads and actions in flight | open, close, load, the buttons' actions, move and refund panels | shows the booking it is open on, as it is after its actions; what is done is what was shown | `BookingPanel`, `QuotePanels` |
| Calendar, housekeeping board, dashboard, reports | none: they read the tables | draw, count | the calendar draws what is taken; the counts agree | `RoomViews` |
| Job queue, `lib/jobs/queue.ts` | `Job` | enqueue, claim, complete, fail | nothing enqueues a job, so the table is always empty | not modelled |
| Sessions, sign-in codes, OAuth, rate limits | tokens, codes, buckets | sign in, refresh, limit | access control: the models start where a request is authorised | not modelled |
| Other pages, exports, settings, channels, message templates, guest portal, MCP transport, design, operations | none that a modelled handler reads | read, create, update, delete | | not modelled |

How they interact: the engine, the ledger and the documents are called by the
same server actions and MCP tools and share the `Booking` and `Guest` rows. The
webhook calls the ledger. The engine, the ledger and the daily tasks put rows
into the outbox, whose state they read only in the reminders' look-up. The
worker's tick drains the outbox, then starts the daily tasks if it is time, so
one guard and one `catch` stand around all of them.

The sending of links, the ledger and the invoice register meet in
`applyPayment`: its transaction writes the payment, the booking's balance, the
link and the number. `Payments`, `PaymentLinks` and `InvoiceRegister` each keep
the part of that transaction that their properties are about, with the other
handlers that touch the same rows. The console calls the engine, the ledger and
the quotes; its modules keep of the server what decides an answer.

The hard parts are the checks made before a transaction and not in it, handlers
that write one row at a time, the webhook that notes an event before it acts on
it, rows claimed by a worker that may die, and the daily run's bookkeeping in
memory. `PROJECT.json` lists the hazards by line.

## Conventions

* A handler in flight has an entry in `req` with what it has read. A step's
  guard tests the tables as they are; what a step uses from `req` may be stale.
* Validation that reads nothing a module holds (capacity, blacklist, prices,
  roles) only ever refuses a request before it writes. That is the request not
  being made, and it is not modelled.
* `D_Word` beside a definition `D` is a *slip*: the same operator with one
  plausible mistake. Nothing refers to it; substituting it for `D` must make a
  run fail, and `PROJECT.json` (`mutants`) says which property notices.
* Bounds are constants or named guards. Ids come from finite sets, so a set of
  ids bounds how many rows a table ever has.
* Auxiliary variables record history for the properties and are read by no
  guard of the code's: `foundOpen`, in what a handler has read, in `Reservations`
  and `Payments`; `auditLost` in `Payments`; `calm` and `again` in `Documents`;
  `tries` and `lost` in `Outbox`; `early`, `runs`, `boots`, `onTime`, `lastFormC`
  in `DailyTasks`; `told` and `revived` in `PaymentLinks`; `heard`, and what a
  submission records of the screen, in `QuickAdd`; `crossed` and `since` in
  `BookingPanel`. `faults` bounds failures.

## The modules

### Reservations, over NightLedger

`status`, `stay`, `rows` and `blocks` are the tables, `dirty` the rooms whose
cleanliness is DIRTY. The create and the cancellation are single transactions
and single actions. A move reads the booking (test of the status, defaults for
the fields it was not given), then runs its transaction, which deletes the old
nights, inserts the new ones (or fails on the unique constraint, taking all of
it back) and updates the dates: `MoveRead`, then `MoveCommit` or `MoveConflict`. Confirming a hold, the
no-show and the check-out test first and write in later steps; the MCP tools'
variants test less than the web actions, and the model has both. `MoveInput`
says which optional fields a caller fills in: the web form always all of them,
the MCP tool any.

`NightLedger` is what the engine promises: a map from bookings to the
room-nights they hold, in which a booking takes, changes or gives back a whole
stay, and no night is held twice. `Reservations` implements it under
`held <- the rows of a booking` (`LedgerSpec`, checked by TLC and proved).

Specifications: `Spec` is everything. `SerialSpec` lets a second request start
only when the first is done. `NoMoveSpec` switches moves off.
`SteadyNoMoveSpec` has no moves, no failures, and runs every handler on: weak
fairness of a handler's next step, which is the event loop resuming a settled
await.

### Payments

`payments` and `refunds` are the tables in order of insertion (the code picks
the newest payment), `seen` is `WebhookEvent`. `captured` and `decided` are what
the gateway has done, whether the program knows it or not; each capture is
announced by two events with ids of their own, each deliverable at any time
after it and any number of times. A webhook handler's entry in `req` is under
its event, for the unique `WebhookEvent` row lets an event be handled once.
Refunds are created at the gateway, retried with a new gateway id, settled by
webhook, immediately or by hand, each with its test and its writes apart. A
handler that has read a refund keeps whether it was open (`foundOpen`). A deposit
is returned in two queries, the balance (`DepositCommit`) and the audit record
(`DepositAudit`); `auditLost` counts the money whose record died with the second.

Specifications: `Spec`, `SerialSpec` as above, and `SteadySpec`: no failures,
every handler is run on, and the gateway delivers every event at least once
(Razorpay repeats a delivery until it is answered 200).

Bounds: `MaxDesk` payments by staff, `MaxRefund` refunds; `DeskHasRoom` and
`RefundHasRoom` are the guards that name them; `SettleHasRoom` lets no settlement
by hand start once `amountPaid` is below zero, since their races may lower it
without end. `Total` is in whole units of money: with 2, part payments,
over-payment and a refund of a part all happen. Not modelled: mock mode and
events without an id. The payment link and
the invoice number that `applyPayment` also writes are in `PaymentLinks` and
`InvoiceRegister`.

### Documents

`disk` is the set of paths that hold bytes, `row` the `FileUpload` table, `doc`
is `Guest.idFileId`. A path is the hash of the content, so a path stands for a
content and two uploads of one scan share it. Upload: read the guest, write the
bytes, create the row, find, unlink and drop the old document, and only then
give the guest the new one. Erasure and purge: find, unlink, drop, then update
or delete the guest. Every step may fail, and `Abandon` is the handler ending
there. The purge's list of guests is `batch`. How long a document is kept is
not modelled: any guests with a document may be due when the purge reads them.

Bytes that are stored already may be uploaded again, by the same guest or
another, and then the code unlinks the new document's bytes with the old one.
`again` remembers the scans last uploaded while their path was in use. The
properties leave those scans' bytes out, and nothing else: their rows, and every
other document, are held to the same.

### Outbox

`log` is `NotificationLog`, `tick` what each activation of `workerTick` is at,
`ticking` the flag that should keep them apart. A tick reads the due rows, then
for each claims it (`SENDING`), gives it to the provider, has its answer, and
marks it. Taking a message and answering are two steps (`Send`, `Answer`), so an
answer may be lost after the message was taken. `MarkFails` is the update to
SENT failing inside the `try`, `TickThrows` an error outside it, `Restart` the
process going down at any point. `SendNow` and `RecordNow` are the message sent
by hand and the row inserted only afterwards. `Receipt` is the provider's
webhook, at any time, in any order, repeated.

Fairness: time passes (`BecomesDue`) and the interval fires and its promises run
on (`TickStep`); nothing is assumed of providers, requests or receipts.

### DailyTasks

Time goes in the four parts of an Indian day that the code tells apart: 00:00
to 01:00, to 03:00, to 05:30, to midnight. 05:30 is UTC midnight, the instant
that stands for an arrival date; 03:00 is `DAILY_HOUR_IST`; the first hour is
there because `toLocaleString` with `hour12: false` shows midnight as 24 on some
ICU versions, and the model allows both (`midnight`). A tick comes strictly
within a part; while the process is up no part passes without one (the interval
is five seconds), and a run ends in the part it began in.

`Tick` is `maybeRunDaily`, which notes the day, then runs the tasks; `Snapshot`,
`FormCRead`, `Nudge`, `RemindRead`, `Look` and `Create` are their queries;
`RunThrows` is any of them failing, `Crash` and `Boot` the process. Bookings
appear, move, check in, leave and come back at any time, as `Reservations` lets
them.

`early` is the set of triggers whose time was still ahead when the booking got
its dates: only those are promised. `onTime` are the days whose run was done
by 05:30.

### PaymentLinks

`gateway` are Razorpay's links, `links` the `PaymentLink` table, both in order
of creation. Sending a link reads the live rows, cancels each at the gateway
(the refusal is swallowed), marks the row, creates the new link and inserts its
row, a step each. A capture looks up the newest link, then runs
`applyPayment`'s transaction, which puts the payment down to that link whatever
it has become. The desk's payments and refunds, the portal's choice of a link
and the task that expires links are the other actions; a row's date is not kept,
so `ExpireStale` may take any live rows. The gateway is asked for no expiry
(`lib/razorpay/client.ts:108`), and a guest may pay after that date. `revived` are the
live rows that were over before: a capture writes the newest row whatever it
was. `faults` counts refusals
and handlers cut short: what the guest can pay is known as long as there was
none. Bounds: `MaxLinks` links, `MaxExtra` payments, refunds, refusals and cuts.

### Tariff, Pricing

`Tariff` holds the pure functions: `ResolveNight` (weekdays, `[start, end)`,
priority), tax per night, the quote's label, the invoice's and the export's tax
lines, the refund quote with its days in Indian time, the two computations of
availability. `Pricing` is the tables they are applied to and every edit of
them, with the create and the move in their steps: read the rooms with their
types and the property, read the plans, write rows and amounts. A create takes
any set of rooms and a move one; a stay's rows are its rooms by its nights, its
amounts their sums. Rates are naturals here: only the form lets a negative one
be typed, and what comes of it is in `QuickAdd`. Reference definitions
beside the properties (`Price_InForce`, `Midnight`) say what the schema and the
documentation promise. Amounts are in paise, instants in minutes.

### InvoiceRegister

A payment in one transaction issues a number if the booking has none and the
payment is not a deposit: the counter of the year, or 1 in a new one. The
schema holds numbers unique over all properties, and a clash rolls back the
payment with the counter. Owners change prefixes; the year turns; refunds lower
what is paid and leave the number.

### QuickAdd, BookingPanel, QuotePanels, composed by Console

Three screens whose answers race with what staff do. `Console` composes them:
they interleave, and share no state, for each keeps what it asks of the server
and allows what the others do to it as a change made elsewhere. In each, a call in flight
is a record that remembers what it was asked about and whether the effect or
sequence number that made it is still current; answers and refusals come in any
order, and the server's data change between them. `QuickAdd`: the pricing effect
with its delay (`timer`), its cleanup, and the rate field it fills in, which runs
it again; review, submission, closing and opening the form in between. The quote
takes a typed rate above 0, the booking any that is not 0. A submission is
refused, creates the booking, creates it and reports a failure because the
payment that comes with it failed (`unpaid`), or is lost (`Lose`): `submit` has no
handler for a rejected call, and the button stays disabled.
`BookingPanel`: `seq`, loads, actions and what each does when it ends, the
buttons `deriveState` offers. `QuotePanels`: move and refund, with the amount
they show and the action that computes it again. Next.js sends one page's server
actions one after the other; the models let answers overtake each other, which
includes that and covers what reloads by other means.

Fairness: timers fire and calls are answered or refused (weak fairness of those
actions); of the form's submissions nothing is assumed, and nobody is obliged to
click. The bounds on edits, openings and changes
elsewhere are named in each module (`MaxEdits`, `MaxCalls`, `MaxLoads`,
`MaxActs`, `MaxEvents`, `MaxQuotes`).

### RoomViews

State functions over the tables of `Reservations`: the bars of the calendar with
their cut at the page's ends, for every page length, every offset and whichever
row of a booking comes first; tonight's rooms, arrivals and departures; the
nights the reports count. A page is what its queries return from one state, with
no filter and all rooms active: pages read while a handler writes between their
queries are not covered.

## What each run checks

| Run | Instance | Shows |
|---|---|---|
| `inventory_races` | 2 bookings, 2 rooms, 2 nights, 2 handlers in flight | under every interleaving and failure no room-night is let twice and nights are those of the dates (`IInv`), only a move that read the booking while it was open gives it nights once it is closed, and the engine implements `NightLedger` |
| `serial_moves` | same with a block and one handler, every `MoveInput`; calendar pages of one and two days | when requests do not overlap, cancelled bookings hold nothing, a move changes only the dates it was given, the calendar draws what is taken, the board and the reports agree |
| `steady_without_moves` | 1 booking, 2 rooms, a block, 2 handlers | without moves no race leaves nights with a released booking; a check-out flags its rooms while the process stays up |
| `payment_races` | one capture announced twice, one desk payment or deposit, one refund and its retry, 2 handlers | a capture is recorded once, as the gateway has it; `amountPaid` moves only with a row, a settled refund is taken off or opened again only by a handler that had read it open, and the books never exceed payments less settled refunds |
| `serial_payments` | the same with two refunds, one handler at a time, failures included | the books of rents and deposits balance exactly, but for audit records of deposits on their way or lost |
| `steady_webhooks` | one capture, one refund, three gateway refund ids, 2 handlers, no failures | every capture is recorded, every refund whose row the event of its gateway id finds is settled, also when retries race |
| `document_races` | 2 guests, 3 file ids, 2 scans, one request beside the purge | a document stays in one guest's hands and no handler touches another's; if handlers did not overlap or fail, disk, rows and guests agree; all but for bytes of scans uploaded twice |
| `message_delivery` | 2 rows, 2 activations of the tick, 3 attempts, 2 faults | attempts are counted right and one tick runs at a time (`IInv`), a duplicate needs a lost answer, a settled row is not sent again, every queued row settles unless a fault hits it while it is being sent |
| `daily_tasks` | 4 days, one booking, both arrival templates, one fault | the tasks run once a day and process and remind once (`IInv`), reminders survive a missed day, Form C windows leave no gap, the night before has its row |
| `payment_links` | one booking, 2 handlers sending links, 3 links, one refusal, cut, desk payment or refund | what the guest can pay is known and what the portal offers, part paid or not, was not cancelled unless a capture revived it (`IInv`), no more links count as paid than captures came, only a capture that leaves a balance revives a link that is over |
| `pricing` | one stay of up to 2 nights in one room with 3 plans or a block, or in 2 rooms of 2 types with one plan, rates on both sides of the tax threshold with an odd paisa; or 3 bookings of 2 properties over 2 financial years | a stay of several rooms costs what they cost one by one, label, lines and tax agree, refund tiers step at Indian midnights, a stay is priced from what was read; the register is gapless and a property never blocks itself |
| `console` | the form: 2 rooms, 2 stays, 5 edits, 2 calls, a negative rate, lost submissions; or the drawer: 2 bookings, 2 loads, 2 actions, 4 events; or a panel: 5 choices, 2 calls | at most one submission, the drawer shows the booking it is open on, shown is what is charged (but for a negative rate), the drawer reads its own writes, screens come to rest, a click on a fresh view is not refused |

`pricing` and `console` hold models that share no state: `focus`, in their MC
modules, says which of them moves in a behaviour, so the run costs the sum of
their states. Of `Pricing` itself, some behaviours have one room and edits of
plans or of blocks, others two rooms and one plan. Each behaviour of `console` is one of the full composition (`ConsoleSpec`),
of which the theorems are.

Why the bounds are enough. Double booking needs two bookings and one room; the
second room and night are for moves that keep a part of the stay. A race needs
two handlers. Two events and two refund ids are what a duplicate announcement
and a retry need. Three file ids are an upload, its replacement and another
guest's. Three attempts have a first, a middle and a last; two faults are a
lost answer and a crash that follow each other. Four days hold an arrival, the
two days of grace and the day after. A link that supersedes one being paid, while
another handler sends a third, needs three links and two handlers; a plan that
ends within the stay needs two nights. A quote that comes late needs two calls,
and the edit, the answer, the edit back and the submission are five edits; a
drawer that is reopened on another booking while an action runs needs two
bookings, two loads and four events. Calendar pages of one day cut every stay,
those of two hold one. Where a property also holds for every
value of the constants, a theorem says so.

`VIEW`s: `WithoutHousekeeping` leaves out the cleanliness no handler reads,
`WithoutAudit` (of `payment_races` alone) the sums in and lost to the audit log,
which no handler and no property of that run reads.
`InSight` in `MCDocuments` leaves out of `again` the paths not in use: uploading
to one sets its entry anew.
`View` in `MCDailyTasks` leaves out what nothing looks at any more (a check-in
over a day ago, the dates of a booking that is over, a second row by hand); states
it identifies have the same futures as far as guards and properties go. Its first
component is `TypeOK`, which makes TLC write every function out before it
compares views.
Symmetry is used only in runs without liveness.

`CHECK_DEADLOCK FALSE` stands where the system may come to rest: ids, payments
and messages are used up.

## What is proved

Each proof module extends its models and `TLAPS`. All theorems are about `Spec`
(`RegisterSpec`, `ConsoleSpec`) unless said otherwise, for every value of the
constants that satisfies the named assumption of the module; those assumptions
only say that bounds are naturals, that sentinels are not ids, that sets of ids,
of rooms and of the form's chips are finite, that staff's requests and the
webhook's events are not confused, that a stay has a night, and (`Pricing`) that
amounts are not negative and that what staff enter for a plan or a block has its start before its
end. Every invariant and every action property a run checks is proved; of the
temporal properties, the refinement is.

* `SumTheorems`: what sums over functions and sequences do when an element comes,
  goes or changes, how they compare, and that the sum over a table is the sum over
  its rows. The community modules define
  `SumFunctionOnSet` by a fold whose choice of the next element is left open; the
  lemmas show that it does not matter. Induction goes over sets: a set of finite
  sets that contains a set whenever it contains all of it but one, for each one,
  contains them all (`FiniteSetIsReached`), which needs no theorem with an operator
  as a parameter.
* `ReservationsProofs`. The inductive invariant `IInv` adds to `NoDoubleBooking`
  and `NightsCoverStay` that rows have bookings and that a move in flight carries
  a real interval for a booking that exists: without it the step that writes the
  move could not be shown to leave the nights of a stay. From it
  `ReleaseIsAtomic` and the refinement
  (`ImplementsLedger`: initial states map to initial states, each step to a step
  of `NightLedger` or a stutter). `OnlyStaleMoveReacquires` needs besides that every
  move in flight found its booking open (`MovesFoundOpen`), which is the test of
  the status: without that guard the theorem falls. `ReleasedHoldsNothingHolds` is of `NoMoveSpec`.
  Of `SerialSpec`, `SerialInv` says that a move in flight still knows its booking's
  status and dates, since no one else is at work; with it a cancelled booking holds
  nothing (`CancelledHoldsNothing`), a move keeps the dates it was not given, and
  the bars of a calendar page of any length cover the nights held in their room and
  no others (`CalendarIsTrue`). `BoardAndCountsAgree` follows from `IInv`, hence without any
  assumption on the order of requests: since no room-night has two rows, the
  nights sold inject into the room-nights there are.
* `PaymentsProofs`. `IInv` is that rows of online payments are captures, that no
  capture has two, that refunds stay in their booking, and that handlers in
  flight carry references that hold. Each step is first shown to have one of five
  effects on the books (`Effect`: none, a payment booked, a refund opened, marked
  or settled), and the rest of the argument goes by those cases; an effect on a
  refund that is settled already comes with a handler that had found it open.
  From it `MoneyMovesWithRows`, and `LedgerNeverOverstates`: no effect raises `amountPaid` by
  more than it raises the sums over the tables, or lowers it by less, also when two
  handlers settle one refund. With one handler at a time, whose reading is current,
  both move alike, and the deposits add up with the one return on its way to
  the audit log and those lost there: `SerialInv`, hence `BooksBalance`, of `SerialSpec`. `AcknowledgedIsRecorded`
  is of `SteadySpec`.
* `DocumentsProofs`. `IInv` is `OneGuestPerFile` over guests, handlers and the
  purge's list, and that each path whose scan was not uploaded again is one
  document's. A handler at the step of unlinking therefore unlinks its own
  document or the path of such a scan (`OthersUntouched`). `InOrderOnceCalm` needs
  what is true between the steps of the one handler at work (`CalmInv`): bytes
  come before their row and go before it, the document to go is the guest's
  until the last step, and the new one is the handler's. No assumption is made
  about what is uploaded.
* `OutboxProofs`. `IInv` is: one tick at a time, whose batch and row are as it
  read them; messages taken are answered, being answered, or lost; attempts are
  the tries. It carries `AttemptsCount`, `DuplicatesOnlyAfterLoss`,
  `SentWasTaken` and `NeverResendsSettled`.
* `PaymentLinksProofs`. `IInv` is that rows have gateway links of their own,
  handlers hold rows of their booking, and, unless a call was refused or a
  handler cut short, what is payable is listed and what is offered, partly paid
  or not, was not cancelled or is revived: the last two need each other and the handler's own progress. One
  lemma an action. From it `OverUntilCapture`. `CreditsAreCaptures` compares two
  cardinalities; `CreditInv` counts only the captures that are done with, so that
  the step that puts a row down as paid also adds one.
* `FrontDeskProofs`, on what the desk is told. Of `Pricing`: references hold (no
  room without its type, no stay without its room) whatever is edited between
  reading and writing, and the amounts of a stay are the sums of what its rooms
  would cost one by one, each night rounded for itself (`AmountsHold`, which is
  `IInv`; `SumByRows` of `SumTheorems` turns the sum over a table into the sum of
  its rows). `resolveNight` sorts the plans of a night by priority and takes the first:
  the model's fold is shown to find, for every table of plans, the plan of the
  highest priority with the lowest id (`PricedAsRead`). The desk's and the
  assistant's availability are equal (`AvailabilityAgrees`), by a lemma on overlap
  of intervals. For every amount, tax lines sum to the tax and the tax is what the
  label names (`TaxAsTold`), refund and retained part sum to what was paid, and
  the tiers step at Indian midnights (`RefundTiers`).
  Of `InvoiceRegister`: the counter is the length of the register of its year
  and no number is of a later one; with that, `Gapless` is inductive. From it
  `OwnNumbersFree`, `RevenueIsNumbered` and `NumbersStay`.
  Of `Console`, one invariant a screen. The form's (`FormInv`): a call that still
  counts was made for the form as it stands, at most one does and none while the
  timer runs, and an answer given since prices changed is what the stay costs; hence
  `ShownIsBilled`, of every rate that is not negative. The drawer's (`DrawerInv`): what was read before an action of the
  drawer ended is followed by a load that counts, or by the action's reload, or its
  load was refused; hence `ReadsItsWrites`; and each action in flight was offered
  for what was shown when it was clicked; hence `FreshClicksSucceed`. The panels'
  (`PanesInv`): the call that counts is for the choice, answers are to their calls;
  hence `AmountsAreAsShown`.
* `DailyTasksProofs`. `IInv` is: a run is of today and noted as such, its
  templates and bookings exist, a message about to be logged is not in the log,
  the night comes before the rest, and what an on-time run owes is paid. The last
  (`DebtsPaid`) is what `RemindedInGrace` needs: for each template a run has dealt
  with, whom it owes is in the log or still in hand. A step of a booking adds
  nothing to what past days owe (lemma `NoNewDebts`): whoever gets dates after a
  target has no claim on that target. It is proved under `OffsetsInReach` (offsets
  between -14 and 0 days), because the query only returns arrivals from two days
  ago to two weeks ahead: beyond that the grace cannot hold, and the hypothesis
  says so. From it `RemindedOnce`, `RunsPerDay`, `NightsSnapshotted`, and, with
  the invariant that whom the Form C query returned is on the list or nudged
  (`FormCInHand`), `FormCCovered`.

Proved, and not checked again by a run of its own, because the run's `IInv`
contains it or the proof says more: `NoDoubleBooking`, `NightsCoverStay`,
`ReleaseIsAtomic`, `AcknowledgedIsRecorded`, `AttemptsCount`, `SentWasTaken`,
`RemindedOnce`, `RunsPerDay`, `AvailabilityAgrees`, `PriceIsRows`,
`RevenueIsNumbered`, `NumbersStay`.

The label of a quote names the tax of a night that has any: a night of less than
ten paise has a label and rounds to no tax (rates of 0 are accepted,
`lib/actions/rooms.ts:16`), and `TaxAsTold` is stated so.

Only model-checked: liveness (`CheckOutFlagsRooms`, `MoneySettles`,
`QueuedSettles`, `ScreensSettle`), which the prover does not do. The run of
`RemindedInGrace` assumes, as its theorem does, that offsets are in reach.

## What the models allow because the code does

No property excludes these, and a reader should know of them.

* Reservations: a move that read a booking before it was cancelled gives the
  cancelled booking nights, although "Releasing the nights frees the room for
  rebooking." (`lib/booking/engine.ts:508`); a no-show can be moved and then holds nights again
  (`lib/booking/engine.ts:263`); the MCP tool marks a guest who is in the house
  a no-show; a check-in tests no status; a move of a group booking keeps one
  room; a confirmation may overwrite a cancellation; blocks and bookings may
  overlap, by a race or simply because bookings do not look at blocks.
* Payments: a refund may be settled twice, although "Idempotent: a second call is
  a no-op." (`lib/payments/service.ts:247`), for both calls may find it open and
  each lowers `amountPaid`. The webhook stores the event before it records the payment. If it
  fails in between, every redelivery is a duplicate and the capture is lost;
  a comment says the event "is stored in WebhookEvent for replay"
  (`src/src/app/api/webhooks/razorpay/route.ts:54`), but nothing replays it. An
  event for a refund that comes before its row is dropped in the same way.
  Pending refunds do not lower what may be refunded, two staff may take the
  same balance, a deposit may be returned twice, a refund may be booked against
  a deposit. Two retries of one refund that race both reach the gateway
  (`lib/actions/payments.ts:107`) and the later overwrites the id, so the event of
  the earlier attempt finds no row. A deposit is returned without an audit record
  if the second query fails, although "it lowers depositHeld and is audited"
  (`lib/actions/bookings.ts:442`).
* Documents: replacing a document by the same scan unlinks the new bytes with the
  old row ("Replace any previous document.", `lib/actions/guests.ts:154`); erasing a guest whose bookings are all cancelled destroys the
  document and then fails on the foreign key; an erasure that races an upload,
  or a failure between the row and the guest's update, leaves a document no
  guest refers to, which no purge finds; a purge clears a reference set since it read the guests.
* Outbox: a row left `SENDING` by a crash stays so; receipts that come before
  the row knows its message are dropped, and the last one processed wins, so
  SENT may follow DELIVERED; a message whose update to SENT fails is sent again.
* DailyTasks: `lastDaily` starts afresh after a restart, although a comment says
  it is primed (`lib/jobs/worker.ts:79`), so a restart after 03:00 runs the
  tasks again; a task that fails takes the rest of the day's tasks with it; a
  late run leaves a gap in the Form C windows; reminders come a day later than
  their descriptions ("A day before the guest arrives.", `lib/notify/triggers.ts:46`),
  because the target is at 05:30 and the run at 03:00; a booking that is moved
  gets no second reminder; a message by hand between look-up and insert is
  sent twice.
* PaymentLinks: the webhook puts a payment down to the newest link, also when an
  older one was paid, and thereby makes a cancelled or expired row live again if
  a balance is left; the portal may offer a link already part paid; two handlers
  sending at once leave two links that can be paid; a guest can pay a link whose
  row has expired.
* Tariff, Pricing: a move reprices a booking that has an invoice, which says it
  is "byte-stable" (`lib/invoice.ts:7`), and drops a rate staff typed; a plan's
  end date is exclusive although the form accepts an end equal to the start;
  minimum and maximum stays are stored and never enforced.
* InvoiceRegister: two properties with one prefix (the default is INV) fail each
  other's first payments of a serial; an invoice that is refunded in full is
  titled a proforma again.
* QuickAdd: a comment says the screen always matches the invoice
  (`QuickAdd.tsx:80`); a form reviewed and submitted within the delay, or after a
  refused quote, is charged otherwise than shown. A rate below 0, which the field
  and the server accept, is billed as typed while the screen shows the rate
  plans' price (`lib/actions/bookings.ts:75` against `:211`). A submission whose
  call is rejected leaves the button disabled until the page is loaded again, and
  one whose payment fails is reported as failed though the booking exists
  (`lib/actions/bookings.ts:89`). An answer to a submission that
  comes late closes whatever form is open then, or shows its error in it.
* BookingPanel: an action that ends after the drawer was opened on another
  booking brings its own back (`BookingSidebar.tsx:21` has it "Re-fetch the
  currently open booking"); the panels for moving, refunds, payments and notes
  refresh the page and not the drawer, which keeps what it had read; "Confirm &
  mark paid" of a tentative booking records the payment and leaves it tentative.
* RoomViews: the calendar draws one room of a booking of several; "Departing
  today" counts cancelled bookings; the seven-day strip counts nights of tentative
  bookings that "Tonight's occupancy" does not; the reports' "Last 7 days" are the
  seven days before today and today.

## Not modelled, and why

* Sign-in, sessions, roles, tokens and rate limits: the models start where a
  request is authorised.
* The MCP transport and prompts: what its tools change is in `Reservations`,
  `Payments` and `PaymentLinks`, with the tests they leave out.
* Settings, channels, message templates, property records and guest profiles:
  last-write-wins edits of rows of which the models take the values as given.
* The job queue: nothing enqueues a job.
* The landing page, the seed data, design files and generated code: no behaviour
  the other parts depend on. They are a third of the repository's lines.

## What could come next

`Stay`, engine and ledger composed over one booking (cancellation with refund,
check-out with a balance, confirmation by payment); pages whose queries
interleave with handlers; message templates as staff edit them side by side.
