# CrewFlow: a TLA+ model of the back end

CrewFlow is the back end of a product for service agencies: bookings, field work, invoices,
payments, messages and follow-up for many tenants, in NestJS over one PostgreSQL database
(Prisma). This project models the parts of it in which several requests, webhooks and scans
work on the same rows, checks them with TLC, and proves their safety properties with TLAPS.

Paths below are relative to `src/`, the repository.

## 1. The system

### How it runs

One Node process serves HTTP requests, the webhooks of payment and message providers and an
interval timer (`src/scheduler`). A handler is an `async` function: it runs without
interruption from one `await` to the next, and every `await this.prisma...` is one SQL
statement or one `$transaction`. There are no row locks and no conditional updates: a handler
reads a row, decides, and writes by primary key. What holds the data together are the order
of the statements, a few transactions and the unique keys of `prisma/schema.prisma`. Any
statement may throw (lost connection, unique key, timeout), and the process may die between
two statements.

So the modelling rule of all modules is: **one action is one statement or transaction,
handlers interleave at every await, and a handler writes what it decided on the row it read.**

### Components

| component | state it keeps | operations | interacts with |
|---|---|---|---|
| bookings | `Booking` (status, service, times, assignee) | create (single or series), update, on-the-way, complete | services, invoices, automations, workflows |
| field operations | `Booking`, `FieldJobReport` | start, assign, notes, complete | invoices, dispatch actions |
| booking portal | `Booking`, `Customer` | public booking, pay on booking | invoices, payments, automations |
| services | `Service` | create, update | read by every booking |
| invoices | `Invoice`, `Tenant.invoiceCounter` | create, create from booking, status | automations |
| payments | `Payment`, `WebhookEvent`, `Invoice` | payment link, provider events, replay, mock checkout, receipts, platform billing events | providers, invoices, tenants |
| scheduler | `OperationalAction`, `Invoice` | the interval pass over all tenants | invoices, leads, automations |
| workflows | `OperationalAction`, `Invoice`, `Tenant` | booking status follow-up, overdue, revenue, lead, billing and trial scans | automations |
| automations | `AutomationRule`, `AutomationRun`, `MessageLog` | trigger, send, retry, verification pack | message provider |
| collections | `OperationalAction`, `Invoice`, audit log | overdue scan, cadence, receipts, promises | payments, messages |
| platform administration | `Tenant`, `PlatformBillingEvent`, support access | plans, billing, trials, replay, retry, impersonation | payments, automations, workflows |
| receptionist, inbox, leads | `Conversation`, `BookingIntent`, `Lead` | message, intent, quote, hand-off, lead, conversion to a booking | bookings, automations |
| retention | `OperationalAction`, audit log | scan of customers, repeat and win-back offers, campaigns | bookings, invoices |
| whatsapp webhook | `WebhookEvent`, `Customer`, `MessageLog` | deliver, replay | platform administration |
| customers | `Customer`, `Conversation`, `Lead` | create, import of a list, import of an export | plan limits |
| auth, tenants | `Tenant`, `User` | register; staff create, activate, deactivate; settings | plan limits |
| attendance | `Attendance` | check-in, check-out | auth |
| plan limits | none; reads `Tenant` | write guard, limits | customers, leads, bookings, tenants |
| scheduling, rate limit, dashboards, health, audit | none, or a map in memory | see `PROJECT.json` | |

`PROJECT.json` lists each component with its status and what of it is left out.

### What is hard

* **Check, then write.** The calendar conflict check, the status table, "already paid", "already
  billed", "already converted", the plan limits and the open check-in are all read in one
  statement and relied on in a later one.
* **Snapshots.** An update writes back fields it read (times, service, dispatch status, invoice
  status), so a slow request can undo a fast one.
* **Loops of single writes.** A series is inserted row by row, a scan updates invoice by invoice
  from a list it took earlier; an exception leaves the first part in place.
* **Providers.** A payment provider repeats an event until it is answered, a message provider
  may accept a message whose answer is lost; both meet rows that were stored before or after
  the work they stand for.
* **The same thing asked twice.** Triggers, scans, replays, retries and links come repeatedly,
  and only an idempotency key, or nothing, keeps the effect single.

`PROJECT.json` lists these as hazards, each at its line and with the properties that cover it.

### What makes each component correct

* bookings and field operations: no user has two active bookings at one time; statuses follow
  `statusTransitions`; the stored interval fits the service; a completed report stays completed
  and belongs to a completed booking; staff do not move bookings.
* invoices: one invoice per booking, one number per invoice, an invoice for everybody who is
  told there is one; `PAID` and `VOID` are final.
* payments: an event that shows as processed has its payment; what a customer pays is recorded;
  an invoice is not collected twice.
* automations: one message per run; `SENT` means logged; a due run does not stay pending.
* workflows and scheduler: an action is opened only at the stage of the booking that it is about;
  the dispatch action is with whom the booking is with; a completed job leaves no dispatch behind.
* leads, inbox, receptionist: one booking per inquiry, found again from its intent or its lead; what
  a person has taken over stays so.
* platform billing: the ledger has the money of an event once; nobody is active for nothing; a
  subscription that started is not set past due by an older scan.
* collections, retention: a customer is contacted once for each reason, and not about what is settled;
  what the audit log says was done was done.
* customers, webhook, auth, tenants, attendance: counts stay within the plan, one tenant per e-mail,
  one open shift per person; an inbound message is neither lost nor stored twice.

## 2. The modules

| module | models | role |
|---|---|---|
| `AgencyCalendar` | the calendar of a tenant as its users see it | abstract specification |
| `BookingLifecycle` | bookings, field operations, portal, fixture, invoices of bookings | detailed specification, implements `AgencyCalendar` for one request at a time |
| `InvoicePayments` | invoice status, payment links, provider events, replay, overdue scans | detailed specification |
| `Automations` | rule, runs, sending, retry, verification pack | detailed specification |
| `DispatchActions` | the action queue as bookings, invoices and scans open, hand over and close it | detailed specification |
| `Inquiries` | receptionist, inbox and leads: one conversation, its intents and leads, and their bookings | detailed specification |
| `TenantBilling` | the subscription of a tenant: provider events, replay, trial and recovery scans, platform staff | detailed specification |
| `Outreach` | what one customer is sent about money and work: cadence, receipts, promises, offers, leads | detailed specification |
| `Intake` | how customers, messages, tenants, staff and shifts come in, under the limits of the plan | detailed specification |
| `MC...`, one for each but `AgencyCalendar` | small instances | model checking |
| `...Proofs`, one for each but `AgencyCalendar` | | theorems |

A definition that stands right before the one it resembles and is used nowhere is a faulty
variant of it, the way a plausible bug would have it; every property is checked to fail
when the variant takes the place of the original (`mutants` in `PROJECT.json`).

### BookingLifecycle

*State.* `booking` and `report` are the two tables, `invoices` and `invoiceCounter` the invoices of the
tenant, `duration` the services. A handler has a label `pc` (its next await), its `call` (dto), the
`target` row, the row it has `seen`, the duration `len` it read and its position `step` in a
series. `since`, `raced` and `offered` are history: which bookings others wrote since a handler
read or checked, which pairs of bookings were written without a check against each other as
they are now, and which durations each service has had.

*Actions.* `BeginCreate`, `BeginPortal`, `BeginFixture` and `BeginOnBooking` take a request, and for the
last one do the access query and the guards on the row read. `LookupService` and
`CheckStaffFree` are the reads before the write; the check of a series is one query per start
time. `InsertRow`, `WriteUpdate`, `WriteStart`, `WriteAssign` and `WriteComplete` are the writes with the
columns each handler takes from dto, snapshot or row; an update writes the service and the times of its snapshot
also when only a status was sent, and `OnlyStaleWritesUndoMoves` says when that takes back a move. `UpsertReport` is the report upsert of start and
notes. `FindInvoice` and `CreateInvoice` are `createFromBooking`, whose second step is the
transaction of counter and insert with the unique `bookingId`. `InvoiceByHand` and `EditService` are the
two other writers. `Fail` ends a request at any await: an exception, a later refusal
(conflict found, unique key) or a crash.

*Abstractions.* A request that is refused on its first read has no action, since it changes
nothing. Times are integers and a repeat interval is the constant `Week`. Customers, notes,
photos, amounts, audit records and the automation and workflow calls after a write are left
out; their failure is `Fail`. The fixture of the verification pack leaves `endTime` null, and a null
end never matches the SQL predicate: rows and predicate keep that.

### InvoicePayments

*State.* `invoice` (status), `pastDue` (due date over), `payment`, `event` (the webhook event of the
charge of a payment), the provider's `checkout` and `charged`, and workers with what they read.

*Actions.* `BeginStatus`/`WriteStatus` are `updateStatus`; `BeginLink` to `WriteLink` are
`createInvoicePaymentLink` (read, insert the payment, open the checkout, write the status of the
snapshot); `StoreEvent`, `CompletePayment`, `MarkEvent` are a webhook, the same for Stripe and
Paystack; `Replay` is the replay by id, from any status (the two `RECEIVED` updates that the platform
service and the payments service make one after the other are one action); `BeginMock` and
`CompleteMock` are the mock checkout; `BeginVerify`, `InsertVerified` and `SignEvent` are the provider verification of the
platform, which makes a payment on an invoice of its own, signs an event for it and lets the webhook handle that;
`BeginScan`/`MarkOverdue` are the two scans that update one by one, `CollectionsScan` the one that is a single statement.
`Throw` is an exception inside
the `try` of a webhook, `Abort` an exception elsewhere or the end of the process.

*External.* A customer may pay every open checkout once; the provider sends the event of the
charge until a delivery is accepted.

*Abstractions.* A new payment takes the next free id (`NewId`), and `IdLeft` keeps one for every call that is about to
insert. A worker is in `since` of an invoice once another call has written it after the worker read it (`Copies`, `Outdate`).

*Seen while modelling.* The verification records a successful payment that nobody made, on an invoice it creates in
the tenant it is asked to verify: the ledger of that tenant shows money it does not have.

### Automations

*State.* One rule (active, delayed, empty template), `phones` (which customers have a number), `run` by
idempotency key, the number of
message rows `log` and of messages the provider `accepted`, and workers. The rules of different
triggers share nothing, so one is enough.

*Actions.* `FindRule`, `SkipRun`, `UpsertRun` are `trigger`; `ReadRun` to `AuditSent` and `MarkFailed` are
`sendRun`; `FindRun`, `Retry` are `retry`; `EnableRule`, `FindEnabledRule` are the verification
pack, which switches the rule on and sends what is pending even with a delay; `EditRule` is
`upsert`. `Throw` covers a provider that refuses, an answer that is lost after the provider
accepted, and every statement inside the `try`, the audit record after `SENT` included.

*Seen while modelling.* A run created under a delay stays `PENDING`: each later trigger computes the
schedule anew, and nothing polls runs that are due. Two of the four default rules
(`src/auth/auth.service.ts`, `INVOICE_DUE` and `REVIEW_REQUEST`) have a delay. The model has this behaviour;
`DueRunsEnd` is stated for runs without a delay.

### DispatchActions

*State.* `booking` (status and assignee), `bill` (the invoice of a booking: none, due, paid), `task` (the
`OperationalAction` rows by type and booking), and workers with a label `pc`, the `call` they
were made for and an `agenda`: the upserts and `updateMany`s still to be made. An agenda is fixed by the
row that a write returned, or by the lists that a scan read, and is worked off one statement
at a time. `since` and `disturbed` are history: which bookings others wrote since a
worker saw them, and which bookings two calls crossed on, a call was cut off on, or a hand edited.

*Actions.* `Create` is the insert of `create` and of the portal (a series is one such call per booking), `BeginUpdate`, `BeginStart`,
`BeginComplete` and `BeginAssign` are the reads and guards of the handlers, `ConflictFound` the refusal of
an assignment, which opens an action of its own. `Write`, `BillJob` and `ReadAgain` lead to the row that
`handleBookingStatusChanged` is called with, and `FollowUp` is what that makes of it. `ScanFirst` and
`ScanSecond` are the two reads of the revenue scans (scheduler and `WorkflowsService` read in different
order), `ScanOverdue` the one of the overdue scans; `OpenAction`, `OpenActionFor` (with an assignee),
`HandOverActions`, `CloseActions` and `SetOverdue` are the statements of an agenda. `UpdateAction` is an
edit by a manager or by the platform, `Fail` an exception or crash at any await.

*Abstractions.* Which bookings are near enough for a scan is left open, and an invoice that is due is past
its date. `Tracked` names the types whose rows are kept, since no statement reads one action and
writes another. `COLLECT_UNBILLED` is the `COLLECT_PAYMENT` action with no invoice in its key. The overdue
scan of `WorkflowsService` works on its invoices in parallel (`Promise.all`); here one follows the other.
The customer of a booking, a part of the key, is fixed: after an update that changes the customer, `task` is about the
rows under the present one.

*Seen while modelling.* `upsertAction` opens whatever there is: each scan, and each update of a confirmed
booking, reopens an action that a manager dismissed or completed. `assignJob` sets the dispatch action in progress
and `handleBookingStatusChanged` sets it back to `OPEN` right after. `CANCELLED` and `NO_SHOW` close nothing, so
the dispatch action of a cancelled booking stays open until somebody closes it. No comment or test of the repository
speaks of these, so they are reported here and not as findings.

### Inquiries

*State.* `intent` and `lead` (the lead of an intent has its id; `ByHand` is a lead without one), the number of
`bookings` made of each, workers with the inquiry (`key`), what was told of it (`data`) and the booking they `made`. The history
names the reasons a booking may be made twice or lost: `doubled`, `lost`, `reopened`, `edited`.

*Actions.* `BeginMessage` to `LeadOfIntent` are `handleInquiry` (find the collecting intent, write or
insert it, upsert its lead); `CreateIntent`, `SendQuote`, `ConvertToLead` and `HandOff` the other ways in; `ReadIntent`,
`MakeBooking`, `RecordBooking`, `WinLeadOfIntent` are `bookIntent`; `ReadLead`, `MakeBooking`,
`WinLead`, `WinIntent` are `convertToBooking`. `UpdateLead` and `CreateLead` are a manager's edits. What
`bookings.create` does inside is one step here, which may be refused.

*Seen while modelling.* `bookIntent` records the booking on the intent only: the lead it wins
has no `bookingId` (`src/leads/leads.service.ts:334`), so `convertToBooking` of that lead books a second time without any race
(`BookedOnce` names the reason). A message in flight writes its collected status over an intent that
is booked or handed off meanwhile (`src/receptionist/receptionist.service.ts:213`). A crash or an exception between the
insert of the booking and the update of the lead (`src/leads/leads.service.ts:190`) leaves an open lead that the next conversion
books again: nothing in the code notices, and `BookedOnce` and `BookedLeadWon` except such inquiries (`lost`).

### TenantBilling

*State.* `tenant` (status, subscription, flags of its dates, whether it has the id of a Stripe subscription), the `event` rows with what they
say (`sent`), the number of ledger `rows` of each, open `tasks`, and workers with their position and, for scans and checkouts,
a copy that gets `stale`.

*Actions.* `StoreEvent`, `ResolveTenant`, `ApplyEvent`, `CompleteCheckout`, `FindRow`, `CreateRow`, `MarkEvent`,
`CatchError` follow an event through PaymentsService, `ReplayEvent` starts it again, `VerifyEvent` is the one that the
provider verification signs itself; `ScanTrial`/`ExpireTrial`,
`ScanRecovery`/`OpenTask` are the scans; `UpdateTenant`, `ArchiveTenant`, `RestoreTenant`, `CreateEntry`/`ApplyEntry`,
`MarkMockBillingSucceeded` and `ReadForCheckout`/`StoreLink` are the platform's own calls; what a checkout stores differs
by provider (`StripeGives`, `PaystackGives`, `MockGives`). `Crash` ends a call anywhere. `Init` is `createTenant`, which
may be given a status and a subscription (`Starts`) but no date; `UpdateTenant` may write the id of the subscription by
hand, and a checkout links the tenant only if the provider says that id. `byHand` is set where a person makes
the subscription itself active, in `createTenant` or `updateTenant`.

*Abstractions.* Prices, plans and `suspendedAt` are left out; a date is set or not, and the end of a trial is told
apart as the scan tells it apart. That only a super administrator may change a status is not told apart.

*Seen while modelling.* No code path sets `trialEndsAt` when a tenant is created, so the scan
finds nothing until staff set it. `updateTenant` of other fields clears `suspendedAt`. The payment of an invoice
activates a tenant that was archived. A credit clears `pastDueAt` while the subscription stays
`PAST_DUE`. A crash after the event row leaves it `RECEIVED` and the redelivery fails on the unique key: the money
comes in only when staff replay an event that the list of failures does not show.

### Outreach

*State.* One customer with one invoice (status, link, size, time to its due date), a promise, visits and a
lead; the open `tasks`; the audit log, as `done` (stages) and `thanked`; the number `sent` of each message; workers with a
copy. `crossed`, `broken` and `stale` are history.

*Actions.* `ReadInvoices` to `RecordStage` are the loop of `runCollectionCadence` for one invoice: look
for the stage in the audit log, make a link, send, open a task, write the entry. `ReadPromises`/`FollowUp`,
`ReadPayments`/`SendReceipt`/`RecordReceipt`, `ReadProfiles`/`OpenOffer` and `ReadLeads`/`FollowUpLead` are the other
runs; `RemindByHand`, `SendInvoiceLink`, `NotePromise`, `CloseInvoice` and `ScanOverdue` the actions by hand. Time passes one step at a time.

*Seen while modelling.* Nothing closes the `COLLECT_PAYMENT` tasks of an invoice that is paid. A promise that is due
opens its follow-up again at every run. Repeat offers are made to customers with an open
invoice, although `nextBestAction` of the same service says to collect first. An exception at one
invoice ends the run for all that follow.

### Intake

*State.* `customers` by phone, the conversations made of exports (`threads`, those with lines `kept`, those whose lines
are in the message log too `mirrored`, `leads`), `event` and `logs`
of each inbound message, `owners` (tenants registered with an e-mail), `taken` (slugs), `staff`, the shifts of each
(`open`), the `plan` of the tenant and whether it is `blocked`. Workers have a position, the `item` they work on, and
the `rows` and `chats` of an import still to come; what else it has read is `found`.

*Actions.* Each look and each write is an action: `CreateCustomer`, `CountCustomers`, `InsertCustomer`; `ImportCustomers`
or `ImportExport` (with `AdmitImport`, since an export asks a second time whether the tenant can write), `ReadLimit`,
`TakeRows` (the count, and the list cut to the room), `UpsertRow`, then `MatchChats`, `OpenThread`, `KeepLines`,
`MirrorLines`, `CreateLead` for each phone of an export; `Receive` (or `ReplayEvent`, or `Redeliver` by the provider),
`UpsertSender`, `LogMessage`, `EndMessage`; `Register`, `FindSlug`, `InsertTenant`;
`CreateStaff`, `CountStaff`, `FindStaff`, `InsertStaff`; `CheckIn`, `InsertShift`; `CheckOut`, `CloseShift`;
`BookForCaller`, `UpsertCaller` (the customer given with a booking). `AddUser`, `UpdateStaff`, `UpdateUser`, `ApplyPlan`
and `ChangeBilling` are single statements of others. A worker is `stale` once others have written what it looked at.

*Abstractions.* The tenant is the oldest of the installation. For single rows the limit is read in the
step of the count it is compared to. A plan may have no limit (`NONE`); an import then has room for 500 customers, more than
a run has. What an import still has to store is a set of phones, worked off in any order, since
a further row of a phone is skipped. The lines of an export are grouped by phone, and whether they look like an inquiry is left open.

*Seen while modelling.* A message that fails after its event is stored counts as `PROCESSED` and is in no list of
failures; it is the provider's next delivery that saves it (`AnsweredIsLogged`: whoever is answered
that a message was received has it in the log). Each repetition of a message that was logged
appends another row. A replay passes no signature: where `WHATSAPP_APP_SECRET` is set, it can only end `FAILED` (the model leaves open whether it is). The replay
of an event without a tenant goes
to the oldest tenant. Only the first message of a delivery is read. Messages, bookings with an inline customer,
users added by the platform and reactivated staff are under no limit. An import cuts its list to
the room that is left before it knows which rows exist, so known customers use up room; and importing
an export twice doubles its conversations and leads. Two registrations with one e-mail and different business names
make two tenants, and `login` takes the first user it finds. The monthly limit of bookings
(`src/bookings/bookings.service.ts:83`) counts the month of the first start and adds the whole series, and a monthly series from the
31st rolls into the month after next; both are wrong for one request alone.

## 3. The runs

Every passing run explores its whole state space.

| run | bounds | question and answer |
|---|---|---|
| `calendar_race` | 2 bookings, 2 requests, 2 users, overlapping starts, series of 2 | Every double booking has a race behind it, also of a series row that was checked before and inserted after a move; types hold. |
| `completion_race` | 1 booking, 2 requests of ten kinds, 2 invoices | With failures at every await: completions are answered with an invoice, nothing is billed twice, completed reports stay, and a status leaves the table only through a stale snapshot. |
| `service_edits` | 1 booking, 2 requests, 2 services, 2 durations | The stored interval always belongs to the stored service; a write that was not asked for a move undoes one only from an old snapshot. |
| `one_at_a_time` | 2 bookings, 1 request, series of 2 | Without concurrency the code implements `AgencyCalendar` (whose `Spec` excludes what `NoDoubleBooking` does): no clash, no status outside the table, also when a request fails half-way. |
| `double_booking` | as `calendar_race` | *Violated*: two requests pass the check and both book. |
| `payment_race` | 1 invoice, 2 payments, 2 workers, 1 fault | A processed event has its payment; only a writer with a stale copy changes an invoice that is paid or void, or opens a payment on it; unless the process dies, a charge is eventually recorded; types hold. |
| `send_race` | 1 run, customer with or without a phone, 2 workers, 1 retry, 1 fault | At most one message per run without an excuse; `SENT` is logged; unless the process dies, a run that is due at once does not stay pending; types hold. |
| `dispatch_race` | 1 booking, 1 staff member, 2 workers, 1 edit, types dispatch and confirmation | Only a call with a stale copy opens an action outside its stage; unless two calls crossed or one was cut off, the dispatch action is with the assignee and a completed job has none; types hold. |
| `inquiry_race` | 1 intent and 1 lead by hand, 2 workers, 2 bookings, 1 edit, 2 faults | An inquiry is booked once and its booking is found again, its lead is won, a settled intent stays settled, with the exceptions that the properties name. |
| `billing_race` | 1 event of any kind, 2 workers, 1 replay, 2 edits, 1 fault | The ledger has an event once unless two calls handle it at once; a processed event is in it; nobody is active for nothing; scans and checkouts do harm only with an old copy. The tenant starts on trial, or active, unpaid or canceled by hand. |
| `outreach_race` | 1 customer, 1 invoice, 2 runs, 2 steps of time, 3 edits, 1 fault | A customer is contacted once for each stage unless two runs crossed or one failed after sending; the audit log is true; only an old copy bothers the customer wrongly. |
| `intake_race` | 2 phones, 2 e-mails, 1 name, 3 messages, 2 workers, 3 calls, 1 edit, 1 fault | A message and the lines of an export are kept once unless a call failed or they came again; no message is answered as received without being in the log, since a second delivery is not taken for a duplicate; limits and duplicates fail only for calls whose look is out of date; every row refers to one that exists. |

*Why the bounds are enough.* Conflicts, double billing and double sending are about two rows or one
row and two handlers: a third handler can only repeat what the second did to the first. A series
needs two rows to meet itself. Two start times one unit apart with a duration of two give
overlapping, equal and adjacent intervals. Two registrations of one business name meet at its slug, and one that comes
after the other's insert takes the next number, so one name shows both. The safety properties are proved
for every number of rows and handlers; the bounds matter for the liveness properties and as a test of the models. Bounds that
cut behaviour are named: `MaxInvoices` (counter), `MaxRepeat` (series),
`MaxFaults` (exceptions and crashes), `MaxRetries` (retries by hand) and the guard of `BeginLink` that
keeps a payment id free, `MaxEdits` (what people change by hand), `MaxReplays`, `MaxDays` (steps of time), `MaxSent`
(messages of one kind) and `MaxCalls` (calls in all, in `intake_race`: two that meet and one
before or after them; the deliveries that follow a failure are not counted).
`MaxInvoices = 0` in the calendar runs leaves billing out, which has no
influence on the calendar; requests that would bill end in `Fail` there.

*Deadlock* is checked in the runs of the first four modules; in `inquiry_race`, `billing_race`, `outreach_race`
and `intake_race` the bounds on calls, edits and days end every behaviour, so it is not. *Symmetry* is used
for bookings, workers and e-mails where the ids are
interchangeable, and not in `payment_race` and `send_race`, which check liveness.

*Fairness.* `payment_race`: a worker that started goes on (weak fairness of `Continue`: nothing
blocks a handler); the provider repeats an event until it is accepted, and the staff of the platform
replay the `FAILED` events that their console lists, so neither waits for ever for a free worker
(strong fairness of `StoreEvent` and of `Replay` of a failed event). `send_race`: weak fairness
of the workers only. The two liveness properties end in "or `crashed`",
the history variable of a process
that died or a statement that failed outside the `try`: a crash between the event row and the
end of the webhook leaves the event `RECEIVED`, the redelivery fails on the unique key and the console
lists only `FAILED` events, so a payment would stay unrecorded; likewise a crash leaves a run `PENDING`
until its next trigger. Exceptions inside the `try` do not weaken them.

### Where the code does not do what it says

`double_booking` finds two requests that both pass the conflict check and both book; `PROJECT.json` quotes what the
repository says of it (`README.md:168`) under `findings`. The same shape, a check on an older read, is behind the other
promises that hold only with the exceptions the passing runs state:

* "Cannot move invoice from ..." and `[InvoiceStatus.PAID]: []` (`src/invoices/invoices.service.ts:25`): a scan, a link or a status change with
  an older copy takes an invoice out of `PAID` (`OnlyStaleWritesAfterEnd`).
* "Void invoices cannot be paid" and "Invoice is already paid" (`src/payments/payments.service.ts:86`, `:89`): the link is
  refused, but a checkout opened before still settles, whatever the invoice has become, and two open links of one invoice can both be collected.
* "Staff can only update status and notes" (`src/bookings/bookings.service.ts:476`): every update writes service and times from its
  snapshot, so a status-only update reverts a concurrent move; `OnlyStaleWritesUndoMoves` says that it takes such a crossing, and
  `EndFromOffered` that end and service still fit afterwards.
* The status table of bookings (`OnlyStaleWritesBreakTransitions`).

## 4. The proofs

Every safety property that a passing run checks is also a theorem, for every value of the constants that the
named assumptions allow: any numbers of rows and of calls in flight, any bounds on faults and edits. All proofs
have one shape. An inductive invariant strengthens the property with what each call knows at each of its
awaits; a lemma shows that each action keeps it; the theorem follows. TLC checked each strengthening on the instance of the
run before it was proved. `TypeCorrect` comes first everywhere, and needs a strengthening too: what a call
holds at a label (a row, an id, a length), without which a write could store a row that is missing.

| module | theorem | inductive invariant, and why it is needed |
|---|---|---|
| `BookingLifecycleProofs` | `TypeCorrect` | `LocalOK`: what a handler has by each label. |
| | `EndAlwaysOffered` | `OfferedInv`: a length that a handler has looked up is one that the service of its row or request has had; service, start and end are always written together. |
| | `StaleWritesUndo` | `Ready` again: the row that the columns are taken from is the row of the table unless others wrote it. |
| | `BookingsChargedOnce`, `CompletionsAnsweredWithInvoice` | `BillingInv`: invoice numbers never exceed the counter, and a handler past the billing step has its invoice in the table. |
| | `CompletedReportStays` | types alone. |
| | `DoubleBookingsAreRaces` | `Prepared`: what a handler has checked stays vacant, and what it has read stays as it is, but for the rows that others wrote meanwhile, which `since` records; for a series, with each of its later rows. |
| | `StaleWritesOnly` | `Ready`: until it writes, a handler holds a row that its guards admitted, and that is the row of the table unless others wrote it. |
| | `NobodyDoubleBooked`, `CompletedReportsHaveCompletedJobs`, `HandlersImplementCalendar` | `Quiet`: nobody overtakes the only handler, so nothing is raced and no snapshot is old. |
| `InvoicePaymentsProofs` | `TypeCorrect` | `LocalOK`; an event has its payment (`EventOK`). |
| | `ProcessedIsSucceeded` | `MarkOK`: between the transaction and the answer the payment is recorded. |
| | `EndsAreKept` | `FreshOK`: what a call is about to do to an invoice is allowed by the row as it is now, unless the call is in `since`. |
| `AutomationsProofs` | `TypeCorrect` | no stored row is the missing row. |
| | `OneMessagePerRun` | `Single`: one worker at most is busy with a run that has no excuse, and after the message either it still is or the run is no longer pending. |
| | `SentRunsAreLogged` | `Counted`: rows of the log and workers about to log together do not exceed the accepted messages. |
| `DispatchActionsProofs` | `TypeCorrect`, `OpensAreStale` | `Local`: each entry of an agenda is about a booking that exists, and suits the row that it has now or the booking is in `since`. |
| | `AssigneesAreInSync`, `CompletedJobsAreClosed` | `Sync`: on a booking that is not disturbed one worker at most is at work, and while rows and booking differ its agenda holds the statement that sets them right. |
| `InquiriesProofs` | `TypeCorrect` | `LocalOK`; a lead with the id of an intent has its intent. |
| | `BookingsAreFound` | `FoundOK`: a booking is recorded, or some worker is about to. |
| | `InquiriesAreBookedOnce` | `AloneOK`, `FirstOK`: who is about to book is the only one between check and record, and books for the first time. |
| | `SettledIsKept`, `BookedLeadsAreWon` | `ApartOK`, `OpenOK`, `WonOK`: a message that found its intent open is not handled beside a conversion of it, unless `reopened` says so. |
| `TenantBillingProofs` | `TypeCorrect` | `LocalOK`: a call has an event exactly while it handles one. |
| | `MoneyIsRecordedOnce` | `AloneOK`, `FoundOK`: the row that a call is about to make is still missing unless two calls overlapped. |
| | `DoneIsRecorded` | `DoneOK`: a call about to answer has its rows, and one at the main row has that of the setup fee. |
| | `ActiveTenantsHavePaid` | `EntryOK`, `PaidOK`: an active subscription goes back to an edit, an entry or the event of a payment. |
| | `FreshCopiesAreHarmless` | `FreshAt`: a copy that is not `stale` agrees with the tenant in what the scan or the checkout goes by. |
| `OutreachProofs` | `TypeCorrect`, `DoneWasDone` | `ItemOK`, `Behind`: who is about to write the audit entry has sent and opened. |
| | `OldCopiesOnly` | `Current`: a worker that has not been told relies on what is still so. |
| | `CustomersAreContactedOnce` | `Alone`, for each stage and the receipt: one run at most is at it, and after the contact it still is or the log says so. |
| `IntakeProofs` | `TypeCorrect` | `Refers`: conversations, messages and shifts have their customer or user, and so has what a worker is about to store. |
| | `InboundIsKept` | `Inbound`: a processed message is logged, or some worker is about to, and one that came once is logged once. `Exports`: the conversations of a phone are those with lines and the workers in between, as a count, and the same for the log. |
| | `AnsweredMessagesAreLogged` | `Inbound` again: who has come past the log has logged, and who goes round it has nothing to log. |
| | `FreshLooksHold` | `Looks`: what a worker has looked at still holds unless it is `stale`; the rows of an import and those that are there fit into the plan together (`RowsFit`, for lists of every length). |

*Hypotheses.* Besides the assumptions of the modules (constants that are not each other's elements, bounds that are
numbers, plans and messages of the right shape), four theorems have one of their own.

* `SeriesSpaced`, in `DoubleBookingsAreRaces`, `NobodyDoubleBooked` and `HandlersImplementCalendar`: no service lasts longer than the
  repeat interval. Without it a series clashes with itself, since its rows are checked before any is written. The code
  does not enforce it; a service of a week does not occur.
* `Sequential`, in the three theorems about one request at a time: any two handlers are the same. It is the condition of the
  run `one_at_a_time`, and `double_booking` shows that two handlers are enough to break the calendar. What concurrent requests keep
  is said by `DoubleBookingsAreRaces` and `StaleWritesOnly`, which have no such condition. Failures at every await are part of all of them.

*The refinement.* `HandlersImplementCalendar` proves, step by step, that `BookingLifecycle` implements `AgencyCalendar`: an insert is
`Book` with one entry, a write is `Change` of one entry along the status table, and every other step of a handler shows its users nothing.
That the entries do not clash after a write is the vacancy of the check (`Prepared`) with `raced` empty.

*Only model-checked.* The two liveness properties, `ChargedIsRecorded` and `DueRunsEnd`: the prover has no rule for
fairness.

## 5. Not modelled, and the plan

Every safety property of the runs is proved. Next:

* the refinement for requests in flight together: `AgencyCalendar` with clashes and transitions that are due to a race, which
  the handlers should implement for every number of requests;
* an abstract ledger for `InvoicePayments` and `TenantBilling` (an amount comes in once), and the refinement of both;
* lemmas that the proofs of two modules share, stated once.


Not modelled:

* `scheduling`: it only reads. Slots and suggestions are computed from one state of the calendar, and whatever is booked
  from them passes the check of `BookingLifecycle` again.
* The rate limit: a counter in the memory of the process that is changed without an await.
* Support access and impersonation: tokens with a lifetime and a row each, written by one person at a time.
* The limits of leads and of bookings in a month, which count and insert as the two that are modelled do.
* That an exception in the scans of one tenant ends the pass for the tenants after it: every module has one tenant.
* Dashboards, timelines and other read-only summaries, the audit log (except where the code reads it), templates and
  wording, seeds, health checks, configuration and signature verification.
