-------------------------- MODULE BookingLifecycle --------------------------
(***************************************************************************)
(* The booking table of one tenant and the request handlers that write it: *)
(* BookingsService (create, update and its shortcuts), FieldOpsService     *)
(* (start, assign, notes, complete), BookingPortalService.createBooking    *)
(* and the verification fixture of AutomationsService, with the invoices   *)
(* that completing a job or paying on booking creates.                     *)
(*                                                                         *)
(* A handler runs between its awaits without interruption, and nothing     *)
(* locks a row from a handler's read to its write.  So one action is one   *)
(* database statement (or one $transaction), and the handlers interleave   *)
(* at every await.  A request that is refused writes nothing: a snapshot   *)
(* guard is a conjunct of Begin..., a refusal further on is Fail.          *)
(***************************************************************************)
EXTENDS Integers, FiniteSets

CONSTANTS
    Bookings,    \* ids the booking table can hold
    Handlers,    \* requests in flight at the same time
    Users,       \* active users of the tenant, all of them assignable
    Managers,    \* the users with role OWNER or MANAGER
    Services,    \* active services
    Durations,   \* values of Service.durationMinutes
    Starts,      \* start times a request may ask for
    Week,        \* repeat interval of a series
    MaxRepeat,   \* most rows of a series (12 in the code)
    Requests,    \* the requests clients send
    MaxInvoices, \* bound on the tenant's invoice counter
    NONE         \* null, or a field left out of a dto

BookingStatus == {"REQUESTED", "CONFIRMED", "IN_PROGRESS", "COMPLETED",
                  "NO_SHOW", "CANCELLED"}
ReportStatus  == {"DRAFT", "COMPLETED"}
Creating      == {"create", "portal", "fixture"}
OnBooking     == {"update", "start", "assign", "complete", "notes"}

\* A call with its dto.  invoice is autoInvoice # false for "complete" and
\* payNow for "portal".
Request ==
    [kind    : Creating \cup OnBooking,
     user    : Users,
     status  : BookingStatus \cup {NONE},
     service : Services \cup {NONE},
     start   : Starts \cup {NONE},
     staff   : Users \cup {NONE},
     repeat  : 1..MaxRepeat,
     invoice : BOOLEAN]

ASSUME BoundsAssumption ==
    /\ Durations \subseteq Nat \ {0}
    /\ Starts \subseteq Nat
    /\ Week \in Nat
    /\ MaxRepeat \in Nat \ {0}
    /\ MaxInvoices \in Nat
ASSUME RolesAssumption == Managers \subseteq Users
ASSUME RequestsAssumption ==
    /\ Requests \subseteq Request
    /\ \A r \in Requests :
         /\ r.kind \in Creating => r.service # NONE /\ r.start # NONE
         /\ r.kind = "create" => r.status # NONE
         /\ r.kind = "assign" => r.staff # NONE
         /\ r.kind \in OnBooking \ {"update"} =>
              r.service = NONE /\ r.start = NONE /\ r.status = NONE
ASSUME NoneAssumption ==
    NONE \notin Bookings \cup Users \cup Services \cup BookingStatus
                \cup ReportStatus \cup Nat

VARIABLES
    booking,        \* the Booking table: id -> row, NONE where there is none
    report,         \* FieldJobReport.status by booking, NONE without a report
    invoices,       \* Invoice rows: number and booking
    invoiceCounter, \* Tenant.invoiceCounter
    duration,       \* Service.durationMinutes
    pc,             \* next await of each handler
    call,           \* its request
    target,         \* the booking it works on
    seen,           \* the row it last read or got back from its own write
    len,            \* the service duration it read
    step,           \* its position in the loop over the start times
    since,          \* history: bookings others wrote since it read or checked
    raced,          \* history: pairs a write was not checked against as of now
    offered         \* history: the durations each service has ever had

table   == <<booking, report, invoices, invoiceCounter>>
local   == <<pc, call, target, seen, len, step>>
history == <<since, raced, offered>>
vars    == <<table, duration, local, history>>

(***************************************************************************)
(* Rules the handlers apply to what they have read.  A definition that     *)
(* stands right before the one it resembles, and is used nowhere, is a     *)
(* faulty variant of it: the runs are repeated with each of them.          *)
(***************************************************************************)
ReopenCompleted ==
    [REQUESTED   |-> {"CONFIRMED", "CANCELLED"},
     CONFIRMED   |-> {"IN_PROGRESS", "COMPLETED", "NO_SHOW", "CANCELLED"},
     IN_PROGRESS |-> {"COMPLETED", "CANCELLED"},
     COMPLETED   |-> {"CONFIRMED"},
     NO_SHOW     |-> {},
     CANCELLED   |-> {}]

statusTransitions ==
    [REQUESTED   |-> {"CONFIRMED", "CANCELLED"},
     CONFIRMED   |-> {"IN_PROGRESS", "COMPLETED", "NO_SHOW", "CANCELLED"},
     IN_PROGRESS |-> {"COMPLETED", "CANCELLED"},
     COMPLETED   |-> {},
     NO_SHOW     |-> {},
     CANCELLED   |-> {}]

RequestedIgnored == {"CONFIRMED", "IN_PROGRESS"}

activeConflictStatuses == {"REQUESTED", "CONFIRMED", "IN_PROGRESS"}

StatusTransitionAllowed(from, to) == from = to \/ to \in statusTransitions[from]

\* assertStaffUpdate: a staff member sends only status and notes, and only
\* starts or completes.
StaffUpdateAllowed(current, req) ==
    /\ req.service = NONE /\ req.start = NONE /\ req.staff = NONE
    /\ \/ req.status = NONE
       \/ current = "CONFIRMED" /\ req.status \in {"IN_PROGRESS", "COMPLETED"}
       \/ current = "IN_PROGRESS" /\ req.status = "COMPLETED"

isManager(user) == user \in Managers

Rows == {b \in Bookings : booking[b] # NONE}

\* The where clause of the two reads: staff find only their own bookings.
Accessible(user, b) ==
    b \in Rows /\ (isManager(user) \/ booking[b].staff = user)

AnyActiveRow(req, row) ==
    CASE req.kind = "update" ->
           /\ isManager(req.user) \/ StaffUpdateAllowed(row.status, req)
           /\ req.status = NONE \/ StatusTransitionAllowed(row.status, req.status)
      [] OTHER -> row.status \in activeConflictStatuses

\* The guards on the row read that refuse a request.
Admissible(req, row) ==
    CASE req.kind = "update" ->
           /\ isManager(req.user) \/ StaffUpdateAllowed(row.status, req)
           /\ req.status = NONE \/ StatusTransitionAllowed(row.status, req.status)
      [] req.kind = "start" -> row.status = "CONFIRMED"
      [] req.kind = "assign" ->
           /\ isManager(req.user)
           /\ row.status \in activeConflictStatuses
      [] req.kind \in {"complete", "notes"} ->
           row.status \in {"CONFIRMED", "IN_PROGRESS"}

Given(field, old) == IF field = NONE THEN old ELSE field

\* What handler h is about to store, computed from its request and the
\* snapshot it read (step stays 0 outside the loop over a series).
ServiceOf(h)  == Given(call[h].service, seen[h].service)
AssigneeOf(h) == Given(call[h].staff, seen[h].staff)
OneWeekOn(h)  == Given(call[h].start, seen[h].start) + (step[h] + 1) * Week
StartOf(h)    == Given(call[h].start, seen[h].start) + step[h] * Week
EndKeptUnlessMoved(h) ==
    IF call[h].start = NONE /\ seen[h].end # NONE
      THEN seen[h].end
      ELSE StartOf(h) + len[h]
DurationTwice(h) == StartOf(h) + 2 * len[h]

\* FieldOps checks the stored interval, and a missing end by the duration.
EndOf(h) ==
    IF call[h].kind = "assign" /\ seen[h].end # NONE
      THEN seen[h].end
      ELSE StartOf(h) + len[h]

\* The SQL predicate of assertNoStaffConflict: a null end never matches.
Clashes(row, staff, start, end) ==
    /\ row.staff = staff
    /\ row.status \in activeConflictStatuses
    /\ row.end # NONE /\ row.start < end /\ row.end > start

Invoiced(b) == \E i \in invoices : i.booking = b

OnCompletionOnly(h, row) ==
    /\ ~Invoiced(target[h])
    /\ \/ call[h].kind = "update" /\ row.status = "COMPLETED"
         /\ booking[target[h]].status # "COMPLETED"
       \/ call[h].kind = "complete" /\ call[h].invoice

\* The write that returned row is followed by createFromBooking.
NeedsInvoice(h, row) ==
    /\ ~Invoiced(target[h])
    /\ \/ call[h].kind = "update" /\ row.status = "COMPLETED"
       \/ call[h].kind = "complete" /\ call[h].invoice

EmptyRow == [status |-> "REQUESTED", service |-> NONE, start |-> NONE,
             end |-> NONE, staff |-> NONE]

Init ==
    /\ booking = [b \in Bookings |-> NONE]
    /\ report = [b \in Bookings |-> NONE]
    /\ invoices = {}
    /\ invoiceCounter = 0
    /\ duration \in [Services -> Durations]
    /\ pc = [h \in Handlers |-> "idle"]
    /\ call = [h \in Handlers |-> NONE]
    /\ target = [h \in Handlers |-> NONE]
    /\ seen = [h \in Handlers |-> EmptyRow]
    /\ len = [h \in Handlers |-> NONE]
    /\ step = [h \in Handlers |-> 0]
    /\ since = [h \in Handlers |-> {}]
    /\ raced = {}
    /\ offered = {<<s, duration[s]>> : s \in Services}

(***************************************************************************)
(* Requests arrive.                                                        *)
(***************************************************************************)
\* Handler h takes req with what it has read, and continues at label next.
Begin(h, req, b, row, minutes, next) ==
    /\ pc[h] = "idle"
    /\ pc' = [pc EXCEPT ![h] = next]
    /\ call' = [call EXCEPT ![h] = req]
    /\ target' = [target EXCEPT ![h] = b]
    /\ seen' = [seen EXCEPT ![h] = row]
    /\ len' = [len EXCEPT ![h] = minutes]
    /\ UNCHANGED <<table, duration, step, history>>

BeginCreate(h) ==
    \E req \in Requests :
        /\ req.kind = "create" /\ isManager(req.user)
        /\ Begin(h, req, NONE, EmptyRow, NONE, "lookup")

\* The portal reads the tenant with its services and asks for no staff; the
\* fixture leaves the end time out.
BeginPortal(h) ==
    \E req \in Requests :
        /\ req.kind = "portal"
        /\ Begin(h, req, NONE, EmptyRow, duration[req.service], "insert")

BeginFixture(h) ==
    \E req \in Requests :
        /\ req.kind = "fixture"
        /\ Begin(h, req, NONE, EmptyRow, NONE, "insert")

\* After the read, BookingsService.update looks the service up only when it
\* changes, and checks the calendar only for an assigned booking.
AfterRead(req, row) ==
    CASE req.kind = "update" ->
           IF req.service \notin {NONE, row.service} THEN "lookup"
           ELSE IF Given(req.staff, row.staff) # NONE THEN "check" ELSE "write"
      [] req.kind = "assign" -> "check"
      [] req.kind \in {"start", "complete"} -> "write"
      [] req.kind = "notes" -> "report"

BeginOnBooking(h) ==
    \E req \in Requests, b \in Bookings :
        /\ req.kind \in OnBooking
        /\ Accessible(req.user, b)
        /\ Admissible(req, booking[b])
        /\ Begin(h, req, b, booking[b], duration[booking[b].service],
                 AfterRead(req, booking[b]))

(***************************************************************************)
(* Reads before the write.                                                 *)
(***************************************************************************)
LookupService(h) ==
    /\ pc[h] = "lookup"
    /\ len' = [len EXCEPT ![h] = duration[call[h].service]]
    /\ pc' = [pc EXCEPT ![h] =
                CASE AssigneeOf(h) # NONE -> "check"
                  [] AssigneeOf(h) = NONE /\ call[h].kind = "create" -> "insert"
                  [] OTHER -> "write"]
    /\ UNCHANGED <<table, duration, call, target, seen, step, history>>

\* One assertNoStaffConflict query: for a series one per start time, for an
\* existing booking against every other row.  From here on only what others
\* write to other rows can make the answer stale.
CheckStaffFree(h) ==
    /\ pc[h] = "check"
    /\ \A b \in Rows \ {target[h]} :
         ~Clashes(booking[b], AssigneeOf(h), StartOf(h), EndOf(h))
    /\ LET last == call[h].kind # "create" \/ step[h] + 1 = call[h].repeat IN
         /\ step' = [step EXCEPT ![h] = IF last THEN 0 ELSE @ + 1]
         /\ pc' = [pc EXCEPT ![h] =
                     CASE ~last -> "check"
                       [] last /\ call[h].kind = "create" -> "insert"
                       [] OTHER -> "write"]
    /\ since' = [since EXCEPT ![h] =
                   IF step[h] = 0 THEN @ \cap {target[h]} ELSE @]
    /\ UNCHANGED <<table, duration, call, target, seen, len, raced, offered>>

(***************************************************************************)
(* Writes.                                                                 *)
(***************************************************************************)
\* Did h query the calendar for the row it now writes?
Checked(h) ==
    call[h].kind \in {"create", "update", "assign"} /\ AssigneeOf(h) # NONE

\* Handler h stores row b and gets it back.
Store(h, b, row, next) ==
    /\ booking' = [booking EXCEPT ![b] = row]
    /\ seen' = [seen EXCEPT ![h] = row]
    /\ target' = [target EXCEPT ![h] = b]
    /\ pc' = [pc EXCEPT ![h] = next]
    /\ since' = [g \in Handlers |->
                   IF g # h /\ pc[g] # "idle" THEN since[g] \cup {b} ELSE since[g]]
    /\ raced' = {p \in raced : ~(Checked(h) /\ b \in p)}
                \cup {{b, c} : c \in (IF b \in since[h] THEN Bookings
                                     ELSE since[h]) \ {b}}
    /\ UNCHANGED <<invoices, invoiceCounter, duration, call, len, offered>>

\* A new row, in the status the kind of request gives it.  The loop over a
\* series is one insert per await.
NewRow(h) ==
    [status  |-> IF call[h].kind = "create" THEN call[h].status ELSE "CONFIRMED",
     service |-> call[h].service,
     start   |-> StartOf(h),
     end     |-> IF call[h].kind = "fixture" THEN NONE ELSE EndOf(h),
     staff   |-> IF call[h].kind = "portal" THEN NONE ELSE call[h].staff]

InsertRow(h) ==
    \E b \in Bookings \ Rows :
        /\ pc[h] = "insert"
        /\ LET more == call[h].kind = "create" /\ step[h] + 1 < call[h].repeat IN
             /\ step' = [step EXCEPT ![h] = IF more THEN @ + 1 ELSE 0]
             /\ Store(h, b, NewRow(h),
                      CASE more -> "insert"
                        [] call[h].kind = "fixture" -> "charge"
                        [] call[h].kind = "portal" /\ call[h].invoice -> "bill"
                        [] OTHER -> "respond")
        /\ UNCHANGED report

\* BookingsService.update: service and times always come from the snapshot
\* or the dto, status and staff only from the dto.
WriteUpdate(h) ==
    LET b   == target[h]
        row == [status  |-> Given(call[h].status, booking[b].status),
                service |-> ServiceOf(h),
                start   |-> StartOf(h),
                end     |-> EndOf(h),
                staff   |-> Given(call[h].staff, booking[b].staff)]
    IN /\ pc[h] = "write" /\ call[h].kind = "update"
       /\ Store(h, b, row, IF NeedsInvoice(h, row) THEN "bill" ELSE "respond")
       /\ UNCHANGED <<report, step>>

WriteStart(h) ==
    /\ pc[h] = "write" /\ call[h].kind = "start"
    /\ Store(h, target[h],
             [booking[target[h]] EXCEPT !.status = "IN_PROGRESS"], "report")
    /\ UNCHANGED <<report, step>>

\* assignJob writes back the status of its snapshot.
WriteAssign(h) ==
    /\ pc[h] = "write" /\ call[h].kind = "assign"
    /\ Store(h, target[h],
             [booking[target[h]] EXCEPT
                !.staff = call[h].staff,
                !.status = IF seen[h].status = "REQUESTED"
                             THEN "CONFIRMED" ELSE seen[h].status],
             "respond")
    /\ UNCHANGED <<report, step>>

\* completeJob: booking and report in one transaction.
WriteComplete(h) ==
    LET b == target[h]
        row == [booking[b] EXCEPT !.status = "COMPLETED"]
    IN /\ pc[h] = "write" /\ call[h].kind = "complete"
       /\ Store(h, b, row, IF NeedsInvoice(h, row) THEN "bill" ELSE "respond")
       /\ report' = [report EXCEPT ![b] = "COMPLETED"]
       /\ UNCHANGED step

ReportReset(h) == "DRAFT"

\* The report upsert of startJob and saveNotes: DRAFT when new, and the
\* status of an existing report is left alone.
UpsertedStatus(h) == Given(report[target[h]], "DRAFT")

UpsertReport(h) ==
    /\ pc[h] = "report"
    /\ report' = [report EXCEPT ![target[h]] = UpsertedStatus(h)]
    /\ pc' = [pc EXCEPT ![h] = "respond"]
    /\ UNCHANGED <<booking, invoices, invoiceCounter, duration, call, target,
                   seen, len, step, history>>

(***************************************************************************)
(* InvoicesService.createFromBooking: look for an invoice, then increment  *)
(* the counter and insert in one transaction, which the unique bookingId   *)
(* rolls back if somebody billed the booking in between (Fail).            *)
(***************************************************************************)
FindInvoice(h) ==
    /\ pc[h] = "bill"
    /\ pc' = [pc EXCEPT ![h] = IF Invoiced(target[h]) THEN "respond" ELSE "charge"]
    /\ UNCHANGED <<table, duration, call, target, seen, len, step, history>>

IssueInvoice(b) ==
    /\ invoiceCounter < MaxInvoices
    /\ invoiceCounter' = invoiceCounter + 1
    /\ invoices' = invoices \cup {[no |-> invoiceCounter + 1, booking |-> b]}

NoUniqueKey(b) == TRUE

\* Invoice.bookingId is unique, null aside.
BookingIdFree(b) == b # NONE => ~Invoiced(b)

CreateInvoice(h) ==
    /\ pc[h] = "charge"
    /\ BookingIdFree(target[h])
    /\ IssueInvoice(target[h])
    /\ pc' = [pc EXCEPT ![h] = "respond"]
    /\ UNCHANGED <<booking, report, duration, call, target, seen, len, step,
                   history>>

(***************************************************************************)
(* A request ends: answered, or failed with an exception, a refusal by a   *)
(* later check, a lost database connection or the end of the process.      *)
(***************************************************************************)
Leave(h) ==
    /\ pc' = [pc EXCEPT ![h] = "idle"]
    /\ call' = [call EXCEPT ![h] = NONE]
    /\ target' = [target EXCEPT ![h] = NONE]
    /\ seen' = [seen EXCEPT ![h] = EmptyRow]
    /\ len' = [len EXCEPT ![h] = NONE]
    /\ step' = [step EXCEPT ![h] = 0]
    /\ since' = [since EXCEPT ![h] = {}]
    /\ UNCHANGED <<table, duration, raced, offered>>

Respond(h) == pc[h] = "respond" /\ Leave(h)
Fail(h)    == pc[h] \notin {"idle", "respond"} /\ Leave(h)

(***************************************************************************)
(* The rest of the tenant: an invoice made by hand (InvoicesService.create *)
(* is one transaction) and ServicesService.update.                         *)
(***************************************************************************)
InvoiceByHand(b) ==
    /\ b \in Rows \cup {NONE}
    /\ BookingIdFree(b)
    /\ IssueInvoice(b)
    /\ UNCHANGED <<booking, report, duration, local, history>>

EditService(s, minutes) ==
    /\ duration' = [duration EXCEPT ![s] = minutes]
    /\ offered' = offered \cup {<<s, minutes>>}
    /\ UNCHANGED <<table, local, since, raced>>

Handle(h) ==
    \/ BeginCreate(h) \/ BeginPortal(h) \/ BeginFixture(h) \/ BeginOnBooking(h)
    \/ LookupService(h) \/ CheckStaffFree(h)
    \/ InsertRow(h)
    \/ WriteUpdate(h) \/ WriteStart(h) \/ WriteAssign(h) \/ WriteComplete(h)
    \/ UpsertReport(h) \/ FindInvoice(h) \/ CreateInvoice(h)
    \/ Respond(h) \/ Fail(h)

Next ==
    \/ \E h \in Handlers : Handle(h)
    \/ \E b \in Bookings \cup {NONE} : InvoiceByHand(b)
    \/ \E s \in Services, minutes \in Durations : EditService(s, minutes)

Spec == Init /\ [][Next]_vars

-----------------------------------------------------------------------------
Times == {t + n * Week : t \in Starts, n \in 0..(MaxRepeat - 1)}
Ends  == {t + m : t \in Times, m \in Durations}
Row   == [status  : BookingStatus,
          service : Services,
          start   : Times,
          end     : Ends \cup {NONE},
          staff   : Users \cup {NONE}]
ASSUME NoRowAssumption == NONE \notin Row

Labels == {"idle", "lookup", "check", "insert", "write", "report", "bill",
           "charge", "respond"}

\* Every variable stays in the domain of its column or of its local variable.
TypeOK ==
    /\ booking \in [Bookings -> Row \cup {NONE}]
    /\ report \in [Bookings -> ReportStatus \cup {NONE}]
    /\ invoices \subseteq [no : 1..MaxInvoices, booking : Bookings \cup {NONE}]
    /\ invoiceCounter \in 0..MaxInvoices
    /\ duration \in [Services -> Durations]
    /\ pc \in [Handlers -> Labels]
    /\ call \in [Handlers -> Requests \cup {NONE}]
    /\ target \in [Handlers -> Bookings \cup {NONE}]
    /\ seen \in [Handlers -> Row \cup {EmptyRow}]
    /\ len \in [Handlers -> Durations \cup {NONE}]
    /\ step \in [Handlers -> 0..(MaxRepeat - 1)]
    /\ since \in [Handlers -> SUBSET Bookings]
    /\ raced \subseteq SUBSET Bookings
    /\ offered \subseteq Services \X Durations

\* The stored interval of a booking is as long as its service was at some
\* time: service, start and end are always written together, also by an
\* update that works from an old snapshot.
EndFromOffered ==
    \A b \in Rows : booking[b].end # NONE =>
        <<booking[b].service, booking[b].end - booking[b].start>> \in offered

\* The bookings as the calendar of the agency shows them.
Agency == INSTANCE AgencyCalendar WITH
              calendar <- [b \in Bookings |->
                  IF booking[b] = NONE THEN NONE
                  ELSE [status |-> booking[b].status, staff |-> booking[b].staff,
                        start |-> booking[b].start, end |-> booking[b].end]]

\* Bookings b and c keep one user busy at the same time.
DoubleBooked(b, c) ==
    b \in Rows /\ c \in Rows /\ b # c /\ Agency!Collide(booking[b], booking[c])

\* No user has two active bookings at one time ("Assigned staff already has
\* a booking at this time"): what the conflict check is for.
NoDoubleBooking == \A b, c \in Bookings : ~DoubleBooked(b, c)

\* A double booking is always the work of a race: one of the two rows was
\* written by another request after the check of the write that made it, or
\* was changed under a writer that had read it.  No order of undisturbed
\* requests, recurring series included, double-books.
DoubleBookingOnlyByRace ==
    \A b, c \in Bookings : DoubleBooked(b, c) => {b, c} \in raced

\* The request owes its caller an invoice: it completed the job, or the
\* customer pays on booking.
Owes(h) ==
    \/ call[h].kind = "update" /\ seen[h].status = "COMPLETED"
    \/ call[h].kind \in {"complete", "portal"} /\ call[h].invoice
    \/ call[h].kind = "fixture"

\* Whoever is told that a job is completed, or pays on booking, has the
\* invoice, however many others bill the same booking meanwhile: the
\* two-step createFromBooking is answered only with the row in place.
CompletionAnsweredWithInvoice ==
    \A h \in Handlers : pc[h] = "respond" /\ Owes(h) => Invoiced(target[h])

\* No two invoices charge the same booking, and none shares a number, with
\* bookings billed by completion, portal and hand at once.
ChargedOnce ==
    \A i, j \in invoices :
        i # j => i.no # j.no /\ (i.booking # j.booking \/ i.booking = NONE)

\* A completed report belongs to a completed booking.
ReportImpliesCompleted ==
    \A b \in Rows : report[b] = "COMPLETED" => booking[b].status = "COMPLETED"

\* Once completed, the report of a job is never reopened, also by notes or
\* a start that read the job while it was active.
CompletedReportFinal ==
    [][\A b \in Bookings : report[b] = "COMPLETED" => report'[b] = "COMPLETED"]_vars

StatusStep(b) ==
    b \in Rows => Agency!MayBecome(booking[b].status, booking'[b].status)

\* A status leaves the table only when the writer's snapshot is stale, that
\* is, when another request wrote the booking after it was read: the guards
\* of six handlers agree with one table ("Cannot move booking from ... to").
OnlyStaleWritesBreakTransitions ==
    [][\A b \in Bookings :
          StatusStep(b) \/ \E h \in Handlers : target[h] = b /\ b \in since[h]]_vars

\* The write of h gives booking b no other start, service or user than it had or
\* the request names.
AsAsked(h, b) ==
    \A f \in {"start", "service", "staff"} : booking'[b][f] \in {booking[b][f], call[h][f]}

\* A status sent alone undoes no move: a booking gets another start, another service
\* or another user only by a request that names it, or by a writer whose snapshot
\* is stale, for an update writes all of its snapshot back, whatever was asked.
OnlyStaleWritesUndoMoves ==
    [][\A b \in Rows : booking'[b] # booking[b] =>
          \E h \in Handlers :
             /\ pc[h] = "write" /\ pc'[h] # "write" /\ target[h] = b
             /\ b \in since[h] \/ AsAsked(h, b)]_vars

\* Executed one at a time, the requests implement the calendar of the agency:
\* no clashes, no lost entries, no status outside the table.
OneAtATimeImplementsCalendar == Agency!Spec
=============================================================================
