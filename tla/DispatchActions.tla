--------------------------- MODULE DispatchActions ---------------------------
(***************************************************************************)
(* The action queue of a tenant: which operational actions the changes of  *)
(* a booking and the scans over bookings and invoices open, hand over and  *)
(* close.  WorkflowsService.handleBookingStatusChanged and its callers in  *)
(* BookingsService, FieldOpsService and BookingPortalService, the lost     *)
(* revenue and overdue scans of the scheduler and of WorkflowsService, and *)
(* updateAction of managers and of the platform.                           *)
(*                                                                         *)
(* As in BookingLifecycle a worker is one call and an action one statement.*)
(* A call first reads, then writes its booking; what is left to do is its  *)
(* agenda, fixed by the row it wrote or the lists it read, one upsert or   *)
(* updateMany per entry.                                                   *)
(***************************************************************************)
EXTENDS Naturals, FiniteSets, SequencesExt

CONSTANTS
    Bookings,
    Staff,
    Workers,   \* calls in progress at the same time
    Tracked,   \* types of the actions whose rows are kept
    MaxEdits,  \* bound on the actions edited by hand
    NONE

ASSUME EditsAssumption  == MaxEdits \in Nat
ASSUME FiniteAssumption == IsFiniteSet(Bookings)

BookingStatus == {"REQUESTED", "CONFIRMED", "IN_PROGRESS", "COMPLETED",
                  "NO_SHOW", "CANCELLED"}
ActionStatus  == {"OPEN", "IN_PROGRESS", "COMPLETED", "DISMISSED"}

\* COLLECT_UNBILLED is the COLLECT_PAYMENT action whose key has no invoice.
Types == {"DISPATCH_STAFF", "CONFIRM_BOOKING", "COLLECT_PAYMENT",
          "COLLECT_UNBILLED", "REQUEST_REVIEW", "FOLLOW_UP_NO_SHOW",
          "RESOLVE_STAFF_CONFLICT"}

\* No statement reads an action and writes another, so that the rows of some
\* types can be left out.
ASSUME TrackedAssumption == Tracked \subseteq Types

\* The customer of a booking is part of the key as well; here it is fixed.
Keys     == Tracked \X Bookings
Assignee == Staff \cup {NONE}
Booking  == [status : BookingStatus, staff : Assignee]
Task     == [status : ActionStatus, staff : Assignee]
Call     == [kind : {"update", "assign", "complete", "completeUnbilled"},
             b : Bookings, to : BookingStatus \cup {NONE}, staff : Assignee]

ASSUME NoneAssumption ==
    NONE \notin Bookings \cup Staff \cup BookingStatus \cup Booking \cup Task \cup Call

VARIABLES
    booking,  \* Booking rows, NONE where there is none
    bill,     \* the invoice of a booking: none, due or paid
    task,     \* OperationalAction rows by type and booking
    pc,       \* next await of each worker
    call,     \* what it was called for
    agenda,   \* the statements it has still to make
    since,    \* history: bookings others wrote since it read or wrote them
    disturbed,\* history: bookings written while another call was under way,
              \* or whose follow-up was cut off or edited by hand
    edits     \* actions edited by hand so far

local   == <<pc, call, agenda>>
history == <<since, disturbed>>
vars    == <<booking, bill, task, local, history, edits>>

statusTransitions ==
    [REQUESTED |-> {"CONFIRMED", "CANCELLED"},
     CONFIRMED |-> {"IN_PROGRESS", "COMPLETED", "NO_SHOW", "CANCELLED"},
     IN_PROGRESS |-> {"COMPLETED", "CANCELLED"},
     COMPLETED |-> {}, NO_SHOW |-> {}, CANCELLED |-> {}]

Rows == {b \in Bookings : booking[b] # NONE}

Active(t) == t # NONE /\ t.status \in {"OPEN", "IN_PROGRESS"}

(***************************************************************************)
(* The entries of an agenda.                                               *)
(***************************************************************************)
Entry(do, b, types, s) == [do |-> do, b |-> b, types |-> types, staff |-> s]

\* As in BookingLifecycle, a definition that is used nowhere is a faulty
\* variant of the one after it.
OpenForNobody(b, s) == Entry("open", b, {"DISPATCH_STAFF"}, s)

OpenFor(b, s)   == Entry("openFor", b, {"DISPATCH_STAFF"}, s)
Open(b, type)   == Entry("open", b, {type}, NONE)
HandOver(b, s)  == Entry("handOver", b, {"CONFIRM_BOOKING", "DISPATCH_STAFF"}, s)
Close(b, types) == Entry("close", b, types, NONE)
MarkOverdue(b)  == Entry("markOverdue", b, {}, NONE)

Entries ==
    [do : {"open", "openFor", "handOver", "close", "markOverdue"},
     b : Bookings, types : SUBSET Types, staff : Assignee]

CollectPayment(b, invoice) ==
    Open(b, IF invoice = "NONE" THEN "COLLECT_UNBILLED" ELSE "COLLECT_PAYMENT")

FinishedDispatch ==
    [IN_PROGRESS |-> {"DISPATCH_STAFF"}, COMPLETED |-> {"DISPATCH_STAFF"}]

\* What is closed when a job is under way, and when it is done.
Finished ==
    [IN_PROGRESS |-> {"DISPATCH_STAFF"},
     COMPLETED |-> {"DISPATCH_STAFF", "CONFIRM_BOOKING"}]

\* handleBookingStatusChanged; nothing follows REQUESTED or CANCELLED.
FollowUp(b, row, invoice) ==
    CASE row.status = "CONFIRMED"   -> <<OpenFor(b, row.staff)>>
      [] row.status = "IN_PROGRESS" -> <<Close(b, Finished.IN_PROGRESS)>>
      [] row.status = "NO_SHOW"     -> <<Open(b, "FOLLOW_UP_NO_SHOW")>>
      [] row.status = "COMPLETED" /\ invoice = "PAID" ->
           <<Close(b, Finished.COMPLETED), Open(b, "REQUEST_REVIEW")>>
      [] row.status = "COMPLETED" /\ invoice # "PAID" ->
           <<Close(b, Finished.COMPLETED), CollectPayment(b, invoice),
             Open(b, "REQUEST_REVIEW")>>
      [] OTHER -> <<>>

Init ==
    /\ booking = [b \in Bookings |-> NONE]
    /\ bill = [b \in Bookings |-> "NONE"]
    /\ task = [k \in Keys |-> NONE]
    /\ pc = [w \in Workers |-> "idle"]
    /\ call = [w \in Workers |-> NONE]
    /\ agenda = [w \in Workers |-> <<>>]
    /\ since = [w \in Workers |-> {}]
    /\ disturbed = {}
    /\ edits = 0

(***************************************************************************)
(* Steps of a worker.                                                      *)
(***************************************************************************)
Busy(w) == pc[w] # "idle"

Goto(w, label) == pc' = [pc EXCEPT ![w] = label]

\* What w has left to do; it ends when that is nothing.
Proceed(w, entries) ==
    /\ agenda' = [agenda EXCEPT ![w] = entries]
    /\ call' = [call EXCEPT ![w] = NONE]
    /\ Goto(w, IF entries = <<>> THEN "idle" ELSE "agenda")

\* The copies of w that are stale from now on; without an agenda it has none.
Rest(w, stale) ==
    since' = [since EXCEPT ![w] = IF agenda'[w] = <<>> THEN {} ELSE stale]

\* w stores row b; the copies of everybody else are stale.
Store(w, b, row) ==
    /\ booking' = [booking EXCEPT ![b] = row]
    /\ since' = [v \in Workers |-> IF v # w /\ pc[v] \notin {"idle", "write", "reread"}
                                   THEN since[v] \cup {b} ELSE {}]
    /\ disturbed' = IF \E v \in Workers \ {w} : Busy(v)
                      THEN disturbed \cup {b} ELSE disturbed

\* create and createBooking: the row is inserted with any status.
Create(w, b, row) ==
    /\ b \notin Rows
    /\ Store(w, b, row)
    /\ Proceed(w, FollowUp(b, row, "NONE"))
    /\ UNCHANGED <<bill, task>>

\* The call found its booking and passed the guards on the row it read.
Begin(w, kind, b, to, s) ==
    /\ b \in Rows
    /\ call' = [call EXCEPT ![w] = [kind |-> kind, b |-> b, to |-> to, staff |-> s]]
    /\ Goto(w, "write")
    /\ since' = [since EXCEPT ![w] = {}]
    /\ UNCHANGED <<booking, bill, task, agenda, disturbed>>

BeginUpdate(w, b, to, s) ==
    /\ b \in Rows
    /\ to \in {NONE, booking[b].status} \cup statusTransitions[booking[b].status]
    /\ Begin(w, "update", b, to, s)

BeginStart(w, b) ==
    /\ b \in Rows /\ booking[b].status = "CONFIRMED"
    /\ Begin(w, "update", b, "IN_PROGRESS", NONE)

BeginComplete(w, b, kind) ==
    /\ b \in Rows /\ booking[b].status \in {"CONFIRMED", "IN_PROGRESS"}
    /\ Begin(w, kind, b, "COMPLETED", NONE)

\* assignJob writes the status it read, REQUESTED as CONFIRMED.
BeginAssign(w, b, s) ==
    /\ b \in Rows
    /\ booking[b].status \in {"REQUESTED", "CONFIRMED", "IN_PROGRESS"}
    /\ Begin(w, "assign", b,
             IF booking[b].status = "REQUESTED" THEN "CONFIRMED" ELSE booking[b].status, s)

\* The assignment would clash: an action is opened and the call refused.
ConflictFound(w) ==
    LET k == <<"RESOLVE_STAFF_CONFLICT", call[w].b>>
    IN /\ pc[w] = "write" /\ call[w].kind = "assign"
       /\ task' = IF k \notin Keys THEN task
                  ELSE [task EXCEPT ![k] =
                          IF @ = NONE THEN [status |-> "OPEN", staff |-> call[w].staff]
                          ELSE [@ EXCEPT !.status = "OPEN"]]
       /\ Proceed(w, <<>>) /\ Rest(w, {})
       /\ UNCHANGED <<booking, bill, disturbed, edits>>

\* The row as the write returns it decides on the follow-up, unless a
\* completion has yet to be billed.
Write(w) ==
    LET c == call[w]
        row == [status |-> IF c.to = NONE THEN booking[c.b].status ELSE c.to,
                staff |-> IF c.staff = NONE THEN booking[c.b].staff ELSE c.staff]
    IN /\ pc[w] = "write"
       /\ Store(w, c.b, row)
       /\ IF row.status = "COMPLETED" /\ bill[c.b] = "NONE" /\ c.kind # "completeUnbilled"
            THEN Goto(w, "bill") /\ UNCHANGED <<call, agenda>>
            ELSE Proceed(w, (IF c.kind = "assign" THEN <<HandOver(c.b, c.staff)>> ELSE <<>>)
                              \o FollowUp(c.b, row, bill[c.b]))
       /\ UNCHANGED <<bill, task, edits>>

\* update reads the booking again after billing, completeJob does not.
BillJob(w) ==
    LET c == call[w]
        invoice == IF bill[c.b] = "NONE" THEN "DUE" ELSE bill[c.b]
    IN /\ pc[w] = "bill"
       /\ bill' = [bill EXCEPT ![c.b] = invoice]
       /\ IF c.kind = "update"
            THEN Goto(w, "reread") /\ UNCHANGED <<call, agenda>>
            ELSE Proceed(w, FollowUp(c.b, [status |-> "COMPLETED", staff |-> c.staff], invoice))
       /\ UNCHANGED <<booking, task, history, edits>>

ReadAgain(w) ==
    LET b == call[w].b
    IN /\ pc[w] = "reread"
       /\ since' = [since EXCEPT ![w] = {}]
       /\ Proceed(w, FollowUp(b, booking[b], bill[b]))
       /\ UNCHANGED <<booking, bill, task, disturbed, edits>>

(***************************************************************************)
(* Scans.  The scheduler looks for unassigned bookings first, the manual   *)
(* scan for requested ones; both then upsert in the order they looked.     *)
(* Which bookings are near enough is left open.                            *)
(***************************************************************************)
AtRiskIgnoresStatus ==
    [DISPATCH_STAFF |-> {b \in Rows : booking[b].staff = NONE},
     CONFIRM_BOOKING |-> {b \in Rows : booking[b].status = "REQUESTED"}]

AtRisk ==
    [DISPATCH_STAFF |-> {b \in Rows : /\ booking[b].status = "CONFIRMED"
                                      /\ booking[b].staff = NONE},
     CONFIRM_BOOKING |-> {b \in Rows : booking[b].status = "REQUESTED"}]

OpenAll(order, type) == [i \in DOMAIN order |-> Open(order[i], type)]

Other(type) == IF type = "DISPATCH_STAFF" THEN "CONFIRM_BOOKING" ELSE "DISPATCH_STAFF"

ScanFirst(w, type) ==
    /\ \E near \in SUBSET AtRisk[type] : \E order \in SetToSeqs(near) :
         agenda' = [agenda EXCEPT ![w] = OpenAll(order, type)]
    /\ Goto(w, Other(type))
    /\ since' = [since EXCEPT ![w] = {}]
    /\ UNCHANGED <<booking, bill, task, call, disturbed>>

ScanSecond(w, type) ==
    /\ pc[w] = type
    /\ \E near \in SUBSET AtRisk[type] : \E order \in SetToSeqs(near) :
         Proceed(w, agenda[w] \o OpenAll(order, type))
    /\ Rest(w, {b \in since[w] : \E i \in DOMAIN agenda[w] : agenda[w][i].b = b})
    /\ UNCHANGED <<booking, bill, task, disturbed, edits>>

OverdueUnchecked == Bookings

Overdue == {b \in Bookings : bill[b] = "DUE"}

ScanOverdue(w) ==
    /\ \E late \in SUBSET Overdue : \E order \in SetToSeqs(late) :
         Proceed(w, [i \in 1..(2 * Len(order)) |->
                       IF i % 2 = 1 THEN MarkOverdue(order[(i + 1) \div 2])
                       ELSE Open(order[i \div 2], "COLLECT_PAYMENT")])
    /\ since' = [since EXCEPT ![w] = {}]
    /\ UNCHANGED <<booking, bill, task, disturbed>>

(***************************************************************************)
(* The statements of an agenda.                                            *)
(***************************************************************************)
Does(w, do) == pc[w] = "agenda" /\ Head(agenda[w]).do = do

\* The first entry of w sets its actions to new(row).
Apply(w, new(_)) ==
    LET e == Head(agenda[w])
    IN /\ task' = [k \in Keys |->
                     IF k[2] = e.b /\ k[1] \in e.types THEN new(task[k]) ELSE task[k]]
       /\ Proceed(w, Tail(agenda[w])) /\ Rest(w, since[w])
       /\ UNCHANGED <<booking, bill, disturbed, edits>>

\* upsertAction: whatever its status, an action that exists is OPEN again.
OpenAction(w) ==
    /\ Does(w, "open")
    /\ Apply(w, LAMBDA t : IF t = NONE THEN [status |-> "OPEN", staff |-> NONE]
                           ELSE [t EXCEPT !.status = "OPEN"])

OpenActionFor(w) ==
    /\ Does(w, "openFor")
    /\ Apply(w, LAMBDA t : [status |-> "OPEN", staff |-> Head(agenda[w]).staff])

HandOverActions(w) ==
    /\ Does(w, "handOver")
    /\ Apply(w, LAMBDA t : IF Active(t)
                           THEN [status |-> "IN_PROGRESS", staff |-> Head(agenda[w]).staff]
                           ELSE t)

CloseActions(w) ==
    /\ Does(w, "close")
    /\ Apply(w, LAMBDA t : IF Active(t) THEN [t EXCEPT !.status = "COMPLETED"] ELSE t)

SetOverdue(w) ==
    /\ Does(w, "markOverdue")
    /\ bill' = [bill EXCEPT ![Head(agenda[w]).b] = "DUE"]
    /\ Proceed(w, Tail(agenda[w])) /\ Rest(w, since[w])
    /\ UNCHANGED <<booking, task, disturbed, edits>>

(***************************************************************************)
(* Everything else: hands on an action, invoices, payments, failures.      *)
(***************************************************************************)
UpdateAction(k, status, s) ==
    /\ edits < MaxEdits
    /\ task[k] # NONE
    /\ task' = [task EXCEPT ![k] = [status |-> IF status = NONE THEN @.status ELSE status,
                                    staff |-> IF s = NONE THEN @.staff ELSE s]]
    /\ edits' = edits + 1
    /\ disturbed' = disturbed \cup {k[2]}
    /\ UNCHANGED <<booking, bill, local, since>>

CreateInvoice(b) ==
    /\ b \in Rows /\ bill[b] = "NONE"
    /\ bill' = [bill EXCEPT ![b] = "DUE"]
    /\ UNCHANGED <<booking, task, local, history, edits>>

CompletePayment(b) ==
    /\ bill[b] = "DUE"
    /\ bill' = [bill EXCEPT ![b] = "PAID"]
    /\ UNCHANGED <<booking, task, local, history, edits>>

\* The bookings w is at work on.
Concerns(w) ==
    {b \in Bookings : \/ call[w] # NONE /\ call[w].b = b
                      \/ \E i \in DOMAIN agenda[w] : agenda[w][i].b = b}

Fail(w) ==
    /\ Busy(w)
    /\ disturbed' = disturbed \cup Concerns(w)
    /\ Proceed(w, <<>>) /\ Rest(w, {})
    /\ UNCHANGED <<booking, bill, task, edits>>

Start(w) ==
    /\ ~Busy(w)
    /\ UNCHANGED edits
    /\ \/ \E b \in Bookings :
            \/ \E row \in Booking : Create(w, b, row)
            \/ \E to \in BookingStatus \cup {NONE}, s \in Assignee : BeginUpdate(w, b, to, s)
            \/ BeginStart(w, b)
            \/ \E kind \in {"complete", "completeUnbilled"} : BeginComplete(w, b, kind)
            \/ \E s \in Staff : BeginAssign(w, b, s)
       \/ \E type \in {"DISPATCH_STAFF", "CONFIRM_BOOKING"} : ScanFirst(w, type)
       \/ ScanOverdue(w)

Continue(w) ==
    \/ ConflictFound(w) \/ Write(w) \/ BillJob(w) \/ ReadAgain(w)
    \/ \E type \in {"DISPATCH_STAFF", "CONFIRM_BOOKING"} : ScanSecond(w, type)
    \/ OpenAction(w) \/ OpenActionFor(w) \/ HandOverActions(w) \/ CloseActions(w)
    \/ SetOverdue(w)

Next ==
    \/ \E w \in Workers : Start(w) \/ Continue(w) \/ Fail(w)
    \/ \E b \in Bookings : CreateInvoice(b) \/ CompletePayment(b)
    \/ \E k \in Keys, status \in ActionStatus \cup {NONE}, s \in Assignee :
         UpdateAction(k, status, s)

Spec == Init /\ [][Next]_vars

-----------------------------------------------------------------------------
Labels == {"idle", "write", "bill", "reread", "DISPATCH_STAFF", "CONFIRM_BOOKING", "agenda"}

\* Every variable stays in its domain, and only a booking that exists has an
\* invoice and is worked on.
TypeOK ==
    /\ booking \in [Bookings -> Booking \cup {NONE}]
    /\ bill \in [Bookings -> {"NONE", "DUE", "PAID"}]
    /\ task \in [Keys -> Task \cup {NONE}]
    /\ pc \in [Workers -> Labels]
    /\ call \in [Workers -> Call \cup {NONE}]
    /\ agenda \in [Workers -> Seq(Entries)]
    /\ since \in [Workers -> SUBSET Bookings]
    /\ disturbed \subseteq Bookings
    /\ edits \in 0..MaxEdits
    /\ \A b \in Bookings : bill[b] # "NONE" => b \in Rows
    /\ \A w \in Workers :
         /\ pc[w] \in {"write", "bill", "reread"} => call[w] \in Call /\ call[w].b \in Rows
         /\ pc[w] = "agenda" => agenda[w] # <<>>
         /\ \A i \in DOMAIN agenda[w] : agenda[w][i].b \in Rows

\* The statuses of a booking in which an action of the type is of use.
Wanted ==
    [DISPATCH_STAFF |-> {"CONFIRMED"}, CONFIRM_BOOKING |-> {"REQUESTED"},
     COLLECT_UNBILLED |-> {"COMPLETED"}, REQUEST_REVIEW |-> {"COMPLETED"},
     FOLLOW_UP_NO_SHOW |-> {"NO_SHOW"}]

IsOpen(t) == t # NONE /\ t.status = "OPEN"

\* Unless by hand, an action about a stage of a booking is opened, or opened
\* again, only while the booking is in that stage, or by a call whose copy
\* of the booking is stale: no scan revives the dispatch of a job that it
\* could see was started, done or cancelled.
OnlyStaleOpens ==
    [][\A type \in DOMAIN Wanted, b \in Bookings :
          /\ type \in Tracked
          /\ ~IsOpen(task[<<type, b>>]) /\ IsOpen(task'[<<type, b>>])
          /\ edits' = edits
          => \/ booking[b].status \in Wanted[type]
             \/ \E w \in Workers : b \in since[w] /\ agenda'[w] # agenda[w]]_vars

Quiet == \A w \in Workers : ~Busy(w)

Is(b, status) == b \in Rows /\ booking[b].status = status

\* Between calls, whichever calls and scans came before, as long as none of
\* them crossed another and none was cut off: the dispatch action of a
\* confirmed booking is assigned to whom the booking is assigned to.
AssigneeInSync ==
    \A k \in Keys :
        /\ k[1] = "DISPATCH_STAFF" /\ k[2] \notin disturbed
        /\ Quiet /\ Is(k[2], "CONFIRMED") /\ Active(task[k])
        => task[k].staff = booking[k[2]].staff

\* Likewise, a completed job has no dispatch or confirmation left to do.
CompletedIsClosed ==
    \A k \in Keys :
        /\ k[1] \in {"DISPATCH_STAFF", "CONFIRM_BOOKING"} /\ k[2] \notin disturbed
        /\ Quiet /\ Is(k[2], "COMPLETED")
        => ~Active(task[k])
=============================================================================
