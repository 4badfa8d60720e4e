----------------------- MODULE BookingLifecycleProofs -----------------------
(***************************************************************************)
(* Theorems about BookingLifecycle for every number of bookings, handlers, *)
(* users and services, and every set of requests clients may send.         *)
(***************************************************************************)
EXTENDS BookingLifecycle, TLAPS

\* The kinds of request that reach each label.
Serves ==
    [idle    |-> {},
     lookup  |-> {"create", "update"},
     check   |-> {"create", "update", "assign"},
     insert  |-> Creating,
     write   |-> {"update", "start", "assign", "complete"},
     report  |-> {"start", "notes"},
     bill    |-> {"update", "complete", "portal"},
     charge  |-> {"update", "complete", "portal", "fixture"},
     respond |-> Creating \cup OnBooking]

Slots(req) == IF req.kind = "create" THEN req.repeat ELSE 1

\* What the local variables of a handler hold while it serves a request.
LocalOK(h) ==
    /\ pc[h] = "idle" => step[h] = 0
    /\ pc[h] # "idle" =>
         /\ call[h] \in Requests
         /\ call[h].kind \in Serves[pc[h]]
         /\ step[h] < Slots(call[h])
    /\ pc[h] = "lookup" => call[h].service # NONE
    /\ pc[h] # "idle" /\ call[h].kind \in OnBooking =>
         /\ target[h] \in Bookings
         /\ booking[target[h]] \in Row
         /\ seen[h] \in Row
    /\ pc[h] \in {"bill", "charge"} => target[h] \in Bookings
    /\ pc[h] \in {"check", "insert", "write"} /\ call[h].kind # "fixture" =>
         len[h] \in Durations

TypeInv == TypeOK /\ \A h \in Handlers : LocalOK(h)

-----------------------------------------------------------------------------
\* Start times and ends are numbers, and the intervals that handlers compute
\* are among Times and Ends.
LEMMA TimeFacts ==
    /\ Times \subseteq Nat /\ Ends \subseteq Nat /\ Starts \subseteq Times
    /\ \A t \in Times, m \in Durations : t + m \in Ends
    /\ \A t \in Starts, n \in 0..(MaxRepeat - 1) : t + n * Week \in Times
<1>1. \A n \in 0..(MaxRepeat - 1) : n * Week \in Nat
  BY BoundsAssumption
<1>2. Times \subseteq Nat
  BY <1>1, BoundsAssumption DEF Times
<1>3. Ends \subseteq Nat
  BY <1>2, BoundsAssumption DEF Ends
<1>4. Starts \subseteq Times
  <2>1. 0 \in 0..(MaxRepeat - 1) /\ \A t \in Starts : t = t + 0 * Week
    BY BoundsAssumption
  <2> QED BY <2>1 DEF Times
<1> QED BY <1>2, <1>3, <1>4 DEF Times, Ends

\* The invariant holds before any request.
LEMMA TypeInit == Init => TypeInv
<1> SUFFICES ASSUME Init PROVE TypeInv
  OBVIOUS
<1>1. TypeOK
  <2>1. 0 \in 0..MaxInvoices /\ 0 \in 0..(MaxRepeat - 1)
    BY BoundsAssumption
  <2> QED BY <2>1 DEF Init, TypeOK, Labels, Row
<1>2. ASSUME NEW h \in Handlers PROVE LocalOK(h)
  BY DEF Init, LocalOK
<1> QED BY <1>1, <1>2 DEF TypeInv

\* A step that leaves the local variables of a handler alone, and no row of
\* the table malformed, leaves its LocalOK alone.
LEMMA LocalKept ==
  ASSUME NEW g \in Handlers, LocalOK(g),
         pc'[g] = pc[g], call'[g] = call[g], target'[g] = target[g],
         seen'[g] = seen[g], len'[g] = len[g], step'[g] = step[g],
         \A b \in Bookings : booking[b] \in Row => booking'[b] \in Row
  PROVE  LocalOK(g)'
<1> USE DEF LocalOK
<1> DEFINE onBooking == pc[g] # "idle" /\ call[g].kind \in OnBooking
<1>1. CASE onBooking
  BY <1>1 DEF Row
<1>2. CASE ~onBooking
  BY <1>2
<1> QED BY <1>1, <1>2

\* Taking a request with what was read for it.
LEMMA BeginType ==
  ASSUME TypeInv, NEW h \in Handlers, NEW req \in Requests,
         NEW b \in Bookings \cup {NONE}, NEW row \in Row \cup {EmptyRow},
         NEW minutes \in Durations \cup {NONE}, NEW next \in Labels \ {"idle"},
         Begin(h, req, b, row, minutes, next),
         req.kind \in Serves[next],
         next = "lookup" => req.service # NONE,
         req.kind \in OnBooking =>
            b \in Bookings /\ booking[b] \in Row /\ row \in Row,
         next \notin {"bill", "charge"},
         next \in {"check", "insert", "write"} /\ req.kind # "fixture" =>
            minutes \in Durations
  PROVE  TypeInv'
<1>1. TypeOK'
  BY DEF TypeInv, TypeOK, Begin, table, history
<1>2. LocalOK(h)'
  <2>1. req.kind = "create" => req.repeat \in 1..MaxRepeat
    BY RequestsAssumption DEF Request
  <2>2. step[h] = 0 /\ 0 < Slots(req)
    BY <2>1, BoundsAssumption DEF Begin, TypeInv, LocalOK, Slots
  <2> QED BY <2>2 DEF TypeInv, TypeOK, LocalOK, Begin, table
<1>3. ASSUME NEW g \in Handlers, g # h PROVE LocalOK(g)'
  BY <1>3, LocalKept DEF TypeInv, TypeOK, Begin, table
<1> QED BY <1>1, <1>2, <1>3 DEF TypeInv

\* Storing a row.
LEMMA StoreType ==
  ASSUME TypeInv, NEW h \in Handlers, NEW b \in Bookings, NEW row \in Row,
         NEW next \in Labels \ {"idle", "lookup"}, NEW k \in 0..(MaxRepeat - 1),
         Store(h, b, row, next),
         pc[h] # "idle",
         call[h].kind \in Serves[next],
         step' = [step EXCEPT ![h] = k], k < Slots(call[h]),
         report' \in [Bookings -> ReportStatus \cup {NONE}],
         next \in {"check", "insert", "write"} /\ call[h].kind # "fixture" =>
            len[h] \in Durations
  PROVE  TypeInv'
<1>1. \A c \in Bookings : booking[c] \in Row => booking'[c] \in Row
  BY DEF Store, TypeInv, TypeOK
<1>2. TypeOK'
  <2>1. raced' \subseteq SUBSET Bookings
    BY DEF Store, TypeInv, TypeOK
  <2>2. since' \in [Handlers -> SUBSET Bookings]
    BY DEF Store, TypeInv, TypeOK
  <2> QED BY <2>1, <2>2 DEF TypeInv, TypeOK, Store
<1>3. LocalOK(h)'
  BY DEF TypeInv, TypeOK, LocalOK, Store
<1>4. ASSUME NEW g \in Handlers, g # h PROVE LocalOK(g)'
  BY <1>1, <1>4, LocalKept DEF TypeInv, TypeOK, Store
<1> QED BY <1>2, <1>3, <1>4 DEF TypeInv

\* The interval a create, portal, fixture or update call stores.
LEMMA IntervalType ==
  ASSUME TypeInv, NEW h \in Handlers, pc[h] \in {"check", "insert", "write"},
         call[h].kind \in Creating \cup {"update"}
  PROVE  /\ StartOf(h) \in Times
         /\ call[h].kind # "fixture" => EndOf(h) \in Ends
<1>1. call[h] \in Request /\ step[h] \in 0..(MaxRepeat - 1)
  BY RequestsAssumption DEF TypeInv, TypeOK, LocalOK
<1>2. StartOf(h) \in Times
  <2>1. CASE call[h].kind \in Creating
    <3>1. call[h].start \in Starts
      BY <1>1, <2>1, RequestsAssumption DEF Request, TypeInv, LocalOK
    <3>2. call[h].start # NONE
      BY <1>1, <2>1, RequestsAssumption DEF TypeInv, LocalOK
    <3> QED BY <1>1, <3>1, <3>2, TimeFacts DEF StartOf, Given
  <2>2. CASE call[h].kind = "update"
    <3>1. step[h] = 0
      BY <1>1, <2>2 DEF TypeInv, LocalOK, Slots
    <3>2. Given(call[h].start, seen[h].start) \in Times
      BY <1>1, <2>2, TimeFacts DEF Given, Request, Row, TypeInv, LocalOK, OnBooking
    <3>3. Given(call[h].start, seen[h].start) \in Nat
      BY <3>2, TimeFacts
    <3>4. 0 * Week = 0
      BY BoundsAssumption
    <3>5. StartOf(h) = Given(call[h].start, seen[h].start)
      BY <3>1, <3>3, <3>4 DEF StartOf
    <3> QED BY <3>2, <3>5
  <2> QED BY <2>1, <2>2
<1>3. call[h].kind # "fixture" => EndOf(h) = StartOf(h) + len[h] /\ len[h] \in Durations
  BY DEF EndOf, Creating, TypeInv, LocalOK
<1> QED BY <1>2, <1>3, TimeFacts

\* Each action keeps TypeInv.  BookingsService.create starts with nothing read.
LEMMA BeginCreateType ==
  ASSUME TypeInv, NEW h \in Handlers, BeginCreate(h) PROVE TypeInv'
<1>1. PICK req \in Requests :
        req.kind = "create" /\ Begin(h, req, NONE, EmptyRow, NONE, "lookup")
  BY DEF BeginCreate
<1>2. req.service # NONE
  BY <1>1, RequestsAssumption DEF Creating
<1> QED BY <1>1, <1>2, BeginType DEF Labels, Serves, OnBooking

\* The portal starts with the duration it read.
LEMMA BeginPortalType ==
  ASSUME TypeInv, NEW h \in Handlers, BeginPortal(h) PROVE TypeInv'
<1>1. PICK req \in Requests :
        /\ req.kind = "portal"
        /\ Begin(h, req, NONE, EmptyRow, duration[req.service], "insert")
  BY DEF BeginPortal
<1>2. req.service \in Services
  BY <1>1, RequestsAssumption DEF Creating, Request
<1>3. duration[req.service] \in Durations
  BY <1>2 DEF TypeInv, TypeOK
<1> QED BY <1>1, <1>3, BeginType DEF Labels, Serves, OnBooking, Creating

\* The fixture starts with its insert.
LEMMA BeginFixtureType ==
  ASSUME TypeInv, NEW h \in Handlers, BeginFixture(h) PROVE TypeInv'
<1>1. PICK req \in Requests :
        req.kind = "fixture" /\ Begin(h, req, NONE, EmptyRow, NONE, "insert")
  BY DEF BeginFixture
<1> QED BY <1>1, BeginType DEF Labels, Serves, OnBooking, Creating

\* A request on a booking starts with the row its read returned.
LEMMA BeginOnBookingType ==
  ASSUME TypeInv, NEW h \in Handlers, BeginOnBooking(h) PROVE TypeInv'
<1>1. PICK req \in Requests, b \in Bookings :
        /\ req.kind \in OnBooking
        /\ Accessible(req.user, b)
        /\ Begin(h, req, b, booking[b], duration[booking[b].service],
                 AfterRead(req, booking[b]))
  BY DEF BeginOnBooking
<1>2. booking[b] \in Row
  BY <1>1 DEF Accessible, Rows, TypeInv, TypeOK
<1>3. duration[booking[b].service] \in Durations
  BY <1>2 DEF Row, TypeInv, TypeOK
<1>4. /\ AfterRead(req, booking[b]) \in {"lookup", "check", "write", "report"}
      /\ req.kind \in Serves[AfterRead(req, booking[b])]
      /\ AfterRead(req, booking[b]) = "lookup" => req.service # NONE
  BY <1>1 DEF AfterRead, OnBooking, Serves
<1> HIDE DEF AfterRead
<1> QED BY <1>1, <1>2, <1>3, <1>4, BeginType DEF Labels

\* The service lookup.
LEMMA LookupServiceType ==
  ASSUME TypeInv, NEW h \in Handlers, LookupService(h) PROVE TypeInv'
<1>1. call[h] \in Request /\ call[h].service # NONE /\ call[h].kind \in {"create", "update"}
  BY RequestsAssumption DEF LookupService, TypeInv, LocalOK, Serves
<1>2. duration[call[h].service] \in Durations
  BY <1>1 DEF Request, TypeInv, TypeOK
<1>3. TypeOK'
  BY <1>2 DEF LookupService, TypeInv, TypeOK, table, history, Labels
<1>4. LocalOK(h)'
  BY <1>1, <1>2 DEF LookupService, TypeInv, TypeOK, LocalOK, table, Serves, Creating, Slots
<1>5. ASSUME NEW g \in Handlers, g # h PROVE LocalOK(g)'
  BY <1>5, LocalKept DEF TypeInv, TypeOK, LookupService, table
<1> QED BY <1>3, <1>4, <1>5 DEF TypeInv

\* The conflict query, once or along a series.
LEMMA CheckStaffFreeType ==
  ASSUME TypeInv, NEW h \in Handlers, CheckStaffFree(h) PROVE TypeInv'
<1> DEFINE last == call[h].kind # "create" \/ step[h] + 1 = call[h].repeat
<1>1. call[h] \in Request /\ call[h].kind \in {"create", "update", "assign"}
  BY RequestsAssumption DEF CheckStaffFree, TypeInv, LocalOK, Serves
<1>2. step[h] \in 0..(MaxRepeat - 1) /\ step[h] < Slots(call[h])
  BY DEF CheckStaffFree, TypeInv, TypeOK, LocalOK
<1>3. ~last => step[h] + 1 \in 0..(MaxRepeat - 1) /\ step[h] + 1 < Slots(call[h])
  BY <1>1, <1>2, BoundsAssumption DEF Request, Slots
<1>4. 0 < Slots(call[h]) /\ 0 \in 0..(MaxRepeat - 1)
  BY <1>1, BoundsAssumption DEF Request, Slots
<1>5. TypeOK'
  BY <1>3, <1>4 DEF CheckStaffFree, TypeInv, TypeOK, table, Labels
<1>6. LocalOK(h)'
  BY <1>1, <1>3, <1>4 DEF CheckStaffFree, TypeInv, TypeOK, LocalOK, table, Serves, Creating
<1>7. ASSUME NEW g \in Handlers, g # h PROVE LocalOK(g)'
  BY <1>7, LocalKept DEF TypeInv, TypeOK, CheckStaffFree, table
<1> QED BY <1>5, <1>6, <1>7 DEF TypeInv

\* The insert of a new booking.
LEMMA InsertRowType ==
  ASSUME TypeInv, NEW h \in Handlers, InsertRow(h) PROVE TypeInv'
<1> DEFINE more == call[h].kind = "create" /\ step[h] + 1 < call[h].repeat
           next == CASE more -> "insert"
                     [] call[h].kind = "fixture" -> "charge"
                     [] call[h].kind = "portal" /\ call[h].invoice -> "bill"
                     [] OTHER -> "respond"
<1>1. PICK b \in Bookings \ Rows :
        /\ pc[h] = "insert"
        /\ step' = [step EXCEPT ![h] = IF more THEN @ + 1 ELSE 0]
        /\ Store(h, b, NewRow(h), next)
        /\ UNCHANGED report
  BY DEF InsertRow
<1>2. call[h] \in Request /\ call[h] \in Requests /\ call[h].kind \in Creating
  BY <1>1, RequestsAssumption DEF TypeInv, LocalOK, Serves
<1>3. step[h] \in 0..(MaxRepeat - 1) /\ step[h] < Slots(call[h])
  BY <1>1 DEF TypeInv, TypeOK, LocalOK
<1>4. NewRow(h) \in Row
  <2>1. /\ StartOf(h) \in Times
        /\ call[h].kind # "fixture" => EndOf(h) \in Ends
    BY <1>1, <1>2, IntervalType
  <2>2. /\ call[h].service \in Services
        /\ call[h].kind = "create" => call[h].status \in BookingStatus
        /\ call[h].staff \in Users \cup {NONE}
    BY <1>2, RequestsAssumption DEF Request, Creating
  <2> QED BY <2>1, <2>2 DEF NewRow, Row, BookingStatus
<1>5. /\ next \in {"insert", "charge", "bill", "respond"}
      /\ call[h].kind \in Serves[next]
      /\ next = "insert" => call[h].kind = "create"
  BY <1>2 DEF Serves, Creating
<1> DEFINE k == IF more THEN step[h] + 1 ELSE 0
<1>6. /\ k \in 0..(MaxRepeat - 1) /\ k < Slots(call[h])
      /\ step' = [step EXCEPT ![h] = k]
  BY <1>1, <1>2, <1>3, BoundsAssumption DEF Request, Slots
<1>7. len[h] \in Durations \/ call[h].kind = "fixture"
  BY <1>1 DEF TypeInv, LocalOK
<1>8. report' \in [Bookings -> ReportStatus \cup {NONE}]
  BY <1>1 DEF TypeInv, TypeOK
<1> HIDE DEF next, k
<1> QED BY <1>1, <1>4, <1>5, <1>6, <1>7, <1>8, StoreType DEF Labels

\* The four writes to an existing booking.
LEMMA WriteType ==
  ASSUME TypeInv, NEW h \in Handlers,
         WriteUpdate(h) \/ WriteStart(h) \/ WriteAssign(h) \/ WriteComplete(h)
  PROVE  TypeInv'
<1>1. /\ pc[h] = "write"
      /\ call[h].kind \in {"update", "start", "assign", "complete"}
  BY DEF WriteUpdate, WriteStart, WriteAssign, WriteComplete
<1>2. /\ call[h] \in Request /\ call[h] \in Requests
      /\ target[h] \in Bookings /\ booking[target[h]] \in Row /\ seen[h] \in Row
      /\ step[h] \in 0..(MaxRepeat - 1) /\ step[h] < Slots(call[h])
  BY <1>1, RequestsAssumption DEF TypeInv, TypeOK, LocalOK, OnBooking
<1>3. step = [step EXCEPT ![h] = step[h]]
  BY DEF TypeInv, TypeOK
<1>4. CASE WriteUpdate(h)
  <2> DEFINE row == [status  |-> Given(call[h].status, booking[target[h]].status),
                     service |-> ServiceOf(h),
                     start   |-> StartOf(h),
                     end     |-> EndOf(h),
                     staff   |-> Given(call[h].staff, booking[target[h]].staff)]
             next == IF NeedsInvoice(h, row) THEN "bill" ELSE "respond"
  <2>1. /\ call[h].kind = "update" /\ Store(h, target[h], row, next)
        /\ UNCHANGED <<report, step>>
    BY <1>4 DEF WriteUpdate
  <2>2. StartOf(h) \in Times /\ EndOf(h) \in Ends
    BY <1>1, <2>1, IntervalType
  <2>3. row \in Row
    BY <1>2, <2>2 DEF Row, Request, Given, ServiceOf
  <2>4. next \in {"bill", "respond"} /\ call[h].kind \in Serves[next]
    BY <2>1 DEF Serves, OnBooking
  <2> HIDE DEF row, next
  <2> QED BY <1>1, <1>2, <1>3, <2>1, <2>3, <2>4, StoreType DEF Labels, TypeInv, TypeOK
<1>5. CASE WriteStart(h)
  <2> DEFINE row == [booking[target[h]] EXCEPT !.status = "IN_PROGRESS"]
  <2>1. /\ call[h].kind = "start" /\ Store(h, target[h], row, "report")
        /\ UNCHANGED <<report, step>>
    BY <1>5 DEF WriteStart
  <2>2. row \in Row
    BY <1>2 DEF Row, BookingStatus
  <2>3. call[h].kind \in Serves["report"]
    BY <2>1 DEF Serves
  <2> HIDE DEF row
  <2> QED BY <1>1, <1>2, <1>3, <2>1, <2>2, <2>3, StoreType DEF Labels, TypeInv, TypeOK
<1>6. CASE WriteAssign(h)
  <2> DEFINE row == [booking[target[h]] EXCEPT
                       !.staff = call[h].staff,
                       !.status = IF seen[h].status = "REQUESTED"
                                    THEN "CONFIRMED" ELSE seen[h].status]
  <2>1. /\ call[h].kind = "assign" /\ Store(h, target[h], row, "respond")
        /\ UNCHANGED <<report, step>>
    BY <1>6 DEF WriteAssign
  <2>2. row \in Row
    BY <1>2 DEF Row, Request, BookingStatus
  <2>3. call[h].kind \in Serves["respond"]
    BY <2>1 DEF Serves, OnBooking
  <2> HIDE DEF row
  <2> QED BY <1>1, <1>2, <1>3, <2>1, <2>2, <2>3, StoreType DEF Labels, TypeInv, TypeOK
<1>7. CASE WriteComplete(h)
  <2> DEFINE row == [booking[target[h]] EXCEPT !.status = "COMPLETED"]
             next == IF NeedsInvoice(h, row) THEN "bill" ELSE "respond"
  <2>1. /\ call[h].kind = "complete" /\ Store(h, target[h], row, next)
        /\ report' = [report EXCEPT ![target[h]] = "COMPLETED"]
        /\ UNCHANGED step
    BY <1>7 DEF WriteComplete
  <2>2. row \in Row
    BY <1>2 DEF Row, BookingStatus
  <2>3. next \in {"bill", "respond"} /\ call[h].kind \in Serves[next]
    BY <2>1 DEF Serves, OnBooking
  <2>4. report' \in [Bookings -> ReportStatus \cup {NONE}]
    BY <1>2, <2>1 DEF TypeInv, TypeOK, ReportStatus
  <2> HIDE DEF row, next
  <2> QED BY <1>1, <1>2, <1>3, <2>1, <2>2, <2>3, <2>4, StoreType DEF Labels, TypeInv, TypeOK
<1> QED BY <1>4, <1>5, <1>6, <1>7

\* Steps that only move a handler to its next label.
LEMMA MoveType ==
  ASSUME TypeInv, NEW h \in Handlers, NEW next \in Labels \ {"idle"},
         pc[h] # "idle", pc' = [pc EXCEPT ![h] = next],
         call[h].kind \in Serves[next],
         next \in {"report", "respond"}
           \/ (next \in {"bill", "charge"} /\ target[h] \in Bookings),
         UNCHANGED <<booking, duration, call, target, seen, len, step, history>>,
         report' \in [Bookings -> ReportStatus \cup {NONE}],
         invoices' \subseteq [no : 1..MaxInvoices, booking : Bookings \cup {NONE}],
         invoiceCounter' \in 0..MaxInvoices
  PROVE  TypeInv'
<1>1. TypeOK'
  BY DEF TypeInv, TypeOK, history
<1>2. LocalOK(h)'
  BY DEF TypeInv, TypeOK, LocalOK
<1>3. ASSUME NEW g \in Handlers, g # h PROVE LocalOK(g)'
  BY <1>3, LocalKept DEF TypeInv, TypeOK
<1> QED BY <1>1, <1>2, <1>3 DEF TypeInv

\* An issued invoice is well formed and keeps the counter below its bound.
LEMMA IssueType ==
  ASSUME TypeInv, NEW b \in Bookings \cup {NONE}, IssueInvoice(b)
  PROVE  /\ invoices' \subseteq [no : 1..MaxInvoices, booking : Bookings \cup {NONE}]
         /\ invoiceCounter' \in 0..MaxInvoices
BY BoundsAssumption DEF TypeInv, TypeOK, IssueInvoice

\* The report upsert and the two steps of createFromBooking.
LEMMA BillingStepsType ==
  ASSUME TypeInv, NEW h \in Handlers,
         UpsertReport(h) \/ FindInvoice(h) \/ CreateInvoice(h)
  PROVE  TypeInv'
<1>1. CASE UpsertReport(h)
  <2>1. call[h].kind \in {"start", "notes"}
    BY <1>1 DEF UpsertReport, TypeInv, LocalOK, Serves
  <2>2. target[h] \in Bookings
    BY <1>1, <2>1 DEF UpsertReport, TypeInv, LocalOK, OnBooking
  <2>3. report' \in [Bookings -> ReportStatus \cup {NONE}]
    BY <1>1, <2>2 DEF UpsertReport, UpsertedStatus, Given, ReportStatus, TypeInv, TypeOK
  <2>4. call[h].kind \in Serves["respond"]
    BY <2>1 DEF Serves, OnBooking
  <2> QED BY <1>1, <2>3, <2>4, MoveType DEF UpsertReport, Labels, TypeInv, TypeOK
<1>2. CASE FindInvoice(h)
  <2>1. call[h].kind \in {"update", "complete", "portal"} /\ target[h] \in Bookings
    BY <1>2 DEF FindInvoice, TypeInv, LocalOK, Serves
  <2>2. call[h].kind \in Serves["respond"] /\ call[h].kind \in Serves["charge"]
    BY <2>1 DEF Serves, OnBooking, Creating
  <2> QED BY <1>2, <2>1, <2>2, MoveType DEF FindInvoice, Labels, TypeInv, TypeOK, table
<1>3. CASE CreateInvoice(h)
  <2>1. /\ call[h].kind \in {"update", "complete", "portal", "fixture"}
        /\ target[h] \in Bookings
    BY <1>3 DEF CreateInvoice, TypeInv, LocalOK, Serves
  <2>2. call[h].kind \in Serves["respond"]
    BY <2>1 DEF Serves, OnBooking, Creating
  <2>3. /\ invoices' \subseteq [no : 1..MaxInvoices, booking : Bookings \cup {NONE}]
        /\ invoiceCounter' \in 0..MaxInvoices
    BY <1>3, <2>1, IssueType DEF CreateInvoice
  <2> QED BY <1>3, <2>2, <2>3, MoveType DEF CreateInvoice, Labels, TypeInv, TypeOK
<1> QED BY <1>1, <1>2, <1>3

\* The end of a request.
LEMMA LeaveType ==
  ASSUME TypeInv, NEW h \in Handlers, Leave(h) PROVE TypeInv'
<1>1. TypeOK'
  <2>1. 0 \in 0..(MaxRepeat - 1)
    BY BoundsAssumption
  <2> QED BY <2>1 DEF TypeInv, TypeOK, Leave, table, Labels
<1>2. LocalOK(h)'
  BY DEF TypeInv, TypeOK, LocalOK, Leave
<1>3. ASSUME NEW g \in Handlers, g # h PROVE LocalOK(g)'
  BY <1>3, LocalKept DEF TypeInv, TypeOK, Leave, table
<1> QED BY <1>1, <1>2, <1>3 DEF TypeInv

\* The steps of the rest of the tenant.
LEMMA TenantStepType ==
  ASSUME TypeInv,
         \/ \E b \in Bookings \cup {NONE} : InvoiceByHand(b)
         \/ \E s \in Services, minutes \in Durations : EditService(s, minutes)
  PROVE  TypeInv'
<1>1. UNCHANGED <<booking, report, local, since, raced>>
  BY DEF InvoiceByHand, EditService, history, table, local
<1>2. \A h \in Handlers : LocalOK(h)'
  BY <1>1, LocalKept DEF TypeInv, TypeOK, local
<1>3. ASSUME NEW b \in Bookings \cup {NONE}, InvoiceByHand(b) PROVE TypeOK'
  BY <1>1, <1>3, IssueType DEF InvoiceByHand, TypeInv, TypeOK, local, history
<1>4. ASSUME NEW s \in Services, NEW minutes \in Durations, EditService(s, minutes)
      PROVE  TypeOK'
  BY <1>1, <1>4 DEF EditService, TypeInv, TypeOK, table, local
<1> QED BY <1>2, <1>3, <1>4 DEF TypeInv

\* TypeInv is inductive.
LEMMA TypeStep == TypeInv /\ [Next]_vars => TypeInv'
<1> SUFFICES ASSUME TypeInv, [Next]_vars PROVE TypeInv'
  OBVIOUS
<1>1. ASSUME NEW h \in Handlers, Handle(h) PROVE TypeInv'
  <2>1. CASE BeginCreate(h) \/ BeginPortal(h) \/ BeginFixture(h) \/ BeginOnBooking(h)
    BY <2>1, BeginCreateType, BeginPortalType, BeginFixtureType, BeginOnBookingType
  <2>2. CASE LookupService(h) \/ CheckStaffFree(h)
    BY <2>2, LookupServiceType, CheckStaffFreeType
  <2>3. CASE InsertRow(h)
    BY <2>3, InsertRowType
  <2>4. CASE WriteUpdate(h) \/ WriteStart(h) \/ WriteAssign(h) \/ WriteComplete(h)
    BY <2>4, WriteType
  <2>5. CASE UpsertReport(h) \/ FindInvoice(h) \/ CreateInvoice(h)
    BY <2>5, BillingStepsType
  <2>6. CASE Respond(h) \/ Fail(h)
    BY <2>6, LeaveType DEF Respond, Fail
  <2> QED BY <1>1, <2>1, <2>2, <2>3, <2>4, <2>5, <2>6 DEF Handle
<1>2. CASE UNCHANGED vars
  BY <1>2 DEF vars, table, local, history, TypeInv, TypeOK, LocalOK, AssigneeOf
<1> QED BY <1>1, <1>2, TenantStepType DEF Next

\* Every variable keeps its type, whatever requests the tenant's users send
\* and however many are in flight.
THEOREM TypeCorrect == Spec => []TypeOK
<1>1. Spec => []TypeInv
  BY TypeInit, TypeStep, PTL DEF Spec
<1>2. TypeInv => TypeOK
  BY DEF TypeInv
<1> QED BY <1>1, <1>2, PTL

-----------------------------------------------------------------------------
(***************************************************************************)
(* EndFromOffered.  A handler that stores a new interval holds the length  *)
(* of the service it stores with it.                                       *)
(***************************************************************************)
LengthOffered(h) ==
    pc[h] \in {"check", "insert", "write"} /\ call[h].kind \in {"create", "portal", "update"}
      => <<ServiceOf(h), len[h]>> \in offered

OfferedInv ==
    /\ \A s \in Services : <<s, duration[s]>> \in offered
    /\ EndFromOffered
    /\ \A h \in Handlers : LengthOffered(h)

\* A step that keeps the rows, the offers and the local state of g.
LEMMA LengthKept ==
  ASSUME NEW g \in Handlers, LengthOffered(g), offered \subseteq offered',
         pc'[g] = pc[g], call'[g] = call[g], seen'[g] = seen[g], len'[g] = len[g]
  PROVE  LengthOffered(g)'
BY DEF LengthOffered, ServiceOf

\* Storing a row whose interval has an offered length.
LEMMA StoreOffered ==
  ASSUME TypeInv, OfferedInv, NEW h \in Handlers, NEW b \in Bookings,
         NEW row \in Row, NEW next \in Labels,
         Store(h, b, row, next),
         row.end # NONE => <<row.service, row.end - row.start>> \in offered,
         next = "insert" =>
           /\ pc[h] = "insert" /\ call[h].kind = "create" /\ call[h].service # NONE,
         next \notin {"check", "write"}
  PROVE  OfferedInv'
<1>1. duration' = duration /\ offered' = offered
  BY DEF Store
<1>2. EndFromOffered'
  BY <1>1 DEF OfferedInv, EndFromOffered, Store, Rows, TypeInv, TypeOK
<1>3. LengthOffered(h)'
  BY <1>1 DEF OfferedInv, LengthOffered, Store, ServiceOf, Given, TypeInv, TypeOK
<1>4. ASSUME NEW g \in Handlers, g # h PROVE LengthOffered(g)'
  BY <1>1, <1>4, LengthKept DEF OfferedInv, Store, TypeInv, TypeOK
<1> QED BY <1>1, <1>2, <1>3, <1>4 DEF OfferedInv

\* What an insert or an update stores has an offered length.
LEMMA NewIntervalOffered ==
  ASSUME TypeInv, OfferedInv, NEW h \in Handlers, pc[h] \in {"insert", "write"},
         call[h].kind \in {"create", "portal", "update"}
  PROVE  <<ServiceOf(h), EndOf(h) - StartOf(h)>> \in offered
<1>1. StartOf(h) \in Nat /\ len[h] \in Nat
  BY IntervalType, TimeFacts, BoundsAssumption DEF Creating, TypeInv, LocalOK
<1>2. EndOf(h) = StartOf(h) + len[h]
  BY DEF EndOf
<1>3. EndOf(h) - StartOf(h) = len[h]
  BY <1>1, <1>2
<1> QED BY <1>3 DEF OfferedInv, LengthOffered

\* Reads and the end of a request, and the edits of the tenant.
LEMMA OfferedReads ==
  ASSUME TypeInv, OfferedInv, NEW h \in Handlers,
         \/ BeginCreate(h) \/ BeginPortal(h) \/ BeginFixture(h) \/ BeginOnBooking(h)
         \/ LookupService(h) \/ CheckStaffFree(h)
         \/ UpsertReport(h) \/ FindInvoice(h) \/ CreateInvoice(h)
         \/ Respond(h) \/ Fail(h)
  PROVE  OfferedInv'
<1>1. /\ booking' = booking /\ duration' = duration /\ offered' = offered
      /\ \A g \in Handlers \ {h} :
           pc'[g] = pc[g] /\ call'[g] = call[g] /\ seen'[g] = seen[g] /\ len'[g] = len[g]
  BY DEF BeginCreate, BeginPortal, BeginFixture, BeginOnBooking, Begin,
         LookupService, CheckStaffFree, UpsertReport, FindInvoice, CreateInvoice,
         IssueInvoice, Respond, Fail, Leave, table, history, TypeInv, TypeOK
<1>2. EndFromOffered'
  BY <1>1 DEF OfferedInv, EndFromOffered, Rows
<1>3. LengthOffered(h)'
  <2>1. CASE BeginCreate(h) \/ BeginFixture(h)
    BY <2>1 DEF BeginCreate, BeginFixture, Begin, LengthOffered, TypeInv, TypeOK
  <2>2. CASE BeginPortal(h)
    <3>1. PICK req \in Requests :
            /\ req.kind = "portal"
            /\ Begin(h, req, NONE, EmptyRow, duration[req.service], "insert")
      BY <2>2 DEF BeginPortal
    <3>2. req.service \in Services /\ req.service # NONE
      BY <3>1, RequestsAssumption DEF Creating, Request
    <3> QED BY <1>1, <3>1, <3>2
          DEF Begin, LengthOffered, ServiceOf, Given, OfferedInv, TypeInv, TypeOK
  <2>3. CASE BeginOnBooking(h)
    <3>1. PICK req \in Requests, b \in Bookings :
            /\ req.kind \in OnBooking
            /\ Accessible(req.user, b)
            /\ Begin(h, req, b, booking[b], duration[booking[b].service],
                     AfterRead(req, booking[b]))
      BY <2>3 DEF BeginOnBooking
    <3>2. booking[b] \in Row
      BY <3>1 DEF Accessible, Rows, TypeInv, TypeOK
    <3>3. req.kind = "update" /\ AfterRead(req, booking[b]) \in {"check", "write"} =>
            Given(req.service, booking[b].service) = booking[b].service
      BY DEF AfterRead, Given
    <3>4. <<booking[b].service, duration[booking[b].service]>> \in offered
      BY <3>2 DEF OfferedInv, Row
    <3>5. /\ pc'[h] = AfterRead(req, booking[b]) /\ call'[h] = req
          /\ seen'[h] = booking[b] /\ len'[h] = duration[booking[b].service]
      BY <3>1 DEF Begin, TypeInv, TypeOK
    <3>6. req.kind = "update" /\ AfterRead(req, booking[b]) \in {"check", "write"} =>
            <<Given(req.service, booking[b].service), len'[h]>> \in offered
      BY <3>3, <3>4, <3>5
    <3>7. call'[h].kind \notin {"create", "portal"}
      BY <3>1, <3>5 DEF OnBooking
    <3>8. AfterRead(req, booking[b]) # "insert"
      BY <3>1 DEF AfterRead, OnBooking
    <3> HIDE DEF AfterRead
    <3> QED BY <1>1, <3>5, <3>6, <3>7, <3>8 DEF LengthOffered, ServiceOf
  <2>4. CASE LookupService(h)
    <3>1. call[h].service \in Services /\ call[h].service # NONE
      BY <2>4, RequestsAssumption DEF LookupService, Request, TypeInv, LocalOK, Serves
    <3>2. /\ len'[h] = duration[call[h].service] /\ call' = call /\ seen' = seen
      BY <2>4 DEF LookupService, TypeInv, TypeOK
    <3> QED BY <1>1, <3>1, <3>2 DEF OfferedInv, LengthOffered, ServiceOf, Given
  <2>5. CASE CheckStaffFree(h)
    BY <1>1, <2>5 DEF CheckStaffFree, OfferedInv, LengthOffered, ServiceOf
  <2>6. CASE UpsertReport(h) \/ FindInvoice(h) \/ CreateInvoice(h) \/ Respond(h) \/ Fail(h)
    <3>1. pc'[h] \notin {"check", "insert", "write"}
      BY <2>6 DEF UpsertReport, FindInvoice, CreateInvoice, Respond, Fail, Leave,
                  TypeInv, TypeOK
    <3> QED BY <3>1 DEF LengthOffered
  <2> QED BY <2>1, <2>2, <2>3, <2>4, <2>5, <2>6
<1>4. ASSUME NEW g \in Handlers, g # h PROVE LengthOffered(g)'
  BY <1>1, <1>4, LengthKept DEF OfferedInv
<1> QED BY <1>1, <1>2, <1>3, <1>4 DEF OfferedInv

\* Inserts, and writes to a row: an update stores what it computed, the field
\* operations leave the interval as it is.
LEMMA OfferedWrites ==
  ASSUME TypeInv, OfferedInv, NEW h \in Handlers,
         \/ InsertRow(h) \/ WriteUpdate(h) \/ WriteStart(h) \/ WriteAssign(h)
         \/ WriteComplete(h)
  PROVE  OfferedInv'
<1>1. CASE InsertRow(h)
  <2>1. PICK b \in Bookings, next \in Labels :
          /\ pc[h] = "insert" /\ Store(h, b, NewRow(h), next)
          /\ next \in {"insert", "charge", "bill", "respond"}
          /\ next = "insert" => call[h].kind = "create"
    BY <1>1 DEF InsertRow, Labels
  <2>2. /\ call[h] \in Request /\ call[h].kind \in Creating
        /\ call[h].service \in Services /\ call[h].service # NONE
    BY <2>1, RequestsAssumption DEF TypeInv, LocalOK, Serves, Request
  <2>3. NewRow(h) \in Row
    <3>1. StartOf(h) \in Times /\ (call[h].kind # "fixture" => EndOf(h) \in Ends)
      BY <2>1, <2>2, IntervalType
    <3>2. call[h].kind = "create" => call[h].status \in BookingStatus
      BY <2>1, <2>2, RequestsAssumption DEF Request, TypeInv, LocalOK
    <3> QED BY <2>2, <3>1, <3>2 DEF NewRow, Row, Request, BookingStatus
  <2>4. NewRow(h).end # NONE =>
          <<NewRow(h).service, NewRow(h).end - NewRow(h).start>> \in offered
    BY <2>1, <2>2, NewIntervalOffered DEF NewRow, ServiceOf, Given, Creating
  <2> QED BY <2>1, <2>2, <2>3, <2>4, StoreOffered
<1>2. CASE WriteUpdate(h)
  <2> DEFINE row == [status  |-> Given(call[h].status, booking[target[h]].status),
                     service |-> ServiceOf(h),
                     start   |-> StartOf(h),
                     end     |-> EndOf(h),
                     staff   |-> Given(call[h].staff, booking[target[h]].staff)]
             next == IF NeedsInvoice(h, row) THEN "bill" ELSE "respond"
  <2>1. /\ pc[h] = "write" /\ call[h].kind = "update"
        /\ Store(h, target[h], row, next)
    BY <1>2 DEF WriteUpdate
  <2>2. /\ call[h] \in Request /\ target[h] \in Bookings
        /\ booking[target[h]] \in Row /\ seen[h] \in Row
    BY <2>1, RequestsAssumption DEF TypeInv, LocalOK, OnBooking
  <2>3. StartOf(h) \in Times /\ EndOf(h) \in Ends
    BY <2>1, IntervalType
  <2>4. row \in Row
    BY <2>2, <2>3 DEF Row, Request, Given, ServiceOf
  <2>5. <<row.service, row.end - row.start>> \in offered
    BY <2>1, NewIntervalOffered
  <2>6. next \in {"bill", "respond"}
    OBVIOUS
  <2> HIDE DEF row, next
  <2> QED BY <2>1, <2>2, <2>4, <2>5, <2>6, StoreOffered DEF Labels
<1>3. ASSUME NEW row \in Row, NEW next \in {"report", "bill", "respond"},
             target[h] \in Bookings, booking[target[h]] \in Row,
             Store(h, target[h], row, next),
             row.service = booking[target[h]].service,
             row.start = booking[target[h]].start, row.end = booking[target[h]].end
      PROVE  OfferedInv'
  <2>1. row.end # NONE => <<row.service, row.end - row.start>> \in offered
    BY <1>3, NoRowAssumption DEF OfferedInv, EndFromOffered, Rows
  <2> QED BY <1>3, <2>1, StoreOffered DEF Labels
<1>4. CASE WriteStart(h) \/ WriteAssign(h) \/ WriteComplete(h)
  <2>1. pc[h] = "write" /\ call[h].kind \in {"start", "assign", "complete"}
    BY <1>4 DEF WriteStart, WriteAssign, WriteComplete
  <2>2. /\ call[h] \in Request /\ target[h] \in Bookings
        /\ booking[target[h]] \in Row /\ seen[h] \in Row
    BY <2>1, RequestsAssumption DEF TypeInv, LocalOK, OnBooking
  <2>3. CASE WriteStart(h)
    BY <1>3, <2>2, <2>3 DEF WriteStart, Row, BookingStatus
  <2>4. CASE WriteAssign(h)
    BY <1>3, <2>2, <2>4 DEF WriteAssign, Row, Request, BookingStatus
  <2>5. CASE WriteComplete(h)
    <3> DEFINE row == [booking[target[h]] EXCEPT !.status = "COMPLETED"]
               next == IF NeedsInvoice(h, row) THEN "bill" ELSE "respond"
    <3>1. Store(h, target[h], row, next)
      BY <2>5 DEF WriteComplete
    <3>2. /\ row \in Row /\ next \in {"report", "bill", "respond"}
          /\ row.service = booking[target[h]].service
          /\ row.start = booking[target[h]].start /\ row.end = booking[target[h]].end
      BY <2>2 DEF Row, BookingStatus
    <3> HIDE DEF row, next
    <3> QED BY <1>3, <2>2, <3>1, <3>2
  <2> QED BY <1>4, <2>3, <2>4, <2>5
<1> QED BY <1>1, <1>2, <1>4

\* A booking lasts as long as its service did at some time, however moves,
\* switches of the service and edits of its duration interleave.
THEOREM EndAlwaysOffered == Spec => []EndFromOffered
<1>1. Init => OfferedInv
  BY DEF Init, OfferedInv, EndFromOffered, Rows, LengthOffered
<1>2. TypeInv /\ OfferedInv /\ [Next]_vars => OfferedInv'
  <2> SUFFICES ASSUME TypeInv, OfferedInv, [Next]_vars PROVE OfferedInv'
    OBVIOUS
  <2>1. ASSUME NEW h \in Handlers, Handle(h) PROVE OfferedInv'
    BY <2>1, OfferedReads, OfferedWrites DEF Handle
  <2>2. ASSUME NEW b \in Bookings \cup {NONE}, InvoiceByHand(b) PROVE OfferedInv'
    BY <2>2 DEF InvoiceByHand, IssueInvoice, local, history, OfferedInv,
                EndFromOffered, Rows, LengthOffered, ServiceOf
  <2>3. ASSUME NEW s \in Services, NEW minutes \in Durations, EditService(s, minutes)
        PROVE  OfferedInv'
    BY <2>3 DEF EditService, table, local, OfferedInv, EndFromOffered, Rows,
                LengthOffered, ServiceOf, TypeInv, TypeOK
  <2>4. CASE UNCHANGED vars
    BY <2>4 DEF vars, table, local, history, OfferedInv, EndFromOffered, Rows,
                LengthOffered, ServiceOf
  <2> QED BY <2>1, <2>2, <2>3, <2>4 DEF Next
<1>3. OfferedInv => EndFromOffered
  BY DEF OfferedInv
<1> QED BY <1>1, <1>2, <1>3, TypeInit, TypeStep, PTL DEF Spec

-----------------------------------------------------------------------------
(***************************************************************************)
(* Billing.  Numbers are unique because all are at most the counter.       *)
(***************************************************************************)
NumbersUsed == \A i \in invoices : i.no <= invoiceCounter

Answered(h) == pc[h] = "respond" /\ Owes(h) => Invoiced(target[h])

\* Issuing an invoice for a booking that has none.
LEMMA IssueOnce ==
  ASSUME TypeInv, NumbersUsed, ChargedOnce, NEW b \in Bookings \cup {NONE},
         BookingIdFree(b), IssueInvoice(b)
  PROVE  NumbersUsed' /\ ChargedOnce'
<1> DEFINE new == [no |-> invoiceCounter + 1, booking |-> b]
<1>1. /\ invoices' = invoices \cup {new} /\ invoiceCounter' = invoiceCounter + 1
      /\ invoiceCounter \in Nat /\ \A i \in invoices : i.no \in Nat
  BY BoundsAssumption DEF IssueInvoice, TypeInv, TypeOK
<1>2. \A i \in invoices : i.no # new.no /\ (i.booking # new.booking \/ i.booking = NONE)
  BY <1>1 DEF NumbersUsed, BookingIdFree, Invoiced
<1>3. NumbersUsed'
  BY <1>1 DEF NumbersUsed
<1>4. ChargedOnce'
  BY <1>1, <1>2 DEF ChargedOnce
<1> QED BY <1>3, <1>4

\* The handler that is answered holds the invoice it owes: it found one, the
\* row it wrote or the request asked for none, or it issued it.
LEMMA AnsweredStep ==
  ASSUME TypeInv, NEW h \in Handlers, Handle(h) PROVE Answered(h)'
<1>1. CASE BeginCreate(h) \/ BeginPortal(h) \/ BeginFixture(h) \/ LookupService(h)
           \/ CheckStaffFree(h) \/ Respond(h) \/ Fail(h)
  <2>1. pc'[h] # "respond"
    BY <1>1 DEF BeginCreate, BeginPortal, BeginFixture, Begin, LookupService,
                CheckStaffFree, Respond, Fail, Leave, TypeInv, TypeOK
  <2> QED BY <2>1 DEF Answered
<1>2. CASE BeginOnBooking(h)
  <2>1. PICK req \in Requests, b \in Bookings :
          /\ req.kind \in OnBooking
          /\ Begin(h, req, b, booking[b], duration[booking[b].service],
                   AfterRead(req, booking[b]))
    BY <1>2 DEF BeginOnBooking
  <2>2. AfterRead(req, booking[b]) # "respond"
    BY <2>1 DEF AfterRead, OnBooking
  <2> HIDE DEF AfterRead
  <2> QED BY <2>1, <2>2 DEF Begin, Answered, TypeInv, TypeOK
<1>3. CASE InsertRow(h)
  <2>1. call[h] \in Request /\ call[h].kind \in Creating
    BY <1>3, RequestsAssumption DEF InsertRow, TypeInv, LocalOK, Serves
  <2>2. call' = call
    BY <1>3 DEF InsertRow, Store
  <2>3. pc'[h] = "respond" =>
          call[h].kind = "create" \/ (call[h].kind = "portal" /\ ~call[h].invoice)
    BY <1>3, <2>1 DEF InsertRow, Store, Creating, TypeInv, TypeOK
  <2> QED BY <2>2, <2>3 DEF Answered, Owes
<1>4. CASE WriteUpdate(h)
  <2> DEFINE row == [status  |-> Given(call[h].status, booking[target[h]].status),
                     service |-> ServiceOf(h),
                     start   |-> StartOf(h),
                     end     |-> EndOf(h),
                     staff   |-> Given(call[h].staff, booking[target[h]].staff)]
             next == IF NeedsInvoice(h, row) THEN "bill" ELSE "respond"
  <2>1. call[h].kind = "update" /\ Store(h, target[h], row, next)
    BY <1>4 DEF WriteUpdate
  <2>2. /\ pc'[h] = next /\ call' = call /\ invoices' = invoices
        /\ target'[h] = target[h] /\ seen'[h] = row
    BY <2>1 DEF Store, TypeInv, TypeOK
  <2>3. next = "respond" /\ row.status = "COMPLETED" => Invoiced(target[h])
    BY <2>1 DEF NeedsInvoice
  <2> HIDE DEF row, next
  <2> QED BY <2>1, <2>2, <2>3 DEF Answered, Owes, Invoiced
<1>5. CASE WriteComplete(h)
  <2> DEFINE row == [booking[target[h]] EXCEPT !.status = "COMPLETED"]
             next == IF NeedsInvoice(h, row) THEN "bill" ELSE "respond"
  <2>1. call[h].kind = "complete" /\ Store(h, target[h], row, next)
    BY <1>5 DEF WriteComplete
  <2>2. /\ pc'[h] = next /\ call' = call /\ invoices' = invoices
        /\ target'[h] = target[h]
    BY <2>1 DEF Store, TypeInv, TypeOK
  <2>3. next = "respond" /\ call[h].invoice => Invoiced(target[h])
    BY <2>1 DEF NeedsInvoice
  <2> HIDE DEF row, next
  <2> QED BY <2>1, <2>2, <2>3 DEF Answered, Owes, Invoiced
<1>6. CASE WriteStart(h) \/ WriteAssign(h) \/ UpsertReport(h)
  <2>1. call[h].kind \in {"start", "assign", "notes"} /\ call' = call
    BY <1>6 DEF WriteStart, WriteAssign, UpsertReport, Store, TypeInv, LocalOK, Serves
  <2> QED BY <2>1 DEF Answered, Owes
<1>7. CASE FindInvoice(h)
  BY <1>7 DEF FindInvoice, Answered, Invoiced, table, TypeInv, TypeOK
<1>8. CASE CreateInvoice(h)
  <2>1. [no |-> invoiceCounter + 1, booking |-> target[h]] \in invoices' /\ target' = target
    BY <1>8 DEF CreateInvoice, IssueInvoice
  <2> QED BY <2>1 DEF Answered, Invoiced
<1> QED BY <1>1, <1>2, <1>3, <1>4, <1>5, <1>6, <1>7, <1>8 DEF Handle

\* The handlers that do not move keep their answers: invoices are not deleted.
LEMMA AnsweredKept ==
  ASSUME NEW g \in Handlers, Answered(g), invoices \subseteq invoices',
         pc'[g] = pc[g], call'[g] = call[g], target'[g] = target[g], seen'[g] = seen[g]
  PROVE  Answered(g)'
BY DEF Answered, Owes, Invoiced

\* What one handler's step does to the invoices and to the other handlers.
LEMMA HandleFrame ==
  ASSUME TypeInv, NEW h \in Handlers, Handle(h)
  PROVE  /\ invoices \subseteq invoices'
         /\ \/ UNCHANGED <<invoices, invoiceCounter>>
            \/ CreateInvoice(h)
         /\ \A g \in Handlers \ {h} :
              /\ pc'[g] = pc[g] /\ call'[g] = call[g]
              /\ target'[g] = target[g] /\ seen'[g] = seen[g]
<1> USE DEF TypeInv, TypeOK
<1>1. CASE BeginCreate(h) \/ BeginPortal(h) \/ BeginFixture(h) \/ BeginOnBooking(h)
  BY <1>1 DEF BeginCreate, BeginPortal, BeginFixture, BeginOnBooking, Begin, table
<1>2. CASE LookupService(h) \/ CheckStaffFree(h) \/ UpsertReport(h) \/ FindInvoice(h)
  BY <1>2 DEF LookupService, CheckStaffFree, UpsertReport, FindInvoice, table
<1>3. CASE CreateInvoice(h)
  BY <1>3 DEF CreateInvoice, IssueInvoice
<1>4. CASE InsertRow(h) \/ WriteUpdate(h) \/ WriteStart(h) \/ WriteAssign(h)
           \/ WriteComplete(h)
  BY <1>4 DEF InsertRow, WriteUpdate, WriteStart, WriteAssign, WriteComplete, Store
<1>5. CASE Respond(h) \/ Fail(h)
  BY <1>5 DEF Respond, Fail, Leave, table
<1> QED BY <1>1, <1>2, <1>3, <1>4, <1>5 DEF Handle

\* No booking is charged twice and no number is used twice; a caller who
\* completes a job or pays on booking is answered with the invoice in place.
BillingInv ==
    NumbersUsed /\ ChargedOnce /\ \A h \in Handlers : Answered(h)

\* Billing is right initially and stays right.
LEMMA BillingStep == TypeInv /\ BillingInv /\ [Next]_vars => BillingInv'
<1> SUFFICES ASSUME TypeInv, BillingInv, [Next]_vars PROVE BillingInv'
  OBVIOUS
<1>1. ASSUME NEW h \in Handlers, Handle(h) PROVE BillingInv'
  <2>1. \A g \in Handlers : Answered(g)'
    BY <1>1, AnsweredStep, AnsweredKept, HandleFrame DEF BillingInv
  <2>2. CASE UNCHANGED <<invoices, invoiceCounter>>
    BY <2>1, <2>2 DEF BillingInv, NumbersUsed, ChargedOnce
  <2>3. CASE CreateInvoice(h)
    <3>1. target[h] \in Bookings
      BY <2>3 DEF CreateInvoice, TypeInv, LocalOK
    <3> QED BY <2>1, <2>3, <3>1, IssueOnce DEF CreateInvoice, BillingInv
  <2> QED BY <1>1, <2>2, <2>3, HandleFrame
<1>2. ASSUME NEW b \in Bookings \cup {NONE}, InvoiceByHand(b) PROVE BillingInv'
  <2>1. NumbersUsed' /\ ChargedOnce'
    BY <1>2, IssueOnce DEF InvoiceByHand, BillingInv
  <2>2. invoices \subseteq invoices' /\ UNCHANGED local
    BY <1>2 DEF InvoiceByHand, IssueInvoice
  <2> QED BY <2>1, <2>2, AnsweredKept DEF BillingInv, local
<1>3. CASE UNCHANGED <<table, local>>
  BY <1>3, AnsweredKept DEF table, local, BillingInv, NumbersUsed, ChargedOnce
<1>4. ASSUME NEW s \in Services, NEW minutes \in Durations, EditService(s, minutes)
      PROVE  BillingInv'
  BY <1>3, <1>4 DEF EditService
<1> QED BY <1>1, <1>2, <1>3, <1>4 DEF Next, vars

\* Billing by completion, portal and hand at once never charges a booking
\* twice, and never uses an invoice number twice.
THEOREM BookingsChargedOnce == Spec => []ChargedOnce
<1>1. Init => BillingInv
  BY DEF Init, BillingInv, NumbersUsed, ChargedOnce, Answered
<1>2. BillingInv => ChargedOnce
  BY DEF BillingInv
<1> QED BY <1>1, <1>2, BillingStep, TypeInit, TypeStep, PTL DEF Spec

\* A request that completes a job or is paid on booking is answered only when
\* the booking has its invoice, whoever issued it.
THEOREM CompletionsAnsweredWithInvoice == Spec => []CompletionAnsweredWithInvoice
<1>1. Init => BillingInv
  BY DEF Init, BillingInv, NumbersUsed, ChargedOnce, Answered
<1>2. BillingInv => CompletionAnsweredWithInvoice
  BY DEF BillingInv, Answered, CompletionAnsweredWithInvoice
<1> QED BY <1>1, <1>2, BillingStep, TypeInit, TypeStep, PTL DEF Spec

\* A completed job report stays completed: the upsert of startJob and
\* saveNotes leaves the status of an existing report alone.
THEOREM CompletedReportStays == Spec => CompletedReportFinal
<1> DEFINE Final == \A b \in Bookings : report[b] = "COMPLETED" => report'[b] = "COMPLETED"
<1>1. TypeInv /\ [Next]_vars => [Final]_vars
  <2> SUFFICES ASSUME TypeInv, Next PROVE Final
    OBVIOUS
  <2>1. ASSUME NEW h \in Handlers, UpsertReport(h) PROVE Final
    BY <2>1, NoneAssumption DEF UpsertReport, UpsertedStatus, Given, ReportStatus, TypeInv, TypeOK
  <2>2. ASSUME NEW h \in Handlers, WriteComplete(h) PROVE Final
    BY <2>2 DEF WriteComplete, TypeInv, TypeOK
  <2>3. CASE UNCHANGED report
    BY <2>3
  <2>4. ASSUME NEW h \in Handlers, Handle(h)
        PROVE  UpsertReport(h) \/ WriteComplete(h) \/ UNCHANGED report
    BY <2>4 DEF Handle, BeginCreate, BeginPortal, BeginFixture, BeginOnBooking, Begin,
                LookupService, CheckStaffFree, InsertRow, WriteUpdate, WriteStart,
                WriteAssign, FindInvoice, CreateInvoice, Respond, Fail, Leave, table
  <2> QED BY <2>1, <2>2, <2>3, <2>4 DEF Next, InvoiceByHand, EditService, table
<1> QED BY <1>1, TypeInit, TypeStep, PTL DEF Spec, CompletedReportFinal

(***************************************************************************)
(* The calendar.  Two active bookings of one user collide only when one of *)
(* them was written by a request that another request overtook between its *)
(* read or check and its write, if the repeat interval is at least as long *)
(* as a booking.                                                           *)
(*                                                                         *)
(* The argument: what a handler has checked stays vacant, and what it has  *)
(* read stays fresh, except for the rows that others wrote meanwhile,      *)
(* which since records.                                                    *)
(***************************************************************************)
\* The n-th interval handler h works on.
SlotStart(h, n) == Given(call[h].start, seen[h].start) + n * Week
SlotEnd(h, n) ==
    IF call[h].kind = "assign" /\ seen[h].end # NONE
      THEN seen[h].end
      ELSE SlotStart(h, n) + len[h]

\* The intervals h has checked and not yet stored.
CheckedSlots(h) ==
    {n \in 0..(MaxRepeat - 1) :
       \/ pc[h] = "check" /\ call[h].kind = "create" /\ n < step[h]
       \/ /\ pc[h] = "insert" /\ call[h].kind = "create"
          /\ step[h] <= n /\ n < call[h].repeat
       \/ pc[h] = "write" /\ call[h].kind \in {"update", "assign"} /\ n = 0}

\* The rows its checks still speak for.
Others(h) ==
    (Rows \ since[h]) \ (IF call[h].kind = "create" THEN {} ELSE {target[h]})

Vacant(h) ==
    \A n \in CheckedSlots(h) : AssigneeOf(h) # NONE =>
        \A c \in Others(h) :
            ~Clashes(booking[c], AssigneeOf(h), SlotStart(h, n), SlotEnd(h, n))

Fresh(h) ==
    pc[h] \in {"lookup", "check", "write"} /\ call[h].kind \in OnBooking
      /\ target[h] \notin since[h] => booking[target[h]] = seen[h]

StartSeen(h) ==
    pc[h] = "write" /\ call[h].kind = "start" => seen[h].status = "CONFIRMED"

\* A series has read no row and takes its staff member from the request.
SeriesLocal(h) ==
    pc[h] # "idle" /\ call[h].kind = "create" =>
        /\ pc[h] = "lookup" => step[h] = 0
        /\ pc[h] \in {"lookup", "check"} => target[h] = NONE
        /\ pc[h] \in {"lookup", "check", "insert"} /\ call[h].staff = NONE =>
             seen[h].staff = NONE

Prepared(h) == Vacant(h) /\ Fresh(h) /\ StartSeen(h) /\ SeriesLocal(h)

CalendarInv == DoubleBookingOnlyByRace /\ \A h \in Handlers : Prepared(h)

-----------------------------------------------------------------------------
\* A step that changes neither the rows nor the local state of g.
LEMMA PreparedKept ==
  ASSUME NEW g \in Handlers, Prepared(g), booking' = booking,
         pc'[g] = pc[g], call'[g] = call[g], target'[g] = target[g],
         seen'[g] = seen[g], len'[g] = len[g], step'[g] = step[g], since'[g] = since[g]
  PROVE  Prepared(g)'
<1>1. /\ Others(g)' = Others(g) /\ CheckedSlots(g)' = CheckedSlots(g)
      /\ AssigneeOf(g)' = AssigneeOf(g)
  BY DEF Others, CheckedSlots, AssigneeOf, Rows
<1>2. \A n \in CheckedSlots(g) :
        SlotStart(g, n)' = SlotStart(g, n) /\ SlotEnd(g, n)' = SlotEnd(g, n)
  BY DEF SlotStart, SlotEnd
<1>3. Vacant(g)'
  BY <1>1, <1>2 DEF Prepared, Vacant
<1>4. Fresh(g)' /\ StartSeen(g)' /\ SeriesLocal(g)'
  BY DEF Prepared, Fresh, StartSeen, SeriesLocal
<1> QED BY <1>3, <1>4 DEF Prepared

\* Row b, written by another handler, leaves what g speaks for.
LEMMA PreparedUnderStore ==
  ASSUME TypeInv, NEW g \in Handlers, Prepared(g), NEW h \in Handlers, g # h,
         NEW b \in Bookings, NEW row \in Row, NEW next, Store(h, b, row, next),
         step'[g] = step[g]
  PROVE  Prepared(g)'
<1>1. /\ pc'[g] = pc[g] /\ call'[g] = call[g] /\ target'[g] = target[g]
      /\ seen'[g] = seen[g] /\ len'[g] = len[g]
      /\ pc[g] # "idle" => since'[g] = since[g] \cup {b}
      /\ \A c \in Bookings \ {b} : booking'[c] = booking[c]
  BY DEF Store, TypeInv, TypeOK
<1>2. CASE pc[g] = "idle"
  BY <1>1, <1>2 DEF Prepared, Vacant, CheckedSlots, Fresh, StartSeen, SeriesLocal
<1>3. CASE pc[g] # "idle"
  <2>1. AssigneeOf(g)' = AssigneeOf(g) /\ CheckedSlots(g)' = CheckedSlots(g)
    BY <1>1 DEF AssigneeOf, CheckedSlots
  <2>2. \A c \in Others(g)' : c \in Others(g) /\ booking'[c] = booking[c]
    BY <1>1, <1>3 DEF Others, Rows
  <2>3. \A n \in CheckedSlots(g) :
          SlotStart(g, n)' = SlotStart(g, n) /\ SlotEnd(g, n)' = SlotEnd(g, n)
    BY <1>1 DEF SlotStart, SlotEnd
  <2>4. Vacant(g)'
    BY <2>1, <2>2, <2>3 DEF Prepared, Vacant
  <2>5. Fresh(g)'
    BY <1>1, <1>3 DEF Prepared, Fresh, TypeInv, LocalOK
  <2>6. StartSeen(g)' /\ SeriesLocal(g)'
    BY <1>1 DEF Prepared, StartSeen, SeriesLocal
  <2> QED BY <2>4, <2>5, <2>6 DEF Prepared
<1> QED BY <1>2, <1>3

\* Two entries that collide do so for the conflict query, either way round.
LEMMA CollideClashes ==
  ASSUME NEW e, NEW f, Agency!Collide(e, f)
  PROVE  /\ Agency!Collide(f, e)
         /\ Clashes(f, e.staff, e.start, e.end)
         /\ e.staff # NONE /\ e.end # NONE /\ e.status \in activeConflictStatuses
BY DEF Agency!Collide, Agency!Busy, Agency!Active, Clashes, activeConflictStatuses

\* The pairs of a stored row: a new collision is recorded as raced unless the
\* row was fresh and checked, or not touched in what collides.
LEMMA StoreRaced ==
  ASSUME TypeInv, DoubleBookingOnlyByRace, NEW h \in Handlers,
         NEW b \in Bookings, NEW row \in Row, NEW next, Store(h, b, row, next),
         ASSUME NEW c \in Rows, c # b, b \notin since[h], c \notin since[h],
                Agency!Collide(row, booking[c])
         PROVE  ~Checked(h) /\ {b, c} \in raced
  PROVE  DoubleBookingOnlyByRace'
<1>1. SUFFICES ASSUME NEW c \in Bookings, NEW d \in Bookings, DoubleBooked(c, d)'
               PROVE  {c, d} \in raced'
  BY DEF DoubleBookingOnlyByRace
<1>2. /\ booking'[b] = row /\ since[h] \subseteq Bookings
      /\ \A e \in Bookings \ {b} : booking'[e] = booking[e]
  BY DEF Store, TypeInv, TypeOK
<1>3. /\ c # d /\ Agency!Collide(booking'[c], booking'[d])
      /\ c \in Rows \cup {b} /\ d \in Rows \cup {b}
  BY <1>1, <1>2 DEF DoubleBooked, Rows
<1>4. ASSUME NEW e \in Rows, e # b, Agency!Collide(row, booking[e])
      PROVE  {b, e} \in raced'
  BY <1>2, <1>4 DEF Store, Rows
<1>5. CASE c = b
  BY <1>2, <1>3, <1>4, <1>5
<1>6. CASE d = b
  <2>1. {c, d} = {b, c}
    BY <1>6
  <2>2. Agency!Collide(row, booking[c])
    BY <1>2, <1>3, <1>6, CollideClashes
  <2> QED BY <1>3, <1>4, <1>6, <2>1, <2>2
<1>7. CASE c # b /\ d # b
  <2>1. DoubleBooked(c, d)
    BY <1>2, <1>3, <1>7 DEF DoubleBooked
  <2>2. {c, d} \in raced /\ b \notin {c, d}
    BY <1>7, <2>1 DEF DoubleBookingOnlyByRace
  <2> QED BY <2>2 DEF Store
<1> QED BY <1>5, <1>6, <1>7

\* No interval of a series reaches into the next one.
SeriesSpaced == \A d \in Durations : d <= Week

\* Two intervals of a spaced series do not overlap.
LEMMA Spacing ==
  ASSUME SeriesSpaced, NEW t \in Nat, NEW m \in Nat, NEW n \in Nat, m < n,
         NEW d \in Durations
  PROVE  t + m * Week + d <= t + n * Week
<1>1. d \in Nat /\ d <= Week /\ Week \in Nat
  BY BoundsAssumption DEF SeriesSpaced
<1>2. PICK k \in Nat : n = m + 1 + k
  BY n - m - 1 \in Nat, n = m + 1 + (n - m - 1)
<1>3. n * Week = m * Week + Week + k * Week
  BY <1>1, <1>2, Z3
<1>4. m * Week \in Nat /\ k * Week \in Nat /\ n * Week \in Nat
  BY <1>1, <1>2
<1> QED BY <1>1, <1>3, <1>4

\* Reads, and the end of a request, leave the rows and the pairs alone; what
\* is left to show of each is Prepared for its own handler.
LEMMA OtherHandlers ==
  ASSUME TypeInv, CalendarInv, NEW h \in Handlers, booking' = booking,
         raced' = raced, Prepared(h)',
         \A g \in Handlers \ {h} :
            /\ pc'[g] = pc[g] /\ call'[g] = call[g] /\ target'[g] = target[g]
            /\ seen'[g] = seen[g] /\ len'[g] = len[g] /\ step'[g] = step[g]
            /\ since'[g] = since[g]
  PROVE  CalendarInv'
<1>1. ASSUME NEW g \in Handlers, g # h PROVE Prepared(g)'
  BY <1>1, PreparedKept DEF CalendarInv
<1>2. DoubleBookingOnlyByRace'
  BY DEF CalendarInv, DoubleBookingOnlyByRace, DoubleBooked, Rows
<1> QED BY <1>1, <1>2 DEF CalendarInv

\* A request begins with nothing checked and, on a booking, a fresh row.
LEMMA CalendarBegin ==
  ASSUME TypeInv, CalendarInv, NEW h \in Handlers,
         BeginCreate(h) \/ BeginPortal(h) \/ BeginFixture(h) \/ BeginOnBooking(h)
  PROVE  CalendarInv'
<1>1. CASE BeginCreate(h) \/ BeginPortal(h) \/ BeginFixture(h)
  <2>1. PICK req \in Requests, next \in {"lookup", "insert"} :
          /\ \E minutes : Begin(h, req, NONE, EmptyRow, minutes, next)
          /\ req.kind \in Creating
          /\ req.kind = "create" => next = "lookup"
    BY <1>1 DEF BeginCreate, BeginPortal, BeginFixture, Creating
  <2>2. /\ pc'[h] = next /\ call'[h] = req /\ target'[h] = NONE
        /\ seen'[h] = EmptyRow /\ step'[h] = 0
    BY <2>1 DEF Begin, TypeInv, TypeOK, LocalOK
  <2>3. Prepared(h)'
    BY <2>1, <2>2 DEF Prepared, Vacant, CheckedSlots, Fresh, StartSeen, SeriesLocal,
                      EmptyRow, Creating, OnBooking
  <2> QED BY <2>1, <2>3, OtherHandlers DEF Begin, table, history, TypeInv, TypeOK
<1>2. CASE BeginOnBooking(h)
  <2>1. PICK req \in Requests, b \in Bookings :
          /\ req.kind \in OnBooking /\ Admissible(req, booking[b])
          /\ Begin(h, req, b, booking[b], duration[booking[b].service],
                   AfterRead(req, booking[b]))
    BY <1>2 DEF BeginOnBooking
  <2>2. /\ pc'[h] = AfterRead(req, booking[b]) /\ call'[h] = req
        /\ target'[h] = b /\ seen'[h] = booking[b] /\ booking' = booking
    BY <2>1 DEF Begin, table, TypeInv, TypeOK
  <2>3. req.kind \in {"update", "assign"} /\ AfterRead(req, booking[b]) = "write" =>
          req.kind = "update" /\ Given(req.staff, booking[b].staff) = NONE
    BY DEF AfterRead
  <2>4. Vacant(h)'
    BY <2>1, <2>2, <2>3 DEF Vacant, CheckedSlots, AssigneeOf, OnBooking
  <2>5. Fresh(h)'
    BY <2>2 DEF Fresh
  <2>6. req.kind = "start" => booking[b].status = "CONFIRMED"
    BY <2>1 DEF Admissible
  <2>7. StartSeen(h)' /\ SeriesLocal(h)'
    BY <2>1, <2>2, <2>6 DEF StartSeen, SeriesLocal, OnBooking
  <2>8. Prepared(h)'
    BY <2>4, <2>5, <2>7 DEF Prepared
  <2> HIDE DEF AfterRead
  <2> QED BY <2>1, <2>8, OtherHandlers DEF Begin, table, history, TypeInv, TypeOK
<1> QED BY <1>1, <1>2

\* The service lookup changes no interval that has been checked.
LEMMA CalendarLookup ==
  ASSUME TypeInv, CalendarInv, NEW h \in Handlers, LookupService(h) PROVE CalendarInv'
<1>1. /\ pc[h] = "lookup" /\ call[h].kind \in {"create", "update"}
      /\ call' = call /\ target' = target /\ seen' = seen /\ step' = step
      /\ booking' = booking /\ since' = since
      /\ pc'[h] \in {"check", "insert", "write"}
      /\ pc'[h] \in {"insert", "write"} => AssigneeOf(h) = NONE
  BY DEF LookupService, table, history, TypeInv, TypeOK, LocalOK, Serves
<1>2. AssigneeOf(h)' = AssigneeOf(h)
  BY <1>1 DEF AssigneeOf
<1>3. Vacant(h)'
  <2>1. CASE pc'[h] = "check"
    <3>1. call[h].kind = "create" => step'[h] = 0
      BY <1>1 DEF CalendarInv, Prepared, SeriesLocal
    <3> QED BY <1>1, <2>1, <3>1 DEF Vacant, CheckedSlots
  <2>2. CASE pc'[h] # "check"
    BY <1>1, <1>2, <2>2 DEF Vacant
  <2> QED BY <2>1, <2>2
<1>4. Fresh(h)' /\ StartSeen(h)' /\ SeriesLocal(h)'
  BY <1>1 DEF CalendarInv, Prepared, Fresh, StartSeen, SeriesLocal
<1>5. Prepared(h)'
  BY <1>3, <1>4 DEF Prepared
<1> QED BY <1>5, OtherHandlers DEF LookupService, table, history, TypeInv, TypeOK

\* The conflict query adds its interval to those that are vacant; the first
\* one reads the calendar anew.
LEMMA CalendarCheck ==
  ASSUME TypeInv, CalendarInv, NEW h \in Handlers, CheckStaffFree(h) PROVE CalendarInv'
<1> DEFINE k == step[h]
           last == call[h].kind # "create" \/ step[h] + 1 = call[h].repeat
<1>1. /\ pc[h] = "check" /\ call[h].kind \in {"create", "update", "assign"}
      /\ call' = call /\ target' = target /\ seen' = seen /\ len' = len
      /\ booking' = booking /\ Rows' = Rows
      /\ step'[h] = (IF last THEN 0 ELSE k + 1)
      /\ pc'[h] \in {"check", "insert", "write"}
      /\ pc'[h] = "check" <=> ~last
      /\ pc'[h] = "insert" <=> last /\ call[h].kind = "create"
      /\ since'[h] = (IF k = 0 THEN since[h] \cap {target[h]} ELSE since[h])
  BY DEF CheckStaffFree, table, TypeInv, TypeOK, LocalOK, Serves, Rows
<1>2. /\ k \in 0..(MaxRepeat - 1) /\ (call[h].kind # "create" => k = 0)
      /\ call[h].repeat \in 1..MaxRepeat /\ since[h] \subseteq Bookings
      /\ call[h].kind = "create" => k < call[h].repeat
  BY <1>1, RequestsAssumption DEF TypeInv, TypeOK, LocalOK, Slots, Request
<1>3. /\ AssigneeOf(h)' = AssigneeOf(h)
      /\ \A n \in CheckedSlots(h)' :
           SlotStart(h, n)' = SlotStart(h, n) /\ SlotEnd(h, n)' = SlotEnd(h, n)
  BY <1>1 DEF AssigneeOf, SlotStart, SlotEnd
<1>4. \A c \in Rows \ {target[h]} :
        ~Clashes(booking[c], AssigneeOf(h), SlotStart(h, k), SlotEnd(h, k))
  BY DEF CheckStaffFree, SlotStart, SlotEnd, StartOf, EndOf
<1>5. Others(h)' \subseteq Rows \ {target[h]} /\ (k # 0 => Others(h)' = Others(h))
  <2>1. CASE call[h].kind = "create"
    <3>1. target[h] = NONE /\ NONE \notin Bookings
      BY <1>1, <2>1, NoneAssumption DEF CalendarInv, Prepared, SeriesLocal
    <3> QED BY <1>1, <2>1, <3>1 DEF Others, Rows
  <2>2. CASE call[h].kind # "create"
    BY <1>1, <2>2 DEF Others
  <2> QED BY <2>1, <2>2
<1>6. \A n \in CheckedSlots(h)' : n = k \/ (n \in CheckedSlots(h) /\ k # 0)
  BY <1>1, <1>2 DEF CheckedSlots
<1>7. Vacant(h)'
  BY <1>1, <1>3, <1>4, <1>5, <1>6 DEF Vacant, CalendarInv, Prepared
<1>8. Fresh(h)' /\ StartSeen(h)' /\ SeriesLocal(h)'
  BY <1>1 DEF CalendarInv, Prepared, Fresh, StartSeen, SeriesLocal
<1>9. Prepared(h)'
  BY <1>7, <1>8 DEF Prepared
<1> QED BY <1>9, OtherHandlers DEF CheckStaffFree, table, TypeInv, TypeOK

\* What a store leaves to show: its own handler stays prepared, and a new
\* collision with a row nobody touched is none.
LEMMA CalendarStore ==
  ASSUME TypeInv, CalendarInv, NEW h \in Handlers, NEW b \in Bookings,
         NEW row \in Row, NEW next, Store(h, b, row, next), Prepared(h)',
         \A g \in Handlers \ {h} : step'[g] = step[g],
         ASSUME NEW c \in Rows, c # b, b \notin since[h], c \notin since[h],
                Agency!Collide(row, booking[c])
         PROVE  ~Checked(h) /\ {b, c} \in raced
  PROVE  CalendarInv'
<1>1. DoubleBookingOnlyByRace'
  BY StoreRaced DEF CalendarInv
<1>2. ASSUME NEW g \in Handlers, g # h PROVE Prepared(g)'
  BY <1>2, PreparedUnderStore DEF CalendarInv
<1> QED BY <1>1, <1>2 DEF CalendarInv

\* A handler past its last write has nothing left to be prepared for.
LEMMA PreparedAfter ==
  ASSUME NEW h \in Handlers, pc'[h] \notin {"lookup", "check", "insert", "write"}
  PROVE  Prepared(h)'
BY DEF Prepared, Vacant, CheckedSlots, Fresh, StartSeen, SeriesLocal

\* A fresh, checked row collides with no row its writer still speaks for.
LEMMA CalendarUpdate ==
  ASSUME TypeInv, CalendarInv, NEW h \in Handlers, WriteUpdate(h) PROVE CalendarInv'
<1> DEFINE b   == target[h]
           row == [status  |-> Given(call[h].status, booking[b].status),
                   service |-> ServiceOf(h),
                   start   |-> StartOf(h),
                   end     |-> EndOf(h),
                   staff   |-> Given(call[h].staff, booking[b].staff)]
           next == IF NeedsInvoice(h, row) THEN "bill" ELSE "respond"
<1>1. /\ pc[h] = "write" /\ call[h].kind = "update"
      /\ Store(h, b, row, next) /\ step' = step
  BY DEF WriteUpdate
<1>2. /\ call[h] \in Request /\ b \in Bookings /\ booking[b] \in Row
      /\ seen[h] \in Row /\ step[h] = 0
  BY <1>1, RequestsAssumption DEF TypeInv, TypeOK, LocalOK, OnBooking, Slots
<1>3. row \in Row
  <2>1. StartOf(h) \in Times /\ EndOf(h) \in Ends
    BY <1>1, IntervalType
  <2> QED BY <1>2, <2>1 DEF Row, Request, Given, ServiceOf
<1>4. Prepared(h)'
  <2>1. pc'[h] \in {"bill", "respond"}
    BY <1>1 DEF Store, TypeInv, TypeOK
  <2> QED BY <2>1, PreparedAfter
<1>5. ASSUME NEW c \in Rows, c # b, b \notin since[h], c \notin since[h],
             Agency!Collide(row, booking[c])
      PROVE  FALSE
  <2>1. booking[b] = seen[h]
    BY <1>1, <1>5 DEF CalendarInv, Prepared, Fresh, OnBooking
  <2>2. row.staff = AssigneeOf(h)
    BY <2>1 DEF AssigneeOf
  <2>3. AssigneeOf(h) # NONE /\ Clashes(booking[c], AssigneeOf(h), StartOf(h), EndOf(h))
    BY <1>5, <2>2, CollideClashes
  <2>4. 0 \in CheckedSlots(h) /\ c \in Others(h)
    BY <1>1, <1>5, BoundsAssumption DEF CheckedSlots, Others
  <2>5. StartOf(h) = SlotStart(h, 0) /\ EndOf(h) = SlotEnd(h, 0)
    BY <1>1, <1>2 DEF StartOf, EndOf, SlotStart, SlotEnd
  <2> QED BY <2>3, <2>4, <2>5 DEF CalendarInv, Prepared, Vacant
<1> HIDE DEF row, next, b
<1> QED BY <1>1, <1>2, <1>3, <1>4, <1>5, CalendarStore

\* startJob only activates a row that was active, completeJob ends one, and
\* assignJob checks the stored interval for the new assignee.
LEMMA CalendarFieldOps ==
  ASSUME TypeInv, CalendarInv, NEW h \in Handlers,
         WriteStart(h) \/ WriteAssign(h) \/ WriteComplete(h)
  PROVE  CalendarInv'
<1> DEFINE b == target[h]
<1>1. pc[h] = "write" /\ call[h].kind \in {"start", "assign", "complete"} /\ step' = step
  BY DEF WriteStart, WriteAssign, WriteComplete
<1>2. /\ call[h] \in Requests /\ call[h] \in Request
      /\ b \in Bookings /\ booking[b] \in Row /\ b \in Rows
      /\ seen[h] \in Row /\ step[h] = 0
  BY <1>1, RequestsAssumption, NoRowAssumption
     DEF TypeInv, TypeOK, LocalOK, OnBooking, Slots, Rows
<1>3. b \notin since[h] => booking[b] = seen[h]
  BY <1>1 DEF CalendarInv, Prepared, Fresh, OnBooking
<1>4. CASE WriteStart(h)
  <2> DEFINE row == [booking[b] EXCEPT !.status = "IN_PROGRESS"]
  <2>1. call[h].kind = "start" /\ Store(h, b, row, "report")
    BY <1>4 DEF WriteStart
  <2>2. row \in Row /\ row.staff = booking[b].staff
        /\ row.start = booking[b].start /\ row.end = booking[b].end
    BY <1>2 DEF Row, BookingStatus
  <2>3. Prepared(h)'
    BY <2>1, PreparedAfter DEF Store, TypeInv, TypeOK
  <2>4. ~Checked(h)
    BY <2>1 DEF Checked
  <2>5. ASSUME NEW c \in Rows, c # b, b \notin since[h], c \notin since[h],
               Agency!Collide(row, booking[c])
        PROVE  {b, c} \in raced
    <3>1. booking[b].status = "CONFIRMED"
      BY <1>1, <1>3, <2>1, <2>5 DEF CalendarInv, Prepared, StartSeen
    <3>2. Agency!Collide(booking[b], booking[c])
      BY <2>2, <2>5, <3>1 DEF Agency!Collide, Agency!Busy, Agency!Active
    <3> QED BY <1>2, <2>5, <3>2
          DEF CalendarInv, DoubleBookingOnlyByRace, DoubleBooked, Rows
  <2> HIDE DEF row, b
  <2> QED BY <1>1, <1>2, <2>1, <2>2, <2>3, <2>4, <2>5, CalendarStore
<1>5. CASE WriteComplete(h)
  <2> DEFINE row == [booking[b] EXCEPT !.status = "COMPLETED"]
             next == IF NeedsInvoice(h, row) THEN "bill" ELSE "respond"
  <2>1. Store(h, b, row, next)
    BY <1>5 DEF WriteComplete
  <2>2. row \in Row /\ row.status = "COMPLETED"
    BY <1>2 DEF Row, BookingStatus
  <2>3. Prepared(h)'
    <3>1. pc'[h] \in {"bill", "respond"}
      BY <2>1 DEF Store, TypeInv, TypeOK
    <3> QED BY <3>1, PreparedAfter
  <2>4. \A c \in Rows : ~Agency!Collide(row, booking[c])
    BY <2>2, CollideClashes DEF activeConflictStatuses
  <2> HIDE DEF row, next, b
  <2> QED BY <1>1, <1>2, <2>1, <2>2, <2>3, <2>4, CalendarStore
<1>6. CASE WriteAssign(h)
  <2> DEFINE row == [booking[b] EXCEPT
                       !.staff = call[h].staff,
                       !.status = IF seen[h].status = "REQUESTED"
                                    THEN "CONFIRMED" ELSE seen[h].status]
  <2>1. call[h].kind = "assign" /\ Store(h, b, row, "respond")
    BY <1>6 DEF WriteAssign
  <2>2. /\ row \in Row /\ row.staff = call[h].staff
        /\ row.start = booking[b].start /\ row.end = booking[b].end
    BY <1>2 DEF Row, Request, BookingStatus
  <2>3. Prepared(h)'
    BY <2>1, PreparedAfter DEF Store, TypeInv, TypeOK
  <2>4. ASSUME NEW c \in Rows, c # b, b \notin since[h], c \notin since[h],
               Agency!Collide(row, booking[c])
        PROVE  FALSE
    <3>1. call[h].staff # NONE /\ call[h].start = NONE
      BY <1>2, <2>1, RequestsAssumption DEF OnBooking
    <3>2. row.staff = AssigneeOf(h) /\ AssigneeOf(h) # NONE
      BY <2>2, <3>1 DEF AssigneeOf, Given
    <3>3. row.end # NONE /\ Clashes(booking[c], AssigneeOf(h), row.start, row.end)
      BY <2>4, <3>2, CollideClashes
    <3>4. row.end = SlotEnd(h, 0)
      BY <1>3, <2>1, <2>2, <2>4, <3>3 DEF SlotEnd
    <3>5. row.start = SlotStart(h, 0)
      <4>1. seen[h].start \in Nat
        BY <1>2, TimeFacts DEF Row
      <4>2. 0 * Week = 0
        BY BoundsAssumption
      <4> QED BY <1>3, <2>2, <2>4, <3>1, <4>1, <4>2 DEF SlotStart, Given
    <3>6. 0 \in CheckedSlots(h) /\ c \in Others(h)
      BY <1>1, <2>1, <2>4, BoundsAssumption DEF CheckedSlots, Others
    <3> QED BY <3>2, <3>3, <3>4, <3>5, <3>6 DEF CalendarInv, Prepared, Vacant
  <2> HIDE DEF row, b
  <2> QED BY <1>1, <1>2, <2>1, <2>2, <2>3, <2>4, CalendarStore
<1> QED BY <1>4, <1>5, <1>6

\* Only a series with a staff member can collide with anything, and it has
\* checked the interval it inserts; its own rows are spaced.
LEMMA CalendarInsert ==
  ASSUME SeriesSpaced, TypeInv, CalendarInv, NEW h \in Handlers, InsertRow(h)
  PROVE  CalendarInv'
<1> DEFINE more == call[h].kind = "create" /\ step[h] + 1 < call[h].repeat
           row == NewRow(h)
<1>1. PICK b \in Bookings \ Rows, next \in {"insert", "charge", "bill", "respond"} :
        /\ pc[h] = "insert"
        /\ step' = [step EXCEPT ![h] = IF more THEN @ + 1 ELSE 0]
        /\ Store(h, b, row, next)
        /\ next = "insert" => more
  BY DEF InsertRow
<1>2. /\ call[h] \in Requests /\ call[h] \in Request /\ call[h].kind \in Creating
      /\ call[h].service \in Services /\ call[h].start \in Nat /\ call[h].start # NONE
      /\ call[h].kind = "create" => call[h].status \in BookingStatus
  <2>1. call[h] \in Requests /\ call[h] \in Request /\ call[h].kind \in Creating
    BY <1>1, RequestsAssumption DEF TypeInv, LocalOK, Serves
  <2>2. call[h].start # NONE /\ call[h].start \in Starts /\ call[h].service \in Services
    BY <2>1, RequestsAssumption DEF Request
  <2>3. call[h].kind = "create" => call[h].status \in BookingStatus
    BY <2>1, RequestsAssumption DEF Request
  <2> QED BY <2>1, <2>2, <2>3, BoundsAssumption
<1>3. step[h] \in 0..(MaxRepeat - 1) /\ step[h] < Slots(call[h])
  BY <1>1 DEF TypeInv, TypeOK, LocalOK
<1>4. row \in Row
  <2>1. StartOf(h) \in Times /\ (call[h].kind # "fixture" => EndOf(h) \in Ends)
    BY <1>1, <1>2, IntervalType
  <2> QED BY <1>2, <2>1 DEF NewRow, Row, Request, BookingStatus
<1>5. /\ row.start = StartOf(h)
      /\ call[h].kind = "portal" => row.staff = NONE
      /\ call[h].kind = "fixture" => row.end = NONE
      /\ call[h].kind = "create" => row.end = EndOf(h) /\ row.staff = call[h].staff
  BY DEF NewRow
<1>6. call[h].kind = "create" =>
        /\ AssigneeOf(h) = call[h].staff
        /\ \A n \in Nat : SlotStart(h, n) = call[h].start + n * Week
        /\ \A n \in Nat : SlotEnd(h, n) = call[h].start + n * Week + len[h]
        /\ StartOf(h) = SlotStart(h, step[h]) /\ EndOf(h) = SlotEnd(h, step[h])
        /\ len[h] \in Durations
  BY <1>1, <1>2, <1>3 DEF CalendarInv, Prepared, SeriesLocal, AssigneeOf, Given,
                          SlotStart, SlotEnd, StartOf, EndOf, TypeInv, LocalOK
<1>7. ASSUME NEW c \in Rows, c # b, b \notin since[h], c \notin since[h],
             Agency!Collide(row, booking[c])
      PROVE  FALSE
  <2>1. row.staff # NONE /\ row.end # NONE
    BY <1>7, CollideClashes
  <2>2. call[h].kind = "create"
    BY <1>2, <1>5, <2>1 DEF Creating
  <2>3. /\ AssigneeOf(h) # NONE
        /\ Clashes(booking[c], AssigneeOf(h), SlotStart(h, step[h]), SlotEnd(h, step[h]))
    BY <1>5, <1>6, <1>7, <2>1, <2>2, CollideClashes
  <2>4. step[h] \in CheckedSlots(h) /\ c \in Others(h)
    BY <1>1, <1>3, <1>7, <2>2 DEF CheckedSlots, Others, Slots
  <2> QED BY <2>3, <2>4 DEF CalendarInv, Prepared, Vacant
<1>8. CASE next # "insert"
  <2>1. Prepared(h)'
    BY <1>1, <1>8, PreparedAfter DEF Store, TypeInv, TypeOK
  <2> HIDE DEF row
  <2> QED BY <1>1, <1>4, <1>7, <2>1, CalendarStore DEF TypeInv, TypeOK
<1>9. CASE next = "insert"
  <2>1. /\ call[h].kind = "create" /\ pc'[h] = "insert" /\ call' = call
        /\ seen'[h] = row /\ len' = len /\ step'[h] = step[h] + 1
        /\ since'[h] = since[h] /\ booking'[b] = row
        /\ Rows' \subseteq Rows \cup {b}
        /\ \A c \in Rows \ {b} : booking'[c] = booking[c]
    BY <1>1, <1>9 DEF Store, Rows, TypeInv, TypeOK
  <2>2. /\ AssigneeOf(h)' = call[h].staff
        /\ \A n \in Nat : SlotStart(h, n)' = SlotStart(h, n) /\ SlotEnd(h, n)' = SlotEnd(h, n)
    BY <1>2, <1>5, <1>6, <2>1 DEF AssigneeOf, Given, SlotStart, SlotEnd
  <2>3. ASSUME NEW n \in CheckedSlots(h)', call[h].staff # NONE, NEW c \in Others(h)'
        PROVE  ~Clashes(booking'[c], call[h].staff, SlotStart(h, n), SlotEnd(h, n))
    <3>1. n \in Nat /\ step[h] < n /\ n \in CheckedSlots(h)
      BY <1>1, <1>3, <2>1 DEF CheckedSlots
    <3>2. CASE c = b
      <4>1. EndOf(h) <= SlotStart(h, n)
        <5>1. call[h].start + step[h] * Week + len[h] <= call[h].start + n * Week
          BY <1>2, <1>3, <1>6, <2>1, <3>1, Spacing
        <5> QED BY <1>3, <1>6, <2>1, <3>1, <5>1
      <4>2. EndOf(h) \in Nat /\ SlotStart(h, n) \in Nat
        <5>1. EndOf(h) \in Nat
          BY <1>1, <1>2, <2>1, IntervalType, TimeFacts
        <5>2. n * Week \in Nat
          BY <3>1, BoundsAssumption
        <5> QED BY <1>2, <1>6, <2>1, <3>1, <5>1, <5>2
      <4> QED BY <1>5, <2>1, <3>2, <4>1, <4>2 DEF Clashes
    <3>3. CASE c # b
      <4>1. c \in Others(h) /\ booking'[c] = booking[c]
        BY <2>1, <2>3, <3>3 DEF Others
      <4> QED BY <1>6, <2>1, <2>3, <3>1, <4>1
            DEF CalendarInv, Prepared, Vacant, Clashes
    <3> QED BY <3>2, <3>3
  <2>4. Vacant(h)'
    <3>1. \A n \in CheckedSlots(h)' : n \in Nat
      BY DEF CheckedSlots
    <3> QED BY <2>2, <2>3, <3>1 DEF Vacant, Clashes
  <2>5. Fresh(h)' /\ StartSeen(h)' /\ SeriesLocal(h)'
    BY <1>5, <2>1 DEF Fresh, StartSeen, SeriesLocal
  <2>6. Prepared(h)'
    BY <2>4, <2>5 DEF Prepared
  <2> HIDE DEF row
  <2> QED BY <1>1, <1>4, <1>7, <2>6, CalendarStore DEF TypeInv, TypeOK
<1> QED BY <1>8, <1>9

\* The remaining steps of a request neither read nor write the calendar.
LEMMA CalendarRest ==
  ASSUME TypeInv, CalendarInv, NEW h \in Handlers,
         UpsertReport(h) \/ FindInvoice(h) \/ CreateInvoice(h) \/ Respond(h) \/ Fail(h)
  PROVE  CalendarInv'
<1>1. pc'[h] \notin {"lookup", "check", "insert", "write"}
  BY DEF UpsertReport, FindInvoice, CreateInvoice, Respond, Fail, Leave, TypeInv, TypeOK
<1>2. /\ booking' = booking /\ raced' = raced
      /\ \A g \in Handlers \ {h} :
           /\ pc'[g] = pc[g] /\ call'[g] = call[g] /\ target'[g] = target[g]
           /\ seen'[g] = seen[g] /\ len'[g] = len[g] /\ step'[g] = step[g]
           /\ since'[g] = since[g]
  BY DEF UpsertReport, FindInvoice, CreateInvoice, Respond, Fail, Leave, table,
         history, TypeInv, TypeOK
<1> QED BY <1>1, <1>2, PreparedAfter, OtherHandlers

\* In a tenant whose bookings are no longer than the repeat interval, every
\* double booking has a race behind it, for any number of requests in flight,
\* of bookings, staff and services, and any length of a series.
THEOREM DoubleBookingsAreRaces ==
  ASSUME SeriesSpaced PROVE Spec => []DoubleBookingOnlyByRace
<1>1. Init => CalendarInv
  BY DEF Init, CalendarInv, DoubleBookingOnlyByRace, DoubleBooked, Rows, Prepared,
         Vacant, CheckedSlots, Fresh, StartSeen, SeriesLocal
<1>2. TypeInv /\ CalendarInv /\ [Next]_vars => CalendarInv'
  <2> SUFFICES ASSUME TypeInv, CalendarInv, [Next]_vars PROVE CalendarInv'
    OBVIOUS
  <2>1. ASSUME NEW h \in Handlers, Handle(h) PROVE CalendarInv'
    BY <2>1, CalendarBegin, CalendarLookup, CalendarCheck, CalendarInsert,
       CalendarUpdate, CalendarFieldOps, CalendarRest DEF Handle
  <2>2. CASE UNCHANGED <<booking, local, since, raced>>
    <3>1. \A h \in Handlers : Prepared(h)'
      BY <2>2, PreparedKept DEF CalendarInv, local
    <3> QED BY <2>2, <3>1 DEF CalendarInv, DoubleBookingOnlyByRace, DoubleBooked, Rows
  <2> QED BY <2>1, <2>2 DEF Next, InvoiceByHand, EditService, vars, table, local, history
<1>3. CalendarInv => DoubleBookingOnlyByRace
  BY DEF CalendarInv
<1> QED BY <1>1, <1>2, <1>3, TypeInit, TypeStep, PTL DEF Spec

-----------------------------------------------------------------------------
(***************************************************************************)
(* Statuses.  Until it writes, a handler holds a row its guards admitted,  *)
(* and the row in the table is that one unless others wrote it.            *)
(***************************************************************************)
Guarded(h) ==
    pc[h] \in {"lookup", "check", "write"} /\ call[h].kind \in OnBooking =>
        Admissible(call[h], seen[h])

Ready(h) == Fresh(h) /\ Guarded(h)

StatusInv == \A h \in Handlers : Ready(h)

\* A step that leaves the local variables of g alone and writes no row
\* without telling g.
LEMMA ReadyKept ==
  ASSUME NEW g \in Handlers, Ready(g),
         pc'[g] = pc[g], call'[g] = call[g], target'[g] = target[g], seen'[g] = seen[g],
         pc[g] \in {"lookup", "check", "write"} /\ call[g].kind \in OnBooking
           /\ target[g] \notin since'[g] =>
             booking'[target[g]] = booking[target[g]] /\ target[g] \notin since[g]
  PROVE  Ready(g)'
<1>1. Fresh(g)'
  BY DEF Ready, Fresh
<1>2. Guarded(g)'
  <2> HIDE DEF Admissible
  <2> QED BY DEF Ready, Guarded
<1> QED BY <1>1, <1>2 DEF Ready

\* Row b, written by h, is told to every other handler.
LEMMA ReadyUnderStore ==
  ASSUME TypeInv, StatusInv, NEW h \in Handlers, NEW b \in Bookings, NEW row \in Row,
         NEW next, Store(h, b, row, next),
         next \notin {"lookup", "check", "write"}
  PROVE  StatusInv'
<1>1. ASSUME NEW g \in Handlers, g # h PROVE Ready(g)'
  <2>1. /\ pc'[g] = pc[g] /\ call'[g] = call[g] /\ target'[g] = target[g]
        /\ seen'[g] = seen[g]
        /\ pc[g] # "idle" => since'[g] = since[g] \cup {b}
        /\ \A c \in Bookings \ {b} : booking'[c] = booking[c]
    BY <1>1 DEF Store, TypeInv, TypeOK
  <2>2. pc[g] \in {"lookup", "check", "write"} /\ call[g].kind \in OnBooking =>
          target[g] \in Bookings
    BY DEF TypeInv, LocalOK
  <2> QED BY <2>1, <2>2, ReadyKept DEF StatusInv
<1>2. Ready(h)'
  BY DEF Store, TypeInv, TypeOK, Ready, Fresh, Guarded
<1> QED BY <1>1, <1>2 DEF StatusInv

\* A step of h that writes no row: what is left to show is Ready for h.
LEMMA ReadyOthers ==
  ASSUME TypeInv, StatusInv, NEW h \in Handlers, booking' = booking, Ready(h)',
         \A g \in Handlers \ {h} :
            /\ pc'[g] = pc[g] /\ call'[g] = call[g] /\ target'[g] = target[g]
            /\ seen'[g] = seen[g] /\ since'[g] = since[g]
  PROVE  StatusInv'
<1>1. ASSUME NEW g \in Handlers, g # h PROVE Ready(g)'
  BY <1>1, ReadyKept DEF StatusInv
<1> QED BY <1>1 DEF StatusInv

\* Nothing is stored but typed rows, by these steps, which write no more.
LEMMA Writes ==
  ASSUME TypeInv, NEW h \in Handlers,
         InsertRow(h) \/ WriteUpdate(h) \/ WriteStart(h) \/ WriteAssign(h) \/ WriteComplete(h)
  PROVE  \E b \in Bookings, row \in Row, next \in Labels \ {"lookup", "check", "write"} :
           /\ Store(h, b, row, next)
           /\ InsertRow(h) => b \notin Rows
<1>1. TypeInv'
  <2>1. Handle(h)
    BY DEF Handle
  <2> QED BY <2>1, TypeStep DEF Next
<1>2. CASE InsertRow(h)
  <2>1. PICK b \in Bookings \ Rows, next \in {"insert", "charge", "bill", "respond"} :
          Store(h, b, NewRow(h), next)
    BY <1>2 DEF InsertRow
  <2>2. NewRow(h) \in Row
    <3>1. booking'[b] = NewRow(h) /\ seen'[h] = NewRow(h)
      BY <2>1 DEF Store, TypeInv, TypeOK
    <3>2. NewRow(h) \in Row \cup {NONE}
      BY <1>1, <3>1 DEF TypeInv, TypeOK
    <3>3. NewRow(h) \in Row \cup {EmptyRow}
      BY <1>1, <3>1 DEF TypeInv, TypeOK
    <3>4. NewRow(h) # EmptyRow
      <4>1. call[h].service # NONE
        BY <1>2, RequestsAssumption DEF InsertRow, TypeInv, LocalOK, Serves
      <4>2. NewRow(h).service = call[h].service /\ EmptyRow.service = NONE
        BY DEF NewRow, EmptyRow
      <4> QED BY <4>1, <4>2
    <3> QED BY <3>3, <3>4
  <2> QED BY <2>1, <2>2 DEF Labels
<1>3. CASE WriteUpdate(h) \/ WriteStart(h) \/ WriteAssign(h) \/ WriteComplete(h)
  <2>1. PICK next \in {"bill", "respond", "report"} : \E row : Store(h, target[h], row, next)
    BY <1>3 DEF WriteUpdate, WriteStart, WriteAssign, WriteComplete
  <2> PICK row : Store(h, target[h], row, next)
    BY <2>1
  <2>2. target[h] \in Bookings /\ booking[target[h]] \in Row
        /\ call[h].kind \in OnBooking /\ pc[h] = "write"
    BY <1>3 DEF WriteUpdate, WriteStart, WriteAssign, WriteComplete, TypeInv, LocalOK,
                OnBooking
  <2>3. row \in Row
    <3>1. booking'[target[h]] = row /\ target'[h] = target[h] /\ call' = call
          /\ pc'[h] = next
      BY <2>1, <2>2 DEF Store, TypeInv, TypeOK
    <3> QED BY <1>1, <2>2, <3>1 DEF TypeInv, LocalOK
  <2>4. ~InsertRow(h)
    BY <2>2 DEF InsertRow
  <2> QED BY <2>1, <2>2, <2>3, <2>4 DEF Labels
<1> QED BY <1>2, <1>3

\* Every step keeps what the handlers hold.
LEMMA StatusStepInv == TypeInv /\ StatusInv /\ [Next]_vars => StatusInv'
<1> SUFFICES ASSUME TypeInv, StatusInv, [Next]_vars PROVE StatusInv'
  OBVIOUS
<1>1. ASSUME NEW h \in Handlers,
             InsertRow(h) \/ WriteUpdate(h) \/ WriteStart(h) \/ WriteAssign(h) \/ WriteComplete(h)
      PROVE  StatusInv'
  BY <1>1, Writes, ReadyUnderStore
<1>2. ASSUME NEW h \in Handlers, BeginCreate(h) \/ BeginPortal(h) \/ BeginFixture(h)
      PROVE  StatusInv'
  <2>1. PICK req \in Requests, next \in {"lookup", "insert"} :
          /\ \E minutes : Begin(h, req, NONE, EmptyRow, minutes, next)
          /\ req.kind \in Creating
    BY <1>2 DEF BeginCreate, BeginPortal, BeginFixture, Creating
  <2>2. call'[h] = req /\ req.kind \notin OnBooking
    BY <2>1 DEF Begin, TypeInv, TypeOK, Creating, OnBooking
  <2>3. Ready(h)'
    BY <2>2 DEF Ready, Fresh, Guarded
  <2> QED BY <2>1, <2>3, ReadyOthers DEF Begin, table, history, TypeInv, TypeOK
<1>3. ASSUME NEW h \in Handlers, BeginOnBooking(h) PROVE StatusInv'
  <2>1. PICK req \in Requests, b \in Bookings :
          /\ Admissible(req, booking[b])
          /\ Begin(h, req, b, booking[b], duration[booking[b].service],
                   AfterRead(req, booking[b]))
    BY <1>3 DEF BeginOnBooking
  <2> HIDE DEF AfterRead, Admissible
  <2>2. call'[h] = req /\ target'[h] = b /\ seen'[h] = booking[b] /\ booking' = booking
    BY <2>1 DEF Begin, table, TypeInv, TypeOK
  <2>3. Ready(h)'
    BY <2>1, <2>2 DEF Ready, Fresh, Guarded
  <2> QED BY <2>1, <2>3, ReadyOthers DEF Begin, table, history, TypeInv, TypeOK
<1>4. ASSUME NEW h \in Handlers, LookupService(h) PROVE StatusInv'
  <2>1. pc[h] = "lookup" /\ call' = call /\ target' = target /\ seen' = seen
        /\ since' = since /\ booking' = booking
    BY <1>4 DEF LookupService, table, history
  <2>2. Ready(h)'
    BY <2>1 DEF StatusInv, Ready, Fresh, Guarded
  <2> QED BY <1>4, <2>1, <2>2, ReadyOthers DEF LookupService, TypeInv, TypeOK
<1>5. ASSUME NEW h \in Handlers, CheckStaffFree(h) PROVE StatusInv'
  <2>1. pc[h] = "check" /\ call' = call /\ target' = target /\ seen' = seen
        /\ booking' = booking
        /\ since' = [since EXCEPT ![h] = IF step[h] = 0 THEN since[h] \cap {target[h]}
                                                        ELSE since[h]]
    BY <1>5 DEF CheckStaffFree, table
  <2>2. target[h] \notin since'[h] => target[h] \notin since[h]
    BY <2>1 DEF TypeInv, TypeOK
  <2>3. Ready(h)'
    BY <2>1, <2>2 DEF StatusInv, Ready, Fresh, Guarded
  <2> QED BY <1>5, <2>1, <2>3, ReadyOthers DEF CheckStaffFree, TypeInv, TypeOK
<1>6. ASSUME NEW h \in Handlers,
             UpsertReport(h) \/ FindInvoice(h) \/ CreateInvoice(h) \/ Respond(h) \/ Fail(h)
      PROVE  StatusInv'
  <2>1. pc'[h] \notin {"lookup", "check", "write"} /\ booking' = booking
    BY <1>6 DEF UpsertReport, FindInvoice, CreateInvoice, Respond, Fail, Leave, table,
                TypeInv, TypeOK
  <2>2. Ready(h)'
    BY <2>1 DEF Ready, Fresh, Guarded
  <2> QED BY <1>6, <2>1, <2>2, ReadyOthers
        DEF UpsertReport, FindInvoice, CreateInvoice, Respond, Fail, Leave, history,
            TypeInv, TypeOK
<1>7. CASE UNCHANGED <<booking, local, since>>
  BY <1>7, ReadyKept DEF StatusInv, local
<1> QED BY <1>1, <1>2, <1>3, <1>4, <1>5, <1>6, <1>7
      DEF Next, Handle, InvoiceByHand, EditService, vars, table, local, history

\* Six guards, one table: a fresh row that passed them takes a legal status.
LEMMA FreshWritesAreLegal ==
  ASSUME TypeInv, StatusInv, NEW h \in Handlers,
         WriteUpdate(h) \/ WriteStart(h) \/ WriteAssign(h) \/ WriteComplete(h),
         target[h] \notin since[h]
  PROVE  Agency!MayBecome(booking[target[h]].status, booking'[target[h]].status)
<1> DEFINE b == target[h]
<1>1. /\ pc[h] = "write" /\ call[h].kind \in {"update", "start", "assign", "complete"}
      /\ b \in Bookings /\ booking[b] \in Row /\ call[h] \in Request
  BY RequestsAssumption
     DEF WriteUpdate, WriteStart, WriteAssign, WriteComplete, TypeInv, LocalOK, OnBooking
<1>2. booking[b] = seen[h] /\ Admissible(call[h], seen[h])
  BY <1>1 DEF StatusInv, Ready, Fresh, Guarded, OnBooking
<1>3. booking[b].status \in BookingStatus /\ call[h].status \in BookingStatus \cup {NONE}
  BY <1>1 DEF Row, Request
<1> USE DEF Agency!MayBecome, Agency!Statuses, Agency!Active
<1>4. CASE WriteUpdate(h)
  <2>1. call[h].kind = "update"
        /\ booking'[b].status = Given(call[h].status, booking[b].status)
    BY <1>1, <1>4 DEF WriteUpdate, Store, TypeInv, TypeOK
  <2>2. call[h].status = NONE \/ StatusTransitionAllowed(booking[b].status, call[h].status)
    BY <1>2, <2>1 DEF Admissible
  <2>3. CASE call[h].status = NONE
    BY <2>1, <2>3 DEF Given
  <2>4. CASE call[h].status # NONE
    <3> DEFINE s == booking[b].status
               t == call[h].status
    <3>1. s \in BookingStatus /\ t \in BookingStatus /\ (s = t \/ t \in statusTransitions[s])
      BY <1>3, <2>2, <2>4 DEF StatusTransitionAllowed
    <3>2. booking'[b].status = t
      BY <2>1, <2>4 DEF Given
    <3> HIDE DEF s, t
    <3>3. Agency!MayBecome(s, t)
      BY <3>1 DEF statusTransitions, BookingStatus
    <3> QED BY <3>2, <3>3 DEF s
  <2> QED BY <2>3, <2>4
<1>5. CASE WriteStart(h)
  <2>1. call[h].kind = "start" /\ booking'[b].status = "IN_PROGRESS"
    BY <1>1, <1>5 DEF WriteStart, Store, TypeInv, TypeOK, Row
  <2> QED BY <1>2, <2>1 DEF Admissible
<1>6. CASE WriteAssign(h)
  <2>1. call[h].kind = "assign"
        /\ booking'[b].status = IF seen[h].status = "REQUESTED"
                                  THEN "CONFIRMED" ELSE seen[h].status
    BY <1>1, <1>6 DEF WriteAssign, Store, TypeInv, TypeOK, Row
  <2> QED BY <1>2, <2>1 DEF Admissible
<1>7. CASE WriteComplete(h)
  <2>1. call[h].kind = "complete" /\ booking'[b].status = "COMPLETED"
    BY <1>1, <1>7 DEF WriteComplete, Store, TypeInv, TypeOK, Row
  <2> QED BY <1>2, <2>1 DEF Admissible
<1> QED BY <1>4, <1>5, <1>6, <1>7

\* Only these steps write rows.
LEMMA RowsKept ==
  ASSUME TypeInv, NEW h \in Handlers, Handle(h), ~InsertRow(h), ~WriteUpdate(h),
         ~WriteStart(h), ~WriteAssign(h), ~WriteComplete(h)
  PROVE  booking' = booking
BY DEF Handle, BeginCreate, BeginPortal, BeginFixture, BeginOnBooking, Begin, LookupService,
       CheckStaffFree, UpsertReport, FindInvoice, CreateInvoice, Respond, Fail, Leave, table

\* What a step does to the status of a booking, for a given writer.
LEMMA LegalUnlessStale ==
  ASSUME TypeInv, StatusInv, [Next]_vars, NEW b \in Bookings
  PROVE  StatusStep(b) \/ \E h \in Handlers : target[h] = b /\ b \in since[h]
<1> USE DEF StatusStep
<1>1. CASE booking' = booking
  BY <1>1 DEF Agency!MayBecome
<1>2. ASSUME NEW h \in Handlers, InsertRow(h)
      PROVE  StatusStep(b)
  <2>1. PICK c \in Bookings, row \in Row, next \in Labels : Store(h, c, row, next) /\ c \notin Rows
    BY <1>2, Writes
  <2>2. b \in Rows => booking'[b] = booking[b]
    BY <2>1 DEF Store, TypeInv, TypeOK
  <2> QED BY <2>2 DEF Agency!MayBecome
<1>3. ASSUME NEW h \in Handlers,
             WriteUpdate(h) \/ WriteStart(h) \/ WriteAssign(h) \/ WriteComplete(h)
      PROVE  StatusStep(b) \/ (target[h] = b /\ b \in since[h])
  <2>1. CASE b = target[h]
    BY <1>3, <2>1, FreshWritesAreLegal
  <2>2. CASE b # target[h]
    <3>1. booking'[b] = booking[b]
      BY <1>3, <2>2 DEF WriteUpdate, WriteStart, WriteAssign, WriteComplete, Store,
                        TypeInv, TypeOK
    <3> QED BY <3>1 DEF Agency!MayBecome
  <2> QED BY <2>1, <2>2
<1>4. CASE booking' # booking
  <2>1. PICK h \in Handlers : Handle(h)
    BY <1>4 DEF Next, InvoiceByHand, EditService, vars, table
  <2> QED BY <1>2, <1>3, <1>4, <2>1, RowsKept
<1> QED BY <1>1, <1>4

\* For any requests in flight: a status leaves the table of allowed
\* transitions only where a writer's snapshot is stale.
THEOREM StaleWritesOnly == Spec => OnlyStaleWritesBreakTransitions
<1> DEFINE Legal == \A b \in Bookings :
                      StatusStep(b) \/ \E h \in Handlers : target[h] = b /\ b \in since[h]
<1>1. Init => StatusInv
  BY DEF Init, StatusInv, Ready, Fresh, Guarded
<1>2. TypeInv /\ StatusInv /\ [Next]_vars => [Legal]_vars
  BY LegalUnlessStale
<1> HIDE DEF Legal
<1>3. Spec => [][Legal]_vars
  BY <1>1, <1>2, StatusStepInv, TypeInit, TypeStep, PTL DEF Spec
<1> QED BY <1>3 DEF Legal, OnlyStaleWritesBreakTransitions

\* What a handler with a fresh row writes besides the status, its request names.
LEMMA FreshWritesAreAsked ==
  ASSUME TypeInv, StatusInv, NEW h \in Handlers,
         WriteUpdate(h) \/ WriteStart(h) \/ WriteAssign(h) \/ WriteComplete(h),
         target[h] \notin since[h]
  PROVE  AsAsked(h, target[h])
<1> DEFINE b == target[h]
<1>1. /\ pc[h] = "write" /\ call[h].kind \in {"update", "start", "assign", "complete"}
      /\ b \in Bookings /\ booking[b] \in Row /\ call[h] \in Request
  BY RequestsAssumption
     DEF WriteUpdate, WriteStart, WriteAssign, WriteComplete, TypeInv, LocalOK, OnBooking
<1>2. CASE WriteUpdate(h)
  <2>1. booking[b] = seen[h] /\ call[h].kind = "update"
    BY <1>1, <1>2 DEF WriteUpdate, StatusInv, Ready, Fresh, OnBooking
  <2>2. /\ booking'[b].start = StartOf(h) /\ booking'[b].service = ServiceOf(h)
        /\ booking'[b].staff = Given(call[h].staff, booking[b].staff)
    BY <1>1, <1>2 DEF WriteUpdate, Store, TypeInv, TypeOK
  <2>3. StartOf(h) = Given(call[h].start, booking[b].start)
    <3>1. step[h] = 0
      BY <1>1, <2>1 DEF TypeInv, TypeOK, LocalOK, Slots
    <3>2. Given(call[h].start, booking[b].start) \in Times
      BY <1>1, TimeFacts DEF Given, Request, Row
    <3>3. 0 * Week = 0
      BY BoundsAssumption
    <3>4. \A t \in Times : t + 0 = t
      BY TimeFacts
    <3> QED BY <2>1, <3>1, <3>2, <3>3, <3>4 DEF StartOf
  <2> QED BY <2>1, <2>2, <2>3 DEF AsAsked, ServiceOf, Given
<1>3. CASE WriteStart(h) \/ WriteComplete(h)
  <2>1. booking'[b] = [booking[b] EXCEPT !.status = booking'[b].status]
    BY <1>1, <1>3 DEF WriteStart, WriteComplete, Store, TypeInv, TypeOK, Row
  <2> QED BY <1>1, <2>1 DEF AsAsked, Row
<1>4. CASE WriteAssign(h)
  <2>1. booking'[b] = [booking[b] EXCEPT !.staff = call[h].staff, !.status = booking'[b].status]
    BY <1>1, <1>4 DEF WriteAssign, Store, TypeInv, TypeOK, Row
  <2> QED BY <1>1, <2>1 DEF AsAsked, Row
<1> QED BY <1>2, <1>3, <1>4

\* What a step does to a booking that is there, for a given writer.
LEMMA AskedUnlessStale ==
  ASSUME TypeInv, StatusInv, [Next]_vars, NEW b \in Rows, booking'[b] # booking[b]
  PROVE  \E h \in Handlers :
            /\ pc[h] = "write" /\ pc'[h] # "write" /\ target[h] = b
            /\ b \in since[h] \/ AsAsked(h, b)
<1>1. PICK h \in Handlers : Handle(h)
  BY DEF Next, InvoiceByHand, EditService, vars, table
<1>2. ~InsertRow(h)
  <2>1. ASSUME InsertRow(h) PROVE booking'[b] = booking[b]
    <3>1. PICK c \in Bookings, row \in Row, next \in Labels :
            Store(h, c, row, next) /\ c \notin Rows
      BY <2>1, Writes
    <3> QED BY <3>1 DEF Store, TypeInv, TypeOK, Rows
  <2> QED BY <2>1
<1>3. WriteUpdate(h) \/ WriteStart(h) \/ WriteAssign(h) \/ WriteComplete(h)
  BY <1>1, <1>2, RowsKept
<1>4. pc[h] = "write" /\ pc'[h] # "write"
  BY <1>3 DEF WriteUpdate, WriteStart, WriteAssign, WriteComplete, Store, TypeInv, TypeOK
<1>5. target[h] = b
  BY <1>3 DEF WriteUpdate, WriteStart, WriteAssign, WriteComplete, Store, TypeInv, TypeOK, Rows
<1> QED BY <1>3, <1>4, <1>5, FreshWritesAreAsked

\* For any requests in flight: nothing but the status of a booking changes unless
\* a request asks for it, or a writer's snapshot is stale.
THEOREM StaleWritesUndo == Spec => OnlyStaleWritesUndoMoves
<1> DEFINE Asked == \A b \in Rows : booking'[b] # booking[b] =>
                      \E h \in Handlers :
                         /\ pc[h] = "write" /\ pc'[h] # "write" /\ target[h] = b
                         /\ b \in since[h] \/ AsAsked(h, b)
<1>1. Init => StatusInv
  BY DEF Init, StatusInv, Ready, Fresh, Guarded
<1>2. TypeInv /\ StatusInv /\ [Next]_vars => [Asked]_vars
  BY AskedUnlessStale
<1> HIDE DEF Asked
<1>3. Spec => [][Asked]_vars
  BY <1>1, <1>2, StatusStepInv, TypeInit, TypeStep, PTL DEF Spec
<1> QED BY <1>3 DEF Asked, OnlyStaleWritesUndoMoves

-----------------------------------------------------------------------------
(***************************************************************************)
(* One request at a time.  Nobody overtakes a handler then, so there is no *)
(* race to blame, and the requests implement the calendar of the agency.   *)
(***************************************************************************)
Sequential == \A g, h \in Handlers : g = h

Quiet == raced = {} /\ \A h \in Handlers : since[h] = {}

\* A handler on its own is told nothing.
LEMMA QuietStep ==
  ASSUME Sequential, TypeInv, Quiet, [Next]_vars PROVE Quiet'
<1>1. ASSUME NEW h \in Handlers, NEW b \in Bookings, NEW row, NEW next, Store(h, b, row, next)
      PROVE  Quiet'
  <2>1. \A g \in Handlers : since'[g] = {}
    BY <1>1 DEF Store, Sequential, Quiet
  <2>2. since[h] = {}
    BY DEF Quiet
  <2>3. raced' = {}
    BY <1>1, <2>2 DEF Store, Quiet
  <2> QED BY <2>1, <2>3 DEF Quiet
<1>2. ASSUME NEW h \in Handlers, Handle(h) PROVE Quiet'
  <2>1. CASE InsertRow(h) \/ WriteUpdate(h) \/ WriteStart(h) \/ WriteAssign(h)
             \/ WriteComplete(h)
    BY <1>1, <2>1, Writes
  <2>2. CASE CheckStaffFree(h)
    BY <2>2 DEF CheckStaffFree, Quiet, TypeInv, TypeOK
  <2>3. CASE Respond(h) \/ Fail(h)
    BY <2>3 DEF Respond, Fail, Leave, Quiet, TypeInv, TypeOK
  <2>4. CASE UNCHANGED <<since, raced>>
    BY <2>4 DEF Quiet
  <2>5. \/ UNCHANGED <<since, raced>>
        \/ InsertRow(h) \/ WriteUpdate(h) \/ WriteStart(h) \/ WriteAssign(h)
        \/ WriteComplete(h) \/ CheckStaffFree(h) \/ Respond(h) \/ Fail(h)
    BY <1>2 DEF Handle, BeginCreate, BeginPortal, BeginFixture, BeginOnBooking, Begin,
                LookupService, UpsertReport, FindInvoice, CreateInvoice, history
  <2> QED BY <2>1, <2>2, <2>3, <2>4, <2>5
<1>3. CASE UNCHANGED <<since, raced>>
  BY <1>3 DEF Quiet
<1> QED BY <1>2, <1>3 DEF Next, InvoiceByHand, EditService, vars, history

\* What holds behind every state of a tenant that serves one request at a time.
LEMMA QuietAlways ==
  ASSUME Sequential PROVE Spec => [](TypeInv /\ StatusInv /\ Quiet)
<1>1. Init => StatusInv /\ Quiet
  BY DEF Init, StatusInv, Ready, Fresh, Guarded, Quiet
<1> QED BY <1>1, TypeInit, TypeStep, StatusStepInv, QuietStep, PTL DEF Spec

\* One request at a time never keeps a user busy twice, with series, moves,
\* assignments and fixtures in any order.
THEOREM NobodyDoubleBooked ==
  ASSUME SeriesSpaced, Sequential PROVE Spec => []NoDoubleBooking
<1>1. DoubleBookingOnlyByRace /\ Quiet => NoDoubleBooking
  BY DEF DoubleBookingOnlyByRace, Quiet, NoDoubleBooking
<1> QED BY <1>1, DoubleBookingsAreRaces, QuietAlways, PTL

\* Without races every status step is one of the table.
LEMMA QuietStatus ==
  ASSUME TypeInv, StatusInv, Quiet, [Next]_vars, NEW b \in Rows
  PROVE  Agency!MayBecome(booking[b].status, booking'[b].status)
BY LegalUnlessStale DEF Quiet, StatusStep, Rows

\* Only a booking has a report.
ReportInv == ReportImpliesCompleted /\ \A b \in Bookings : report[b] # NONE => b \in Rows

\* A report is completed together with its booking, which stays completed.
LEMMA ReportStep ==
  ASSUME TypeInv, TypeInv', StatusInv, Quiet, ReportInv, [Next]_vars PROVE ReportInv'
<1> USE DEF ReportInv, ReportImpliesCompleted
<1>1. ASSUME NEW b \in Rows PROVE b \in Rows'
  <2>1. CASE booking' = booking
    BY <2>1 DEF Rows
  <2>2. ASSUME NEW h \in Handlers, NEW c \in Bookings, NEW row \in Row, NEW next,
               Store(h, c, row, next)
        PROVE  b \in Rows'
    BY <2>2, NoRowAssumption DEF Store, Rows, TypeInv, TypeOK
  <2>3. CASE booking' # booking
    <3>1. PICK h \in Handlers : Handle(h)
      BY <2>3 DEF Next, InvoiceByHand, EditService, vars, table
    <3> QED BY <2>2, <2>3, <3>1, RowsKept, Writes
  <2> QED BY <2>1, <2>3
<1>2. ASSUME NEW b \in Rows, booking[b].status = "COMPLETED"
      PROVE  booking'[b].status = "COMPLETED"
  BY <1>2, QuietStatus DEF Agency!MayBecome
<1>3. CASE report' = report
  <2>1. ASSUME NEW b \in Bookings, report[b] # NONE
        PROVE  b \in Rows' /\ (report[b] = "COMPLETED" => booking'[b].status = "COMPLETED")
    BY <1>1, <1>2, <2>1
  <2>2. "COMPLETED" # NONE
    BY NoneAssumption DEF ReportStatus
  <2> QED BY <1>3, <2>1, <2>2 DEF Rows
<1>4. ASSUME NEW h \in Handlers, UpsertReport(h) PROVE ReportInv'
  <2>1. /\ report' = [report EXCEPT ![target[h]] = UpsertedStatus(h)]
        /\ booking' = booking /\ pc[h] = "report"
    BY <1>4 DEF UpsertReport
  <2>2. target[h] \in Rows
    BY <2>1, NoRowAssumption, RequestsAssumption DEF TypeInv, LocalOK, Serves, Rows, OnBooking
  <2>3. UpsertedStatus(h) = "COMPLETED" => report[target[h]] = "COMPLETED"
    BY DEF UpsertedStatus, Given
  <2> QED BY <2>1, <2>2, <2>3 DEF Rows, TypeInv, TypeOK
<1>5. ASSUME NEW h \in Handlers, WriteComplete(h) PROVE ReportInv'
  <2> DEFINE b == target[h]
  <2>1. b \in Rows /\ booking[b] \in Row
    BY <1>5, NoRowAssumption DEF WriteComplete, TypeInv, LocalOK, Rows, OnBooking
  <2>2. /\ report' = [report EXCEPT ![b] = "COMPLETED"]
        /\ booking' = [booking EXCEPT ![b] = [booking[b] EXCEPT !.status = "COMPLETED"]]
    BY <1>5 DEF WriteComplete, Store
  <2>3. booking'[b].status = "COMPLETED" /\ b \in Rows'
    BY <1>1, <2>1, <2>2 DEF Row, TypeInv, TypeOK, Rows
  <2>4. \A c \in Bookings \ {b} : report'[c] = report[c] /\ booking'[c] = booking[c]
    BY <2>2 DEF TypeInv, TypeOK
  <2> QED BY <2>1, <2>3, <2>4 DEF Rows
<1>6. \/ report' = report
      \/ \E h \in Handlers : UpsertReport(h) \/ WriteComplete(h)
  BY ZenonT(40) DEF Next, Handle, BeginCreate, BeginPortal, BeginFixture, BeginOnBooking, Begin,
         LookupService, CheckStaffFree, InsertRow, WriteUpdate, WriteStart, WriteAssign,
         FindInvoice, CreateInvoice, Respond, Fail, Leave, InvoiceByHand, EditService,
         vars, table
<1> QED BY <1>3, <1>4, <1>5, <1>6

\* One request at a time: a completed report has a completed booking.
THEOREM CompletedReportsHaveCompletedJobs ==
  ASSUME Sequential PROVE Spec => []ReportImpliesCompleted
<1>1. Init => ReportInv
  BY DEF Init, ReportInv, ReportImpliesCompleted, Rows
<1>2. ReportInv => ReportImpliesCompleted
  BY DEF ReportInv
<1> QED BY <1>1, <1>2, QuietAlways, ReportStep, PTL DEF Spec

\* The calendar the agency sees: a row without its service.
Shown(row) ==
    IF row = NONE THEN NONE
    ELSE [status |-> row.status, staff |-> row.staff, start |-> row.start, end |-> row.end]

\* A step of one request is a step of the calendar: a booking appears, or
\* changes along the table, and collides with no other.
LEMMA CalendarStep ==
  ASSUME TypeInv, StatusInv, Quiet, NoDoubleBooking', [Next]_vars
  PROVE  \/ booking' = booking
         \/ Agency!Next
<1>1. SUFFICES ASSUME booking' # booking PROVE Agency!Next
  OBVIOUS
<1>2. PICK h \in Handlers : Handle(h)
  BY <1>1 DEF Next, InvoiceByHand, EditService, vars, table
<1>3. PICK b \in Bookings, row \in Row, next \in Labels : Store(h, b, row, next)
  BY <1>1, <1>2, RowsKept, Writes
<1>4. /\ booking'[b] = row /\ row # NONE
      /\ booking' = [booking EXCEPT ![b] = row]
  BY <1>3, NoRowAssumption DEF Store, TypeInv, TypeOK
<1> DEFINE cal  == [c \in Bookings |->
                      IF booking[c] = NONE THEN NONE
                      ELSE [status |-> booking[c].status, staff |-> booking[c].staff,
                            start |-> booking[c].start, end |-> booking[c].end]]
           e    == Shown(row)
<1>5. /\ e \in Agency!Entry
      /\ e.status = row.status /\ e.staff = row.staff /\ e.start = row.start /\ e.end = row.end
  BY <1>4, TimeFacts DEF Shown, Agency!Entry, Agency!Statuses, Agency!Active, Row, BookingStatus
<1>6. cal' = [cal EXCEPT ![b] = e] /\ cal'[b] = e
  BY ZenonT(40), <1>4 DEF Shown, TypeInv, TypeOK
<1>7. ASSUME NEW c \in Bookings \ {b}, cal[c] # NONE PROVE ~Agency!Collide(cal[c], e)
  <2>1. booking'[c] = booking[c] /\ booking[c] # NONE
    BY <1>4, <1>7 DEF TypeInv, TypeOK
  <2>2. ~Agency!Collide(booking[c], row)
    BY <1>4, <2>1 DEF NoDoubleBooking, DoubleBooked, Rows
  <2>3. /\ cal[c].status = booking[c].status /\ cal[c].staff = booking[c].staff
        /\ cal[c].start = booking[c].start /\ cal[c].end = booking[c].end
    BY <2>1
  <2> HIDE DEF cal, e
  <2> QED BY <1>5, <2>2, <2>3 DEF Agency!Collide, Agency!Busy
<1>8. cal[b] # NONE => Agency!MayBecome(cal[b].status, e.status)
  <2>1. SUFFICES ASSUME cal[b] # NONE PROVE Agency!MayBecome(cal[b].status, e.status)
    OBVIOUS
  <2>2. b \in Rows /\ cal[b].status = booking[b].status
    BY <2>1 DEF Rows
  <2>3. Agency!MayBecome(booking[b].status, booking'[b].status)
    BY <2>2, QuietStatus
  <2> HIDE DEF cal, e
  <2> QED BY <1>4, <1>5, <2>2, <2>3
<1>9. /\ cal'[b] \in Agency!Entry
      /\ \A c \in {d \in Bookings : cal[d] # NONE} \ {b} : ~Agency!Collide(cal[c], cal'[b])
      /\ cal' = [cal EXCEPT ![b] = cal'[b]]
      /\ cal[b] # NONE => Agency!MayBecome(cal[b].status, cal'[b].status)
  <2> HIDE DEF cal, e
  <2> QED BY <1>5, <1>6, <1>7, <1>8
<1> QED
  BY <1>9, Zenon DEF Agency!Next, Agency!Book, Agency!Change, Agency!Put, Agency!Entries

\* For every tenant with spaced series that serves one request at a time, the
\* handlers with all their awaits implement the calendar: no clash, no lost
\* entry, no status outside the table.
THEOREM HandlersImplementCalendar ==
  ASSUME SeriesSpaced, Sequential PROVE Spec => OneAtATimeImplementsCalendar
<1> DEFINE cal == [b \in Bookings |->
                     IF booking[b] = NONE THEN NONE
                     ELSE [status |-> booking[b].status, staff |-> booking[b].staff,
                           start |-> booking[b].start, end |-> booking[b].end]]
<1>1. Init => Agency!Init
  BY DEF Init, Agency!Init
<1>2. TypeInv /\ StatusInv /\ Quiet /\ NoDoubleBooking' /\ [Next]_vars => [Agency!Next]_cal
  BY CalendarStep
<1> HIDE DEF cal
<1>3. Spec => [][Agency!Next]_cal
  BY <1>2, QuietAlways, NobodyDoubleBooked, PTL DEF Spec
<1>4. Spec => Agency!Init
  BY <1>1 DEF Spec
<1> QED BY <1>3, <1>4, PTL DEF OneAtATimeImplementsCalendar, Agency!Spec, cal
=============================================================================
