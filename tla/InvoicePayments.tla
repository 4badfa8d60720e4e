--------------------------- MODULE InvoicePayments ---------------------------
(***************************************************************************)
(* The invoices of one tenant, the payments on them and what moves their   *)
(* status: InvoicesService.updateStatus, the payment links, webhooks and   *)
(* mock checkout of PaymentsService, the replay of PlatformService, and    *)
(* the overdue scans of the scheduler, the workflows and the collections.  *)
(* A worker is one such call; as in BookingLifecycle one action is one     *)
(* statement or transaction, and a worker writes what it decided on the    *)
(* row it read earlier.                                                    *)
(*                                                                         *)
(* The payment provider is external: it opens a checkout, charges the      *)
(* customer and sends the event of a charge until the call is answered.    *)
(***************************************************************************)
EXTENDS Integers, FiniteSets

CONSTANTS
    Invoices,  \* invoice ids
    Payments,  \* payment ids; the charge event of a payment has its id
    Workers,   \* calls in progress at the same time
    MaxFaults, \* bound on exceptions and crashes
    NONE

ASSUME FaultsAssumption == MaxFaults \in Nat

InvoiceStatus == {"DRAFT", "SENT", "PAID", "OVERDUE", "VOID"}
EventStatus   == {"RECEIVED", "PROCESSED", "FAILED"}
Payment       == [invoice : Invoices, status : {"PENDING", "SUCCEEDED"}]

ASSUME IdsAssumption == NONE \notin Invoices \cup Payments \cup Payment \cup EventStatus

VARIABLES
    invoice,  \* Invoice.status
    pastDue,  \* invoices whose dueDate is over
    payment,  \* Payment rows: id -> [invoice, status], NONE where there is none
    event,    \* WebhookEvent.status of the charge event of a payment
    checkout, \* external: payments with an open checkout
    charged,  \* external: payments the customer has paid
    pc, doc, pay, seen, want, todo,  \* the workers' local state
    since,    \* history: invoices others wrote since the worker read them
    faults,   \* exceptions and crashes so far
    crashed   \* history: the process died, or a statement failed outside a try

rows     == <<invoice, payment, event>>
external == <<checkout, charged>>
local    == <<doc, pay, seen, want, todo>>
vars     == <<rows, pastDue, external, pc, local, since, faults, crashed>>

statusTransitions ==
    [DRAFT |-> {"SENT", "VOID"}, SENT |-> {"PAID", "OVERDUE", "VOID"},
     OVERDUE |-> {"PAID", "VOID"}, PAID |-> {}, VOID |-> {}]

StatusTransitionAllowed(from, to) == from = to \/ to \in statusTransitions[from]

Rows == {p \in Payments : payment[p] # NONE}

\* As in BookingLifecycle, a definition that is used nowhere is a faulty
\* variant of the one after it.
AnyId(p) == TRUE

Found(p) == p \in Rows

Init ==
    /\ invoice \in [Invoices -> {"DRAFT", "SENT"}]
    /\ pastDue = {}
    /\ payment = [p \in Payments |-> NONE]
    /\ event = [p \in Payments |-> NONE]
    /\ checkout = {} /\ charged = {}
    /\ pc = [w \in Workers |-> "idle"]
    /\ doc = [w \in Workers |-> NONE]
    /\ pay = [w \in Workers |-> NONE]
    /\ seen = [w \in Workers |-> NONE]
    /\ want = [w \in Workers |-> NONE]
    /\ todo = [w \in Workers |-> {}]
    /\ since = [w \in Workers |-> {}]
    /\ faults = 0
    /\ crashed = FALSE

(***************************************************************************)
(* Steps of a worker.                                                      *)
(***************************************************************************)
Goto(w, label) == pc' = [pc EXCEPT ![w] = label]

\* The call of w is over, whatever came of it.
Forget(w) ==
    /\ Goto(w, "idle")
    /\ doc' = [doc EXCEPT ![w] = NONE]
    /\ pay' = [pay EXCEPT ![w] = NONE]
    /\ seen' = [seen EXCEPT ![w] = NONE]
    /\ want' = [want EXCEPT ![w] = NONE]
    /\ todo' = [todo EXCEPT ![w] = {}]

\* The invoices a worker has a copy of, or has listed.
Copies(w) == {i \in Invoices : doc[w] = i \/ i \in todo[w]}

\* Invoices W are written by w: the copies the others have of them are stale.  Of
\* what w does not need any more it has no copy.
Outdate(w, W) ==
    since' = [v \in Workers |-> IF v = w THEN since[w] \cap Copies(w)'
                               ELSE since[v] \cup (W \cap Copies(v))]

Store(w, i, s) ==
    /\ invoice' = [invoice EXCEPT ![i] = s]
    /\ Outdate(w, {i})

\* InvoicesService.updateStatus: read and check, then write.
BeginStatus(w, i, s) ==
    /\ pc[w] = "idle"
    /\ StatusTransitionAllowed(invoice[i], s)
    /\ Goto(w, "status")
    /\ doc' = [doc EXCEPT ![w] = i]
    /\ want' = [want EXCEPT ![w] = s]
    /\ UNCHANGED <<rows, pastDue, external, pay, seen, todo, since, faults, crashed>>

WriteStatus(w) ==
    /\ pc[w] = "status"
    /\ Forget(w)
    /\ Store(w, doc[w], want[w])
    /\ UNCHANGED <<payment, event, pastDue, external, faults, crashed>>

\* The guard of createInvoicePaymentLink.
Payable(i) == invoice[i] \notin {"PAID", "VOID"}

\* Bound: an id is left for one more payment.
Inserting == {"insert", "insertverified"}
IdLeft    == Cardinality(Rows) + Cardinality({v \in Workers : pc[v] \in Inserting})
               < Cardinality(Payments)

\* Ids are given in one order, whichever it is: all that counts is that they differ.
NewId == CHOOSE p \in Payments : p \notin Rows

\* createInvoicePaymentLink: read, insert a PENDING payment, open a checkout
\* at the provider, write the link and the status decided on the read.
BeginLink(w, i) ==
    /\ pc[w] = "idle"
    /\ Payable(i)
    /\ IdLeft
    /\ Goto(w, "insert")
    /\ doc' = [doc EXCEPT ![w] = i]
    /\ seen' = [seen EXCEPT ![w] = invoice[i]]
    /\ UNCHANGED <<rows, pastDue, external, pay, want, todo, since, faults, crashed>>

InsertPayment(w, p) ==
    /\ pc[w] = "insert"
    /\ p \notin Rows /\ p = NewId
    /\ payment' = [payment EXCEPT ![p] = [invoice |-> doc[w], status |-> "PENDING"]]
    /\ pay' = [pay EXCEPT ![w] = p]
    /\ Goto(w, "checkout")
    /\ UNCHANGED <<invoice, event, pastDue, external, doc, seen, want, todo,
                   since, faults, crashed>>

OpenCheckout(w) ==
    /\ pc[w] = "checkout"
    /\ checkout' = checkout \cup {pay[w]}
    /\ Goto(w, "link")
    /\ UNCHANGED <<rows, pastDue, charged, local, since, faults, crashed>>

WriteLink(w) ==
    /\ pc[w] = "link"
    /\ Forget(w)
    /\ Store(w, doc[w], IF seen[w] = "DRAFT" THEN "SENT" ELSE seen[w])
    /\ UNCHANGED <<payment, event, pastDue, external, faults, crashed>>

\* handleStripeWebhook, handlePaystackWebhook: the event row is inserted
\* before the try, and a second delivery fails on its unique key.
StoreEvent(w, p) ==
    /\ pc[w] = "idle"
    /\ p \in charged
    /\ event[p] = NONE
    /\ event' = [event EXCEPT ![p] = "RECEIVED"]
    /\ pay' = [pay EXCEPT ![w] = p]
    /\ Goto(w, "complete")
    /\ UNCHANGED <<invoice, payment, pastDue, external, doc, seen, want, todo, since, faults, crashed>>

\* replayWebhookFailure, replayWebhookEvent: any stored event, by its id.
Replay(w, p) ==
    /\ pc[w] = "idle"
    /\ event[p] # NONE
    /\ event' = [event EXCEPT ![p] = "RECEIVED"]
    /\ pay' = [pay EXCEPT ![w] = p]
    /\ Goto(w, "complete")
    /\ UNCHANGED <<invoice, payment, pastDue, external, doc, seen, want, todo, since, faults, crashed>>

\* markPaymentSucceeded: the mock checkout completes without an event.
BeginMock(w, p) ==
    /\ pc[w] = "idle"
    /\ Found(p)
    /\ pay' = [pay EXCEPT ![w] = p]
    /\ Goto(w, "mock")
    /\ UNCHANGED <<rows, pastDue, external, doc, seen, want, todo, since, faults, crashed>>

(***************************************************************************)
(* verifyProviderWorkflow makes an invoice and a payment, and signs the    *)
(* event of a charge the provider knows nothing of.  Then it handles that  *)
(* event as any other; the one of the subscription is left to              *)
(* TenantBilling.                                                          *)
(***************************************************************************)
\* It is SENT and due in a week, and nobody knows it yet.
NewInvoice(i) ==
    /\ invoice[i] = "SENT" /\ i \notin pastDue
    /\ \A p \in Rows : payment[p].invoice # i
    /\ \A w \in Workers : doc[w] # i /\ i \notin todo[w]

BeginVerify(w, i) ==
    /\ pc[w] = "idle"
    /\ NewInvoice(i)
    /\ IdLeft
    /\ Goto(w, "insertverified")
    /\ doc' = [doc EXCEPT ![w] = i]
    /\ UNCHANGED <<rows, pastDue, external, pay, seen, want, todo, since, faults, crashed>>

InsertVerified(w, p) ==
    /\ pc[w] = "insertverified"
    /\ p \notin Rows /\ p = NewId
    /\ payment' = [payment EXCEPT ![p] = [invoice |-> doc[w], status |-> "PENDING"]]
    /\ pay' = [pay EXCEPT ![w] = p]
    /\ Goto(w, "sign")
    /\ UNCHANGED <<invoice, event, pastDue, external, doc, seen, want, todo,
                   since, faults, crashed>>

SignEvent(w) ==
    /\ pc[w] = "sign"
    /\ event[pay[w]] = NONE
    /\ event' = [event EXCEPT ![pay[w]] = "RECEIVED"]
    /\ doc' = [doc EXCEPT ![w] = NONE]
    /\ UNCHANGED <<pay, seen, want, todo>>
    /\ Outdate(w, {})
    /\ Goto(w, "complete")
    /\ UNCHANGED <<invoice, payment, pastDue, external, faults, crashed>>

(***************************************************************************)
(* What the events and the mock checkout have in common, and the scans     *)
(***************************************************************************)
\* The transaction of completePayment.
Settle(w) ==
    LET p == pay[w] IN
    /\ payment' = [payment EXCEPT ![p].status = "SUCCEEDED"]
    /\ Store(w, payment[p].invoice, "PAID")

CompletePayment(w) ==
    /\ pc[w] = "complete"
    /\ Goto(w, "mark")
    /\ UNCHANGED <<event, pastDue, external, local, faults, crashed>>
    /\ Settle(w)

CompleteMock(w) ==
    /\ pc[w] = "mock"
    /\ Forget(w)
    /\ Settle(w)
    /\ UNCHANGED <<event, pastDue, external, faults, crashed>>

ErrorIgnored(w) == "PROCESSED"

\* The last update of the handler: after the try, or in the catch.
Outcome(w) == IF pc[w] = "catch" THEN "FAILED" ELSE "PROCESSED"

MarkEvent(w) ==
    /\ pc[w] \in {"mark", "catch"}
    /\ event' = [event EXCEPT ![pay[w]] = Outcome(w)]
    /\ Forget(w)
    /\ Outdate(w, {})
    /\ UNCHANGED <<invoice, payment, pastDue, external, faults, crashed>>

\* The scheduler and the workflow scan list the due invoices, then update
\* them one by one (the workflow scan in any order) whatever they are by then.
ScanAllDue == {i \in pastDue : invoice[i] # "VOID"}
DueList == {i \in pastDue : invoice[i] \in {"SENT", "OVERDUE"}}

BeginScan(w) ==
    /\ pc[w] = "idle"
    /\ DueList # {}
    /\ todo' = [todo EXCEPT ![w] = DueList]
    /\ Goto(w, "scan")
    /\ UNCHANGED <<rows, pastDue, external, doc, pay, seen, want, since, faults, crashed>>

MarkOverdue(w, i) ==
    /\ pc[w] = "scan" /\ i \in todo[w]
    /\ Goto(w, IF todo[w] = {i} THEN "idle" ELSE "scan")
    /\ todo' = [todo EXCEPT ![w] = @ \ {i}]
    /\ UNCHANGED <<payment, event, pastDue, external, doc, pay, seen, want,
                   faults, crashed>>
    /\ Store(w, i, "OVERDUE")

\* CollectionsService.scanOverdue is one updateMany, with its condition.
CollectionsScan ==
    LET overdue == {i \in pastDue : invoice[i] = "SENT"} IN
    /\ overdue # {}
    /\ invoice' = [i \in Invoices |-> IF i \in overdue THEN "OVERDUE" ELSE invoice[i]]
    /\ since' = [v \in Workers |-> since[v] \cup (overdue \cap Copies(v))]
    /\ UNCHANGED <<payment, event, pastDue, external, pc, local, faults, crashed>>

(***************************************************************************)
(* Faults.  An exception between the event row and the answer is caught    *)
(* and marks the event FAILED.  Any other one, and the end of the process, *)
(* ends the call where it stands.                                          *)
(***************************************************************************)
Throw(w) ==
    /\ faults < MaxFaults
    /\ pc[w] \in {"complete", "mark"}
    /\ Goto(w, "catch")
    /\ faults' = faults + 1
    /\ UNCHANGED <<rows, pastDue, external, local, since, crashed>>

Abort(w) ==
    /\ faults < MaxFaults
    /\ pc[w] # "idle"
    /\ Forget(w)
    /\ Outdate(w, {})
    /\ faults' = faults + 1
    /\ crashed' = TRUE
    /\ UNCHANGED <<rows, pastDue, external>>

(***************************************************************************)
(* The world: a due date passes, a customer pays at the provider.          *)
(***************************************************************************)
DueDatePasses(i) ==
    /\ i \notin pastDue
    /\ pastDue' = pastDue \cup {i}
    /\ UNCHANGED <<rows, external, pc, local, since, faults, crashed>>

CustomerPays(p) ==
    /\ p \in checkout \ charged
    /\ charged' = charged \cup {p}
    /\ UNCHANGED <<rows, pastDue, checkout, pc, local, since, faults, crashed>>

\* What a worker that has started does next.
Continue(w) ==
    \/ WriteStatus(w) \/ OpenCheckout(w) \/ WriteLink(w)
    \/ \E p \in Payments : InsertPayment(w, p) \/ InsertVerified(w, p)
    \/ SignEvent(w)
    \/ CompletePayment(w) \/ CompleteMock(w) \/ MarkEvent(w)
    \/ \E i \in Invoices : MarkOverdue(w, i)

Begin(w) ==
    \/ \E i \in Invoices, s \in InvoiceStatus : BeginStatus(w, i, s)
    \/ \E i \in Invoices : BeginLink(w, i) \/ BeginVerify(w, i)
    \/ \E p \in Payments : StoreEvent(w, p) \/ Replay(w, p) \/ BeginMock(w, p)
    \/ BeginScan(w)

Next ==
    \/ \E w \in Workers : Begin(w) \/ Continue(w) \/ Throw(w) \/ Abort(w)
    \/ CollectionsScan
    \/ \E i \in Invoices : DueDatePasses(i)
    \/ \E p \in Payments : CustomerPays(p)

Spec == Init /\ [][Next]_vars

\* A worker that started goes on; the provider delivers the event of a
\* charge again and again, and the platform's staff replay the failures
\* their console lists, so neither waits for ever for a free worker.
Fairness ==
    /\ \A w \in Workers : WF_vars(Continue(w))
    /\ \A p \in Payments :
         /\ SF_vars(\E w \in Workers : StoreEvent(w, p))
         /\ SF_vars(event[p] = "FAILED" /\ \E w \in Workers : Replay(w, p))

FairSpec == Spec /\ Fairness

-----------------------------------------------------------------------------
Labels == Inserting \cup {"idle", "status", "checkout", "link", "sign", "complete",
                         "mark", "catch", "mock", "scan"}

\* Every variable stays in the domain of its column or of its local variable,
\* and a worker on a payment works on a row that exists.
TypeOK ==
    /\ invoice \in [Invoices -> InvoiceStatus]
    /\ pastDue \subseteq Invoices
    /\ payment \in [Payments -> Payment \cup {NONE}]
    /\ event \in [Payments -> EventStatus \cup {NONE}]
    /\ charged \subseteq checkout /\ checkout \subseteq Rows
    /\ pc \in [Workers -> Labels]
    /\ doc \in [Workers -> Invoices \cup {NONE}]
    /\ pay \in [Workers -> Rows \cup {NONE}]
    /\ seen \in [Workers -> InvoiceStatus \cup {NONE}]
    /\ want \in [Workers -> InvoiceStatus \cup {NONE}]
    /\ todo \in [Workers -> SUBSET Invoices]
    /\ since \in [Workers -> SUBSET Invoices]
    /\ faults \in 0..MaxFaults /\ crashed \in BOOLEAN

Succeeded(p) == p \in Rows /\ payment[p].status = "SUCCEEDED"

\* An event the console shows as PROCESSED has recorded its payment, with
\* exceptions, replays and a replay of an event that is still in progress.
ProcessedMeansSucceeded ==
    \A p \in Payments : event[p] = "PROCESSED" => Succeeded(p)

\* What is paid or void stays as it is, and gets no new payment, except from a
\* call whose copy of the invoice is stale: no manager, link or scan that sees the
\* end of an invoice goes past it.  The payment of a checkout that was opened
\* before still pays the invoice, whatever has become of it.
OnlyStaleWritesAfterEnd ==
    [][\A i \in Invoices : ~Payable(i) =>
          \/ /\ invoice'[i] = invoice[i]
             /\ \A p \in Payments \ Rows : payment'[p] # NONE => payment'[p].invoice # i
          \/ invoice'[i] = "PAID" /\ \E p \in Rows : payment[p].invoice = i /\ Succeeded(p)'
          \/ \E w \in Workers : i \in since[w]]_vars

\* What a customer pays at the provider is recorded, in spite of exceptions
\* while its event is handled, unless the process dies: the event row that
\* blocks a redelivery is then FAILED and listed for replay.
ChargedIsRecorded ==
    \A p \in Payments : p \in charged ~> Succeeded(p) \/ crashed
=============================================================================
