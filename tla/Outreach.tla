------------------------------- MODULE Outreach -------------------------------
(***************************************************************************)
(* What the agency sends one customer about money and about work, and the  *)
(* tasks it opens for its people: CollectionsService (the cadence of       *)
(* reminders of an invoice, the follow-up of promises, the receipts, the   *)
(* actions by hand), RetentionService.scanTenant, the scans of leads        *)
(* (WorkflowsService, OperationsSchedulerService) and                      *)
(* PaymentsService.sendReceipt.                                            *)
(*                                                                         *)
(* Each run reads a list first and works through copies of its rows, one   *)
(* await at a time.  What has been sent is known from the audit log only:  *)
(* it is looked up before, and written after.  The runs are started by     *)
(* managers and by the scheduler, and nothing keeps two apart.             *)
(*                                                                         *)
(* The days until and past the due date, and since the last visit, are     *)
(* told apart as the code tells them apart.  The statements of a payment   *)
(* link are those of InvoicePayments, an automation that is triggered one  *)
(* of Automations; both are single steps or none here.                     *)
(***************************************************************************)
EXTENDS Naturals, Sequences

CONSTANTS
    Workers,    \* runs and calls in progress at the same time
    FirstDue,   \* times relative to the due date at which a behaviour may start
    MaxDays,    \* bound on the steps of time
    MaxEdits,   \* bound on what people and the customer do
    MaxSent,    \* bound on messages of one kind
    MaxFaults,  \* bound on failures
    NONE

\* More than two days early, within two days, on the day, one or two days late,
\* three, seven and fourteen days late.
Due == <<"early", "due-soon", "due-today", "late", "overdue-3", "overdue-7", "overdue-14">>

Stage == {"due-soon", "due-today", "overdue-3", "overdue-7", "overdue-14"}
Offer == {"repeat", "winback"}
Task  == Stage \cup Offer \cup {"promise", "lead"}

InvoiceStatus == {"SENT", "OVERDUE", "PAID", "VOID"}

ASSUME NoneAssumption == NONE \notin Workers

ASSUME BoundsAssumption ==
    /\ FirstDue \subseteq 1..Len(Due)
    /\ MaxDays \in Nat /\ MaxEdits \in Nat /\ MaxSent \in Nat /\ MaxFaults \in Nat

VARIABLES
    status,   \* Invoice.status
    link,     \* Invoice.paymentUrl is set
    large,    \* the invoice is of 500 or more
    due,      \* time relative to the due date, an index of Due
    promise,  \* a promise to pay was noted: none, for later, due
    charged,  \* a payment of the invoice has succeeded
    future,   \* the customer has a booking to come
    last,     \* the last visit: recent, or what is offered so long after it
    lead,     \* a lead of the customer: open, left alone for too long, closed
    tasks,    \* OperationalAction rows, open or closed
    done,     \* stages with a COLLECTION_AUTOMATION_STAGE entry in the audit log
    thanked,  \* the payment has a PAYMENT_RECEIPT_SENT entry
    sent,     \* number of reminders of each stage, and of receipts
    pc,       \* next await of each worker
    copy,     \* whether its copy of the invoice has a payment link
    item,     \* the stage or the offer it works on
    crossed,  \* history: stages, or the receipt, two workers worked on at once
    broken,   \* history: those a worker failed at after it had sent
    stale,    \* history: workers with a copy of what others have written since
    days, edits, faults

invoice  == <<status, link, large, due, promise, charged>>
customer == <<future, last, lead>>
log      == <<tasks, done, thanked, sent>>
local    == <<pc, copy, item>>
history  == <<crossed, broken, stale>>
bounds   == <<days, edits, faults>>
vars     == <<invoice, customer, log, local, history, bounds>>

Init ==
    /\ status = "SENT" /\ link = FALSE /\ large \in BOOLEAN
    /\ due \in FirstDue
    /\ promise = "none" /\ charged = FALSE
    /\ future = FALSE /\ last = "recent" /\ lead = "open"
    /\ tasks = {} /\ done = {} /\ thanked = FALSE
    /\ sent = [s \in Stage \cup {"receipt"} |-> 0]
    /\ pc = [w \in Workers |-> "idle"]
    /\ copy = [w \in Workers |-> FALSE]
    /\ item = [w \in Workers |-> NONE]
    /\ crossed = {} /\ broken = {} /\ stale = {}
    /\ days = 0 /\ edits = 0 /\ faults = 0

Open == status \in {"SENT", "OVERDUE"}

\* The steps that rely on a copy of the invoice, of the customer's visits or lead.
ByInvoice  == {"stage", "link", "remind", "task", "record", "follow"}
ByCustomer == {"offer", "leads"}

OldCopies(w, labels) == {v \in Workers \ {w} : pc[v] \in labels}

Hold(w, label, has, i) ==
    /\ pc' = [pc EXCEPT ![w] = label]
    /\ copy' = [copy EXCEPT ![w] = has]
    /\ item' = [item EXCEPT ![w] = i]

Goto(w, label) == Hold(w, label, copy[w], item[w])

Leave(w) == Hold(w, "idle", FALSE, NONE) /\ stale' = stale \ {w}

\* From now on w works on i: it may meet another worker.
StartItem(w, label, i) ==
    /\ Hold(w, label, copy[w], i)
    /\ crossed' = IF \E v \in Workers \ {w} : item[v] = i THEN crossed \cup {i} ELSE crossed

\* upsertAction and upsertCollectionAction: a task that was closed is opened again.
OpenTask(k) == tasks' = tasks \cup {k}

(***************************************************************************)
(* runCollectionCadence                                                    *)
(***************************************************************************)
\* collectionStage
StageNow == Due[due]
Reminded  == {"due-today", "overdue-3", "overdue-7"}
Escalated == {"overdue-3", "overdue-7", "overdue-14"}
Sends(s)  == s \in Reminded

\* A definition that is used nowhere is a faulty variant of the next one.
OnlyLarge(s) == s \in Escalated \cup {"due-today"} /\ large
Creates(s)   == s \in Escalated \/ (s = "due-today" /\ large)

AnyDay == TRUE
HasStage == StageNow \in Stage

AnyInvoice == TRUE
Collectable == Open

ReadInvoices(w) ==
    /\ pc[w] = "idle"
    /\ Collectable
    /\ Hold(w, "stage", link, NONE)
    /\ UNCHANGED <<invoice, customer, log, history, bounds>>

NeverRan(s) == FALSE
AlreadyRan(s) == s \in done

\* hasAuditForStage: the stage is that of now, the rest of the copy is not.
CheckStage(w) ==
    /\ pc[w] = "stage"
    /\ IF HasStage /\ ~AlreadyRan(StageNow)
         THEN StartItem(w, IF copy[w] THEN "remind" ELSE "link", StageNow) /\ UNCHANGED stale
         ELSE Leave(w) /\ UNCHANGED crossed
    /\ UNCHANGED <<invoice, customer, log, broken, bounds>>

\* createInvoicePaymentLink reads the invoice again, and refuses one that is
\* paid or void, which ends the run.
MakeLink(w) ==
    /\ pc[w] = "link"
    /\ IF Open THEN /\ link' = TRUE
                    /\ Hold(w, "remind", TRUE, item[w])
                    /\ stale' = stale \ {w}
               ELSE Leave(w) /\ UNCHANGED link
    /\ UNCHANGED <<status, large, due, promise, charged, customer, log, crossed,
                   broken, bounds>>

SendReminder(w) ==
    /\ pc[w] = "remind"
    /\ IF Sends(item[w])
         THEN sent[item[w]] < MaxSent /\ sent' = [sent EXCEPT ![item[w]] = @ + 1]
         ELSE UNCHANGED sent
    /\ Goto(w, "task")
    /\ UNCHANGED <<invoice, customer, tasks, done, thanked, history, bounds>>

OpenStageTask(w) ==
    /\ pc[w] = "task"
    /\ IF Creates(item[w]) THEN OpenTask(item[w]) ELSE UNCHANGED tasks
    /\ Goto(w, "record")
    /\ UNCHANGED <<invoice, customer, done, thanked, sent, crossed, broken, stale, bounds>>

RecordStage(w) ==
    /\ pc[w] = "record"
    /\ done' = done \cup {item[w]}
    /\ Leave(w)
    /\ UNCHANGED <<invoice, customer, tasks, thanked, sent, crossed, broken, bounds>>

(***************************************************************************)
(* runPromiseFollowUps and runReceiptRecovery                              *)
(***************************************************************************)
\* Any promise that is due counts, also if a later one was noted since.
ReadPromises(w) ==
    /\ pc[w] = "idle"
    /\ promise = "due" /\ Open
    /\ Hold(w, "follow", FALSE, NONE)
    /\ UNCHANGED <<invoice, customer, log, history, bounds>>

FollowUp(w) ==
    /\ pc[w] = "follow"
    /\ OpenTask("promise")
    /\ Leave(w)
    /\ UNCHANGED <<invoice, customer, done, thanked, sent, crossed, broken, bounds>>

ReadPayments(w) ==
    /\ pc[w] = "idle"
    /\ charged /\ ~thanked
    /\ StartItem(w, "receipt", "receipt")
    /\ UNCHANGED <<invoice, customer, log, broken, stale, bounds>>

SendReceipt(w) ==
    /\ pc[w] = "receipt"
    /\ sent["receipt"] < MaxSent
    /\ sent' = [sent EXCEPT !["receipt"] = @ + 1]
    /\ Goto(w, "thank")
    /\ UNCHANGED <<invoice, customer, tasks, done, thanked, history, bounds>>

RecordReceipt(w) ==
    /\ pc[w] = "thank"
    /\ thanked' = TRUE
    /\ Leave(w)
    /\ UNCHANGED <<invoice, customer, tasks, done, sent, crossed, broken, bounds>>

(***************************************************************************)
(* scanTenant: a visit is offered to those who have none to come.  The     *)
(* scans of leads: those left alone are followed up.                       *)
(***************************************************************************)
ReadProfiles(w) ==
    /\ pc[w] = "idle"
    /\ last \in Offer /\ ~future
    /\ Hold(w, "offer", FALSE, last)
    /\ UNCHANGED <<invoice, customer, log, history, bounds>>

ReadLeads(w) ==
    /\ pc[w] = "idle"
    /\ lead = "cold"
    /\ Hold(w, "leads", FALSE, "lead")
    /\ UNCHANGED <<invoice, customer, log, history, bounds>>

OpenOffer(w) ==
    /\ pc[w] = "offer"
    /\ OpenTask(item[w])
    /\ Leave(w)
    /\ UNCHANGED <<invoice, customer, done, thanked, sent, crossed, broken, bounds>>

\* The automation that follows the task is one of Automations.
FollowUpLead(w) ==
    /\ pc[w] = "leads"
    /\ OpenTask(item[w])
    /\ Leave(w)
    /\ UNCHANGED <<invoice, customer, done, thanked, sent, crossed, broken, bounds>>

(***************************************************************************)
(* By hand, and by the customer                                            *)
(***************************************************************************)
Edit == edits < MaxEdits /\ edits' = edits + 1

SetStatus(s) ==
    /\ status' = s
    /\ stale' = stale \cup (IF s \in {"PAID", "VOID"} THEN OldCopies(NONE, ByInvoice) ELSE {})

\* MARK_PAID and VOID_INVOICE of runAction
CloseInvoice(s) ==
    /\ Edit
    /\ Open
    /\ SetStatus(s)
    /\ UNCHANGED <<link, large, due, promise, charged, customer, log, local, crossed,
                   broken, days, faults>>

\* PROMISE_TO_PAY of runAction
NotePromise ==
    /\ Edit
    /\ promise = "none"
    /\ promise' = "later"
    /\ UNCHANGED <<status, link, large, due, charged, customer, log, local, history, days, faults>>

\* SEND_REMINDER and SEND_PAYMENT_LINK of runAction: by hand, of any invoice
\* that has a link; only one without needs to be open.  What is sent by hand is
\* in the audit log under another name, which no run looks at.
RemindByHand ==
    /\ Edit
    /\ ~link /\ Open
    /\ link' = TRUE
    /\ UNCHANGED <<status, large, due, promise, charged, customer, log, local, history, days, faults>>

\* sendInvoiceLink of the inbox makes a new link each time; whether the invoice is
\* the customer's is looked at after that.
SendInvoiceLink ==
    /\ Edit
    /\ Open
    /\ link' = TRUE
    /\ UNCHANGED <<status, large, due, promise, charged, customer, log, local, history, days, faults>>

\* scanOverdue is one statement.
ScanOverdue ==
    /\ Edit
    /\ status = "SENT"
    /\ due > 3
    /\ SetStatus("OVERDUE")
    /\ UNCHANGED <<link, large, due, promise, charged, customer, log, local, crossed,
                   broken, days, faults>>

\* completePayment, which does not look at the status of the invoice.
CustomerPays ==
    /\ Edit
    /\ link /\ ~charged
    /\ charged' = TRUE
    /\ SetStatus("PAID")
    /\ UNCHANGED <<link, large, due, promise, customer, log, local, crossed, broken,
                   days, faults>>

\* The customer books, and visits or cancels.
CustomerBooks(f, l) ==
    /\ Edit
    /\ future' = f /\ last' = l
    /\ stale' = stale \cup OldCopies(NONE, {"offer"})
    /\ UNCHANGED <<invoice, lead, log, local, crossed, broken, days, faults>>

Book   == ~future /\ CustomerBooks(TRUE, last)
Visit  == future /\ CustomerBooks(FALSE, "recent")
Cancel == future /\ CustomerBooks(FALSE, last)

\* It is won or lost; it is touched, which starts its six hours again.
TouchLead(l) ==
    /\ Edit
    /\ lead = "cold"
    /\ lead' = l
    /\ stale' = stale \cup OldCopies(NONE, {"leads"})
    /\ UNCHANGED <<invoice, future, last, log, local, crossed, broken, days, faults>>

(***************************************************************************)
(* Time, and faults                                                        *)
(***************************************************************************)
DaysPass ==
    /\ days < MaxDays
    /\ days' = days + 1
    /\ \/ /\ due < Len(Due)
          /\ due' = due + 1
          /\ UNCHANGED <<promise, last, lead>>
       \/ /\ promise = "later"
          /\ promise' = "due"
          /\ UNCHANGED <<due, last, lead>>
       \/ /\ last # "winback"
          /\ last' = IF last = "recent" THEN "repeat" ELSE "winback"
          /\ UNCHANGED <<due, promise, lead>>
       \/ /\ lead = "open"
          /\ lead' = "cold"
          /\ UNCHANGED <<due, promise, last>>
    /\ UNCHANGED <<status, link, large, charged, future, log, local, history, edits, faults>>

\* A statement fails, or the process dies; what is sent is sent.
Abort(w) ==
    /\ faults < MaxFaults
    /\ pc[w] # "idle"
    /\ faults' = faults + 1
    /\ broken' = IF pc[w] \in {"task", "record", "thank"} THEN broken \cup {item[w]} ELSE broken
    /\ Leave(w)
    /\ UNCHANGED <<invoice, customer, log, crossed, days, edits>>

-----------------------------------------------------------------------------
\* runAutomation starts three of these at once, the scheduler the last two.
Begin(w) ==
    \/ ReadInvoices(w) \/ ReadPromises(w) \/ ReadPayments(w)
    \/ ReadProfiles(w) \/ ReadLeads(w)

Continue(w) ==
    \/ CheckStage(w) \/ MakeLink(w) \/ SendReminder(w) \/ OpenStageTask(w) \/ RecordStage(w)
    \/ FollowUp(w) \/ SendReceipt(w) \/ RecordReceipt(w)
    \/ OpenOffer(w) \/ FollowUpLead(w)

Others ==
    \/ \E s \in {"PAID", "VOID"} : CloseInvoice(s)
    \/ NotePromise \/ RemindByHand \/ SendInvoiceLink \/ ScanOverdue
    \/ CustomerPays \/ Book \/ Visit \/ Cancel
    \/ \E l \in {"open", "closed"} : TouchLead(l)
    \/ DaysPass

Next == Others \/ \E w \in Workers : Begin(w) \/ Continue(w) \/ Abort(w)

Spec == Init /\ [][Next]_vars

-----------------------------------------------------------------------------
\* Every variable stays in its domain; a worker past the check of a stage
\* works on one.
TypeOK ==
    /\ status \in InvoiceStatus /\ due \in 1..Len(Due)
    /\ {link, large, charged, future, thanked} \subseteq BOOLEAN
    /\ promise \in {"none", "later", "due"} /\ last \in Offer \cup {"recent"}
    /\ lead \in {"open", "cold", "closed"}
    /\ tasks \subseteq Task /\ done \subseteq Stage
    /\ sent \in [Stage \cup {"receipt"} -> 0..MaxSent]
    /\ pc \in [Workers -> ByInvoice \cup ByCustomer \cup {"idle", "receipt", "thank"}]
    /\ copy \in [Workers -> BOOLEAN]
    /\ item \in [Workers -> Stage \cup Offer \cup {"lead", "receipt", NONE}]
    /\ crossed \cup broken \subseteq Stage \cup {"receipt"} /\ stale \subseteq Workers
    /\ days \in 0..MaxDays /\ edits \in 0..MaxEdits /\ faults \in 0..MaxFaults
    /\ \A w \in Workers : pc[w] \in {"link", "remind", "task", "record"} => item[w] \in Stage

\* The customer is reminded once in each stage, and thanked once, however often
\* the runs are started, except for two reasons: two of them were between the
\* look at the audit log and the entry in it, or one failed there after sending.
ContactedOnce ==
    \A i \in Stage \cup {"receipt"} : sent[i] > 1 => i \in crossed \cup broken

\* A failure never loses a contact: what the audit log says was done was done,
\* the reminder sent and the task opened for the manager, the receipt sent.
RecordedIsDone ==
    /\ \A s \in done : (s \in Reminded => sent[s] > 0) /\ (s \in Escalated => s \in tasks)
    /\ thanked => sent["receipt"] > 0

\* Only an old copy bothers the customer wrongly: else nobody is reminded of an
\* invoice that is paid or void, no task is opened to collect it, no visit is
\* offered to somebody who has one to come, and no lead chased that was attended to.
Bothers(w) ==
    \/ pc[w] = "remind" /\ Sends(item[w]) /\ ~Open
    \/ pc[w] = "task" /\ Creates(item[w]) /\ ~Open
    \/ pc[w] = "follow" /\ ~Open
    \/ pc[w] = "offer" /\ future
    \/ pc[w] = "leads" /\ lead # "cold"

OnlyOldCopiesBother ==
    [][\A w \in Workers \ stale : pc'[w] # pc[w] /\ UNCHANGED faults => ~Bothers(w)]_vars
=============================================================================
