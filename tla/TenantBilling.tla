---------------------------- MODULE TenantBilling ----------------------------
(***************************************************************************)
(* The subscription of one tenant to the platform, written by seven        *)
(* callers: the webhooks of Stripe and Paystack and their replay           *)
(* (PaymentsService), the trial and billing recovery scans of the          *)
(* scheduler and of the platform (WorkflowsService), and the calls of the  *)
(* platform's own people (PlatformService: updateTenant, archive, restore, *)
(* billing events, checkouts, the mock payment).                           *)
(*                                                                         *)
(* Each of them reads the tenant, or not, and writes some of its fields.   *)
(* The ledger is the table of PlatformBillingEvent rows.  A worker is one  *)
(* call in progress; an action is one statement.  Prices, plans, dates and *)
(* suspendedAt are left out, and so are the events of customer payments,   *)
(* which InvoicePayments models.                                           *)
(***************************************************************************)
EXTENDS Naturals

CONSTANTS
    Starts,     \* what createTenant may be given
    Events,     \* events of the providers, by their provider and its id
    Contents,   \* what an event may say
    Workers,    \* calls in progress at the same time
    Changes,    \* what updateTenant may be asked to change
    MaxReplays, \* bound on replays of stored events
    MaxEdits,   \* bound on calls of the platform's people
    MaxFaults,  \* bound on failures
    NONE

TenantStatus == {"TRIAL", "ACTIVE", "SUSPENDED", "ARCHIVED", "CHURNED"}
SubscriptionStatus == {"TRIALING", "ACTIVE", "PAST_DUE", "CANCELED", "UNPAID"}
EventStatus == {"RECEIVED", "PROCESSED", "FAILED", "IGNORED"}

\* trialEndsAt: not set, more than a week away, within the week (or over for
\* less than a day, which Math.ceil does not count), over.  pastDue and canceled
\* say that pastDueAt and canceledAt are set, linked that the tenant has the id
\* of its subscription at Stripe.
Trial == {"none", "later", "soon", "over"}

Tenant == [status : TenantStatus, sub : SubscriptionStatus, pastDue : BOOLEAN,
           canceled : BOOLEAN, linked : BOOLEAN, trial : Trial]

\* An invoice paid, failed or else (notice), a subscription deleted, a checkout
\* completed, a payment at Paystack.  The event is of no tenant unless the
\* tenant is named in it, or known by the id of its subscription.  A checkout is
\* linking if it says that id.
Kind    == {"paid", "failed", "deleted", "notice", "checkout", "paystack"}
Content == [kind : Kind, named : BOOLEAN, fee : BOOLEAN, linking : BOOLEAN]
Change  == [status : TenantStatus \cup {NONE}, sub : SubscriptionStatus \cup {NONE},
            trial : Trial \cup {NONE}, linked : BOOLEAN \cup {NONE}]
Start   == [status : TenantStatus, sub : SubscriptionStatus]

\* Rows of the ledger are told apart by their key: the event, or its setup fee.
Part  == {"fee", "main"}
Task  == {"trial", "recovery"}
Entry == {"paid", "failed", "canceled", "credit"}
Link  == {"linked", "unlinked"}

ASSUME BoundsAssumption ==
    /\ Starts \subseteq Start /\ Contents \subseteq Content /\ Changes \subseteq Change
    /\ MaxReplays \in Nat /\ MaxEdits \in Nat /\ MaxFaults \in Nat

ASSUME NamesAssumption ==
    /\ NONE \notin TenantStatus \cup SubscriptionStatus \cup Trial \cup Events
                \cup EventStatus \cup Workers
    /\ NONE \notin BOOLEAN

VARIABLES
    tenant,  \* the Tenant row
    sent,    \* what each event says
    event,   \* status of its WebhookEvent row, NONE if it was not delivered
    rows,    \* number of rows of the ledger for each part of each event
    noted,   \* a payment was entered in the ledger by hand, or mocked
    tasks,   \* open tasks for the operators
    pc,      \* next statement of each call
    key,     \* the event it works on
    data,    \* the part, the task, the entry or the link it holds
    overlapped, \* history: events handled by two calls at once
    stale,   \* history: calls that hold a copy of a tenant others have written since
    byHand,  \* history: somebody has made the subscription active by hand
    replays, edits, faults

ledger == <<event, rows, noted>>
local  == <<pc, key, data>>
bounds == <<replays, edits, faults>>
vars   == <<tenant, sent, ledger, tasks, local, overlapped, stale, byHand, bounds>>

\* createTenant: a trial, or the status and the subscription it is given.  No date is
\* set, also where the subscription is past due or canceled.
Init ==
    /\ \E given \in Starts :
       /\ tenant = [status |-> given.status, sub |-> given.sub, pastDue |-> FALSE,
                    canceled |-> FALSE, linked |-> FALSE, trial |-> "none"]
       /\ byHand = (given.sub = "ACTIVE")
    /\ sent \in [Events -> Contents]
    /\ event = [e \in Events |-> NONE]
    /\ rows = [r \in Events \X Part |-> 0]
    /\ noted = FALSE
    /\ tasks = {}
    /\ pc = [w \in Workers |-> "idle"]
    /\ key = [w \in Workers |-> NONE]
    /\ data = [w \in Workers |-> NONE]
    /\ overlapped = {} /\ stale = {}
    /\ replays = 0 /\ edits = 0 /\ faults = 0

Hold(w, label, e, d) ==
    /\ pc' = [pc EXCEPT ![w] = label]
    /\ key' = [key EXCEPT ![w] = e]
    /\ data' = [data EXCEPT ![w] = d]

Goto(w, label) == Hold(w, label, key[w], data[w])

\* The statements of a call that rely on what it has read of the tenant.
Holding == {"expire", "task", "link"}

\* The tenant is written, by w or by nobody in particular: the other calls that
\* have read it hold an old copy.
Write(w, new) ==
    /\ tenant' = new
    /\ stale' = IF new = tenant THEN stale
                ELSE stale \cup {v \in Workers \ {w} : pc[v] \in Holding}

\* The call ends, or starts to read: it holds no old copy.
Fresh(w) == stale' = stale \ {w}

Leave(w) == Hold(w, "idle", NONE, NONE) /\ Fresh(w)

Paid(t) == [t EXCEPT !.status = "ACTIVE", !.sub = "ACTIVE", !.pastDue = FALSE,
                     !.canceled = FALSE]
PastDue(t)  == [t EXCEPT !.sub = "PAST_DUE", !.pastDue = TRUE]
Canceled(t) == [t EXCEPT !.status = "CHURNED", !.sub = "CANCELED", !.canceled = TRUE]

(***************************************************************************)
(* Webhooks of the providers, and their replay                             *)
(***************************************************************************)
\* A second delivery fails on the unique id of the event and does nothing.
StoreEvent(w, e) ==
    /\ pc[w] = "idle"
    /\ event[e] = NONE
    /\ event' = [event EXCEPT ![e] = "RECEIVED"]
    /\ Hold(w, "resolve", e, NONE)
    /\ UNCHANGED <<tenant, sent, rows, noted, tasks, overlapped, stale, byHand, bounds>>

\* verifyProviderWorkflow makes up and signs the event of a paid checkout.
VerifyEvent(w, e) ==
    /\ sent[e].kind \in {"checkout", "paystack"} /\ sent[e].named
    /\ StoreEvent(w, e)

\* A stored event is processed again, whatever its status.
ReplayEvent(w, e) ==
    /\ pc[w] = "idle"
    /\ replays < MaxReplays
    /\ event[e] # NONE
    /\ event' = [event EXCEPT ![e] = "RECEIVED"]
    /\ Hold(w, "resolve", e, NONE)
    /\ overlapped' = IF \E v \in Workers : key[v] = e THEN overlapped \cup {e}
                     ELSE overlapped
    /\ replays' = replays + 1
    /\ UNCHANGED <<tenant, sent, rows, noted, tasks, stale, byHand, edits, faults>>

Resolved(e) == sent[e].named \/ tenant.linked

ResolveTenant(w) ==
    /\ pc[w] = "resolve"
    /\ Goto(w, IF Resolved(key[w]) THEN "apply" ELSE "ignore")
    /\ UNCHANGED <<tenant, sent, ledger, tasks, overlapped, stale, byHand, bounds>>

AfterApply(w) ==
    LET c == sent[key[w]] IN
    CASE c.kind = "notice"               -> Goto(w, "mark")
      [] c.kind = "paystack" /\ c.fee    -> Hold(w, "find", key[w], "fee")
      [] OTHER                           -> Hold(w, "find", key[w], "main")

\* applyPlatformInvoiceEvent, completePaystackPlatformEvent and the deleted
\* subscription write the tenant first, and the ledger after.
ApplyEvent(w) ==
    LET kind == sent[key[w]].kind IN
    /\ pc[w] = "apply"
    /\ kind # "checkout"
    /\ Write(w, CASE kind \in {"paid", "paystack"} -> Paid(tenant)
                  [] kind = "failed"               -> PastDue(tenant)
                  [] kind = "deleted"              -> Canceled(tenant)
                  [] OTHER                         -> tenant)
    /\ AfterApply(w)
    /\ UNCHANGED <<sent, ledger, tasks, overlapped, byHand, bounds>>

\* completePlatformCheckout does both in one transaction.  A checkout without the id
\* of a subscription leaves the one that is there.
CompleteCheckout(w) ==
    LET e == key[w]
        parts == IF sent[e].fee THEN Part ELSE {"main"} IN
    /\ pc[w] = "apply"
    /\ sent[e].kind = "checkout"
    /\ Write(w, [Paid(tenant) EXCEPT !.linked = @ \/ sent[e].linking])
    /\ rows' = [r \in DOMAIN rows |-> IF r[1] = e /\ r[2] \in parts /\ rows[r] = 0
                                      THEN 1 ELSE rows[r]]
    /\ Goto(w, "mark")
    /\ UNCHANGED <<sent, event, noted, tasks, overlapped, byHand, bounds>>

\* A definition that is used nowhere is a faulty variant of the next one.
NeverFound(w) == FALSE

\* recordPlatformBillingEventOnce: the row is looked for, then made.
RowFound(w) == rows[<<key[w], data[w]>>] > 0

OneRow(w) == Goto(w, "mark")
AfterRow(w) ==
    IF data[w] = "fee" THEN Hold(w, "find", key[w], "main") ELSE Goto(w, "mark")

FindRow(w) ==
    /\ pc[w] = "find"
    /\ IF RowFound(w) THEN AfterRow(w) ELSE Goto(w, "create")
    /\ UNCHANGED <<tenant, sent, ledger, tasks, overlapped, stale, byHand, bounds>>

CreateRow(w) ==
    /\ pc[w] = "create"
    /\ rows' = [rows EXCEPT ![<<key[w], data[w]>>] = @ + 1]
    /\ AfterRow(w)
    /\ UNCHANGED <<tenant, sent, event, noted, tasks, overlapped, stale, byHand, bounds>>

MarkEvent(w) ==
    /\ pc[w] \in {"mark", "ignore", "fail"}
    /\ event' = [event EXCEPT ![key[w]] =
          CASE pc[w] = "mark"   -> "PROCESSED"
            [] pc[w] = "ignore" -> "IGNORED"
            [] OTHER            -> "FAILED"]
    /\ Leave(w)
    /\ UNCHANGED <<tenant, sent, rows, noted, tasks, overlapped, byHand, bounds>>

\* A statement fails, the event is marked as FAILED.
CatchError(w) ==
    /\ faults < MaxFaults
    /\ pc[w] \in {"resolve", "apply", "find", "create"}
    /\ faults' = faults + 1
    /\ Goto(w, "fail")
    /\ UNCHANGED <<tenant, sent, ledger, tasks, overlapped, stale, byHand, replays, edits>>

(***************************************************************************)
(* Scans                                                                   *)
(***************************************************************************)
EndingAnyway(t) == t.trial \in {"soon", "over"}
Ending(t) == t.sub = "TRIALING" /\ t.trial \in {"soon", "over"}

\* scanTrialExpiryForTenant: what it has read decides what it writes.
ScanTrial(w) ==
    /\ pc[w] = "idle"
    /\ Ending(tenant)
    /\ Hold(w, IF tenant.trial = "over" THEN "expire" ELSE "task", NONE, "trial")
    /\ UNCHANGED <<tenant, sent, ledger, tasks, overlapped, stale, byHand, bounds>>

ExpireTrial(w) ==
    /\ pc[w] = "expire"
    /\ Write(w, PastDue(tenant))
    /\ Goto(w, "task")
    /\ UNCHANGED <<sent, ledger, tasks, overlapped, byHand, bounds>>

\* scanBillingRecoveryForTenant; the tasks for renewals and for the use of the
\* plan's limits, which depend on dates and counts, are left out.
ScanRecovery(w) ==
    /\ pc[w] = "idle"
    /\ tenant.sub \in {"PAST_DUE", "UNPAID"}
    /\ Hold(w, "task", NONE, "recovery")
    /\ UNCHANGED <<tenant, sent, ledger, tasks, overlapped, stale, byHand, bounds>>

\* upsertAction: a task that was completed is opened again.
OpenTask(w) ==
    /\ pc[w] = "task"
    /\ tasks' = tasks \cup {data[w]}
    /\ Leave(w)
    /\ UNCHANGED <<tenant, sent, ledger, overlapped, byHand, bounds>>

CloseTask(k) ==
    /\ k \in tasks
    /\ tasks' = tasks \ {k}
    /\ UNCHANGED <<tenant, sent, ledger, local, overlapped, stale, byHand, bounds>>

(***************************************************************************)
(* Calls of the platform's people                                          *)
(***************************************************************************)
Edit == edits < MaxEdits /\ edits' = edits + 1

Overwrite(new, old) == new
Given(new, old) == IF new = NONE THEN old ELSE new

\* updateTenant: a new subscription sets or clears the two dates.
UpdateTenant(c) ==
    /\ Edit
    /\ Write(NONE,
         [tenant EXCEPT !.status = Given(c.status, @),
                        !.sub = Given(c.sub, @),
                        !.trial = Given(c.trial, @),
                        !.linked = Given(c.linked, @),
                        !.pastDue = IF c.sub = NONE THEN @
                                    ELSE c.sub \in {"PAST_DUE", "UNPAID"},
                        !.canceled = IF c.sub = NONE THEN @ ELSE c.sub = "CANCELED"])
    /\ byHand' = (byHand \/ c.sub = "ACTIVE")
    /\ UNCHANGED <<sent, ledger, tasks, local, overlapped, replays, faults>>

ArchiveTenant ==
    /\ Edit
    /\ Write(NONE, [tenant EXCEPT !.status = "ARCHIVED"])
    /\ UNCHANGED <<sent, ledger, tasks, local, overlapped, byHand, replays, faults>>

Resubscribed == Paid(tenant)
Restored == [tenant EXCEPT !.status = "ACTIVE"]

RestoreTenant ==
    /\ Edit
    /\ Write(NONE, Restored)
    /\ UNCHANGED <<sent, ledger, tasks, local, overlapped, byHand, replays, faults>>

\* createBillingEvent enters a row in the ledger, then changes the tenant.
CreateEntry(w, entry) ==
    /\ pc[w] = "idle"
    /\ Edit
    /\ noted' = (noted \/ entry = "paid")
    /\ Hold(w, "entry", NONE, entry)
    /\ UNCHANGED <<tenant, sent, event, rows, tasks, overlapped, stale, byHand, replays, faults>>

ApplyEntry(w) ==
    /\ pc[w] = "entry"
    /\ Write(w, CASE data[w] = "paid"     -> Paid(tenant)
                  [] data[w] = "failed"   -> PastDue(tenant)
                  [] data[w] = "canceled" -> Canceled(tenant)
                  [] data[w] = "credit"   -> [tenant EXCEPT !.pastDue = FALSE])
    /\ Hold(w, "idle", NONE, NONE)
    /\ UNCHANGED <<sent, ledger, tasks, overlapped, byHand, bounds>>

MarkMockBillingSucceeded ==
    /\ Edit
    /\ Write(NONE, [Paid(tenant) EXCEPT !.linked = TRUE])
    /\ noted' = TRUE
    /\ UNCHANGED <<sent, event, rows, tasks, local, overlapped, byHand, replays, faults>>

\* createBillingCheckout reads the tenant, asks the provider, and stores the id
\* the provider gave, or the one it has read.
ReadForCheckout(w) ==
    /\ pc[w] = "idle"
    /\ Edit
    /\ Hold(w, "link", NONE, IF tenant.linked THEN "linked" ELSE "unlinked")
    /\ UNCHANGED <<tenant, sent, ledger, tasks, overlapped, stale, byHand, replays, faults>>

\* Whether the provider gives the id of the subscription: Stripe if there is one by
\* then, Paystack never, the mock always.
StripeGives   == BOOLEAN
PaystackGives == {FALSE}
MockGives     == {TRUE}
ProviderGives == StripeGives \cup PaystackGives \cup MockGives

LinkOf(w, given) == given \/ data[w] = "linked"

StoreLink(w, given) ==
    /\ pc[w] = "link"
    /\ tenant' = [tenant EXCEPT !.linked = LinkOf(w, given)]
    /\ stale' = (IF tenant' = tenant THEN stale
                 ELSE stale \cup {v \in Workers : pc[v] \in Holding}) \ {w}
    /\ Hold(w, "idle", NONE, NONE)
    /\ UNCHANGED <<sent, ledger, tasks, overlapped, byHand, bounds>>

(***************************************************************************)
(* Time passes, and processes die                                          *)
(***************************************************************************)
TrialPasses ==
    /\ tenant.trial \in {"later", "soon"}
    /\ tenant' = [tenant EXCEPT !.trial = IF @ = "later" THEN "soon" ELSE "over"]
    /\ UNCHANGED <<sent, ledger, tasks, local, overlapped, stale, byHand, bounds>>

Crash(w) ==
    /\ faults < MaxFaults
    /\ pc[w] # "idle"
    /\ faults' = faults + 1
    /\ Leave(w)
    /\ UNCHANGED <<tenant, sent, ledger, tasks, overlapped, byHand, replays, edits>>

-----------------------------------------------------------------------------
Begin(w) ==
    \/ \E e \in Events : StoreEvent(w, e) \/ VerifyEvent(w, e) \/ ReplayEvent(w, e)
    \/ ScanTrial(w) \/ ScanRecovery(w)
    \/ \E entry \in Entry : CreateEntry(w, entry)
    \/ ReadForCheckout(w)

Continue(w) ==
    \/ ResolveTenant(w) \/ ApplyEvent(w) \/ CompleteCheckout(w)
    \/ FindRow(w) \/ CreateRow(w) \/ MarkEvent(w)
    \/ ExpireTrial(w) \/ OpenTask(w) \/ ApplyEntry(w)
    \/ \E given \in ProviderGives : StoreLink(w, given)

AtOnce ==
    \/ \E c \in Changes : UpdateTenant(c)
    \/ ArchiveTenant \/ RestoreTenant \/ MarkMockBillingSucceeded
    \/ \E k \in Task : CloseTask(k)
    \/ TrialPasses

Next ==
    \/ AtOnce
    \/ \E w \in Workers : Begin(w) \/ Continue(w) \/ CatchError(w) \/ Crash(w)

Spec == Init /\ [][Next]_vars

-----------------------------------------------------------------------------
Handling == {"resolve", "apply", "find", "create", "mark", "ignore", "fail"}

\* Every variable stays in its domain; a call that handles an event works on
\* one that is stored.
TypeOK ==
    /\ tenant \in Tenant
    /\ sent \in [Events -> Contents]
    /\ event \in [Events -> EventStatus \cup {NONE}]
    /\ rows \in [Events \X Part -> Nat]
    /\ noted \in BOOLEAN /\ byHand \in BOOLEAN
    /\ tasks \subseteq Task
    /\ pc \in [Workers -> Handling \cup Holding \cup {"idle", "entry"}]
    /\ key \in [Workers -> Events \cup {NONE}]
    /\ data \in [Workers -> Part \cup Task \cup Entry \cup Link \cup {NONE}]
    /\ overlapped \subseteq Events /\ stale \subseteq Workers
    /\ replays \in 0..MaxReplays /\ edits \in 0..MaxEdits /\ faults \in 0..MaxFaults
    /\ \A w \in Workers :
         /\ pc[w] \in Handling => key[w] \in Events /\ event[key[w]] # NONE
         /\ pc[w] \in {"find", "create"} => data[w] \in Part
         /\ pc[w] = "task" => data[w] \in Task
         /\ pc[w] = "entry" => data[w] \in Entry
         /\ pc[w] = "link" => data[w] \in Link

\* The money of an event is in the ledger once, however often the event is
\* replayed, also after a failure half way, unless two calls handle it at once:
\* the row is looked for before it is made, and nothing else keeps it unique.
RecordedOnce ==
    \A e \in Events : e \notin overlapped => \A p \in Part : rows[<<e, p>>] <= 1

\* An event that is done needs no replay: if it changed the tenant, the ledger
\* has its row, and that of the setup fee it paid.
Fees(c) == IF c.fee /\ c.kind \in {"checkout", "paystack"} THEN Part ELSE {"main"}

ProcessedIsRecorded ==
    \A e \in Events :
        event[e] = "PROCESSED" /\ sent[e].kind # "notice" =>
            \A p \in Fees(sent[e]) : rows[<<e, p>>] > 0

\* Nobody has an active subscription for nothing: unless it was made active by
\* hand, its payment is in the ledger, or its event was not done and can be
\* replayed.
Pays(e) == sent[e].kind \in {"paid", "checkout", "paystack"}

ActiveIsPaid ==
    tenant.sub = "ACTIVE" /\ (\A w \in Workers : pc[w] = "idle") =>
        \/ byHand \/ noted
        \/ \E e \in Events :
              /\ Pays(e)
              /\ rows[<<e, "main">>] > 0 \/ event[e] \in EventStatus \ {"PROCESSED"}

\* The copy of the tenant a scan or a checkout holds across its awaits does harm
\* only if somebody has written the tenant since it was read: else a scan moves
\* no subscription but a trial to past due, asks to recover none that is not
\* past due, and a checkout forgets no subscription at Stripe.
Moves(w) == pc[w] \in Holding /\ pc'[w] # pc[w]

OnlyOldCopiesHarm ==
    [][\A w \in Workers \ stale : Moves(w) =>
         /\ tenant'.sub # tenant.sub => tenant.sub = "TRIALING"
         /\ tasks' # tasks /\ "recovery" \in tasks' \ tasks =>
              tenant.sub \in {"PAST_DUE", "UNPAID"}
         /\ tenant.linked => tenant'.linked]_vars
=============================================================================
