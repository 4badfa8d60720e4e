-------------------------------- MODULE Intake --------------------------------
(***************************************************************************)
(* How rows come into a workspace: customers from the form, from a list    *)
(* and from a WhatsApp export (CustomersService), messages from the        *)
(* webhook and their replay (WhatsappWebhookService), accounts and staff   *)
(* (AuthService.register, TenantsService) and the shifts of the staff      *)
(* (AttendanceService), under the limits of the plan (PlanLimitsService).  *)
(*                                                                         *)
(* All of them look first and write later, in another statement.  Some     *)
(* rows are kept apart by a unique key (a phone and an e-mail of a tenant, *)
(* a slug, the id of a message), the others by the look alone.             *)
(*                                                                         *)
(* The tenant is the oldest of the installation.  What a row says beyond   *)
(* its key is left out, and so are roles and the renaming of staff.        *)
(***************************************************************************)
EXTENDS Naturals, FiniteSets, Sequences

CONSTANTS
    Workers,   \* calls in progress at the same time
    Phones, Emails, Names,
    Messages,  \* what the provider delivers
    Lists,     \* lists of phones that are imported
    Plans,     \* limits a plan may set, NONE where it sets none
    MaxCalls, MaxEdits, MaxFaults,
    NONE

ASSUME MessagesAssumption == Messages \subseteq [from : Phones, text : BOOLEAN, known : BOOLEAN]
ASSUME PlansAssumption    == Plans \subseteq [customers : Nat \cup {NONE}, staff : Nat \cup {NONE}]
ASSUME ListsAssumption    == Lists \subseteq Seq(Phones)
ASSUME BoundsAssumption   == {MaxCalls, MaxEdits, MaxFaults} \subseteq Nat

EventStatus == {"RECEIVED", "PROCESSED", "IGNORED", "FAILED"}
StaffStatus == {"active", "inactive"}

ASSUME NoneAssumption  == NONE \notin Workers \cup EventStatus \cup StaffStatus \cup Nat
ASSUME NamesAssumption == Phones \cap Messages = {}

VARIABLES
    plan,       \* Tenant.planLimits
    blocked,    \* the status or the subscription of the tenant forbids new rows
    customers,  \* phones with a Customer row
    threads,    \* conversations made from exports, of each phone
    kept,       \* those whose lines are stored
    mirrored,   \* those whose lines are in the message log too
    leads,      \* leads made from exports
    event,      \* WebhookEvent.status of each message, NONE without a row
    logs,       \* MessageLog rows of each message
    owners,     \* tenants registered with an e-mail
    taken,      \* slugs made from a name
    staff,      \* User rows of the tenant: active, inactive, NONE
    shifts,     \* number of Attendance rows of each user
    open,       \* those without a checkOut
    pc,         \* next await of each worker
    item,       \* the phone, e-mail or message it works on
    rows,       \* phones it still has to store
    chats,      \* phones of the export it still has to store the lines of
    found,      \* what else it holds: a list, a slug, a shift
    replay,     \* workers that replay a message
    stale,      \* history: workers whose look is out of date
    again,      \* history: messages that were delivered or replayed again
    broken,     \* history: messages and phones a call failed at
    calls, edits, faults

tenant   == <<plan, blocked>>
imported == <<threads, kept, mirrored, leads>>
inbound  == <<event, logs>>
accounts == <<owners, taken, staff>>
work     == <<shifts, open>>
local    == <<pc, item, rows, chats, found, replay>>
history  == <<stale, again, broken>>
bounds   == <<calls, edits, faults>>
vars == <<tenant, customers, imported, inbound, accounts, work, local, history, bounds>>

Init ==
    /\ plan \in Plans /\ blocked = FALSE
    /\ customers = {}
    /\ threads = [p \in Phones |-> 0]
    /\ kept = threads /\ mirrored = threads /\ leads = threads
    /\ event = [m \in Messages |-> NONE] /\ logs = [m \in Messages |-> 0]
    /\ owners = [e \in Emails |-> 0] /\ taken = [n \in Names |-> 0]
    /\ staff = [e \in Emails |-> NONE]
    /\ shifts = [e \in Emails |-> 0] /\ open = [e \in Emails |-> {}]
    /\ pc = [w \in Workers |-> "idle"] /\ item = [w \in Workers |-> NONE]
    /\ rows = [w \in Workers |-> {}] /\ chats = rows
    /\ found = [w \in Workers |-> NONE] /\ replay = {}
    /\ stale = {} /\ again = {} /\ broken = {}
    /\ calls = 0 /\ edits = 0 /\ faults = 0

Active == {e \in Emails : staff[e] = "active"}
Staff  == {e \in Emails : staff[e] # NONE}

\* The steps that rely on a count of customers, of staff, on the e-mail or the
\* shift that was looked for, on the limit of the plan, on the right to write.
ByCustomers == {"insert", "rows"}
ByStaff     == {"email", "staff"}
ByEmail     == {"slug", "register"}
ByLimit     == {"room"} \cup ByCustomers \cup ByStaff
Creating    == {"count", "seat", "limit"} \cup ByLimit

Others(w, labels)     == {v \in Workers \ {w} : pc[v] \in labels}
OthersOn(w, label, i) == {v \in Others(w, label) : item[v] = i}

Goto(w, label) == pc' = [pc EXCEPT ![w] = label] /\ UNCHANGED <<item, rows, chats, found, replay>>

Occupy(w, label, i) ==
    /\ pc[w] = "idle"
    /\ pc' = [pc EXCEPT ![w] = label]
    /\ item' = [item EXCEPT ![w] = i]

Start(w, label, i) ==
    /\ calls < MaxCalls
    /\ calls' = calls + 1
    /\ Occupy(w, label, i)
    /\ UNCHANGED <<edits, faults>>

Clear(w) ==
    /\ pc' = [pc EXCEPT ![w] = "idle"]
    /\ item' = [item EXCEPT ![w] = NONE]
    /\ rows' = [rows EXCEPT ![w] = {}]
    /\ chats' = [chats EXCEPT ![w] = {}]
    /\ found' = [found EXCEPT ![w] = NONE]
    /\ replay' = replay \ {w}

\* The call ends; outdated are the others that looked before it wrote.
LeaveTelling(w, outdated) == Clear(w) /\ stale' = (stale \cup outdated) \ {w}

Leave(w) == LeaveTelling(w, {})

(***************************************************************************)
(* PlanLimitsService                                                       *)
(***************************************************************************)
CanWrite == ~blocked

\* A definition that is used nowhere is a faulty variant of the next one.
UpTo(count, limit)  == limit = NONE \/ count <= limit
Below(count, limit) == limit = NONE \/ count < limit

(***************************************************************************)
(* CustomersService                                                        *)
(***************************************************************************)
CreateCustomer(w, p) ==
    /\ CanWrite
    /\ Start(w, "count", p)
    /\ UNCHANGED <<tenant, customers, imported, inbound, accounts, work, rows, chats, found,
                   replay, history>>

\* The limit is read right after the count.
CountCustomers(w) ==
    /\ pc[w] = "count"
    /\ IF Below(Cardinality(customers), plan.customers)
         THEN Goto(w, "insert") /\ UNCHANGED stale
         ELSE Leave(w)
    /\ UNCHANGED <<tenant, customers, imported, inbound, accounts, work, again, broken, bounds>>

\* The outdated readers of the number of customers, once p has a row.
OutdatedBy(w, p) == IF p \in customers THEN {} ELSE Others(w, ByCustomers)

\* A second row of a phone is refused by the unique key.
InsertCustomer(w) ==
    /\ pc[w] = "insert"
    /\ customers' = customers \cup {item[w]}
    /\ LeaveTelling(w, OutdatedBy(w, item[w]))
    /\ UNCHANGED <<tenant, imported, inbound, accounts, work, again, broken, bounds>>

\* BookingsService.create makes the customer it is given, or finds the phone; no
\* limit of customers holds for it.
BookForCaller(w, p) ==
    /\ CanWrite
    /\ Start(w, "caller", p)
    /\ UNCHANGED <<tenant, customers, imported, inbound, accounts, work, rows, chats, found,
                   replay, history>>

UpsertCaller(w) ==
    /\ pc[w] = "caller"
    /\ customers' = customers \cup {item[w]}
    /\ LeaveTelling(w, OutdatedBy(w, item[w]))
    /\ UNCHANGED <<tenant, imported, inbound, accounts, work, again, broken, bounds>>

\* import: what exceeds the limit is cut off the list before it is known which
\* of its rows are new, or the same.  Where no limit holds the code has room for
\* 500 customers in all, more than Phones has.
Room(limit) == IF limit > Cardinality(customers) THEN limit - Cardinality(customers) ELSE 0

Cut(list, limit) ==
    IF limit = NONE \/ Len(list) < Room(limit) THEN Len(list) ELSE Room(limit)

FirstRows(list, limit) == {list[i] : i \in 1..Cut(list, limit)}

BeginImport(w, label, list, chat) ==
    /\ CanWrite
    /\ Start(w, label, NONE)
    /\ chats' = [chats EXCEPT ![w] = chat]
    /\ found' = [found EXCEPT ![w] = [list |-> list, limit |-> NONE]]
    /\ UNCHANGED <<tenant, customers, imported, inbound, accounts, work, rows, replay, history>>

ImportCustomers(w, list) == BeginImport(w, "limit", list, {})

\* importWhatsApp groups the lines by phone, and calls import, which asks again
\* whether the tenant can write.
PhonesOf(list) == {list[i] : i \in 1..Len(list)}
Grouped == {list \in Lists : \A i, j \in 1..Len(list) : list[i] = list[j] => i = j}

ImportExport(w, list) == list \in Grouped /\ BeginImport(w, "admit", list, PhonesOf(list))

AdmitImport(w) ==
    /\ pc[w] = "admit"
    /\ IF CanWrite THEN Goto(w, "limit") /\ UNCHANGED stale ELSE Leave(w)
    /\ UNCHANGED <<tenant, customers, imported, inbound, accounts, work, again, broken, bounds>>

ReadLimit(w) ==
    /\ pc[w] = "limit"
    /\ pc' = [pc EXCEPT ![w] = "room"]
    /\ found' = [found EXCEPT ![w] = [list |-> found[w].list, limit |-> plan.customers]]
    /\ UNCHANGED <<tenant, customers, imported, inbound, accounts, work, item, rows, chats,
                   replay, history, bounds>>

TakeRows(w) ==
    /\ pc[w] = "room"
    /\ pc' = [pc EXCEPT ![w] = "rows"]
    /\ rows' = [rows EXCEPT ![w] = FirstRows(found[w].list, found[w].limit)]
    /\ found' = [found EXCEPT ![w] = NONE]
    /\ UNCHANGED <<tenant, customers, imported, inbound, accounts, work, item, chats, replay,
                   history, bounds>>

\* The loop goes through a list in its order, which is left open.  Further rows of
\* a phone are skipped.
UpsertRow(w) ==
    /\ pc[w] = "rows"
    /\ \E p \in rows[w] :
       /\ customers' = customers \cup {p}
       /\ rows' = [rows EXCEPT ![w] = @ \ {p}]
       /\ stale' = stale \cup OutdatedBy(w, p)
    /\ UNCHANGED <<tenant, imported, inbound, accounts, work, pc, item, chats, found, replay,
                   again, broken, bounds>>

AllChats(phones) == phones
Matched(phones)  == phones \cap customers

NextChat(w, phones) ==
    \/ phones = {} /\ Leave(w)
    \/ /\ pc' = [pc EXCEPT ![w] = "thread"]
       /\ \E p \in phones :
            /\ item' = [item EXCEPT ![w] = p]
            /\ chats' = [chats EXCEPT ![w] = phones \ {p}]
       /\ UNCHANGED <<rows, found, replay, stale>>

MatchChats(w) ==
    /\ pc[w] = "rows" /\ rows[w] = {}
    /\ NextChat(w, Matched(chats[w]))
    /\ UNCHANGED <<tenant, customers, imported, inbound, accounts, work, again, broken, bounds>>

OpenThread(w) ==
    /\ pc[w] = "thread"
    /\ threads' = [threads EXCEPT ![item[w]] = @ + 1]
    /\ Goto(w, "lines")
    /\ UNCHANGED <<tenant, customers, kept, mirrored, leads, inbound, accounts, work, history,
                   bounds>>

KeepLines(w) ==
    /\ pc[w] = "lines"
    /\ kept' = [kept EXCEPT ![item[w]] = @ + 1]
    /\ Goto(w, "mirror")
    /\ UNCHANGED <<tenant, customers, threads, mirrored, leads, inbound, accounts, work, history,
                   bounds>>

\* The lines go to the log as well; a lead follows when they look like an inquiry
\* and the caller wants leads.
MirrorLines(w) ==
    /\ pc[w] = "mirror"
    /\ mirrored' = [mirrored EXCEPT ![item[w]] = @ + 1]
    /\ \/ Goto(w, "lead") /\ UNCHANGED stale
       \/ NextChat(w, chats[w])
    /\ UNCHANGED <<tenant, customers, threads, kept, leads, inbound, accounts, work, again,
                   broken, bounds>>

CreateLead(w) ==
    /\ pc[w] = "lead"
    /\ leads' = [leads EXCEPT ![item[w]] = @ + 1]
    /\ NextChat(w, chats[w])
    /\ UNCHANGED <<tenant, customers, threads, kept, mirrored, inbound, accounts, work, again,
                   broken, bounds>>

(***************************************************************************)
(* WhatsappWebhookService                                                  *)
(***************************************************************************)
\* receive: a message without text, or for a business nobody has, is ignored.
Processable(m) == m.known /\ m.text

AlwaysProcessed(m) == "PROCESSED"
FreshStatus(m)     == IF Processable(m) THEN "PROCESSED" ELSE "IGNORED"

OnlyFirst(m)  == IF Processable(m) /\ event[m] = NONE THEN "customer" ELSE "ignored"
FirstAwait(m) == IF Processable(m) THEN "customer" ELSE "ignored"

\* An event that is there already stays as it is, and the message goes on.
TakeEvent(m) ==
    /\ event' = [event EXCEPT ![m] = IF @ = NONE THEN FreshStatus(m) ELSE @]
    /\ again' = IF event[m] = NONE THEN again ELSE again \cup {m}
    /\ UNCHANGED <<tenant, customers, imported, logs, accounts, work, rows, chats, found, replay,
                   stale, broken>>

Receive(w, m) == Start(w, FirstAwait(m), m) /\ TakeEvent(m)

\* The provider delivers a message again that was answered with an error.
Redeliver(w, m) ==
    /\ m \in broken /\ Processable(m) /\ \A v \in Workers : item[v] # m
    /\ Occupy(w, FirstAwait(m), m)
    /\ TakeEvent(m)
    /\ UNCHANGED bounds

\* replayWebhookFailure marks any event as received, then replay calls receive for
\* the tenant of the event and without a signature, which is refused where a secret
\* is configured.
ReplayEvent(w, m) ==
    /\ event[m] # NONE
    /\ event' = [event EXCEPT ![m] = "RECEIVED"]
    /\ again' = again \cup {m}
    /\ replay' = replay \cup {w}
    /\ \E label \in {"refused", IF m.text THEN "customer" ELSE "ignored"} : Start(w, label, m)
    /\ UNCHANGED <<tenant, customers, imported, logs, accounts, work, rows, chats, found, stale,
                   broken>>

\* No limit holds for the customers that write.  An event without a tenant goes
\* to the oldest one.
UpsertSender(w) ==
    /\ pc[w] = "customer"
    /\ customers' = customers \cup {item[w].from}
    /\ stale' = stale \cup OutdatedBy(w, item[w].from)
    /\ Goto(w, "log")
    /\ UNCHANGED <<tenant, imported, inbound, accounts, work, again, broken, bounds>>

LogMessage(w) ==
    /\ pc[w] = "log"
    /\ logs' = [logs EXCEPT ![item[w]] = @ + 1]
    /\ broken' = broken \ {item[w]}
    /\ Goto(w, "logged")
    /\ UNCHANGED <<tenant, customers, imported, event, accounts, work, stale, again, bounds>>

\* A replay marks the event with what came of it.
Outcome(label) ==
    CASE label = "logged"  -> "PROCESSED"
      [] label = "ignored" -> "IGNORED"
      [] label = "refused" -> "FAILED"

EndMessage(w) ==
    /\ pc[w] \in {"logged", "ignored", "refused"}
    /\ event' = [event EXCEPT ![item[w]] = IF w \in replay THEN Outcome(pc[w]) ELSE @]
    /\ Leave(w)
    /\ UNCHANGED <<tenant, customers, imported, logs, accounts, work, again, broken, bounds>>

(***************************************************************************)
(* AuthService.register, TenantsService.createStaff and updateStaff        *)
(***************************************************************************)
Users(e) == owners[e] + (IF staff[e] = NONE THEN 0 ELSE 1)

NoStaff(e)   == staff[e] = NONE
EmailFree(e) == Users(e) = 0

\* No tenant may know the e-mail.
Register(w, e) ==
    /\ EmailFree(e)
    /\ Start(w, "slug", e)
    /\ UNCHANGED <<tenant, customers, imported, inbound, accounts, work, rows, chats, found,
                   replay, history>>

\* uniqueTenantSlug: the first number nobody has.
FindSlug(w, n) ==
    /\ pc[w] = "slug"
    /\ pc' = [pc EXCEPT ![w] = "register"]
    /\ found' = [found EXCEPT ![w] = [name |-> n, number |-> taken[n] + 1]]
    /\ UNCHANGED <<tenant, customers, imported, inbound, accounts, work, item, rows, chats,
                   replay, history, bounds>>

\* The tenant, its owner, services and rules in one transaction, which the
\* unique slug refuses when another tenant has taken it.
InsertTenant(w) ==
    LET slug == found[w] e == item[w] IN
    /\ pc[w] = "register"
    /\ IF slug.number > taken[slug.name]
         THEN /\ taken' = [taken EXCEPT ![slug.name] = @ + 1]
              /\ owners' = [owners EXCEPT ![e] = @ + 1]
              /\ LeaveTelling(w, OthersOn(w, ByEmail, e))
         ELSE Leave(w) /\ UNCHANGED <<taken, owners>>
    /\ UNCHANGED <<tenant, customers, imported, inbound, staff, work, again, broken, bounds>>

CreateStaff(w, e) ==
    /\ CanWrite
    /\ Start(w, "seat", e)
    /\ UNCHANGED <<tenant, customers, imported, inbound, accounts, work, rows, chats, found,
                   replay, history>>

CountStaff(w) ==
    /\ pc[w] = "seat"
    /\ IF Below(Cardinality(Active), plan.staff) THEN Goto(w, "email") /\ UNCHANGED stale
                                                  ELSE Leave(w)
    /\ UNCHANGED <<tenant, customers, imported, inbound, accounts, work, again, broken, bounds>>

FindStaff(w) ==
    /\ pc[w] = "email"
    /\ IF NoStaff(item[w]) THEN Goto(w, "staff") /\ UNCHANGED stale ELSE Leave(w)
    /\ UNCHANGED <<tenant, customers, imported, inbound, accounts, work, again, broken, bounds>>

\* The e-mail is unique in the tenant, and may be known elsewhere.
InsertStaff(w) ==
    LET e == item[w] IN
    /\ pc[w] = "staff"
    /\ IF NoStaff(e)
         THEN /\ staff' = [staff EXCEPT ![e] = "active"]
              /\ LeaveTelling(w, Others(w, ByStaff) \cup OthersOn(w, ByEmail, e))
         ELSE Leave(w) /\ UNCHANGED staff
    /\ UNCHANGED <<tenant, customers, imported, inbound, owners, taken, work, again, broken,
                   bounds>>

(***************************************************************************)
(* AttendanceService                                                       *)
(***************************************************************************)
\* JwtStrategy.validate looks the user up for every call.
Admitted(e) == e \in Active

CheckIn(w, e) ==
    /\ Admitted(e)
    /\ open[e] = {}
    /\ Start(w, "in", e)
    /\ UNCHANGED <<tenant, customers, imported, inbound, accounts, work, rows, chats, found,
                   replay, history>>

InsertShift(w) ==
    LET e == item[w] IN
    /\ pc[w] = "in"
    /\ shifts' = [shifts EXCEPT ![e] = @ + 1]
    /\ open' = [open EXCEPT ![e] = @ \cup {shifts[e] + 1}]
    /\ LeaveTelling(w, OthersOn(w, {"in"}, e))
    /\ UNCHANGED <<tenant, customers, imported, inbound, accounts, again, broken, bounds>>

\* findFirst: any of the open shifts.
CheckOut(w, e) ==
    /\ Admitted(e)
    /\ Start(w, "out", e)
    /\ \E s \in open[e] : found' = [found EXCEPT ![w] = s]
    /\ UNCHANGED <<tenant, customers, imported, inbound, accounts, work, rows, chats, replay,
                   history>>

CloseShift(w) ==
    /\ pc[w] = "out"
    /\ open' = [open EXCEPT ![item[w]] = @ \ {found[w]}]
    /\ Leave(w)
    /\ UNCHANGED <<tenant, customers, imported, inbound, accounts, shifts, again, broken, bounds>>

(***************************************************************************)
(* What others do, and faults                                              *)
(***************************************************************************)
Edit == edits < MaxEdits /\ edits' = edits + 1

\* The platform adds a user without a look at the limit; the unique key refuses
\* an e-mail the tenant has.
AddUser(e) ==
    /\ Edit
    /\ NoStaff(e)
    /\ staff' = [staff EXCEPT ![e] = "active"]
    /\ stale' = stale \cup Others(NONE, ByStaff) \cup OthersOn(NONE, ByEmail, e)
    /\ UNCHANGED <<tenant, customers, imported, inbound, owners, taken, work, local, again,
                   broken, calls, faults>>

\* A seat is given back and taken again without a look at the limit, by a manager
\* or by the platform.
SetActive(e) ==
    /\ Edit
    /\ e \in Staff
    /\ staff' = [staff EXCEPT ![e] = IF @ = "active" THEN "inactive" ELSE "active"]
    /\ stale' = stale \cup Others(NONE, ByStaff)
    /\ UNCHANGED <<tenant, customers, imported, inbound, owners, taken, work, local, again,
                   broken, calls, faults>>

UpdateStaff(e) == SetActive(e)
UpdateUser(e)  == SetActive(e)

ApplyPlan ==
    /\ Edit
    /\ plan' \in Plans \ {plan}
    /\ stale' = stale \cup Others(NONE, ByLimit)
    /\ UNCHANGED <<blocked, customers, imported, inbound, accounts, work, local, again,
                   broken, calls, faults>>

\* updateTenant, and what TenantBilling does.
ChangeBilling ==
    /\ Edit
    /\ blocked' = ~blocked
    /\ stale' = stale \cup Others(NONE, Creating)
    /\ UNCHANGED <<plan, customers, imported, inbound, accounts, work, local, again,
                   broken, calls, faults>>

\* A statement fails, or the process dies.  What a replay meets is caught, unless
\* it is the end of the process.
Abort(w) ==
    /\ faults < MaxFaults
    /\ pc[w] # "idle"
    /\ faults' = faults + 1
    /\ broken' = IF \/ pc[w] \in {"customer", "log"} /\ logs[item[w]] = 0
                    \/ pc[w] \in {"lines", "mirror"}
                 THEN broken \cup {item[w]} ELSE broken
    /\ \/ UNCHANGED event
       \/ /\ w \in replay /\ pc[w] \in {"customer", "log", "logged"}
          /\ event' = [event EXCEPT ![item[w]] = "FAILED"]
    /\ Leave(w)
    /\ UNCHANGED <<tenant, customers, imported, logs, accounts, work, again, calls, edits>>

-----------------------------------------------------------------------------
Begin(w) ==
    \/ \E p \in Phones : CreateCustomer(w, p) \/ BookForCaller(w, p)
    \/ \E list \in Lists : ImportCustomers(w, list) \/ ImportExport(w, list)
    \/ \E m \in Messages : Receive(w, m) \/ ReplayEvent(w, m)
    \/ \E e \in Emails : Register(w, e) \/ CreateStaff(w, e) \/ CheckIn(w, e) \/ CheckOut(w, e)

Continue(w) ==
    \/ CountCustomers(w) \/ InsertCustomer(w) \/ UpsertCaller(w)
    \/ AdmitImport(w) \/ ReadLimit(w) \/ TakeRows(w) \/ UpsertRow(w)
    \/ MatchChats(w) \/ OpenThread(w) \/ KeepLines(w) \/ MirrorLines(w) \/ CreateLead(w)
    \/ UpsertSender(w) \/ LogMessage(w) \/ EndMessage(w)
    \/ \E n \in Names : FindSlug(w, n)
    \/ InsertTenant(w) \/ CountStaff(w) \/ FindStaff(w) \/ InsertStaff(w)
    \/ InsertShift(w) \/ CloseShift(w)

Next ==
    \/ \E w \in Workers : Begin(w) \/ Continue(w) \/ Abort(w)
    \/ \E w \in Workers, m \in Messages : Redeliver(w, m)
    \/ \E e \in Emails : AddUser(e) \/ UpdateStaff(e) \/ UpdateUser(e)
    \/ ApplyPlan \/ ChangeBilling

Spec == Init /\ [][Next]_vars

-----------------------------------------------------------------------------
\* Every variable stays in its domain, and every row refers to one that is there:
\* conversations, and messages of our own, to a customer, shifts to a user.
TypeOK ==
    /\ plan \in Plans /\ blocked \in BOOLEAN
    /\ customers \subseteq Phones
    /\ {threads, kept, mirrored, leads} \subseteq [Phones -> Nat]
    /\ event \in [Messages -> EventStatus \cup {NONE}]
    /\ logs \in [Messages -> Nat]
    /\ owners \in [Emails -> Nat] /\ taken \in [Names -> Nat]
    /\ staff \in [Emails -> StaffStatus \cup {NONE}]
    /\ shifts \in [Emails -> Nat]
    /\ \A e \in Emails : open[e] \subseteq 1..shifts[e] /\ (shifts[e] > 0 => e \in Staff)
    /\ \A p \in Phones : threads[p] > 0 => p \in customers
    /\ \A m \in Messages : logs[m] > 0 => m.from \in customers
    /\ \A w \in Workers : pc[w] = "idle" => rows[w] = {} /\ chats[w] = {} /\ w \notin stale
    /\ replay \cup stale \subseteq Workers
    /\ calls \in 0..MaxCalls /\ edits \in 0..MaxEdits /\ faults \in 0..MaxFaults

At(i) == \E w \in Workers : item[w] = i

\* What a customer wrote is kept, and once.  A message whose event counts as
\* processed is in the log, and what was imported is in its conversation and in the
\* log, unless a call failed at it and no later one made up for it; a message is in
\* the log twice, and an ignored one at all, only after it was delivered or replayed
\* again.
InboundKept ==
    /\ \A m \in Messages :
       /\ event[m] = "PROCESSED" /\ ~At(m) => logs[m] > 0 \/ m \in broken
       /\ logs[m] > 1 \/ (logs[m] > 0 /\ ~Processable(m)) => m \in again
    /\ \A p \in Phones :
       ~At(p) => (kept[p] = threads[p] /\ mirrored[p] = threads[p]) \/ p \in broken

\* A call about m ends without an error, and not because its signature is missing.
Answered(w, m) ==
    /\ item[w] = m /\ pc[w] \in {"customer", "log", "logged", "ignored"}
    /\ pc'[w] = "idle" /\ faults' = faults

\* No message is answered as received that is not in the log, neither the first time
\* nor when it comes again after a failure or the end of the process: the event row
\* that is left behind, which says PROCESSED, does not make it a duplicate.  So the
\* provider, who delivers again until it is answered, brings every message in.
AnsweredIsLogged ==
    [][\A w \in Workers, m \in Messages :
          Answered(w, m) /\ Processable(m) => logs'[m] > 0]_vars

\* What a step of w writes should have been refused: by the limit or the billing of
\* the tenant, by the e-mail or by the open shift that is there.
Over(count, limit) == limit # NONE /\ count >= limit

Exceeds(w) ==
    \/ /\ pc[w] \in ByCustomers /\ customers' # customers
       /\ Over(Cardinality(customers), plan.customers) \/ blocked
    \/ /\ pc[w] = "staff" /\ staff' # staff
       /\ Over(Cardinality(Active), plan.staff) \/ blocked
    \/ pc[w] = "register" /\ owners' # owners /\ Users(item[w]) > 0
    \/ pc[w] = "in" /\ open' # open /\ open[item[w]] # {}

\* The look before the write fails for those only whose look is out of date: else
\* no row exceeds the plan or comes in while the tenant is blocked, no e-mail gets
\* a second tenant, and nobody is at work twice.  Customers that write or that are
\* given with a booking, and users the platform adds or anybody makes active again,
\* are under no limit.
OnlyOldLooksExceed ==
    [][\A w \in Workers \ stale :
        <<pc[w], rows[w]>>' # <<pc[w], rows[w]>> => ~Exceeds(w)]_vars
=============================================================================
