----------------------------- MODULE IntakeProofs -----------------------------
(***************************************************************************)
(* What Intake promises for all sets of calls, phones, messages, e-mails   *)
(* and plans: states are well typed and every row refers to one that is    *)
(* there, what a customer wrote is kept once and no answer says otherwise, *)
(* and a look before a write fails only for those whose look is out of     *)
(* date.                                                                   *)
(***************************************************************************)
EXTENDS Intake, FiniteSetTheorems, TLAPS

Labels == {"idle", "count", "insert", "caller", "admit", "limit", "room", "rows",
           "thread", "lines", "mirror", "lead", "customer", "ignored", "refused",
           "log", "logged", "slug", "register", "seat", "email", "staff", "in", "out"}

\* What a worker works on at each label.
OfPhone   == {"count", "insert", "caller", "thread", "lines", "mirror", "lead"}
OfMessage == {"customer", "ignored", "refused", "log", "logged"}
OfEmail   == {"slug", "register", "seat", "email", "staff", "in", "out"}

Flags == blocked \in BOOLEAN

Columns ==
    /\ plan \in Plans
    /\ customers \subseteq Phones /\ IsFiniteSet(customers)
    /\ threads \in [Phones -> Nat] /\ kept \in [Phones -> Nat]
    /\ mirrored \in [Phones -> Nat] /\ leads \in [Phones -> Nat]
    /\ event \in [Messages -> EventStatus \cup {NONE}]
    /\ logs \in [Messages -> Nat]
    /\ owners \in [Emails -> Nat] /\ taken \in [Names -> Nat]
    /\ staff \in [Emails -> StaffStatus \cup {NONE}]
    /\ shifts \in [Emails -> Nat] /\ open \in [Emails -> SUBSET Nat]
    /\ calls \in 0..MaxCalls /\ edits \in 0..MaxEdits /\ faults \in 0..MaxFaults

Agenda ==
    /\ pc \in [Workers -> Labels]
    /\ item \in [Workers -> Phones \cup Messages \cup Emails \cup {NONE}]
    /\ rows \in [Workers -> SUBSET Phones] /\ chats \in [Workers -> SUBSET Phones]
    /\ replay \cup stale \subseteq Workers
    /\ \A w \in Workers :
         /\ pc[w] = "idle" => rows[w] = {} /\ chats[w] = {} /\ w \notin stale
         /\ pc[w] \in OfPhone => item[w] \in Phones
         /\ pc[w] \in OfMessage => item[w] \in Messages
         /\ pc[w] \in OfEmail => item[w] \in Emails

\* What a worker has found at each label.
Findings ==
    /\ DOMAIN found = Workers
    /\ \A w \in Workers :
         /\ pc[w] = "register" => found[w] \in [name : Names, number : Nat]
         /\ pc[w] \in {"admit", "limit", "room"} =>
              found[w] \in [list : Lists, limit : Nat \cup {NONE}]

\* Rows refer to rows: what is there, and what is about to be.
Refers ==
    /\ \A e \in Emails : open[e] \subseteq 1..shifts[e] /\ (shifts[e] > 0 => staff[e] # NONE)
    /\ \A p \in Phones : threads[p] > 0 => p \in customers
    /\ \A m \in Messages : logs[m] > 0 => m.from \in customers
    /\ \A w \in Workers :
         /\ pc[w] \in {"thread", "lines", "mirror", "lead"} =>
              item[w] \in customers /\ chats[w] \subseteq customers
         /\ pc[w] = "log" => item[w].from \in customers
         /\ pc[w] = "in" => staff[item[w]] # NONE

Typed == Flags /\ Columns /\ Agenda /\ Findings /\ Refers

\* The rows of a list are phones.
LEMMA ListPhones ==
    ASSUME Columns, NEW list \in Lists, NEW limit \in Nat \cup {NONE}
    PROVE  FirstRows(list, limit) \subseteq Phones /\ PhonesOf(list) \subseteq Phones
<1>1. list \in Seq(Phones)
    BY ListsAssumption
<1>2. Len(list) \in Nat /\ \A i \in 1..Len(list) : list[i] \in Phones
    BY <1>1
<1>3. Cardinality(customers) \in Nat
    BY FS_CardinalityType DEF Columns
<1>4. limit # NONE => Room(limit) \in Nat
    BY <1>3 DEF Room
<1> QED BY <1>2, <1>4 DEF FirstRows, Cut, PhonesOf

\* The initial states are well typed.
LEMMA InitTyped == Init => Typed
<1> SUFFICES ASSUME Init PROVE Typed
    OBVIOUS
<1>1. Flags
    BY Zenon DEF Init, Flags
<1>2. Columns
    BY BoundsAssumption, FS_EmptySet DEF Init, Columns
<1>3. Agenda /\ Findings /\ Refers
    BY DEF Init, Agenda, Findings, Refers, Labels, OfPhone, OfMessage, OfEmail
<1> QED BY <1>1, <1>2, <1>3 DEF Typed

\* The flags stay truth values.
LEMMA StepFlags == Flags /\ [Next]_vars => Flags'
<1> SUFFICES ASSUME Flags, [Next]_vars PROVE Flags'
    OBVIOUS
<1> USE DEF Flags
<1>1. ASSUME NEW w \in Workers, NEW p \in Phones, CreateCustomer(w, p) PROVE Flags'
    BY <1>1 DEF CreateCustomer, Start, Occupy, tenant, imported, inbound, accounts, work,
                local, history, bounds
<1>2. ASSUME NEW w \in Workers, NEW p \in Phones, BookForCaller(w, p) PROVE Flags'
    BY <1>2 DEF BookForCaller, Start, Occupy, tenant, imported, inbound, accounts, work,
                local, history, bounds
<1>3. ASSUME NEW w \in Workers, NEW list \in Lists, ImportCustomers(w, list) PROVE Flags'
    BY <1>3 DEF ImportCustomers, BeginImport, Start, Occupy, tenant, imported, inbound,
                accounts, work, local, history, bounds
<1>4. ASSUME NEW w \in Workers, NEW list \in Lists, ImportExport(w, list) PROVE Flags'
    BY <1>4 DEF ImportExport, BeginImport, Start, Occupy, tenant, imported, inbound, accounts,
                work, local, history, bounds
<1>5. ASSUME NEW w \in Workers, NEW m \in Messages, Receive(w, m) PROVE Flags'
    BY <1>5 DEF Receive, TakeEvent, FirstAwait, Start, Occupy, tenant, imported,
           inbound, accounts, work, local,
                history, bounds
<1>6. ASSUME NEW w \in Workers, NEW m \in Messages, ReplayEvent(w, m) PROVE Flags'
    BY <1>6 DEF ReplayEvent, Start, Occupy, tenant, imported, inbound, accounts, work, local,
                history, bounds
<1>7. ASSUME NEW w \in Workers, NEW e \in Emails, Register(w, e) PROVE Flags'
    BY <1>7 DEF Register, Start, Occupy, tenant, imported, inbound, accounts, work, local,
                history, bounds
<1>8. ASSUME NEW w \in Workers, NEW e \in Emails, CreateStaff(w, e) PROVE Flags'
    BY <1>8 DEF CreateStaff, Start, Occupy, tenant, imported, inbound, accounts, work, local,
                history, bounds
<1>9. ASSUME NEW w \in Workers, NEW e \in Emails, CheckIn(w, e) PROVE Flags'
    BY <1>9 DEF CheckIn, Start, Occupy, tenant, imported, inbound, accounts, work, local,
                history, bounds
<1>10. ASSUME NEW w \in Workers, NEW e \in Emails, CheckOut(w, e) PROVE Flags'
    BY <1>10 DEF CheckOut, Start, Occupy, tenant, imported, inbound, accounts, work, local,
                 history, bounds
<1>11. ASSUME NEW w \in Workers, CountCustomers(w) PROVE Flags'
    BY <1>11 DEF CountCustomers, Goto, Leave, LeaveTelling, Clear, tenant, imported,
                 inbound, accounts, work, local, history, bounds
<1>12. ASSUME NEW w \in Workers, InsertCustomer(w) PROVE Flags'
    BY <1>12 DEF InsertCustomer, LeaveTelling, Clear, tenant, imported, inbound,
                 accounts, work, local, history, bounds
<1>13. ASSUME NEW w \in Workers, UpsertCaller(w) PROVE Flags'
    BY <1>13 DEF UpsertCaller, LeaveTelling, Clear, tenant, imported, inbound,
                 accounts, work, local, history, bounds
<1>14. ASSUME NEW w \in Workers, UpsertRow(w) PROVE Flags'
    BY <1>14 DEF UpsertRow, tenant, imported, inbound, accounts, work, local, history,
                 bounds
<1>15. ASSUME NEW w \in Workers, MatchChats(w) PROVE Flags'
    BY <1>15 DEF MatchChats, NextChat, Matched, Leave, LeaveTelling, Clear, tenant,
                 imported, inbound, accounts, work, local, history, bounds
<1>16. ASSUME NEW w \in Workers, OpenThread(w) PROVE Flags'
    BY <1>16 DEF OpenThread, Goto, tenant, imported, inbound, accounts, work, local,
                 history, bounds
<1>17. ASSUME NEW w \in Workers, KeepLines(w) PROVE Flags'
    BY <1>17 DEF KeepLines, Goto, tenant,
                 imported, inbound, accounts, work, local, history, bounds
<1>18. ASSUME NEW w \in Workers, CreateLead(w) PROVE Flags'
    BY <1>18 DEF CreateLead, NextChat, Leave, LeaveTelling, Clear, tenant, imported,
                 inbound, accounts, work, local, history, bounds
<1>19. ASSUME NEW w \in Workers, UpsertSender(w) PROVE Flags'
    BY <1>19 DEF UpsertSender, Goto, tenant, imported, inbound, accounts, work, local,
                 history, bounds
<1>20. ASSUME NEW w \in Workers, LogMessage(w) PROVE Flags'
    BY <1>20 DEF LogMessage, Goto, tenant, imported, inbound, accounts, work, local,
                 history, bounds
<1>21. ASSUME NEW w \in Workers, EndMessage(w) PROVE Flags'
    BY <1>21 DEF EndMessage, Leave, LeaveTelling, Clear, tenant, imported, inbound,
                 accounts, work, local, history, bounds
<1>22. ASSUME NEW w \in Workers, NEW n \in Names, FindSlug(w, n) PROVE Flags'
    BY <1>22 DEF FindSlug, tenant, imported, inbound, accounts, work, local, history,
                 bounds
<1>23. ASSUME NEW w \in Workers, InsertTenant(w) PROVE Flags'
    BY <1>23 DEF InsertTenant, Leave, LeaveTelling, Clear, tenant, imported, inbound,
                 accounts, work, local, history, bounds
<1>24. ASSUME NEW w \in Workers, CountStaff(w) PROVE Flags'
    BY <1>24 DEF CountStaff, Goto, Leave, LeaveTelling, Clear, tenant, imported,
                 inbound, accounts, work, local, history, bounds
<1>25. ASSUME NEW w \in Workers, FindStaff(w) PROVE Flags'
    BY <1>25 DEF FindStaff, Goto, Leave, LeaveTelling, Clear, tenant, imported,
                 inbound, accounts, work, local, history, bounds
<1>26. ASSUME NEW w \in Workers, InsertStaff(w) PROVE Flags'
    BY <1>26 DEF InsertStaff, Leave, LeaveTelling, Clear, tenant, imported, inbound,
                 accounts, work, local, history, bounds
<1>27. ASSUME NEW w \in Workers, InsertShift(w) PROVE Flags'
    BY <1>27 DEF InsertShift, LeaveTelling, Clear, tenant, imported, inbound,
                 accounts, work, local, history, bounds
<1>28. ASSUME NEW w \in Workers, CloseShift(w) PROVE Flags'
    BY <1>28 DEF CloseShift, Leave, LeaveTelling, Clear, tenant, imported, inbound,
                 accounts, work, local, history, bounds
<1>29. ASSUME NEW w \in Workers, Abort(w) PROVE Flags'
    BY <1>29 DEF Abort, Leave, LeaveTelling, Clear, tenant, imported, inbound,
                 accounts, work, local, history, bounds
<1>30. ASSUME NEW e \in Emails, AddUser(e) PROVE Flags'
    BY <1>30 DEF AddUser, Edit, tenant, imported, inbound, accounts, work, local,
                 history, bounds
<1>31. ASSUME NEW e \in Emails, SetActive(e) PROVE Flags'
    BY <1>31 DEF SetActive, Edit, tenant, imported, inbound, accounts, work, local,
                 history, bounds
<1>32. ASSUME ApplyPlan PROVE Flags'
    BY <1>32 DEF ApplyPlan, Edit, tenant, imported, inbound, accounts, work, local,
                 history, bounds
<1>33. ASSUME ChangeBilling PROVE Flags'
    BY <1>33 DEF ChangeBilling, Edit, tenant, imported, inbound, accounts, work,
                 local, history, bounds
<1>34. ASSUME NEW w \in Workers, NEW m \in Messages, Redeliver(w, m) PROVE Flags'
    BY <1>34 DEF Redeliver, TakeEvent, FirstAwait, FreshStatus, Occupy, tenant,
           imported, inbound, accounts, work, local, history, bounds
<1>35. ASSUME NEW w \in Workers, AdmitImport(w) PROVE Flags'
    BY <1>35 DEF AdmitImport, Goto, Leave, LeaveTelling, Clear, tenant, imported,
           inbound, accounts, work, local, history, bounds
<1>36. ASSUME NEW w \in Workers, ReadLimit(w) PROVE Flags'
    BY <1>36 DEF ReadLimit, tenant, imported, inbound, accounts, work, local, history, bounds
<1>37. ASSUME NEW w \in Workers, TakeRows(w) PROVE Flags'
    BY <1>37 DEF TakeRows, tenant, imported, inbound, accounts, work, local, history, bounds
<1>38. ASSUME NEW w \in Workers, MirrorLines(w) PROVE Flags'
    BY <1>38 DEF MirrorLines, Goto, NextChat, Leave, LeaveTelling, Clear, tenant,
           imported, inbound, accounts, work, local, history, bounds
<1>39. CASE UNCHANGED vars
    BY <1>39 DEF vars, tenant, imported, inbound, accounts, work, local, history, bounds
<1> QED BY <1>1, <1>2, <1>3, <1>4, <1>5, <1>6, <1>7, <1>8, <1>9, <1>10, <1>11, <1>12,
           <1>13, <1>14, <1>15, <1>16, <1>17, <1>18, <1>19, <1>20, <1>21, <1>22,
           <1>23, <1>24, <1>25, <1>26, <1>27, <1>28, <1>29, <1>30, <1>31, <1>32,
           <1>33, <1>34, <1>35, <1>36, <1>37, <1>38, <1>39 DEF Next, Begin, Continue,
           UpdateStaff, UpdateUser

\* The columns stay in their domains.
LEMMA StepColumns == Typed /\ [Next]_vars => Columns'
<1> SUFFICES ASSUME Typed, [Next]_vars PROVE Columns'
    OBVIOUS
<1> USE BoundsAssumption DEF Typed, Columns, Agenda, Findings, OfPhone, OfMessage, OfEmail,
        EventStatus, StaffStatus
<1>1. ASSUME NEW w \in Workers, NEW p \in Phones, CreateCustomer(w, p) PROVE Columns'
    BY <1>1 DEF CreateCustomer, Start, Occupy, tenant, imported, inbound, accounts, work,
                local, history, bounds
<1>2. ASSUME NEW w \in Workers, NEW p \in Phones, BookForCaller(w, p) PROVE Columns'
    BY <1>2 DEF BookForCaller, Start, Occupy, tenant, imported, inbound, accounts, work,
                local, history, bounds
<1>3. ASSUME NEW w \in Workers, NEW list \in Lists, ImportCustomers(w, list) PROVE Columns'
    BY <1>3 DEF ImportCustomers, BeginImport, Start, Occupy, tenant, imported, inbound,
                accounts, work, local, history, bounds
<1>4. ASSUME NEW w \in Workers, NEW list \in Lists, ImportExport(w, list) PROVE Columns'
    BY <1>4 DEF ImportExport, BeginImport, Start, Occupy, tenant, imported, inbound, accounts,
                work, local, history, bounds
<1>5. ASSUME NEW w \in Workers, NEW m \in Messages, Receive(w, m) PROVE Columns'
    BY <1>5 DEF Receive, TakeEvent, FirstAwait, Start, Occupy, FreshStatus, tenant,
           imported, inbound, accounts,
                work, local, history, bounds
<1>6. ASSUME NEW w \in Workers, NEW m \in Messages, ReplayEvent(w, m) PROVE Columns'
    BY <1>6 DEF ReplayEvent, Start, Occupy, tenant, imported, inbound, accounts, work, local,
                history, bounds
<1>7. ASSUME NEW w \in Workers, NEW e \in Emails, Register(w, e) PROVE Columns'
    BY <1>7 DEF Register, Start, Occupy, tenant, imported, inbound, accounts, work, local,
                history, bounds
<1>8. ASSUME NEW w \in Workers, NEW e \in Emails, CreateStaff(w, e) PROVE Columns'
    BY <1>8 DEF CreateStaff, Start, Occupy, tenant, imported, inbound, accounts, work, local,
                history, bounds
<1>9. ASSUME NEW w \in Workers, NEW e \in Emails, CheckIn(w, e) PROVE Columns'
    BY <1>9 DEF CheckIn, Start, Occupy, tenant, imported, inbound, accounts, work, local,
                history, bounds
<1>10. ASSUME NEW w \in Workers, NEW e \in Emails, CheckOut(w, e) PROVE Columns'
    BY <1>10 DEF CheckOut, Start, Occupy, tenant, imported, inbound, accounts, work, local,
                 history, bounds
<1>11. ASSUME NEW w \in Workers, CountCustomers(w) PROVE Columns'
    BY <1>11 DEF CountCustomers, Goto, Leave, LeaveTelling, Clear, tenant, imported,
                 inbound, accounts, work, local, history, bounds
<1>12. ASSUME NEW w \in Workers, InsertCustomer(w) PROVE Columns'
    BY SMTT(20), <1>12, FS_AddElement DEF InsertCustomer, accounts, imported, inbound,
           work, tenant,
       bounds
<1>13. ASSUME NEW w \in Workers, UpsertCaller(w) PROVE Columns'
    BY SMTT(20), <1>13, FS_AddElement DEF UpsertCaller, accounts, imported, inbound,
           work, tenant,
       bounds
<1>14. ASSUME NEW w \in Workers, UpsertRow(w) PROVE Columns'
    <2>1. PICK p \in Phones : customers' = customers \cup {p}
        BY <1>14 DEF UpsertRow
    <2>2. customers' \subseteq Phones /\ IsFiniteSet(customers')
        BY <2>1, FS_AddElement
    <2> QED BY <1>14, <2>2 DEF UpsertRow, accounts, imported, inbound, work, tenant, bounds
<1>15. ASSUME NEW w \in Workers, MatchChats(w) PROVE Columns'
    BY <1>15 DEF MatchChats, NextChat, Matched, Leave, LeaveTelling, Clear, tenant,
                 imported, inbound, accounts, work, local, history, bounds
<1>16. ASSUME NEW w \in Workers, OpenThread(w) PROVE Columns'
    BY <1>16 DEF OpenThread, Goto, tenant, imported, inbound, accounts, work, local,
                 history, bounds
<1>17. ASSUME NEW w \in Workers, KeepLines(w) PROVE Columns'
    BY <1>17 DEF KeepLines, Goto, tenant,
                 imported, inbound, accounts, work, local, history, bounds
<1>18. ASSUME NEW w \in Workers, CreateLead(w) PROVE Columns'
    BY <1>18 DEF CreateLead, NextChat, Leave, LeaveTelling, Clear, tenant, imported,
                 inbound, accounts, work, local, history, bounds
<1>19. ASSUME NEW w \in Workers, UpsertSender(w) PROVE Columns'
    <2> DEFINE p == item[w].from
    <2>1. p \in Phones /\ customers' = customers \cup {p}
        BY <1>19, MessagesAssumption DEF UpsertSender
    <2> HIDE DEF p
    <2>2. customers' \subseteq Phones /\ IsFiniteSet(customers')
        BY <2>1, FS_AddElement
    <2> QED BY <1>19, <2>2 DEF UpsertSender, accounts, imported, inbound, work, tenant,
               bounds
<1>20. ASSUME NEW w \in Workers, LogMessage(w) PROVE Columns'
    BY <1>20 DEF LogMessage, Goto, tenant, imported, inbound, accounts, work, local,
                 history, bounds
<1>21. ASSUME NEW w \in Workers, EndMessage(w) PROVE Columns'
    BY <1>21 DEF EndMessage, Leave, LeaveTelling, Clear, Outcome, tenant, imported,
                 inbound, accounts, work, local, history, bounds
<1>22. ASSUME NEW w \in Workers, NEW n \in Names, FindSlug(w, n) PROVE Columns'
    BY <1>22 DEF FindSlug, tenant, imported, inbound, accounts, work, local, history,
                 bounds
<1>23. ASSUME NEW w \in Workers, InsertTenant(w) PROVE Columns'
    <2>1. UNCHANGED <<tenant, customers, imported, inbound, staff, work, bounds>>
        BY <1>23 DEF InsertTenant
    <2>2. item[w] \in Emails /\ found[w] \in [name : Names, number : Nat]
        BY <1>23 DEF InsertTenant
    <2>3. owners' \in [Emails -> Nat] /\ taken' \in [Names -> Nat]
        BY <1>23, <2>2 DEF InsertTenant
    <2> QED BY <2>1, <2>3 DEF tenant, imported, inbound, work, bounds
<1>24. ASSUME NEW w \in Workers, CountStaff(w) PROVE Columns'
    BY <1>24 DEF CountStaff, Goto, Leave, LeaveTelling, Clear, tenant, imported,
                 inbound, accounts, work, local, history, bounds
<1>25. ASSUME NEW w \in Workers, FindStaff(w) PROVE Columns'
    BY <1>25 DEF FindStaff, Goto, Leave, LeaveTelling, Clear, tenant, imported,
                 inbound, accounts, work, local, history, bounds
<1>26. ASSUME NEW w \in Workers, InsertStaff(w) PROVE Columns'
    BY <1>26 DEF InsertStaff, Leave, LeaveTelling, Clear, tenant, imported, inbound,
                 accounts, work, local, history, bounds
<1>27. ASSUME NEW w \in Workers, InsertShift(w) PROVE Columns'
    BY <1>27 DEF InsertShift, LeaveTelling, Clear, tenant, imported, inbound,
                 accounts, work, local, history, bounds
<1>28. ASSUME NEW w \in Workers, CloseShift(w) PROVE Columns'
    BY <1>28 DEF CloseShift, Leave, LeaveTelling, Clear, tenant, imported, inbound,
                 accounts, work, local, history, bounds
<1>29. ASSUME NEW w \in Workers, Abort(w) PROVE Columns'
    BY <1>29 DEF Abort, Leave, LeaveTelling, Clear, tenant, imported, inbound,
                 accounts, work, local, history, bounds
<1>30. ASSUME NEW e \in Emails, AddUser(e) PROVE Columns'
    BY <1>30 DEF AddUser, Edit, tenant, imported, inbound, accounts, work, local,
                 history, bounds
<1>31. ASSUME NEW e \in Emails, SetActive(e) PROVE Columns'
    BY <1>31 DEF SetActive, Edit, Staff, tenant, imported, inbound, accounts, work,
                 local, history, bounds
<1>32. ASSUME ApplyPlan PROVE Columns'
    BY <1>32 DEF ApplyPlan, Edit, tenant, imported, inbound, accounts, work, local,
                 history, bounds
<1>33. ASSUME ChangeBilling PROVE Columns'
    BY <1>33 DEF ChangeBilling, Edit, tenant, imported, inbound, accounts, work,
                 local, history, bounds
<1>34. ASSUME NEW w \in Workers, NEW m \in Messages, Redeliver(w, m) PROVE Columns'
    BY <1>34 DEF Redeliver, TakeEvent, FirstAwait, FreshStatus, Occupy, tenant,
           imported, inbound, accounts, work, local, history, bounds
<1>35. ASSUME NEW w \in Workers, AdmitImport(w) PROVE Columns'
    BY <1>35 DEF AdmitImport, Goto, Leave, LeaveTelling, Clear, tenant, imported,
           inbound, accounts, work, local, history, bounds
<1>36. ASSUME NEW w \in Workers, ReadLimit(w) PROVE Columns'
    BY <1>36 DEF ReadLimit, tenant, imported, inbound, accounts, work, local, history, bounds
<1>37. ASSUME NEW w \in Workers, TakeRows(w) PROVE Columns'
    BY <1>37 DEF TakeRows, tenant, imported, inbound, accounts, work, local, history, bounds
<1>38. ASSUME NEW w \in Workers, MirrorLines(w) PROVE Columns'
    BY <1>38 DEF MirrorLines, Goto, NextChat, Leave, LeaveTelling, Clear, tenant,
           imported, inbound, accounts, work, local, history, bounds
<1>39. CASE UNCHANGED vars
    BY <1>39 DEF vars, tenant, imported, inbound, accounts, work, local, history, bounds
<1> QED BY <1>1, <1>2, <1>3, <1>4, <1>5, <1>6, <1>7, <1>8, <1>9, <1>10, <1>11, <1>12,
           <1>13, <1>14, <1>15, <1>16, <1>17, <1>18, <1>19, <1>20, <1>21, <1>22,
           <1>23, <1>24, <1>25, <1>26, <1>27, <1>28, <1>29, <1>30, <1>31, <1>32,
           <1>33, <1>34, <1>35, <1>36, <1>37, <1>38, <1>39 DEF Next, Begin, Continue,
           UpdateStaff, UpdateUser

\* A call that ends leaves a typed agenda, whoever it tells ...
LEMMA LeaveAgenda ==
    ASSUME Agenda, NEW w \in Workers, NEW outdated, LeaveTelling(w, outdated),
           \A v \in outdated : v \in Workers /\ v # w /\ pc[v] # "idle"
    PROVE  Agenda'
BY DEF LeaveTelling, Clear, Agenda, Labels, OfPhone, OfMessage, OfEmail

\* ... and so does the step to the next conversation.
LEMMA NextChatAgenda ==
    ASSUME Agenda, NEW w \in Workers, NEW S \in SUBSET Phones, NextChat(w, S), pc[w] # "idle"
    PROVE  Agenda'
<1>1. CASE Leave(w)
    BY <1>1, LeaveAgenda DEF Leave
<1>2. CASE ~Leave(w)
    <2>1. PICK p \in S : /\ pc' = [pc EXCEPT ![w] = "thread"] /\ item' = [item EXCEPT ![w] = p]
                         /\ chats' = [chats EXCEPT ![w] = S \ {p}]
                         /\ UNCHANGED <<rows, found, replay, stale>>
        BY <1>2 DEF NextChat
    <2> QED BY <2>1 DEF Agenda, Labels, OfPhone, OfMessage, OfEmail
<1> QED BY <1>1, <1>2

\* The workers stay at what they work on.
LEMMA StepAgenda == Typed /\ [Next]_vars => Agenda'
<1> SUFFICES ASSUME Typed, [Next]_vars PROVE Agenda'
    OBVIOUS
<1> USE ListPhones, NoneAssumption DEF Typed, Columns, Agenda, Labels, OfPhone, OfMessage,
        OfEmail
<1>1. ASSUME NEW w \in Workers, NEW p \in Phones, CreateCustomer(w, p) PROVE Agenda'
    BY <1>1 DEF CreateCustomer, Start, Occupy, tenant, imported, inbound, accounts, work,
                local, history, bounds
<1>2. ASSUME NEW w \in Workers, NEW p \in Phones, BookForCaller(w, p) PROVE Agenda'
    BY <1>2 DEF BookForCaller, Start, Occupy, tenant, imported, inbound, accounts, work,
                local, history, bounds
<1>3. ASSUME NEW w \in Workers, NEW list \in Lists, ImportCustomers(w, list) PROVE Agenda'
    BY <1>3 DEF ImportCustomers, BeginImport, Start, Occupy, tenant, imported, inbound,
                accounts, work, local, history, bounds
<1>4. ASSUME NEW w \in Workers, NEW list \in Lists, ImportExport(w, list) PROVE Agenda'
    BY <1>4 DEF ImportExport, BeginImport, Start, Occupy, tenant, imported, inbound, accounts,
                work, local, history, bounds
<1>5. ASSUME NEW w \in Workers, NEW m \in Messages, Receive(w, m) PROVE Agenda'
    BY <1>5 DEF Receive, TakeEvent, FirstAwait, Start, Occupy, tenant, imported,
           inbound, accounts, work, local,
                history, bounds
<1>6. ASSUME NEW w \in Workers, NEW m \in Messages, ReplayEvent(w, m) PROVE Agenda'
    BY <1>6 DEF ReplayEvent, Start, Occupy, tenant, imported, inbound, accounts, work, local,
                history, bounds
<1>7. ASSUME NEW w \in Workers, NEW e \in Emails, Register(w, e) PROVE Agenda'
    BY <1>7 DEF Register, Start, Occupy, tenant, imported, inbound, accounts, work, local,
                history, bounds
<1>8. ASSUME NEW w \in Workers, NEW e \in Emails, CreateStaff(w, e) PROVE Agenda'
    BY <1>8 DEF CreateStaff, Start, Occupy, tenant, imported, inbound, accounts, work, local,
                history, bounds
<1>9. ASSUME NEW w \in Workers, NEW e \in Emails, CheckIn(w, e) PROVE Agenda'
    BY <1>9 DEF CheckIn, Start, Occupy, tenant, imported, inbound, accounts, work, local,
                history, bounds
<1>10. ASSUME NEW w \in Workers, NEW e \in Emails, CheckOut(w, e) PROVE Agenda'
    BY <1>10 DEF CheckOut, Start, Occupy, tenant, imported, inbound, accounts, work, local,
                 history, bounds
<1>11. ASSUME NEW w \in Workers, CountCustomers(w) PROVE Agenda'
    <2>1. CASE Leave(w)
        BY <2>1, LeaveAgenda DEF Leave
    <2> QED BY <1>11, <2>1 DEF CountCustomers, Goto
<1>12. ASSUME NEW w \in Workers, InsertCustomer(w) PROVE Agenda'
    BY <1>12, LeaveAgenda DEF InsertCustomer, OutdatedBy, Others, ByCustomers
<1>13. ASSUME NEW w \in Workers, UpsertCaller(w) PROVE Agenda'
    BY <1>13, LeaveAgenda DEF UpsertCaller, OutdatedBy, Others, ByCustomers
<1>14. ASSUME NEW w \in Workers, UpsertRow(w) PROVE Agenda'
    <2>1. PICK p \in rows[w] : /\ rows' = [rows EXCEPT ![w] = rows[w] \ {p}] /\ pc[w] = "rows"
                               /\ UNCHANGED <<pc, item, chats, found, replay>>
                               /\ stale' = stale \cup OutdatedBy(w, p)
        BY <1>14 DEF UpsertRow
    <2>2. \A v \in OutdatedBy(w, p) : v \in Workers /\ pc[v] # "idle"
        BY DEF OutdatedBy, Others, ByCustomers
    <2> QED BY <2>1, <2>2
<1>15. ASSUME NEW w \in Workers, MatchChats(w) PROVE Agenda'
    <2>1. Matched(chats[w]) \in SUBSET Phones
        BY DEF Matched
    <2> QED BY <1>15, <2>1, NextChatAgenda DEF MatchChats
<1>16. ASSUME NEW w \in Workers, OpenThread(w) PROVE Agenda'
    BY <1>16 DEF OpenThread, Goto, tenant, imported, inbound, accounts, work, local,
                 history, bounds
<1>17. ASSUME NEW w \in Workers, KeepLines(w) PROVE Agenda'
    BY <1>17 DEF KeepLines, Goto, tenant, imported, inbound, accounts, work, local,
                 history, bounds
<1>18. ASSUME NEW w \in Workers, CreateLead(w) PROVE Agenda'
    BY <1>18, NextChatAgenda DEF CreateLead
<1>19. ASSUME NEW w \in Workers, UpsertSender(w) PROVE Agenda'
    BY <1>19 DEF UpsertSender, Goto, OutdatedBy, Others, ByCustomers, tenant,
                 imported, inbound, accounts, work, local, history, bounds
<1>20. ASSUME NEW w \in Workers, LogMessage(w) PROVE Agenda'
    BY <1>20 DEF LogMessage, Goto, tenant, imported, inbound, accounts, work, local,
                 history, bounds
<1>21. ASSUME NEW w \in Workers, EndMessage(w) PROVE Agenda'
    BY <1>21, LeaveAgenda DEF EndMessage, Leave
<1>22. ASSUME NEW w \in Workers, NEW n \in Names, FindSlug(w, n) PROVE Agenda'
    BY <1>22 DEF FindSlug, tenant, imported, inbound, accounts, work, local, history,
                 bounds
<1>23. ASSUME NEW w \in Workers, InsertTenant(w) PROVE Agenda'
    BY <1>23, LeaveAgenda DEF InsertTenant, Leave, OthersOn, Others, ByEmail
<1>24. ASSUME NEW w \in Workers, CountStaff(w) PROVE Agenda'
    <2>1. CASE Leave(w)
        BY <2>1, LeaveAgenda DEF Leave
    <2> QED BY <1>24, <2>1 DEF CountStaff, Goto
<1>25. ASSUME NEW w \in Workers, FindStaff(w) PROVE Agenda'
    <2>1. CASE Leave(w)
        BY <2>1, LeaveAgenda DEF Leave
    <2> QED BY <1>25, <2>1 DEF FindStaff, Goto
<1>26. ASSUME NEW w \in Workers, InsertStaff(w) PROVE Agenda'
    BY <1>26, LeaveAgenda DEF InsertStaff, Leave, OthersOn, Others, ByEmail, ByStaff
<1>27. ASSUME NEW w \in Workers, InsertShift(w) PROVE Agenda'
    BY <1>27, LeaveAgenda DEF InsertShift, OthersOn, Others
<1>28. ASSUME NEW w \in Workers, CloseShift(w) PROVE Agenda'
    BY <1>28, LeaveAgenda DEF CloseShift, Leave
<1>29. ASSUME NEW w \in Workers, Abort(w) PROVE Agenda'
    BY <1>29, LeaveAgenda DEF Abort, Leave
<1>30. ASSUME NEW e \in Emails, AddUser(e) PROVE Agenda'
    BY <1>30 DEF AddUser, Edit, OthersOn, Others, ByEmail, ByStaff, tenant, imported,
                 inbound, accounts, work, local, history, bounds
<1>31. ASSUME NEW e \in Emails, SetActive(e) PROVE Agenda'
    BY <1>31 DEF SetActive, Edit, Others, ByStaff, tenant, imported, inbound,
                 accounts, work, local, history, bounds
<1>32. ASSUME ApplyPlan PROVE Agenda'
    BY <1>32 DEF ApplyPlan, Edit, Others, ByLimit, ByStaff, ByCustomers, tenant,
                 imported, inbound, accounts, work, local, history, bounds
<1>33. ASSUME ChangeBilling PROVE Agenda'
    BY <1>33 DEF ChangeBilling, Edit, Others, Creating, ByLimit, ByStaff, ByCustomers, tenant,
                 imported, inbound, accounts, work, local, history, bounds
<1>34. ASSUME NEW w \in Workers, NEW m \in Messages, Redeliver(w, m) PROVE Agenda'
    BY <1>34 DEF Redeliver, TakeEvent, FirstAwait, FreshStatus, Occupy, tenant,
           imported, inbound, accounts, work, local, history, bounds
<1>35. ASSUME NEW w \in Workers, AdmitImport(w) PROVE Agenda'
    <2>1. CASE Leave(w)
        BY <2>1, LeaveAgenda DEF Leave
    <2> QED BY <1>35, <2>1 DEF AdmitImport, Goto
<1>36. ASSUME NEW w \in Workers, ReadLimit(w) PROVE Agenda'
    BY <1>36 DEF ReadLimit, tenant, imported, inbound, accounts, work, local, history, bounds
<1>37. ASSUME NEW w \in Workers, TakeRows(w) PROVE Agenda'
    <2> DEFINE S == FirstRows(found[w].list, found[w].limit)
    <2>1. S \subseteq Phones
        BY <1>37, ListPhones DEF TakeRows, Findings
    <2> HIDE DEF S
    <2>2. rows' = [rows EXCEPT ![w] = S] /\ pc' = [pc EXCEPT ![w] = "rows"]
          /\ pc[w] = "room" /\ UNCHANGED <<item, chats, replay, stale>>
        BY <1>37 DEF TakeRows, S, history
    <2> QED BY <2>1, <2>2
<1>38. ASSUME NEW w \in Workers, MirrorLines(w) PROVE Agenda'
    <2>1. CASE NextChat(w, chats[w])
        BY <1>38, <2>1, NextChatAgenda DEF MirrorLines
    <2>2. CASE Goto(w, "lead") /\ UNCHANGED stale
        BY <1>38, <2>2 DEF MirrorLines, Goto
    <2> QED BY <1>38, <2>1, <2>2 DEF MirrorLines
<1>39. CASE UNCHANGED vars
    BY <1>39 DEF vars, tenant, imported, inbound, accounts, work, local, history, bounds
<1> QED BY <1>1, <1>2, <1>3, <1>4, <1>5, <1>6, <1>7, <1>8, <1>9, <1>10, <1>11, <1>12,
           <1>13, <1>14, <1>15, <1>16, <1>17, <1>18, <1>19, <1>20, <1>21, <1>22,
           <1>23, <1>24, <1>25, <1>26, <1>27, <1>28, <1>29, <1>30, <1>31, <1>32,
           <1>33, <1>34, <1>35, <1>36, <1>37, <1>38, <1>39 DEF Next, Begin, Continue,
           UpdateStaff, UpdateUser

\* A registration keeps the slug it found, an import its list and the limit.
LEMMA StepFindings == Typed /\ [Next]_vars => Findings'
<1> SUFFICES ASSUME Typed, [Next]_vars PROVE Findings'
    OBVIOUS
<1> USE DEF Typed, Columns, Agenda, Findings, Labels
<1>1. ASSUME NEW w \in Workers, NEW p \in Phones, CreateCustomer(w, p) PROVE Findings'
    BY <1>1 DEF CreateCustomer, Start, Occupy, tenant, imported, inbound, accounts, work,
                local, history, bounds
<1>2. ASSUME NEW w \in Workers, NEW p \in Phones, BookForCaller(w, p) PROVE Findings'
    BY <1>2 DEF BookForCaller, Start, Occupy, tenant, imported, inbound, accounts, work,
                local, history, bounds
<1>3. ASSUME NEW w \in Workers, NEW list \in Lists, ImportCustomers(w, list) PROVE Findings'
    BY <1>3 DEF ImportCustomers, BeginImport, Start, Occupy, tenant, imported, inbound,
                accounts, work, local, history, bounds
<1>4. ASSUME NEW w \in Workers, NEW list \in Lists, ImportExport(w, list) PROVE Findings'
    BY <1>4 DEF ImportExport, BeginImport, Start, Occupy, tenant, imported, inbound, accounts,
                work, local, history, bounds
<1>5. ASSUME NEW w \in Workers, NEW m \in Messages, Receive(w, m) PROVE Findings'
    BY <1>5 DEF Receive, TakeEvent, FirstAwait, Start, Occupy, tenant, imported,
           inbound, accounts, work, local,
                history, bounds
<1>6. ASSUME NEW w \in Workers, NEW m \in Messages, ReplayEvent(w, m) PROVE Findings'
    BY <1>6 DEF ReplayEvent, Start, Occupy, tenant, imported, inbound, accounts, work, local,
                history, bounds
<1>7. ASSUME NEW w \in Workers, NEW e \in Emails, Register(w, e) PROVE Findings'
    BY <1>7 DEF Register, Start, Occupy, tenant, imported, inbound, accounts, work, local,
                history, bounds
<1>8. ASSUME NEW w \in Workers, NEW e \in Emails, CreateStaff(w, e) PROVE Findings'
    BY <1>8 DEF CreateStaff, Start, Occupy, tenant, imported, inbound, accounts, work, local,
                history, bounds
<1>9. ASSUME NEW w \in Workers, NEW e \in Emails, CheckIn(w, e) PROVE Findings'
    BY <1>9 DEF CheckIn, Start, Occupy, tenant, imported, inbound, accounts, work, local,
                history, bounds
<1>10. ASSUME NEW w \in Workers, NEW e \in Emails, CheckOut(w, e) PROVE Findings'
    BY <1>10 DEF CheckOut, Start, Occupy, tenant, imported, inbound, accounts, work, local,
                 history, bounds
<1>11. ASSUME NEW w \in Workers, CountCustomers(w) PROVE Findings'
    BY <1>11 DEF CountCustomers, Goto, Leave, LeaveTelling, Clear, tenant, imported,
                 inbound, accounts, work, local, history, bounds
<1>12. ASSUME NEW w \in Workers, InsertCustomer(w) PROVE Findings'
    BY <1>12 DEF InsertCustomer, LeaveTelling, Clear, tenant, imported, inbound,
                 accounts, work, local, history, bounds
<1>13. ASSUME NEW w \in Workers, UpsertCaller(w) PROVE Findings'
    BY <1>13 DEF UpsertCaller, LeaveTelling, Clear, tenant, imported, inbound,
                 accounts, work, local, history, bounds
<1>14. ASSUME NEW w \in Workers, UpsertRow(w) PROVE Findings'
    BY <1>14 DEF UpsertRow, tenant, imported, inbound, accounts, work, local, history,
                 bounds
<1>15. ASSUME NEW w \in Workers, MatchChats(w) PROVE Findings'
    BY <1>15 DEF MatchChats, NextChat, Matched, Leave, LeaveTelling, Clear, tenant,
                 imported, inbound, accounts, work, local, history, bounds
<1>16. ASSUME NEW w \in Workers, OpenThread(w) PROVE Findings'
    BY <1>16 DEF OpenThread, Goto, tenant, imported, inbound, accounts, work, local,
                 history, bounds
<1>17. ASSUME NEW w \in Workers, KeepLines(w) PROVE Findings'
    BY <1>17 DEF KeepLines, Goto, tenant,
                 imported, inbound, accounts, work, local, history, bounds
<1>18. ASSUME NEW w \in Workers, CreateLead(w) PROVE Findings'
    BY <1>18 DEF CreateLead, NextChat, Leave, LeaveTelling, Clear, tenant, imported,
                 inbound, accounts, work, local, history, bounds
<1>19. ASSUME NEW w \in Workers, UpsertSender(w) PROVE Findings'
    BY <1>19 DEF UpsertSender, Goto, tenant, imported, inbound, accounts, work, local,
                 history, bounds
<1>20. ASSUME NEW w \in Workers, LogMessage(w) PROVE Findings'
    BY <1>20 DEF LogMessage, Goto, tenant, imported, inbound, accounts, work, local,
                 history, bounds
<1>21. ASSUME NEW w \in Workers, EndMessage(w) PROVE Findings'
    BY <1>21 DEF EndMessage, Leave, LeaveTelling, Clear, tenant, imported, inbound,
                 accounts, work, local, history, bounds
<1>22. ASSUME NEW w \in Workers, NEW n \in Names, FindSlug(w, n) PROVE Findings'
    BY <1>22 DEF FindSlug, tenant, imported, inbound, accounts, work, local, history,
                 bounds
<1>23. ASSUME NEW w \in Workers, InsertTenant(w) PROVE Findings'
    BY <1>23 DEF InsertTenant, Leave, LeaveTelling, Clear, tenant, imported, inbound,
                 accounts, work, local, history, bounds
<1>24. ASSUME NEW w \in Workers, CountStaff(w) PROVE Findings'
    BY <1>24 DEF CountStaff, Goto, Leave, LeaveTelling, Clear, tenant, imported,
                 inbound, accounts, work, local, history, bounds
<1>25. ASSUME NEW w \in Workers, FindStaff(w) PROVE Findings'
    BY <1>25 DEF FindStaff, Goto, Leave, LeaveTelling, Clear, tenant, imported,
                 inbound, accounts, work, local, history, bounds
<1>26. ASSUME NEW w \in Workers, InsertStaff(w) PROVE Findings'
    <2>1. Clear(w)
        BY <1>26 DEF InsertStaff, Leave, LeaveTelling
    <2> QED BY <2>1 DEF Clear
<1>27. ASSUME NEW w \in Workers, InsertShift(w) PROVE Findings'
    BY <1>27 DEF InsertShift, LeaveTelling, Clear, tenant, imported, inbound,
                 accounts, work, local, history, bounds
<1>28. ASSUME NEW w \in Workers, CloseShift(w) PROVE Findings'
    BY <1>28 DEF CloseShift, Leave, LeaveTelling, Clear, tenant, imported, inbound,
                 accounts, work, local, history, bounds
<1>29. ASSUME NEW w \in Workers, Abort(w) PROVE Findings'
    BY <1>29 DEF Abort, Leave, LeaveTelling, Clear, tenant, imported, inbound,
                 accounts, work, local, history, bounds
<1>30. ASSUME NEW e \in Emails, AddUser(e) PROVE Findings'
    BY <1>30 DEF AddUser, Edit, tenant, imported, inbound, accounts, work, local,
                 history, bounds
<1>31. ASSUME NEW e \in Emails, SetActive(e) PROVE Findings'
    BY <1>31 DEF SetActive, Edit, tenant, imported, inbound, accounts, work, local,
                 history, bounds
<1>32. ASSUME ApplyPlan PROVE Findings'
    BY <1>32 DEF ApplyPlan, Edit, tenant, imported, inbound, accounts, work, local,
                 history, bounds
<1>33. ASSUME ChangeBilling PROVE Findings'
    BY <1>33 DEF ChangeBilling, Edit, tenant, imported, inbound, accounts, work,
                 local, history, bounds
<1>34. ASSUME NEW w \in Workers, NEW m \in Messages, Redeliver(w, m) PROVE Findings'
    BY <1>34 DEF Redeliver, TakeEvent, FirstAwait, FreshStatus, Occupy, tenant,
           imported, inbound, accounts, work, local, history, bounds
<1>35. ASSUME NEW w \in Workers, AdmitImport(w) PROVE Findings'
    BY <1>35 DEF AdmitImport, Goto, Leave, LeaveTelling, Clear, tenant, imported,
           inbound, accounts, work, local, history, bounds
<1>36. ASSUME NEW w \in Workers, ReadLimit(w) PROVE Findings'
    <2>1. plan.customers \in Nat \cup {NONE} /\ found[w].list \in Lists
        BY <1>36, PlansAssumption DEF ReadLimit
    <2>2. /\ found' = [found EXCEPT ![w] = [list |-> found[w].list, limit |-> plan.customers]]
          /\ pc' = [pc EXCEPT ![w] = "room"]
        BY <1>36 DEF ReadLimit
    <2> QED BY <2>1, <2>2
<1>37. ASSUME NEW w \in Workers, TakeRows(w) PROVE Findings'
    BY <1>37 DEF TakeRows, tenant, imported, inbound, accounts, work, local, history, bounds
<1>38. ASSUME NEW w \in Workers, MirrorLines(w) PROVE Findings'
    BY <1>38 DEF MirrorLines, Goto, NextChat, Leave, LeaveTelling, Clear, tenant,
           imported, inbound, accounts, work, local, history, bounds
<1>39. CASE UNCHANGED vars
    BY <1>39 DEF vars, tenant, imported, inbound, accounts, work, local, history, bounds
<1> QED BY <1>1, <1>2, <1>3, <1>4, <1>5, <1>6, <1>7, <1>8, <1>9, <1>10, <1>11, <1>12,
           <1>13, <1>14, <1>15, <1>16, <1>17, <1>18, <1>19, <1>20, <1>21, <1>22,
           <1>23, <1>24, <1>25, <1>26, <1>27, <1>28, <1>29, <1>30, <1>31, <1>32,
           <1>33, <1>34, <1>35, <1>36, <1>37, <1>38, <1>39 DEF Next, Begin, Continue,
           UpdateStaff, UpdateUser

\* No row is taken away from under another.
LEMMA StepRefers == Typed /\ [Next]_vars => Refers'
<1> SUFFICES ASSUME Typed, [Next]_vars PROVE Refers'
    OBVIOUS
<1> USE NoneAssumption DEF Typed, Columns, Agenda, Refers, OfPhone, OfMessage, OfEmail,
        Labels, StaffStatus
<1>1. ASSUME NEW w \in Workers, NEW p \in Phones, CreateCustomer(w, p) PROVE Refers'
    BY <1>1 DEF CreateCustomer, Start, Occupy, tenant, imported, inbound, accounts, work,
                local, history, bounds
<1>2. ASSUME NEW w \in Workers, NEW p \in Phones, BookForCaller(w, p) PROVE Refers'
    BY <1>2 DEF BookForCaller, Start, Occupy, tenant, imported, inbound, accounts, work,
                local, history, bounds
<1>3. ASSUME NEW w \in Workers, NEW list \in Lists, ImportCustomers(w, list) PROVE Refers'
    BY <1>3 DEF ImportCustomers, BeginImport, Start, Occupy, tenant, imported, inbound,
                accounts, work, local, history, bounds
<1>4. ASSUME NEW w \in Workers, NEW list \in Lists, ImportExport(w, list) PROVE Refers'
    BY <1>4 DEF ImportExport, BeginImport, Start, Occupy, tenant, imported, inbound, accounts,
                work, local, history, bounds
<1>5. ASSUME NEW w \in Workers, NEW m \in Messages, Receive(w, m) PROVE Refers'
    BY <1>5 DEF Receive, TakeEvent, FirstAwait, Start, Occupy, tenant, imported,
           inbound, accounts, work, local,
                history, bounds
<1>6. ASSUME NEW w \in Workers, NEW m \in Messages, ReplayEvent(w, m) PROVE Refers'
    BY <1>6 DEF ReplayEvent, Start, Occupy, tenant, imported, inbound, accounts, work, local,
                history, bounds
<1>7. ASSUME NEW w \in Workers, NEW e \in Emails, Register(w, e) PROVE Refers'
    BY <1>7 DEF Register, Start, Occupy, tenant, imported, inbound, accounts, work, local,
                history, bounds
<1>8. ASSUME NEW w \in Workers, NEW e \in Emails, CreateStaff(w, e) PROVE Refers'
    BY <1>8 DEF CreateStaff, Start, Occupy, tenant, imported, inbound, accounts, work, local,
                history, bounds
<1>9. ASSUME NEW w \in Workers, NEW e \in Emails, CheckIn(w, e) PROVE Refers'
    BY <1>9 DEF CheckIn, Start, Occupy, Admitted, Active, tenant, imported, inbound, accounts,
                work, local, history, bounds
<1>10. ASSUME NEW w \in Workers, NEW e \in Emails, CheckOut(w, e) PROVE Refers'
    BY <1>10 DEF CheckOut, Start, Occupy, tenant, imported, inbound, accounts, work, local,
                 history, bounds
<1>11. ASSUME NEW w \in Workers, CountCustomers(w) PROVE Refers'
    BY <1>11 DEF CountCustomers, Goto, Leave, LeaveTelling, Clear, tenant, imported,
                 inbound, accounts, work, local, history, bounds
<1>12. ASSUME NEW w \in Workers, InsertCustomer(w) PROVE Refers'
    BY <1>12 DEF InsertCustomer, LeaveTelling, Clear, tenant, imported, inbound,
                 accounts, work, local, history, bounds
<1>13. ASSUME NEW w \in Workers, UpsertCaller(w) PROVE Refers'
    BY <1>13 DEF UpsertCaller, LeaveTelling, Clear, tenant, imported, inbound,
                 accounts, work, local, history, bounds
<1>14. ASSUME NEW w \in Workers, UpsertRow(w) PROVE Refers'
    BY <1>14 DEF UpsertRow, tenant, imported, inbound, accounts, work, local, history,
                 bounds
<1>15. ASSUME NEW w \in Workers, MatchChats(w) PROVE Refers'
    <2>1. Matched(chats[w]) \subseteq customers
        BY DEF Matched
    <2> HIDE DEF Matched
    <2> QED BY <1>15, <2>1 DEF MatchChats, NextChat, Leave, LeaveTelling, Clear, imported,
               inbound, accounts, work
<1>16. ASSUME NEW w \in Workers, OpenThread(w) PROVE Refers'
    BY <1>16 DEF OpenThread, Goto, tenant, imported, inbound, accounts, work, local,
                 history, bounds
<1>17. ASSUME NEW w \in Workers, KeepLines(w) PROVE Refers'
    BY <1>17 DEF KeepLines, Goto, tenant,
                 imported, inbound, accounts, work, local, history, bounds
<1>18. ASSUME NEW w \in Workers, CreateLead(w) PROVE Refers'
    BY <1>18 DEF CreateLead, NextChat, Leave, LeaveTelling, Clear, tenant, imported,
                 inbound, accounts, work, local, history, bounds
<1>19. ASSUME NEW w \in Workers, UpsertSender(w) PROVE Refers'
    BY <1>19 DEF UpsertSender, Goto, tenant, imported, inbound, accounts, work, local,
                 history, bounds
<1>20. ASSUME NEW w \in Workers, LogMessage(w) PROVE Refers'
    BY <1>20 DEF LogMessage, Goto, tenant, imported, inbound, accounts, work, local,
                 history, bounds
<1>21. ASSUME NEW w \in Workers, EndMessage(w) PROVE Refers'
    BY <1>21 DEF EndMessage, Leave, LeaveTelling, Clear, tenant, imported, inbound,
                 accounts, work, local, history, bounds
<1>22. ASSUME NEW w \in Workers, NEW n \in Names, FindSlug(w, n) PROVE Refers'
    BY <1>22 DEF FindSlug, tenant, imported, inbound, accounts, work, local, history,
                 bounds
<1>23. ASSUME NEW w \in Workers, InsertTenant(w) PROVE Refers'
    <2>1. Clear(w)
        BY <1>23 DEF InsertTenant, Leave, LeaveTelling
    <2>2. UNCHANGED <<customers, threads, logs, staff, shifts, open>>
        BY <1>23 DEF InsertTenant, imported, inbound, work
    <2> QED BY <2>1, <2>2 DEF Clear
<1>24. ASSUME NEW w \in Workers, CountStaff(w) PROVE Refers'
    BY <1>24 DEF CountStaff, Goto, Leave, LeaveTelling, Clear, tenant, imported,
                 inbound, accounts, work, local, history, bounds
<1>25. ASSUME NEW w \in Workers, FindStaff(w) PROVE Refers'
    BY <1>25 DEF FindStaff, Goto, Leave, LeaveTelling, Clear, tenant, imported,
                 inbound, accounts, work, local, history, bounds
<1>26. ASSUME NEW w \in Workers, InsertStaff(w) PROVE Refers'
    <2>1. \A e \in Emails : staff[e] # NONE => staff'[e] # NONE
        BY <1>26 DEF InsertStaff
    <2>2. Clear(w)
        BY <1>26 DEF InsertStaff, Leave, LeaveTelling
    <2>3. UNCHANGED <<customers, threads, logs, shifts, open>>
        BY <1>26 DEF InsertStaff, imported, inbound, work
    <2> QED BY <2>1, <2>2, <2>3 DEF Clear
<1>27. ASSUME NEW w \in Workers, InsertShift(w) PROVE Refers'
    BY <1>27 DEF InsertShift, LeaveTelling, Clear, tenant, imported, inbound,
                 accounts, work, local, history, bounds
<1>28. ASSUME NEW w \in Workers, CloseShift(w) PROVE Refers'
    BY <1>28 DEF CloseShift, Leave, LeaveTelling, Clear, tenant, imported, inbound,
                 accounts, work, local, history, bounds
<1>29. ASSUME NEW w \in Workers, Abort(w) PROVE Refers'
    BY <1>29 DEF Abort, Leave, LeaveTelling, Clear, tenant, imported, inbound,
                 accounts, work, local, history, bounds
<1>30. ASSUME NEW e \in Emails, AddUser(e) PROVE Refers'
    BY <1>30 DEF AddUser, Edit, tenant, imported, inbound, accounts, work, local,
                 history, bounds
<1>31. ASSUME NEW e \in Emails, SetActive(e) PROVE Refers'
    BY <1>31 DEF SetActive, Edit, Staff, tenant, imported, inbound, accounts, work,
                 local, history, bounds
<1>32. ASSUME ApplyPlan PROVE Refers'
    BY <1>32 DEF ApplyPlan, Edit, tenant, imported, inbound, accounts, work, local,
                 history, bounds
<1>33. ASSUME ChangeBilling PROVE Refers'
    BY <1>33 DEF ChangeBilling, Edit, tenant, imported, inbound, accounts, work,
                 local, history, bounds
<1>34. ASSUME NEW w \in Workers, NEW m \in Messages, Redeliver(w, m) PROVE Refers'
    BY <1>34 DEF Redeliver, TakeEvent, FirstAwait, FreshStatus, Occupy, tenant,
           imported, inbound, accounts, work, local, history, bounds
<1>35. ASSUME NEW w \in Workers, AdmitImport(w) PROVE Refers'
    BY <1>35 DEF AdmitImport, Goto, Leave, LeaveTelling, Clear, tenant, imported,
           inbound, accounts, work, local, history, bounds
<1>36. ASSUME NEW w \in Workers, ReadLimit(w) PROVE Refers'
    BY <1>36 DEF ReadLimit, tenant, imported, inbound, accounts, work, local, history, bounds
<1>37. ASSUME NEW w \in Workers, TakeRows(w) PROVE Refers'
    BY <1>37 DEF TakeRows, tenant, imported, inbound, accounts, work, local, history, bounds
<1>38. ASSUME NEW w \in Workers, MirrorLines(w) PROVE Refers'
    BY <1>38 DEF MirrorLines, Goto, NextChat, Leave, LeaveTelling, Clear, tenant,
           imported, inbound, accounts, work, local, history, bounds
<1>39. CASE UNCHANGED vars
    BY <1>39 DEF vars, tenant, imported, inbound, accounts, work, local, history, bounds
<1> QED BY <1>1, <1>2, <1>3, <1>4, <1>5, <1>6, <1>7, <1>8, <1>9, <1>10, <1>11, <1>12,
           <1>13, <1>14, <1>15, <1>16, <1>17, <1>18, <1>19, <1>20, <1>21, <1>22,
           <1>23, <1>24, <1>25, <1>26, <1>27, <1>28, <1>29, <1>30, <1>31, <1>32,
           <1>33, <1>34, <1>35, <1>36, <1>37, <1>38, <1>39 DEF Next, Begin, Continue,
           UpdateStaff, UpdateUser

\* Rows, snapshots and agendas stay in their domains and refer to what is
\* there, however many calls come in and wherever they fail.
THEOREM TypeCorrect == Spec => []TypeOK
<1>1. Typed => TypeOK
    BY DEF Typed, Flags, Columns, Agenda, Refers, TypeOK, Staff
<1>2. Typed /\ [Next]_vars => Typed'
    BY StepFlags, StepColumns, StepAgenda, StepFindings, StepRefers DEF Typed
<1> QED BY InitTyped, <1>1, <1>2, PTL DEF Spec

(***************************************************************************)
(* What a customer wrote                                                   *)
(***************************************************************************)
\* A worker is about to log the message.
Pending(w, m) == item[w] = m /\ pc[w] \in {"customer", "log"}

\* A message whose event is processed is logged, or it will be, or a call failed at
\* it; it has an event before it is pending; and what has come in once is logged
\* once, by one worker.
Processed(m) ==
    event[m] = "PROCESSED" => logs[m] > 0 \/ m \in broken \/ \E w \in Workers : Pending(w, m)

Announced(m) == event[m] = NONE => logs[m] = 0 /\ \A w \in Workers : ~Pending(w, m)

Once(m) == m \notin again =>
    /\ logs[m] <= 1 /\ (logs[m] > 0 => Processable(m))
    /\ \A w \in Workers : Pending(w, m) => logs[m] = 0 /\ Processable(m)
    /\ \A v, w \in Workers : Pending(v, m) /\ Pending(w, m) => v = w

LoggedFirst == \A w \in Workers :
    /\ pc[w] = "logged"  => logs[item[w]] > 0
    /\ pc[w] = "ignored" => ~Processable(item[w])

Inbound == (\A m \in Messages : Processed(m) /\ Announced(m) /\ Once(m)) /\ LoggedFirst

\* Nothing has come in at first.
LEMMA InitInbound == Init => Inbound
BY NoneAssumption DEF Init, Inbound, Processed, Announced, Once, LoggedFirst, Pending,
   EventStatus

\* A step that neither touches the messages nor what works on them keeps it.
LEMMA Aside ==
    ASSUME Typed, Inbound, NEW w \in Workers, NEW l, NEW i,
           pc[w] \notin OfMessage, l \notin OfMessage,
           pc' = [pc EXCEPT ![w] = l], item' = [item EXCEPT ![w] = i],
           UNCHANGED inbound, UNCHANGED again, broken \subseteq broken'
    PROVE  Inbound'
<1> USE DEF Typed, Agenda, OfMessage, inbound
<1>1. \A v \in Workers, m \in Messages : Pending(v, m)' <=> Pending(v, m)
    BY DEF Pending
<1>2. \A v \in Workers : pc'[v] \in {"logged", "ignored"} => pc[v] = pc'[v] /\ item'[v] = item[v]
    OBVIOUS
<1>3. LoggedFirst'
    BY <1>2 DEF LoggedFirst, Inbound, Processable
<1>4. ASSUME NEW m \in Messages PROVE Processed(m)' /\ Announced(m)' /\ Once(m)'
    BY <1>1, Zenon DEF Inbound, Processed, Announced, Once
<1> QED BY <1>3, <1>4 DEF Inbound

\* Every step keeps it.
LEMMA StepInbound == Typed /\ Inbound /\ [Next]_vars => Inbound'
<1> SUFFICES ASSUME Typed /\ Inbound, [Next]_vars PROVE Inbound'
    OBVIOUS
<1> USE NamesAssumption DEF Typed, Agenda, OfPhone, OfMessage, OfEmail, Labels, inbound,
        bounds, history, local
<1>1. ASSUME NEW w \in Workers, NEW p \in Phones, CreateCustomer(w, p) PROVE Inbound'
    BY <1>1, Aside DEF CreateCustomer, Start, Occupy
<1>2. ASSUME NEW w \in Workers, NEW p \in Phones, BookForCaller(w, p) PROVE Inbound'
    BY <1>2, Aside DEF BookForCaller, Start, Occupy
<1>3. ASSUME NEW w \in Workers, NEW list \in Lists, ImportCustomers(w, list) PROVE Inbound'
    BY <1>3, Aside DEF ImportCustomers, BeginImport, Start, Occupy
<1>4. ASSUME NEW w \in Workers, NEW list \in Lists, ImportExport(w, list) PROVE Inbound'
    BY <1>4, Aside DEF ImportExport, BeginImport, Start, Occupy
<1>5. ASSUME NEW w \in Workers, NEW m \in Messages, Receive(w, m) PROVE Inbound'
    BY <1>5, NoneAssumption DEF Receive, TakeEvent, FirstAwait, Start, Occupy,
           FreshStatus, Columns, Inbound, Processed,
       Announced, Once, LoggedFirst, Pending, EventStatus, Processable
<1>6. ASSUME NEW w \in Workers, NEW m \in Messages, ReplayEvent(w, m) PROVE Inbound'
    BY <1>6, NoneAssumption DEF ReplayEvent, Start, Occupy, Columns, Inbound, Processed,
       Announced, Once, LoggedFirst, Pending, EventStatus, Processable
<1>7. ASSUME NEW w \in Workers, NEW e \in Emails, Register(w, e) PROVE Inbound'
    BY <1>7, Aside DEF Register, Start, Occupy
<1>8. ASSUME NEW w \in Workers, NEW e \in Emails, CreateStaff(w, e) PROVE Inbound'
    BY <1>8, Aside DEF CreateStaff, Start, Occupy
<1>9. ASSUME NEW w \in Workers, NEW e \in Emails, CheckIn(w, e) PROVE Inbound'
    BY <1>9, Aside DEF CheckIn, Start, Occupy
<1>10. ASSUME NEW w \in Workers, NEW e \in Emails, CheckOut(w, e) PROVE Inbound'
    BY <1>10, Aside DEF CheckOut, Start, Occupy
<1>11. ASSUME NEW w \in Workers, CountCustomers(w) PROVE Inbound'
    BY <1>11, Aside DEF CountCustomers, Goto, Leave, LeaveTelling, Clear
<1>12. ASSUME NEW w \in Workers, InsertCustomer(w) PROVE Inbound'
    BY <1>12, Aside DEF InsertCustomer, LeaveTelling, Clear
<1>13. ASSUME NEW w \in Workers, UpsertCaller(w) PROVE Inbound'
    BY <1>13, Aside DEF UpsertCaller, LeaveTelling, Clear
<1>14. ASSUME NEW w \in Workers, UpsertRow(w) PROVE Inbound'
    BY <1>14, Aside DEF UpsertRow
<1>15. ASSUME NEW w \in Workers, MatchChats(w) PROVE Inbound'
    BY <1>15, Aside DEF MatchChats, NextChat, Matched, Leave, LeaveTelling, Clear
<1>16. ASSUME NEW w \in Workers, OpenThread(w) PROVE Inbound'
    <2>1. item' = [item EXCEPT ![w] = item[w]] /\ pc' = [pc EXCEPT ![w] = "lines"]
        BY <1>16 DEF OpenThread, Goto
    <2>2. UNCHANGED <<inbound, again, broken>> /\ pc[w] \notin OfMessage
        BY <1>16 DEF OpenThread
    <2> QED BY <2>1, <2>2, Aside
<1>17. ASSUME NEW w \in Workers, KeepLines(w) PROVE Inbound'
    <2>1. item' = [item EXCEPT ![w] = item[w]] /\ pc' = [pc EXCEPT ![w] = "mirror"]
        BY <1>17 DEF KeepLines, Goto
    <2>2. UNCHANGED <<inbound, again, broken>> /\ pc[w] \notin OfMessage
        BY <1>17 DEF KeepLines
    <2> QED BY <2>1, <2>2, Aside
<1>18. ASSUME NEW w \in Workers, CreateLead(w) PROVE Inbound'
    BY <1>18, Aside DEF CreateLead, NextChat, Leave, LeaveTelling, Clear
<1>19. ASSUME NEW w \in Workers, UpsertSender(w) PROVE Inbound'
    BY <1>19, NoneAssumption DEF UpsertSender, Goto, Columns, Inbound, Processed,
       Announced, Once, LoggedFirst, Pending, EventStatus, Processable
<1>20. ASSUME NEW w \in Workers, LogMessage(w) PROVE Inbound'
    BY <1>20, NoneAssumption DEF LogMessage, Goto, Columns, Inbound, Processed, Announced,
       Once, LoggedFirst, Pending, EventStatus, Processable
<1>21. ASSUME NEW w \in Workers, EndMessage(w) PROVE Inbound'
    <2>1. Clear(w) /\ UNCHANGED <<logs, again, broken>>
        BY <1>21 DEF EndMessage, Leave, LeaveTelling
    <2>2. /\ item[w] \in Messages /\ pc[w] \in {"logged", "ignored", "refused"}
          /\ event' = [event EXCEPT ![item[w]] = IF w \in replay THEN Outcome(pc[w]) ELSE @]
        BY <1>21 DEF EndMessage
    <2>3. pc[w] = "logged" => logs[item[w]] > 0
        BY <1>21 DEF Inbound, LoggedFirst
    <2>4. \A v \in Workers, m \in Messages : Pending(v, m)' <=> Pending(v, m)
        BY <2>1, <2>2 DEF Clear, Pending
    <2>5. LoggedFirst'
        BY <2>1 DEF Clear, Inbound, LoggedFirst, Processable
    <2>6. ASSUME NEW m \in Messages PROVE Processed(m)' /\ Announced(m)' /\ Once(m)'
        <3>1. event'[m] \in {event[m], "PROCESSED", "IGNORED", "FAILED"}
            BY <2>2 DEF Outcome, Columns
        <3>2. event'[m] = "PROCESSED" => event[m] = "PROCESSED" \/ logs[m] > 0
            BY <2>2, <2>3 DEF Outcome, Columns
        <3>3. Processed(m)'
            BY <2>1, <2>4, <3>2 DEF Inbound, Processed
        <3>4. Announced(m)'
            BY <2>1, <2>4, <3>1, NoneAssumption DEF Inbound, Announced, EventStatus
        <3>5. Once(m)'
            BY <2>1, <2>4, Zenon DEF Inbound, Once, Processable
        <3> QED BY <3>3, <3>4, <3>5
    <2> QED BY <2>5, <2>6 DEF Inbound
<1>22. ASSUME NEW w \in Workers, NEW n \in Names, FindSlug(w, n) PROVE Inbound'
    <2>1. item' = [item EXCEPT ![w] = item[w]] /\ pc' = [pc EXCEPT ![w] = "register"]
        BY <1>22 DEF FindSlug
    <2>2. UNCHANGED <<inbound, again, broken>> /\ pc[w] \notin OfMessage
        BY <1>22 DEF FindSlug
    <2> QED BY <2>1, <2>2, Aside
<1>23. ASSUME NEW w \in Workers, InsertTenant(w) PROVE Inbound'
    BY <1>23, Aside DEF InsertTenant, Leave, LeaveTelling, Clear
<1>24. ASSUME NEW w \in Workers, CountStaff(w) PROVE Inbound'
    BY <1>24, Aside DEF CountStaff, Goto, Leave, LeaveTelling, Clear
<1>25. ASSUME NEW w \in Workers, FindStaff(w) PROVE Inbound'
    BY <1>25, Aside DEF FindStaff, Goto, Leave, LeaveTelling, Clear
<1>26. ASSUME NEW w \in Workers, InsertStaff(w) PROVE Inbound'
    BY <1>26, Aside DEF InsertStaff, Leave, LeaveTelling, Clear
<1>27. ASSUME NEW w \in Workers, InsertShift(w) PROVE Inbound'
    BY <1>27, Aside DEF InsertShift, LeaveTelling, Clear
<1>28. ASSUME NEW w \in Workers, CloseShift(w) PROVE Inbound'
    BY <1>28, Aside DEF CloseShift, Leave, LeaveTelling, Clear
<1>29. ASSUME NEW w \in Workers, Abort(w) PROVE Inbound'
    BY <1>29, NoneAssumption DEF Abort, Leave, LeaveTelling, Clear, Columns, Inbound,
       Processed, Announced, Once, LoggedFirst, Pending, EventStatus, Processable
<1>30. ASSUME NEW e \in Emails, AddUser(e) PROVE Inbound'
    BY <1>30 DEF AddUser, Inbound, Processed, Announced, Once, LoggedFirst, Pending
<1>31. ASSUME NEW e \in Emails, SetActive(e) PROVE Inbound'
    BY <1>31 DEF SetActive, Inbound, Processed, Announced, Once, LoggedFirst, Pending
<1>32. ASSUME ApplyPlan PROVE Inbound'
    BY <1>32 DEF ApplyPlan, Inbound, Processed, Announced, Once, LoggedFirst, Pending
<1>33. ASSUME ChangeBilling PROVE Inbound'
    BY <1>33 DEF ChangeBilling, Inbound, Processed, Announced, Once, LoggedFirst, Pending
<1>34. ASSUME NEW w \in Workers, NEW m \in Messages, Redeliver(w, m) PROVE Inbound'
    BY <1>34, NoneAssumption DEF Redeliver, TakeEvent, FirstAwait, Occupy, FreshStatus, Columns,
       Inbound, Processed, Announced, Once, LoggedFirst, Pending, EventStatus, Processable
<1>35. ASSUME NEW w \in Workers, AdmitImport(w) PROVE Inbound'
    BY <1>35, Aside DEF AdmitImport, Goto, Leave, LeaveTelling, Clear
<1>36. ASSUME NEW w \in Workers, ReadLimit(w) PROVE Inbound'
    <2>1. item' = [item EXCEPT ![w] = item[w]] /\ pc' = [pc EXCEPT ![w] = "room"]
        BY <1>36 DEF ReadLimit
    <2>2. UNCHANGED <<inbound, again, broken>> /\ pc[w] \notin OfMessage
        BY <1>36 DEF ReadLimit
    <2> QED BY <2>1, <2>2, Aside
<1>37. ASSUME NEW w \in Workers, TakeRows(w) PROVE Inbound'
    <2>1. item' = [item EXCEPT ![w] = item[w]] /\ pc' = [pc EXCEPT ![w] = "rows"]
        BY <1>37 DEF TakeRows
    <2>2. UNCHANGED <<inbound, again, broken>> /\ pc[w] \notin OfMessage
        BY <1>37 DEF TakeRows
    <2> QED BY <2>1, <2>2, Aside
<1>38. ASSUME NEW w \in Workers, MirrorLines(w) PROVE Inbound'
    BY <1>38, Aside DEF MirrorLines, Goto, NextChat, Leave, LeaveTelling, Clear
<1>39. CASE UNCHANGED vars
    BY <1>39 DEF Inbound, Processed, Announced, Once, LoggedFirst, Pending, vars, tenant,
       imported, inbound, accounts, work, local, history, bounds
<1> QED BY <1>1, <1>2, <1>3, <1>4, <1>5, <1>6, <1>7, <1>8, <1>9, <1>10, <1>11, <1>12,
           <1>13, <1>14, <1>15, <1>16, <1>17, <1>18, <1>19, <1>20, <1>21, <1>22,
           <1>23, <1>24, <1>25, <1>26, <1>27, <1>28, <1>29, <1>30, <1>31, <1>32,
           <1>33, <1>34, <1>35, <1>36, <1>37, <1>38, <1>39 DEF Next, Begin, Continue,
           UpdateStaff, UpdateUser

\* Workers at a label of a phone.
Between(p, label) == {w \in Workers : item[w] = p /\ pc[w] = label}

\* Every conversation of an export has its lines, or a worker is about to keep
\* them; all lines that are kept are in the log, or a worker is about to put them
\* there.
Lined(p) ==
    /\ IsFiniteSet(Between(p, "lines"))
    /\ p \notin broken => threads[p] = kept[p] + Cardinality(Between(p, "lines"))

Mirrored(p) ==
    /\ IsFiniteSet(Between(p, "mirror"))
    /\ p \notin broken => kept[p] = mirrored[p] + Cardinality(Between(p, "mirror"))

Exports == \A p \in Phones : Lined(p) /\ Mirrored(p)

LEMMA InitExports == Init => Exports
<1> SUFFICES ASSUME Init, NEW p \in Phones PROVE Lined(p) /\ Mirrored(p)
    BY DEF Exports
<1>1. /\ Between(p, "lines") = {} /\ Between(p, "mirror") = {}
      /\ threads[p] = 0 /\ kept[p] = 0 /\ mirrored[p] = 0
    BY DEF Init, Between
<1> QED BY <1>1, FS_EmptySet DEF Lined, Mirrored

\* One more is between, and one less.
LEMMA OneMore ==
    ASSUME NEW S, IsFiniteSet(S), NEW w, w \notin S
    PROVE  IsFiniteSet(S \cup {w}) /\ \A a, b \in Nat :
             a = b + Cardinality(S) => a + 1 = b + Cardinality(S \cup {w})
<1> DEFINE n == Cardinality(S)
           k == Cardinality(S \cup {w})
<1>1. n \in Nat /\ k = n + 1 /\ IsFiniteSet(S \cup {w})
    BY FS_CardinalityType, FS_AddElement
<1> HIDE DEF n, k
<1>2. \A a, b \in Nat : a = b + n => a + 1 = b + k
    BY <1>1
<1> QED BY <1>1, <1>2 DEF n, k

LEMMA OneLess ==
    ASSUME NEW S, IsFiniteSet(S), NEW w, w \in S
    PROVE  IsFiniteSet(S \ {w}) /\ \A a, b \in Nat :
             a = b + Cardinality(S) => a = (b + 1) + Cardinality(S \ {w})
<1> DEFINE n == Cardinality(S)
           k == Cardinality(S \ {w})
<1>1. n \in Nat /\ k = n - 1 /\ IsFiniteSet(S \ {w})
    BY FS_CardinalityType, FS_RemoveElement
<1> HIDE DEF n, k
<1>2. \A a, b \in Nat : a = b + n => a = (b + 1) + k
    BY <1>1
<1> QED BY <1>1, <1>2 DEF n, k

\* A step that opens no conversation and keeps no lines keeps it.
LEMMA NoLines ==
    ASSUME Typed, Exports, NEW w \in Workers, NEW l, NEW i,
           pc[w] \notin {"lines", "mirror"}, l \notin {"lines", "mirror"},
           pc' = [pc EXCEPT ![w] = l], item' = [item EXCEPT ![w] = i],
           UNCHANGED <<threads, kept, mirrored>>,
           \A p \in Phones : p \in broken => p \in broken'
    PROVE  Exports'
<1> SUFFICES ASSUME NEW p \in Phones PROVE Lined(p)' /\ Mirrored(p)'
    BY DEF Exports
<1>1. Between(p, "lines")' = Between(p, "lines") /\ Between(p, "mirror")' = Between(p, "mirror")
    BY DEF Between, Typed, Agenda
<1> QED BY <1>1 DEF Exports, Lined, Mirrored

\* The lines of a conversation are kept once it is open ...
LEMMA LinesOpened ==
    ASSUME Typed, Exports, NEW w \in Workers, OpenThread(w), NEW p \in Phones
    PROVE  Lined(p)' /\ Mirrored(p)'
<1> DEFINE S == Between(p, "lines")
<1>1. /\ pc' = [pc EXCEPT ![w] = "lines"] /\ item' = [item EXCEPT ![w] = item[w]]
      /\ threads' = [threads EXCEPT ![item[w]] = @ + 1]
      /\ pc[w] = "thread" /\ UNCHANGED <<kept, mirrored, broken>>
    BY DEF OpenThread, Goto, history, Typed, Agenda
<1>2. Between(p, "mirror")' = Between(p, "mirror")
    BY <1>1 DEF Between, Typed, Agenda
<1>3. Mirrored(p)'
    BY <1>1, <1>2 DEF Exports, Mirrored
<1>4. IsFiniteSet(S) /\ (p \notin broken => threads[p] = kept[p] + Cardinality(S))
    BY DEF Exports, Lined
<1>5. CASE item[w] = p
    <2>1. w \notin S /\ Between(p, "lines")' = S \cup {w}
        BY <1>1, <1>5 DEF Between, Typed, Agenda
    <2>2. threads'[p] = threads[p] + 1 /\ threads[p] \in Nat /\ kept[p] \in Nat
        BY <1>1, <1>5 DEF Typed, Columns
    <2> HIDE DEF S
    <2>3. IsFiniteSet(S \cup {w}) /\ (p \notin broken =>
            threads[p] + 1 = kept[p] + Cardinality(S \cup {w}))
        BY <1>4, <2>1, <2>2, OneMore
    <2> QED BY <1>1, <1>3, <2>1, <2>2, <2>3 DEF Lined
<1>6. CASE item[w] # p
    <2>1. Between(p, "lines")' = S /\ threads'[p] = threads[p]
        BY <1>1, <1>6 DEF Between, Typed, Columns, Agenda
    <2> QED BY <1>1, <1>3, <1>4, <2>1 DEF Lined
<1> QED BY <1>5, <1>6

\* ... the log has them once they are kept ...
LEMMA LinesKept ==
    ASSUME Typed, Exports, NEW w \in Workers, KeepLines(w), NEW p \in Phones
    PROVE  Lined(p)' /\ Mirrored(p)'
<1> DEFINE S == Between(p, "lines")
           T == Between(p, "mirror")
<1>1. /\ pc' = [pc EXCEPT ![w] = "mirror"] /\ item' = [item EXCEPT ![w] = item[w]]
      /\ kept' = [kept EXCEPT ![item[w]] = @ + 1]
      /\ pc[w] = "lines" /\ UNCHANGED <<threads, mirrored, broken>>
    BY DEF KeepLines, Goto, history, Typed, Agenda
<1>2. /\ IsFiniteSet(S) /\ IsFiniteSet(T)
      /\ p \notin broken => threads[p] = kept[p] + Cardinality(S)
      /\ p \notin broken => kept[p] = mirrored[p] + Cardinality(T)
    BY DEF Exports, Lined, Mirrored
<1>3. CASE item[w] = p
    <2>1. /\ w \in S /\ Between(p, "lines")' = S \ {w}
          /\ w \notin T /\ Between(p, "mirror")' = T \cup {w}
        BY <1>1, <1>3 DEF Between, Typed, Agenda
    <2>2. /\ kept'[p] = kept[p] + 1
          /\ threads[p] \in Nat /\ kept[p] \in Nat /\ mirrored[p] \in Nat
        BY <1>1, <1>3 DEF Typed, Columns
    <2> HIDE DEF S, T
    <2>3. IsFiniteSet(S \ {w}) /\ \A a, b \in Nat :
            a = b + Cardinality(S) => a = (b + 1) + Cardinality(S \ {w})
        BY <1>2, <2>1, OneLess
    <2>4. IsFiniteSet(T \cup {w}) /\ \A a, b \in Nat :
            a = b + Cardinality(T) => a + 1 = b + Cardinality(T \cup {w})
        BY <1>2, <2>1, OneMore
    <2>5. p \notin broken =>
            /\ threads[p] = (kept[p] + 1) + Cardinality(S \ {w})
            /\ kept[p] + 1 = mirrored[p] + Cardinality(T \cup {w})
        BY <1>2, <2>2, <2>3, <2>4
    <2> QED BY <1>1, <2>1, <2>2, <2>3, <2>4, <2>5 DEF Lined, Mirrored
<1>4. CASE item[w] # p
    <2>1. /\ Between(p, "lines")' = S /\ Between(p, "mirror")' = T
          /\ kept'[p] = kept[p]
        BY <1>1, <1>4 DEF Between, Typed, Columns, Agenda
    <2> QED BY <1>1, <1>2, <2>1 DEF Lined, Mirrored
<1> QED BY <1>3, <1>4

\* ... and the worker leaves when they are there ...
LEMMA LinesMirrored ==
    ASSUME Typed, Exports, NEW w \in Workers, NEW l, NEW i, NEW p \in Phones,
           pc[w] = "mirror", l \notin {"lines", "mirror"},
           pc' = [pc EXCEPT ![w] = l], item' = [item EXCEPT ![w] = i],
           mirrored' = [mirrored EXCEPT ![item[w]] = @ + 1], UNCHANGED <<threads, kept, broken>>
    PROVE  Lined(p)' /\ Mirrored(p)'
<1> DEFINE T == Between(p, "mirror")
<1>1. Between(p, "lines")' = Between(p, "lines")
    BY DEF Between, Typed, Agenda
<1>2. Lined(p)'
    BY <1>1 DEF Exports, Lined
<1>3. IsFiniteSet(T) /\ (p \notin broken => kept[p] = mirrored[p] + Cardinality(T))
    BY DEF Exports, Mirrored
<1>4. CASE item[w] = p
    <2>1. w \in T /\ Between(p, "mirror")' = T \ {w}
        BY <1>4 DEF Between, Typed, Agenda
    <2>2. mirrored'[p] = mirrored[p] + 1 /\ kept[p] \in Nat /\ mirrored[p] \in Nat
        BY <1>4 DEF Typed, Columns
    <2> HIDE DEF T
    <2>3. IsFiniteSet(T \ {w}) /\ \A a, b \in Nat :
            a = b + Cardinality(T) => a = (b + 1) + Cardinality(T \ {w})
        BY <1>3, <2>1, OneLess
    <2>4. p \notin broken => kept[p] = (mirrored[p] + 1) + Cardinality(T \ {w})
        BY <1>3, <2>2, <2>3
    <2> QED BY <1>2, <2>1, <2>2, <2>3, <2>4 DEF Mirrored
<1>5. CASE item[w] # p
    <2>1. Between(p, "mirror")' = T /\ mirrored'[p] = mirrored[p]
        BY <1>5 DEF Between, Typed, Columns, Agenda
    <2> QED BY <1>2, <1>3, <2>1 DEF Mirrored
<1> QED BY <1>4, <1>5

\* ... or when its call fails.
LEMMA LinesLost ==
    ASSUME Typed, Exports, NEW w \in Workers, Abort(w), pc[w] \in {"lines", "mirror"},
           NEW p \in Phones
    PROVE  Lined(p)' /\ Mirrored(p)'
<1>1. /\ pc' = [pc EXCEPT ![w] = "idle"] /\ item' = [item EXCEPT ![w] = NONE]
      /\ UNCHANGED <<threads, kept, mirrored>> /\ broken' = broken \cup {item[w]}
    BY DEF Abort, Leave, LeaveTelling, Clear, imported
<1>2. IsFiniteSet(Between(p, "lines")) /\ IsFiniteSet(Between(p, "mirror"))
    BY DEF Exports, Lined, Mirrored
<1>3. CASE item[w] = p
    <2>1. /\ Between(p, "lines")' = Between(p, "lines") \ {w}
          /\ Between(p, "mirror")' = Between(p, "mirror") \ {w}
        BY <1>1 DEF Between, Typed, Agenda
    <2>2. IsFiniteSet(Between(p, "lines")') /\ IsFiniteSet(Between(p, "mirror")')
        BY <1>2, <2>1, FS_RemoveElement
    <2> QED BY <1>1, <1>3, <2>2 DEF Lined, Mirrored
<1>4. CASE item[w] # p
    <2>1. /\ Between(p, "lines")' = Between(p, "lines")
          /\ Between(p, "mirror")' = Between(p, "mirror")
        BY <1>1, <1>4 DEF Between, Typed, Agenda
    <2> QED BY <1>1, <1>4, <2>1 DEF Exports, Lined, Mirrored
<1> QED BY <1>3, <1>4

\* Every step keeps it.
LEMMA StepExports == Typed /\ Exports /\ [Next]_vars => Exports'
<1> SUFFICES ASSUME Typed /\ Exports, [Next]_vars PROVE Exports'
    OBVIOUS
<1> USE NamesAssumption DEF Typed, Agenda, OfPhone, OfMessage, OfEmail, Labels, imported,
        history, local
<1>1. ASSUME NEW w \in Workers, NEW p \in Phones, CreateCustomer(w, p) PROVE Exports'
    BY <1>1, NoLines DEF CreateCustomer, Start, Occupy
<1>2. ASSUME NEW w \in Workers, NEW p \in Phones, BookForCaller(w, p) PROVE Exports'
    BY <1>2, NoLines DEF BookForCaller, Start, Occupy
<1>3. ASSUME NEW w \in Workers, NEW list \in Lists, ImportCustomers(w, list) PROVE Exports'
    BY <1>3, NoLines DEF ImportCustomers, BeginImport, Start, Occupy
<1>4. ASSUME NEW w \in Workers, NEW list \in Lists, ImportExport(w, list) PROVE Exports'
    BY <1>4, NoLines DEF ImportExport, BeginImport, Start, Occupy
<1>5. ASSUME NEW w \in Workers, NEW m \in Messages, Receive(w, m) PROVE Exports'
    BY <1>5, NoLines DEF Receive, TakeEvent, FirstAwait, Start, Occupy
<1>6. ASSUME NEW w \in Workers, NEW m \in Messages, ReplayEvent(w, m) PROVE Exports'
    BY <1>6, NoLines DEF ReplayEvent, Start, Occupy
<1>7. ASSUME NEW w \in Workers, NEW e \in Emails, Register(w, e) PROVE Exports'
    BY <1>7, NoLines DEF Register, Start, Occupy
<1>8. ASSUME NEW w \in Workers, NEW e \in Emails, CreateStaff(w, e) PROVE Exports'
    BY <1>8, NoLines DEF CreateStaff, Start, Occupy
<1>9. ASSUME NEW w \in Workers, NEW e \in Emails, CheckIn(w, e) PROVE Exports'
    BY <1>9, NoLines DEF CheckIn, Start, Occupy
<1>10. ASSUME NEW w \in Workers, NEW e \in Emails, CheckOut(w, e) PROVE Exports'
    BY <1>10, NoLines DEF CheckOut, Start, Occupy
<1>11. ASSUME NEW w \in Workers, CountCustomers(w) PROVE Exports'
    BY <1>11, NoLines DEF CountCustomers, Goto, Leave, LeaveTelling, Clear
<1>12. ASSUME NEW w \in Workers, InsertCustomer(w) PROVE Exports'
    BY <1>12, NoLines DEF InsertCustomer, LeaveTelling, Clear
<1>13. ASSUME NEW w \in Workers, UpsertCaller(w) PROVE Exports'
    BY <1>13, NoLines DEF UpsertCaller, LeaveTelling, Clear
<1>14. ASSUME NEW w \in Workers, UpsertRow(w) PROVE Exports'
    BY <1>14, NoLines DEF UpsertRow
<1>15. ASSUME NEW w \in Workers, MatchChats(w) PROVE Exports'
    BY <1>15, NoLines DEF MatchChats, NextChat, Matched, Leave, LeaveTelling, Clear
<1>16. ASSUME NEW w \in Workers, OpenThread(w) PROVE Exports'
    BY <1>16, LinesOpened DEF Exports
<1>17. ASSUME NEW w \in Workers, KeepLines(w) PROVE Exports'
    BY <1>17, LinesKept DEF Exports
<1>18. ASSUME NEW w \in Workers, CreateLead(w) PROVE Exports'
    BY <1>18, NoLines DEF CreateLead, NextChat, Leave, LeaveTelling, Clear
<1>19. ASSUME NEW w \in Workers, UpsertSender(w) PROVE Exports'
    <2>1. item' = [item EXCEPT ![w] = item[w]] /\ pc' = [pc EXCEPT ![w] = "log"]
        BY <1>19 DEF UpsertSender, Goto
    <2>2. /\ UNCHANGED <<threads, kept, mirrored>> /\ pc[w] \notin {"lines", "mirror"}
          /\ \A p \in Phones : p \in broken => p \in broken'
        BY <1>19 DEF UpsertSender
    <2> QED BY <2>1, <2>2, NoLines
<1>20. ASSUME NEW w \in Workers, LogMessage(w) PROVE Exports'
    <2>1. item' = [item EXCEPT ![w] = item[w]] /\ pc' = [pc EXCEPT ![w] = "logged"]
        BY <1>20 DEF LogMessage, Goto
    <2>2. /\ UNCHANGED <<threads, kept, mirrored>> /\ pc[w] \notin {"lines", "mirror"}
          /\ \A p \in Phones : p \in broken => p \in broken'
        BY <1>20 DEF LogMessage
    <2> QED BY <2>1, <2>2, NoLines
<1>21. ASSUME NEW w \in Workers, EndMessage(w) PROVE Exports'
    BY <1>21, NoLines DEF EndMessage, Leave, LeaveTelling, Clear
<1>22. ASSUME NEW w \in Workers, NEW n \in Names, FindSlug(w, n) PROVE Exports'
    <2>1. item' = [item EXCEPT ![w] = item[w]] /\ pc' = [pc EXCEPT ![w] = "register"]
        BY <1>22 DEF FindSlug
    <2>2. /\ UNCHANGED <<threads, kept, mirrored>> /\ pc[w] \notin {"lines", "mirror"}
          /\ \A p \in Phones : p \in broken => p \in broken'
        BY <1>22 DEF FindSlug
    <2> QED BY <2>1, <2>2, NoLines
<1>23. ASSUME NEW w \in Workers, InsertTenant(w) PROVE Exports'
    BY <1>23, NoLines DEF InsertTenant, Leave, LeaveTelling, Clear
<1>24. ASSUME NEW w \in Workers, CountStaff(w) PROVE Exports'
    BY <1>24, NoLines DEF CountStaff, Goto, Leave, LeaveTelling, Clear
<1>25. ASSUME NEW w \in Workers, FindStaff(w) PROVE Exports'
    BY <1>25, NoLines DEF FindStaff, Goto, Leave, LeaveTelling, Clear
<1>26. ASSUME NEW w \in Workers, InsertStaff(w) PROVE Exports'
    BY <1>26, NoLines DEF InsertStaff, Leave, LeaveTelling, Clear
<1>27. ASSUME NEW w \in Workers, InsertShift(w) PROVE Exports'
    BY <1>27, NoLines DEF InsertShift, LeaveTelling, Clear
<1>28. ASSUME NEW w \in Workers, CloseShift(w) PROVE Exports'
    BY <1>28, NoLines DEF CloseShift, Leave, LeaveTelling, Clear
<1>29. ASSUME NEW w \in Workers, Abort(w) PROVE Exports'
    BY <1>29, NoLines, LinesLost DEF Abort, Exports, Leave, LeaveTelling, Clear
<1>30. ASSUME NEW e \in Emails, AddUser(e) PROVE Exports'
    BY <1>30 DEF AddUser, Exports, Lined, Mirrored, Between
<1>31. ASSUME NEW e \in Emails, SetActive(e) PROVE Exports'
    BY <1>31 DEF SetActive, Exports, Lined, Mirrored, Between
<1>32. ASSUME ApplyPlan PROVE Exports'
    BY <1>32 DEF ApplyPlan, Exports, Lined, Mirrored, Between
<1>33. ASSUME ChangeBilling PROVE Exports'
    BY <1>33 DEF ChangeBilling, Exports, Lined, Mirrored, Between
<1>34. ASSUME NEW w \in Workers, NEW m \in Messages, Redeliver(w, m) PROVE Exports'
    BY <1>34, NoLines DEF Redeliver, TakeEvent, FirstAwait, Occupy
<1>35. ASSUME NEW w \in Workers, AdmitImport(w) PROVE Exports'
    BY <1>35, NoLines DEF AdmitImport, Goto, Leave, LeaveTelling, Clear
<1>36. ASSUME NEW w \in Workers, ReadLimit(w) PROVE Exports'
    <2>1. item' = [item EXCEPT ![w] = item[w]] /\ pc' = [pc EXCEPT ![w] = "room"]
        BY <1>36 DEF ReadLimit
    <2>2. /\ UNCHANGED <<threads, kept, mirrored>> /\ pc[w] \notin {"lines", "mirror"}
          /\ \A p \in Phones : p \in broken => p \in broken'
        BY <1>36 DEF ReadLimit
    <2> QED BY <2>1, <2>2, NoLines
<1>37. ASSUME NEW w \in Workers, TakeRows(w) PROVE Exports'
    <2>1. item' = [item EXCEPT ![w] = item[w]] /\ pc' = [pc EXCEPT ![w] = "rows"]
        BY <1>37 DEF TakeRows
    <2>2. /\ UNCHANGED <<threads, kept, mirrored>> /\ pc[w] \notin {"lines", "mirror"}
          /\ \A p \in Phones : p \in broken => p \in broken'
        BY <1>37 DEF TakeRows
    <2> QED BY <2>1, <2>2, NoLines
<1>38. ASSUME NEW w \in Workers, MirrorLines(w) PROVE Exports'
    <2>1. /\ UNCHANGED <<threads, kept, broken>> /\ mirrored' = [mirrored EXCEPT ![item[w]] = @ + 1]
          /\ pc[w] = "mirror"
        BY <1>38 DEF MirrorLines
    <2>2. \E l, i : /\ l \notin {"lines", "mirror"}
                    /\ pc' = [pc EXCEPT ![w] = l] /\ item' = [item EXCEPT ![w] = i]
        <3>1. CASE Goto(w, "lead")
            <4>1. pc' = [pc EXCEPT ![w] = "lead"] /\ item' = [item EXCEPT ![w] = item[w]]
                BY <3>1 DEF Goto
            <4> QED BY <4>1
        <3>2. CASE NextChat(w, chats[w])
            BY <3>2 DEF NextChat, Leave, LeaveTelling, Clear
        <3> QED BY <1>38, <3>1, <3>2 DEF MirrorLines
    <2>3. PICK l, i : /\ l \notin {"lines", "mirror"}
                      /\ pc' = [pc EXCEPT ![w] = l] /\ item' = [item EXCEPT ![w] = i]
        BY <2>2
    <2> QED BY <2>1, <2>3, LinesMirrored DEF Exports
<1>39. CASE UNCHANGED vars
    BY <1>39 DEF Exports, Lined, Mirrored, Between, vars, tenant, imported, inbound,
           accounts, work,
       local, history, bounds
<1> QED BY <1>1, <1>2, <1>3, <1>4, <1>5, <1>6, <1>7, <1>8, <1>9, <1>10, <1>11, <1>12,
           <1>13, <1>14, <1>15, <1>16, <1>17, <1>18, <1>19, <1>20, <1>21, <1>22,
           <1>23, <1>24, <1>25, <1>26, <1>27, <1>28, <1>29, <1>30, <1>31, <1>32,
           <1>33, <1>34, <1>35, <1>36, <1>37, <1>38, <1>39 DEF Next, Begin, Continue,
           UpdateStaff, UpdateUser

\* What a customer wrote is kept, and once: the property of all behaviors.
THEOREM InboundIsKept == Spec => []InboundKept
<1>1. Typed /\ Inbound /\ Exports => InboundKept
    <2> SUFFICES ASSUME Typed, Inbound, Exports PROVE InboundKept
        OBVIOUS
    <2>1. ASSUME NEW m \in Messages
          PROVE  /\ event[m] = "PROCESSED" /\ ~At(m) => logs[m] > 0 \/ m \in broken
                 /\ logs[m] > 1 \/ (logs[m] > 0 /\ ~Processable(m)) => m \in again
        BY DEF Inbound, Processed, Once, Pending, At, Typed, Columns
    <2>2. ASSUME NEW p \in Phones, ~At(p)
          PROVE  (kept[p] = threads[p] /\ mirrored[p] = threads[p]) \/ p \in broken
        <3>1. Between(p, "lines") = {} /\ Between(p, "mirror") = {}
            BY <2>2 DEF Between, At
        <3>2. p \notin broken => threads[p] = kept[p] + 0 /\ kept[p] = mirrored[p] + 0
            BY <3>1, FS_EmptySet DEF Exports, Lined, Mirrored
        <3> QED BY <3>2 DEF Typed, Columns
    <2> QED BY <2>1, <2>2 DEF InboundKept
<1>2. Typed /\ [Next]_vars => Typed'
    BY StepFlags, StepColumns, StepAgenda, StepFindings, StepRefers DEF Typed
<1>3. Typed /\ Inbound /\ Exports /\ [Next]_vars => Typed' /\ Inbound' /\ Exports'
    BY <1>2, StepInbound, StepExports
<1> QED BY InitTyped, InitInbound, InitExports, <1>1, <1>3, PTL DEF Spec

\* Who ends a call about a message without an error ends it after the log, or at a
\* message that cannot be processed: every other step leaves the label of such a
\* call alone or takes it on.
LEMMA AnswerAfterLog ==
    ASSUME Typed, Inbound, [Next]_vars, NEW u \in Workers, NEW m \in Messages,
           Answered(u, m), Processable(m)
    PROVE  logs'[m] > 0
<1> USE DEF Answered, Typed, Agenda
<1>0. faults \in Nat
    BY BoundsAssumption DEF Typed, Columns
<1>1. ASSUME NEW w \in Workers, NEW p \in Phones, CreateCustomer(w, p) PROVE logs'[m] > 0
    BY <1>1 DEF CreateCustomer, Start, Occupy
<1>2. ASSUME NEW w \in Workers, NEW p \in Phones, BookForCaller(w, p) PROVE logs'[m] > 0
    BY <1>2 DEF BookForCaller, Start, Occupy
<1>3. ASSUME NEW w \in Workers, NEW list \in Lists, ImportCustomers(w, list) PROVE logs'[m] > 0
    BY <1>3 DEF ImportCustomers, BeginImport, Start, Occupy
<1>4. ASSUME NEW w \in Workers, NEW list \in Lists, ImportExport(w, list) PROVE logs'[m] > 0
    BY <1>4 DEF ImportExport, BeginImport, Start, Occupy
<1>5. ASSUME NEW w \in Workers, NEW n \in Messages, Receive(w, n) PROVE logs'[m] > 0
    BY <1>5 DEF Receive, Start, Occupy
<1>6. ASSUME NEW w \in Workers, NEW n \in Messages, ReplayEvent(w, n) PROVE logs'[m] > 0
    BY <1>6 DEF ReplayEvent, Start, Occupy
<1>7. ASSUME NEW w \in Workers, NEW n \in Messages, Redeliver(w, n) PROVE logs'[m] > 0
    BY <1>7 DEF Redeliver, Occupy
<1>8. ASSUME NEW w \in Workers, NEW e \in Emails, Register(w, e) PROVE logs'[m] > 0
    BY <1>8 DEF Register, Start, Occupy
<1>9. ASSUME NEW w \in Workers, NEW e \in Emails, CreateStaff(w, e) PROVE logs'[m] > 0
    BY <1>9 DEF CreateStaff, Start, Occupy
<1>10. ASSUME NEW w \in Workers, NEW e \in Emails, CheckIn(w, e) PROVE logs'[m] > 0
    BY <1>10 DEF CheckIn, Start, Occupy
<1>11. ASSUME NEW w \in Workers, NEW e \in Emails, CheckOut(w, e) PROVE logs'[m] > 0
    BY <1>11 DEF CheckOut, Start, Occupy
<1>12. ASSUME NEW w \in Workers, CountCustomers(w) PROVE logs'[m] > 0
    BY <1>12 DEF CountCustomers, Goto, Leave, LeaveTelling, Clear
<1>13. ASSUME NEW w \in Workers, InsertCustomer(w) PROVE logs'[m] > 0
    BY <1>13 DEF InsertCustomer, LeaveTelling, Clear
<1>14. ASSUME NEW w \in Workers, UpsertCaller(w) PROVE logs'[m] > 0
    BY <1>14 DEF UpsertCaller, LeaveTelling, Clear
<1>15. ASSUME NEW w \in Workers, AdmitImport(w) PROVE logs'[m] > 0
    BY <1>15 DEF AdmitImport, Goto, Leave, LeaveTelling, Clear
<1>16. ASSUME NEW w \in Workers, ReadLimit(w) PROVE logs'[m] > 0
    BY <1>16 DEF ReadLimit
<1>17. ASSUME NEW w \in Workers, TakeRows(w) PROVE logs'[m] > 0
    BY <1>17 DEF TakeRows
<1>18. ASSUME NEW w \in Workers, UpsertRow(w) PROVE logs'[m] > 0
    BY <1>18 DEF UpsertRow
<1>19. ASSUME NEW w \in Workers, MatchChats(w) PROVE logs'[m] > 0
    BY <1>19 DEF MatchChats, NextChat, Leave, LeaveTelling, Clear
<1>20. ASSUME NEW w \in Workers, OpenThread(w) PROVE logs'[m] > 0
    BY <1>20 DEF OpenThread, Goto
<1>21. ASSUME NEW w \in Workers, KeepLines(w) PROVE logs'[m] > 0
    BY <1>21 DEF KeepLines, Goto
<1>22. ASSUME NEW w \in Workers, MirrorLines(w) PROVE logs'[m] > 0
    BY <1>22 DEF MirrorLines, Goto, NextChat, Leave, LeaveTelling, Clear
<1>23. ASSUME NEW w \in Workers, CreateLead(w) PROVE logs'[m] > 0
    BY <1>23 DEF CreateLead, NextChat, Leave, LeaveTelling, Clear
<1>24. ASSUME NEW w \in Workers, UpsertSender(w) PROVE logs'[m] > 0
    BY <1>24 DEF UpsertSender, Goto
<1>25. ASSUME NEW w \in Workers, LogMessage(w) PROVE logs'[m] > 0
    BY <1>25 DEF LogMessage, Goto
<1>26. ASSUME NEW w \in Workers, EndMessage(w) PROVE logs'[m] > 0
    BY <1>26 DEF EndMessage, Leave, LeaveTelling, Clear, Inbound, LoggedFirst
<1>27. ASSUME NEW w \in Workers, NEW n \in Names, FindSlug(w, n) PROVE logs'[m] > 0
    BY <1>27 DEF FindSlug
<1>28. ASSUME NEW w \in Workers, InsertTenant(w) PROVE logs'[m] > 0
    BY <1>28 DEF InsertTenant, Leave, LeaveTelling, Clear
<1>29. ASSUME NEW w \in Workers, CountStaff(w) PROVE logs'[m] > 0
    BY <1>29 DEF CountStaff, Goto, Leave, LeaveTelling, Clear
<1>30. ASSUME NEW w \in Workers, FindStaff(w) PROVE logs'[m] > 0
    BY <1>30 DEF FindStaff, Goto, Leave, LeaveTelling, Clear
<1>31. ASSUME NEW w \in Workers, InsertStaff(w) PROVE logs'[m] > 0
    BY <1>31 DEF InsertStaff, Leave, LeaveTelling, Clear
<1>32. ASSUME NEW w \in Workers, InsertShift(w) PROVE logs'[m] > 0
    BY <1>32 DEF InsertShift, LeaveTelling, Clear
<1>33. ASSUME NEW w \in Workers, CloseShift(w) PROVE logs'[m] > 0
    BY <1>33 DEF CloseShift, Leave, LeaveTelling, Clear
<1>34. ASSUME NEW w \in Workers, Abort(w) PROVE logs'[m] > 0
    BY <1>34, <1>0 DEF Abort, Leave, LeaveTelling, Clear, Columns
<1>35. ASSUME NEW e \in Emails, AddUser(e) PROVE logs'[m] > 0
    BY <1>35 DEF AddUser, local
<1>36. ASSUME NEW e \in Emails, SetActive(e) PROVE logs'[m] > 0
    BY <1>36 DEF SetActive, local
<1>37. ASSUME ApplyPlan PROVE logs'[m] > 0
    BY <1>37 DEF ApplyPlan, local
<1>38. ASSUME ChangeBilling PROVE logs'[m] > 0
    BY <1>38 DEF ChangeBilling, local
<1>39. CASE UNCHANGED vars
    BY <1>39 DEF vars, local
<1> QED BY <1>1, <1>2, <1>3, <1>4, <1>5, <1>6, <1>7, <1>8, <1>9, <1>10, <1>11, <1>12,
       <1>13, <1>14, <1>15, <1>16, <1>17, <1>18, <1>19, <1>20, <1>21, <1>22, <1>23, <1>24,
       <1>25, <1>26, <1>27, <1>28, <1>29, <1>30, <1>31, <1>32, <1>33, <1>34, <1>35, <1>36,
       <1>37, <1>38, <1>39 DEF Next, Begin, Continue,
           UpdateStaff, UpdateUser

\* What is answered as received is in the log, whatever failed before: the property of
\* all behaviors.
THEOREM AnsweredMessagesAreLogged == Spec => AnsweredIsLogged
<1>1. Typed /\ Inbound /\ [Next]_vars => Typed' /\ Inbound'
    BY StepFlags, StepColumns, StepAgenda, StepFindings, StepRefers, StepInbound DEF Typed
<1>2. Typed /\ Inbound /\ [Next]_vars =>
        [\A w \in Workers, m \in Messages :
            Answered(w, m) /\ Processable(m) => logs'[m] > 0]_vars
    BY AnswerAfterLog
<1> QED BY InitTyped, InitInbound, <1>1, <1>2, PTL DEF Spec, AnsweredIsLogged

(***************************************************************************)
(* Looks that are not out of date                                          *)
(***************************************************************************)
\* What a worker has looked at still holds ...
Look(w) ==
    /\ pc[w] \in Creating => ~blocked
    /\ pc[w] = "room" => found[w].limit = plan.customers
    /\ pc[w] = "insert" => Below(Cardinality(customers), plan.customers)
    /\ pc[w] = "rows" /\ rows[w] # {} /\ plan.customers # NONE =>
         Cardinality(customers) + Cardinality(rows[w]) <= plan.customers
    /\ pc[w] \in ByStaff => Below(Cardinality(Active), plan.staff)
    /\ pc[w] \in ByEmail => Users(item[w]) = 0
    /\ pc[w] = "in" => open[item[w]] = {}

\* ... unless its look is out of date.
Looks  == \A w \in Workers \ stale : Look(w)
Finite == IsFiniteSet(Active) /\ \A w \in Workers : IsFiniteSet(rows[w])
Looked == Typed /\ Finite /\ Looks

LEMMA InitLooked == Init => Looked
<1> SUFFICES ASSUME Init PROVE Finite /\ Looks
    BY InitTyped DEF Looked
<1>1. Active = {} /\ \A w \in Workers : rows[w] = {} /\ pc[w] = "idle"
    BY NoneAssumption DEF Init, Active, StaffStatus
<1>2. Finite
    BY <1>1, FS_EmptySet DEF Finite
<1> QED BY <1>1, <1>2 DEF Looks, Look, Creating, ByLimit, ByCustomers, ByStaff, ByEmail

\* The rows of an import fit into the room that is left.
LEMMA RowsFit ==
    ASSUME Columns, NEW list \in Lists, NEW limit \in Nat \cup {NONE}
    PROVE  /\ IsFiniteSet(FirstRows(list, limit))
           /\ FirstRows(list, limit) # {} /\ limit # NONE =>
                Cardinality(customers) + Cardinality(FirstRows(list, limit)) <= limit
<1> DEFINE c == Cardinality(customers)
           k == Cut(list, limit)
           T == FirstRows(list, limit)
           f == [i \in 1..k |-> list[i]]
<1>1. Len(list) \in Nat
    BY ListsAssumption
<1>2. c \in Nat
    BY FS_CardinalityType DEF Columns
<1>3. limit # NONE => Room(limit) \in Nat /\ (Room(limit) > 0 => c + Room(limit) = limit)
    BY <1>2 DEF Room
<1>4. k \in Nat /\ (limit # NONE => k <= Room(limit))
    BY <1>1, <1>3 DEF Cut
<1>5. T = {list[i] : i \in 1..k}
    BY DEF FirstRows
<1> HIDE DEF c, k, T
<1>6. f \in Surjection(1..k, T)
    BY <1>5 DEF Surjection
<1>7. IsFiniteSet(1..k) /\ Cardinality(1..k) = k
    <2>1. k \in Nat
        BY <1>4
    <2> QED BY <2>1, FS_Interval
<1>8. IsFiniteSet(T) /\ Cardinality(T) <= k
    BY <1>6, <1>7, FS_Surjection
<1>9. Cardinality(T) \in Nat
    BY <1>8, FS_CardinalityType
<1>10. T # {} => k > 0
    BY <1>4, <1>5
<1>11. T # {} /\ limit # NONE => c + Cardinality(T) <= limit
    BY <1>2, <1>3, <1>4, <1>8, <1>9, <1>10
<1> QED BY <1>8, <1>11 DEF c, T

\* A step that adds nothing leaves the looks of the others as they are.
LEMMA OthersLook ==
    ASSUME Looked, NEW w \in Workers, NEW l, NEW i, NEW r,
           pc' = [pc EXCEPT ![w] = l], item' = [item EXCEPT ![w] = i],
           rows' = [rows EXCEPT ![w] = r], IsFiniteSet(r),
           UNCHANGED <<plan, blocked, customers, owners, staff>>,
           \A e \in Emails : open'[e] \subseteq open[e],
           \A v \in Workers \ {w} : v \in stale => v \in stale',
           \A v \in Workers \ {w} : found'[v] = found[v],
           w \notin stale' => Look(w)'
    PROVE  Finite' /\ Looks'
<1> USE DEF Looked, Typed, Agenda
<1>1. Active' = Active /\ \A e : Users(e)' = Users(e)
    BY DEF Active, Users
<1>2. Finite'
    BY <1>1 DEF Finite
<1>3. ASSUME NEW v \in Workers \ stale', v # w PROVE Look(v)'
    <2>1. /\ pc'[v] = pc[v] /\ item'[v] = item[v] /\ rows'[v] = rows[v]
          /\ found'[v] = found[v] /\ v \notin stale
        BY <1>3
    <2>2. Look(v)
        BY <2>1 DEF Looks
    <2> QED BY <1>1, <2>1, <2>2 DEF Look, ByEmail, OfEmail
<1> QED BY <1>2, <1>3 DEF Looks

\* A look stays good while nobody writes what it was at.
LEMMA Unaffected ==
    ASSUME Looks, NEW v \in Workers, v \notin stale,
           pc'[v] = pc[v], item'[v] = item[v], rows'[v] = rows[v], found'[v] = found[v],
           pc[v] \in Creating => UNCHANGED blocked,
           pc[v] \in ByLimit => UNCHANGED plan,
           pc[v] \in ByCustomers => UNCHANGED customers,
           pc[v] \in ByStaff => UNCHANGED staff,
           pc[v] \in ByEmail => Users(item[v])' = Users(item[v]),
           pc[v] = "in" => open'[item[v]] = open[item[v]]
    PROVE  Look(v)'
<1>1. Look(v)
    BY DEF Looks
<1>2. pc[v] \in ByStaff => Active' = Active
    BY DEF Active
<1> QED BY <1>1, <1>2 DEF Look, Creating, ByLimit, ByCustomers, ByStaff

\* A new customer outdates the looks at their number.
LEMMA CustomerTold ==
    ASSUME Looked, NEW w \in Workers, NEW p \in Phones,
           customers' = customers \cup {p},
           \A v \in Workers \ {w} : v \in OutdatedBy(w, p) \cup stale => v \in stale',
           \A v \in Workers \ {w} : pc'[v] = pc[v] /\ item'[v] = item[v] /\ rows'[v] = rows[v],
           \A v \in Workers \ {w} : found'[v] = found[v],
           UNCHANGED <<plan, blocked, owners, staff, open>>,
           IsFiniteSet(rows'[w]),
           w \notin stale' => Look(w)'
    PROVE  Finite' /\ Looks'
<1>1. Active' = Active /\ \A e : Users(e)' = Users(e)
    BY DEF Active, Users
<1>2. Finite'
    BY <1>1 DEF Finite, Looked
<1>3. ASSUME NEW v \in Workers \ stale', v # w PROVE Look(v)'
    <2>1. v \notin stale /\ (pc[v] \in ByCustomers => customers' = customers)
        BY <1>3 DEF OutdatedBy, Others
    <2> QED BY <1>1, <1>3, <2>1, Unaffected DEF Looked
<1> QED BY <1>2, <1>3 DEF Looks

\* A call that ends looks at nothing any more ...
LEMMA LeaveLook ==
    ASSUME Looked, NEW w \in Workers, Leave(w),
           UNCHANGED <<plan, blocked, customers, owners, staff>>,
           \A e \in Emails : open'[e] \subseteq open[e]
    PROVE  Finite' /\ Looks'
<1>1. /\ pc' = [pc EXCEPT ![w] = "idle"] /\ item' = [item EXCEPT ![w] = NONE]
      /\ rows' = [rows EXCEPT ![w] = {}] /\ stale' = stale \ {w}
      /\ \A v \in Workers \ {w} : found'[v] = found[v]
    BY DEF Leave, LeaveTelling, Clear, Looked, Typed, Findings
<1>2. Look(w)'
    BY <1>1 DEF Look, Looked, Typed, Agenda, Creating, ByLimit, ByCustomers, ByStaff, ByEmail
<1> QED BY <1>1, <1>2, FS_EmptySet, OthersLook

\* ... nor does one that is at a conversation, and one that goes on looks anew.
LEMMA GotoLook ==
    ASSUME Looked, NEW w \in Workers, NEW l, Goto(w, l),
           UNCHANGED <<plan, blocked, customers, owners, staff, open, stale>>,
           w \notin stale => Look(w)'
    PROVE  Finite' /\ Looks'
<1>1. /\ pc' = [pc EXCEPT ![w] = l] /\ item' = [item EXCEPT ![w] = item[w]]
      /\ rows' = [rows EXCEPT ![w] = rows[w]] /\ IsFiniteSet(rows[w])
      /\ UNCHANGED found
    BY DEF Goto, Looked, Typed, Agenda, Finite
<1> QED BY <1>1, OthersLook

LEMMA ChatLook ==
    ASSUME Looked, NEW w \in Workers, NEW S, NextChat(w, S),
           UNCHANGED <<plan, blocked, customers, owners, staff, open>>
    PROVE  Finite' /\ Looks'
<1>1. CASE Leave(w)
    BY <1>1, LeaveLook
<1>2. CASE ~Leave(w)
    <2>1. PICK p \in S : /\ pc' = [pc EXCEPT ![w] = "thread"] /\ item' = [item EXCEPT ![w] = p]
                         /\ rows' = [rows EXCEPT ![w] = rows[w]] /\ IsFiniteSet(rows[w])
                         /\ UNCHANGED <<found, stale>>
        BY <1>2 DEF NextChat, Looked, Typed, Agenda, Finite
    <2>2. Look(w)'
        BY <2>1 DEF Look, Looked, Typed, Agenda, Creating, ByLimit, ByCustomers,
               ByStaff, ByEmail
    <2> QED BY <2>1, <2>2, OthersLook
<1> QED BY <1>1, <1>2

\* A row of an import takes a part of the room that was found for it.
LEMMA RowFits ==
    ASSUME Looked, NEW w \in Workers, Look(w), pc[w] = "rows", NEW p \in rows[w],
           UNCHANGED <<pc, plan, blocked>>, customers' = customers \cup {p},
           rows'[w] = rows[w] \ {p}
    PROVE  Look(w)'
<1> DEFINE c == Cardinality(customers)
           d == Cardinality(customers')
           k == Cardinality(rows[w])
           l == Cardinality(rows'[w])
<1>1. IsFiniteSet(customers) /\ IsFiniteSet(rows[w])
      /\ plan.customers \in Nat \cup {NONE}
    BY PlansAssumption DEF Looked, Typed, Columns, Finite
<1>2. c \in Nat /\ k \in Nat
    BY <1>1, FS_CardinalityType
<1>3. plan.customers # NONE => c + k <= plan.customers
    BY DEF Look
<1>4. l = k - 1
    BY <1>1, FS_RemoveElement
<1>5. d = IF p \in customers THEN c ELSE c + 1
    BY <1>1, FS_AddElement
<1> HIDE DEF c, d, k, l
<1>6. plan.customers # NONE => d + l <= plan.customers
    BY <1>1, <1>2, <1>3, <1>4, <1>5
<1>7. plan'.customers # NONE =>
        Cardinality(customers)' + Cardinality(rows[w])' <= plan'.customers
    BY <1>6 DEF d, l
<1> QED BY <1>7 DEF Look, Creating, ByLimit, ByCustomers, ByStaff, ByEmail

\* A new tenant outdates the looks at the e-mail of its owner.
LEMMA AccountTold ==
    ASSUME Looked, NEW w \in Workers, NEW e,
           pc' = [pc EXCEPT ![w] = "idle"], item' = [item EXCEPT ![w] = NONE],
           rows' = [rows EXCEPT ![w] = {}], owners' = [owners EXCEPT ![e] = @ + 1],
           stale' = (stale \cup OthersOn(w, ByEmail, e)) \ {w},
           UNCHANGED <<plan, blocked, customers, staff, open>>,
           \A v \in Workers \ {w} : found'[v] = found[v]
    PROVE  Finite' /\ Looks'
<1> USE DEF Looked, Typed, Agenda
<1>1. Active' = Active
    BY DEF Active
<1>2. Finite'
    BY <1>1, FS_EmptySet DEF Finite
<1>3. Look(w)'
    BY DEF Look, Creating, ByLimit, ByCustomers, ByStaff, ByEmail
<1>4. ASSUME NEW v \in Workers \ stale', v # w PROVE Look(v)'
    <2>1. v \notin stale /\ (pc[v] \in ByEmail => item[v] # e)
        BY <1>4 DEF OthersOn, Others
    <2>2. pc[v] \in ByEmail => Users(item[v])' = Users(item[v])
        BY <1>4, <2>1 DEF Users, Columns
    <2> QED BY <1>4, <2>1, <2>2, Unaffected
<1> QED BY <1>2, <1>3, <1>4 DEF Looks

\* A seat that is taken outdates the looks at the seats, and those at its e-mail.
LEMMA SeatTold ==
    ASSUME Looked, NEW w \in Workers, NEW e \in Emails,
           pc' = [pc EXCEPT ![w] = "idle"], item' = [item EXCEPT ![w] = NONE],
           rows' = [rows EXCEPT ![w] = {}], staff' = [staff EXCEPT ![e] = "active"],
           stale' = (stale \cup Others(w, ByStaff) \cup OthersOn(w, ByEmail, e)) \ {w},
           UNCHANGED <<plan, blocked, customers, owners, open>>,
           \A v \in Workers \ {w} : found'[v] = found[v]
    PROVE  Finite' /\ Looks'
<1> USE DEF Looked, Typed, Agenda
<1>1. Finite'
    <2>1. Active' = Active \cup {e}
        BY DEF Active, Columns
    <2>2. IsFiniteSet(Active')
        BY <2>1, FS_AddElement DEF Finite
    <2>3. \A v \in Workers : rows'[v] = {} \/ rows'[v] = rows[v]
        BY DEF Columns
    <2> QED BY <2>2, <2>3, FS_EmptySet DEF Finite
<1>2. Look(w)'
    BY DEF Look, Creating, ByLimit, ByCustomers, ByStaff, ByEmail
<1>3. ASSUME NEW v \in Workers \ stale', v # w PROVE Look(v)'
    <2>1. v \notin stale /\ (pc[v] \in ByEmail => item[v] # e) /\ pc[v] \notin ByStaff
        BY <1>3 DEF OthersOn, Others
    <2>2. pc[v] \in ByEmail => Users(item[v])' = Users(item[v])
        BY <1>3, <2>1 DEF Users, Columns
    <2> QED BY <1>3, <2>1, <2>2, Unaffected
<1> QED BY <1>1, <1>2, <1>3 DEF Looks

\* So does a seat that the platform or a manager gives or takes back.
LEMMA SeatEdited ==
    ASSUME Looked, NEW e \in Emails, NEW s \in StaffStatus,
           staff' = [staff EXCEPT ![e] = s],
           staff[e] = NONE => \A v \in OthersOn(NONE, ByEmail, e) : v \in stale',
           stale \cup Others(NONE, ByStaff) \subseteq stale',
           UNCHANGED <<plan, blocked, customers, owners, open, pc, item, rows, found>>
    PROVE  Finite' /\ Looks'
<1> USE DEF Looked, Typed, Agenda
<1>1. Finite'
    <2>1. Active' = IF s = "active" THEN Active \cup {e} ELSE Active \ {e}
        BY DEF Active, Columns
    <2> QED BY <2>1, FS_AddElement, FS_RemoveElement DEF Finite
<1>2. ASSUME NEW v \in Workers \ stale' PROVE Look(v)'
    <2>1. /\ v \notin stale /\ pc[v] \notin ByStaff
          /\ pc[v] \in ByEmail /\ item[v] = e => staff[e] # NONE
        BY <1>2, NoneAssumption DEF OthersOn, Others
    <2>2. pc[v] \in ByEmail => Users(item[v])' = Users(item[v])
        BY <1>2, <2>1, NoneAssumption DEF Users, Columns
    <2> QED BY <1>2, <2>1, <2>2, Unaffected
<1> QED BY <1>1, <1>2 DEF Looks

\* No other step takes a look back.
LEMMA StepLooks == Looked /\ [Next]_vars => (Finite /\ Looks)'
<1> SUFFICES ASSUME Looked, [Next]_vars PROVE (Finite /\ Looks)'
    OBVIOUS
<1> USE FS_EmptySet DEF Looked, Typed, Finite, Agenda, Findings, OfPhone, OfMessage, OfEmail,
        Labels, tenant, imported, inbound, accounts, work, local, history, bounds,
        Creating, ByLimit, ByCustomers, ByStaff, ByEmail
<1>1. ASSUME NEW w \in Workers, NEW p \in Phones, CreateCustomer(w, p) PROVE (Finite /\ Looks)'
    <2>1. /\ UNCHANGED <<plan, blocked, customers, owners, staff, open, stale>>
          /\ \A v \in Workers \ {w} : found'[v] = found[v]
          /\ rows' = [rows EXCEPT ![w] = rows[w]] /\ IsFiniteSet(rows[w])
          /\ \E l, i : pc' = [pc EXCEPT ![w] = l] /\ item' = [item EXCEPT ![w] = i]
        BY <1>1 DEF CreateCustomer, Start, Occupy
    <2>2. Look(w)'
        BY <1>1, <2>1 DEF CreateCustomer, Start, Occupy, CanWrite, EmailFree, Users, Look
    <2>3. PICK l, i : pc' = [pc EXCEPT ![w] = l] /\ item' = [item EXCEPT ![w] = i]
        BY <2>1
    <2> QED BY <2>1, <2>2, <2>3, OthersLook
<1>2. ASSUME NEW w \in Workers, NEW p \in Phones, BookForCaller(w, p) PROVE (Finite /\ Looks)'
    <2>1. /\ UNCHANGED <<plan, blocked, customers, owners, staff, open, stale>>
          /\ \A v \in Workers \ {w} : found'[v] = found[v]
          /\ rows' = [rows EXCEPT ![w] = rows[w]] /\ IsFiniteSet(rows[w])
          /\ \E l, i : pc' = [pc EXCEPT ![w] = l] /\ item' = [item EXCEPT ![w] = i]
        BY <1>2 DEF BookForCaller, Start, Occupy
    <2>2. Look(w)'
        BY <1>2, <2>1 DEF BookForCaller, Start, Occupy, CanWrite, EmailFree, Users, Look
    <2>3. PICK l, i : pc' = [pc EXCEPT ![w] = l] /\ item' = [item EXCEPT ![w] = i]
        BY <2>1
    <2> QED BY <2>1, <2>2, <2>3, OthersLook
<1>3. ASSUME NEW w \in Workers, NEW list \in Lists, ImportCustomers(w, list)
      PROVE (Finite /\ Looks)'
    <2>1. /\ UNCHANGED <<plan, blocked, customers, owners, staff, open, stale>>
          /\ \A v \in Workers \ {w} : found'[v] = found[v]
          /\ rows' = [rows EXCEPT ![w] = rows[w]] /\ IsFiniteSet(rows[w])
          /\ \E l, i : pc' = [pc EXCEPT ![w] = l] /\ item' = [item EXCEPT ![w] = i]
        BY <1>3 DEF ImportCustomers, BeginImport, Start, Occupy
    <2>2. Look(w)'
        BY <1>3, <2>1 DEF ImportCustomers, BeginImport, Start, Occupy, CanWrite, Look
    <2>3. PICK l, i : pc' = [pc EXCEPT ![w] = l] /\ item' = [item EXCEPT ![w] = i]
        BY <2>1
    <2> QED BY <2>1, <2>2, <2>3, OthersLook
<1>4. ASSUME NEW w \in Workers, NEW list \in Lists, ImportExport(w, list)
      PROVE (Finite /\ Looks)'
    <2>1. /\ UNCHANGED <<plan, blocked, customers, owners, staff, open, stale>>
          /\ \A v \in Workers \ {w} : found'[v] = found[v]
          /\ rows' = [rows EXCEPT ![w] = rows[w]] /\ IsFiniteSet(rows[w])
          /\ \E l, i : pc' = [pc EXCEPT ![w] = l] /\ item' = [item EXCEPT ![w] = i]
        BY <1>4 DEF ImportExport, BeginImport, Start, Occupy
    <2>2. Look(w)'
        BY <1>4, <2>1 DEF ImportExport, BeginImport, Start, Occupy, CanWrite, Look
    <2>3. PICK l, i : pc' = [pc EXCEPT ![w] = l] /\ item' = [item EXCEPT ![w] = i]
        BY <2>1
    <2> QED BY <2>1, <2>2, <2>3, OthersLook
<1>5. ASSUME NEW w \in Workers, NEW m \in Messages, Receive(w, m) PROVE (Finite /\ Looks)'
    <2>1. /\ UNCHANGED <<plan, blocked, customers, owners, staff, open, stale>>
          /\ \A v \in Workers \ {w} : found'[v] = found[v]
          /\ rows' = [rows EXCEPT ![w] = rows[w]] /\ IsFiniteSet(rows[w])
          /\ \E l, i : pc' = [pc EXCEPT ![w] = l] /\ item' = [item EXCEPT ![w] = i]
        BY <1>5 DEF Receive, TakeEvent, FirstAwait, Start, Occupy
    <2>2. Look(w)'
        BY <1>5, <2>1 DEF Receive, TakeEvent, FirstAwait, Start, Occupy, CanWrite,
               EmailFree, Users, Look
    <2>3. PICK l, i : pc' = [pc EXCEPT ![w] = l] /\ item' = [item EXCEPT ![w] = i]
        BY <2>1
    <2> QED BY <2>1, <2>2, <2>3, OthersLook
<1>6. ASSUME NEW w \in Workers, NEW m \in Messages, ReplayEvent(w, m) PROVE (Finite /\ Looks)'
    <2>1. /\ UNCHANGED <<plan, blocked, customers, owners, staff, open, stale>>
          /\ \A v \in Workers \ {w} : found'[v] = found[v]
          /\ rows' = [rows EXCEPT ![w] = rows[w]] /\ IsFiniteSet(rows[w])
          /\ \E l, i : pc' = [pc EXCEPT ![w] = l] /\ item' = [item EXCEPT ![w] = i]
        BY <1>6 DEF ReplayEvent, Start, Occupy
    <2>2. Look(w)'
        BY <1>6, <2>1 DEF ReplayEvent, Start, Occupy, CanWrite, EmailFree, Users, Look
    <2>3. PICK l, i : pc' = [pc EXCEPT ![w] = l] /\ item' = [item EXCEPT ![w] = i]
        BY <2>1
    <2> QED BY <2>1, <2>2, <2>3, OthersLook
<1>7. ASSUME NEW w \in Workers, NEW e \in Emails, Register(w, e) PROVE (Finite /\ Looks)'
    <2>1. /\ UNCHANGED <<plan, blocked, customers, owners, staff, open, stale>>
          /\ \A v \in Workers \ {w} : found'[v] = found[v]
          /\ rows' = [rows EXCEPT ![w] = rows[w]] /\ IsFiniteSet(rows[w])
          /\ \E l, i : pc' = [pc EXCEPT ![w] = l] /\ item' = [item EXCEPT ![w] = i]
        BY <1>7 DEF Register, Start, Occupy
    <2>2. Look(w)'
        BY <1>7, <2>1 DEF Register, Start, Occupy, CanWrite, EmailFree, Users, Look
    <2>3. PICK l, i : pc' = [pc EXCEPT ![w] = l] /\ item' = [item EXCEPT ![w] = i]
        BY <2>1
    <2> QED BY <2>1, <2>2, <2>3, OthersLook
<1>8. ASSUME NEW w \in Workers, NEW e \in Emails, CreateStaff(w, e) PROVE (Finite /\ Looks)'
    <2>1. /\ UNCHANGED <<plan, blocked, customers, owners, staff, open, stale>>
          /\ \A v \in Workers \ {w} : found'[v] = found[v]
          /\ rows' = [rows EXCEPT ![w] = rows[w]] /\ IsFiniteSet(rows[w])
          /\ \E l, i : pc' = [pc EXCEPT ![w] = l] /\ item' = [item EXCEPT ![w] = i]
        BY <1>8 DEF CreateStaff, Start, Occupy
    <2>2. Look(w)'
        BY <1>8, <2>1 DEF CreateStaff, Start, Occupy, CanWrite, EmailFree, Users, Look
    <2>3. PICK l, i : pc' = [pc EXCEPT ![w] = l] /\ item' = [item EXCEPT ![w] = i]
        BY <2>1
    <2> QED BY <2>1, <2>2, <2>3, OthersLook
<1>9. ASSUME NEW w \in Workers, NEW e \in Emails, CheckIn(w, e) PROVE (Finite /\ Looks)'
    <2>1. /\ UNCHANGED <<plan, blocked, customers, owners, staff, open, stale>>
          /\ \A v \in Workers \ {w} : found'[v] = found[v]
          /\ rows' = [rows EXCEPT ![w] = rows[w]] /\ IsFiniteSet(rows[w])
          /\ \E l, i : pc' = [pc EXCEPT ![w] = l] /\ item' = [item EXCEPT ![w] = i]
        BY <1>9 DEF CheckIn, Start, Occupy
    <2>2. Look(w)'
        BY <1>9, <2>1 DEF CheckIn, Start, Occupy, CanWrite, EmailFree, Users, Look
    <2>3. PICK l, i : pc' = [pc EXCEPT ![w] = l] /\ item' = [item EXCEPT ![w] = i]
        BY <2>1
    <2> QED BY <2>1, <2>2, <2>3, OthersLook
<1>10. ASSUME NEW w \in Workers, NEW e \in Emails, CheckOut(w, e) PROVE (Finite /\ Looks)'
    <2>1. /\ UNCHANGED <<plan, blocked, customers, owners, staff, open, stale>>
          /\ \A v \in Workers \ {w} : found'[v] = found[v]
          /\ rows' = [rows EXCEPT ![w] = rows[w]] /\ IsFiniteSet(rows[w])
          /\ \E l, i : pc' = [pc EXCEPT ![w] = l] /\ item' = [item EXCEPT ![w] = i]
        BY <1>10 DEF CheckOut, Start, Occupy
    <2>2. Look(w)'
        BY <1>10, <2>1 DEF CheckOut, Start, Occupy, CanWrite, EmailFree, Users, Look
    <2>3. PICK l, i : pc' = [pc EXCEPT ![w] = l] /\ item' = [item EXCEPT ![w] = i]
        BY <2>1
    <2> QED BY <2>1, <2>2, <2>3, OthersLook
<1>11. ASSUME NEW w \in Workers, CountCustomers(w) PROVE (Finite /\ Looks)'
    <2>1. UNCHANGED <<plan, blocked, customers, owners, staff, open>>
        BY <1>11 DEF CountCustomers
    <2>2. CASE Leave(w)
        BY <2>1, <2>2, LeaveLook
    <2>3. CASE ~Leave(w)
        <3>1. Goto(w, "insert") /\ UNCHANGED stale
            BY <1>11, <2>3 DEF CountCustomers
        <3>2. w \notin stale => Look(w)'
            BY <1>11, <2>1, <2>3, <3>1 DEF CountCustomers, Goto, Looks, Look, Below,
               NoStaff, Active
        <3> QED BY <2>1, <3>1, <3>2, GotoLook
    <2> QED BY <2>2, <2>3
<1>12. ASSUME NEW w \in Workers, InsertCustomer(w) PROVE (Finite /\ Looks)'
    <2>1. /\ item[w] \in Phones /\ customers' = customers \cup {item[w]}
          /\ pc' = [pc EXCEPT ![w] = "idle"] /\ item' = [item EXCEPT ![w] = NONE]
          /\ rows' = [rows EXCEPT ![w] = {}] /\ stale' = (stale \cup OutdatedBy(w, item[w])) \ {w}
          /\ \A v \in Workers \ {w} : found'[v] = found[v]
          /\ UNCHANGED <<plan, blocked, owners, staff, open>>
        BY <1>12 DEF InsertCustomer, LeaveTelling, Clear
    <2>2. Look(w)'
        BY <2>1 DEF Look
    <2> QED BY <2>1, <2>2, CustomerTold
<1>13. ASSUME NEW w \in Workers, UpsertCaller(w) PROVE (Finite /\ Looks)'
    <2>1. /\ item[w] \in Phones /\ customers' = customers \cup {item[w]}
          /\ pc' = [pc EXCEPT ![w] = "idle"] /\ item' = [item EXCEPT ![w] = NONE]
          /\ rows' = [rows EXCEPT ![w] = {}] /\ stale' = (stale \cup OutdatedBy(w, item[w])) \ {w}
          /\ \A v \in Workers \ {w} : found'[v] = found[v]
          /\ UNCHANGED <<plan, blocked, owners, staff, open>>
        BY <1>13 DEF UpsertCaller, LeaveTelling, Clear
    <2>2. Look(w)'
        BY <2>1 DEF Look
    <2> QED BY <2>1, <2>2, CustomerTold
<1>14. ASSUME NEW w \in Workers, UpsertRow(w) PROVE (Finite /\ Looks)'
    <2>1. PICK p \in rows[w] : /\ p \in Phones /\ customers' = customers \cup {p}
                               /\ UNCHANGED <<pc, item, found>> /\ pc[w] = "rows"
                               /\ rows' = [rows EXCEPT ![w] = rows[w] \ {p}]
                               /\ stale' = stale \cup OutdatedBy(w, p)
                               /\ UNCHANGED <<plan, blocked, owners, staff, open>>
        BY <1>14 DEF UpsertRow
    <2>2. rows'[w] = rows[w] \ {p} /\ \A v \in Workers \ {w} : rows'[v] = rows[v]
        BY <2>1
    <2>3. w \notin stale => Look(w)'
        BY <2>1, <2>2, RowFits DEF Looks
    <2>4. IsFiniteSet(rows'[w])
        <3>1. IsFiniteSet(rows[w])
            OBVIOUS
        <3>2. IsFiniteSet(rows[w] \ {p})
            BY <3>1, FS_RemoveElement
        <3> QED BY <2>2, <3>2
    <2> QED BY <2>1, <2>2, <2>3, <2>4, CustomerTold
<1>15. ASSUME NEW w \in Workers, MatchChats(w) PROVE (Finite /\ Looks)'
    BY <1>15, ChatLook DEF MatchChats
<1>16. ASSUME NEW w \in Workers, OpenThread(w) PROVE (Finite /\ Looks)'
    <2>1. Look(w)'
        BY <1>16 DEF OpenThread, Goto, Look
    <2> QED BY <1>16, <2>1, GotoLook DEF OpenThread
<1>17. ASSUME NEW w \in Workers, KeepLines(w) PROVE (Finite /\ Looks)'
    <2>1. Look(w)'
        BY <1>17 DEF KeepLines, Goto, Look
    <2> QED BY <1>17, <2>1, GotoLook DEF KeepLines
<1>18. ASSUME NEW w \in Workers, CreateLead(w) PROVE (Finite /\ Looks)'
    BY <1>18, ChatLook DEF CreateLead
<1>19. ASSUME NEW w \in Workers, UpsertSender(w) PROVE (Finite /\ Looks)'
    <2>1. /\ item[w].from \in Phones /\ customers' = customers \cup {item[w].from}
          /\ pc' = [pc EXCEPT ![w] = "log"] /\ UNCHANGED <<item, rows, found>>
          /\ stale' = stale \cup OutdatedBy(w, item[w].from)
          /\ UNCHANGED <<plan, blocked, owners, staff, open>>
        BY <1>19, MessagesAssumption DEF UpsertSender, Goto
    <2>2. Look(w)'
        BY <2>1 DEF Look
    <2> QED BY <2>1, <2>2, CustomerTold
<1>20. ASSUME NEW w \in Workers, LogMessage(w) PROVE (Finite /\ Looks)'
    <2>1. Look(w)'
        BY <1>20 DEF LogMessage, Goto, Look
    <2> QED BY <1>20, <2>1, GotoLook DEF LogMessage
<1>21. ASSUME NEW w \in Workers, EndMessage(w) PROVE (Finite /\ Looks)'
    BY <1>21, LeaveLook DEF EndMessage
<1>22. ASSUME NEW w \in Workers, NEW n \in Names, FindSlug(w, n) PROVE (Finite /\ Looks)'
    <2>1. /\ UNCHANGED <<plan, blocked, customers, owners, staff, open, stale>>
          /\ rows' = [rows EXCEPT ![w] = rows[w]] /\ IsFiniteSet(rows[w])
          /\ \A v \in Workers \ {w} : found'[v] = found[v]
          /\ pc' = [pc EXCEPT ![w] = "register"] /\ item' = [item EXCEPT ![w] = item[w]]
        BY <1>22 DEF FindSlug
    <2>2. w \notin stale => Look(w)'
        BY <1>22, <2>1 DEF FindSlug, Users, Looks, Look
    <2> QED BY <2>1, <2>2, OthersLook
<1>23. ASSUME NEW w \in Workers, InsertTenant(w) PROVE (Finite /\ Looks)'
    <2> DEFINE e == item[w]
    <2>1. CASE Leave(w) /\ UNCHANGED owners
        BY <1>23, <2>1, LeaveLook DEF InsertTenant
    <2>2. CASE LeaveTelling(w, OthersOn(w, ByEmail, e)) /\ owners' = [owners EXCEPT ![e] = @ + 1]
        <3>1. /\ pc' = [pc EXCEPT ![w] = "idle"] /\ item' = [item EXCEPT ![w] = NONE]
              /\ rows' = [rows EXCEPT ![w] = {}]
              /\ stale' = (stale \cup OthersOn(w, ByEmail, e)) \ {w}
              /\ \A v \in Workers \ {w} : found'[v] = found[v]
              /\ UNCHANGED <<plan, blocked, customers, staff, open>>
            BY <1>23, <2>2 DEF InsertTenant, LeaveTelling, Clear
        <3> QED BY <2>2, <3>1, AccountTold
    <2> QED BY <1>23, <2>1, <2>2 DEF InsertTenant
<1>24. ASSUME NEW w \in Workers, CountStaff(w) PROVE (Finite /\ Looks)'
    <2>1. UNCHANGED <<plan, blocked, customers, owners, staff, open>>
        BY <1>24 DEF CountStaff
    <2>2. CASE Leave(w)
        BY <2>1, <2>2, LeaveLook
    <2>3. CASE ~Leave(w)
        <3>1. Goto(w, "email") /\ UNCHANGED stale
            BY <1>24, <2>3 DEF CountStaff
        <3>2. w \notin stale => Look(w)'
            BY <1>24, <2>1, <2>3, <3>1 DEF CountStaff, Goto, Looks, Look, Below, NoStaff,
               Active
        <3> QED BY <2>1, <3>1, <3>2, GotoLook
    <2> QED BY <2>2, <2>3
<1>25. ASSUME NEW w \in Workers, FindStaff(w) PROVE (Finite /\ Looks)'
    <2>1. UNCHANGED <<plan, blocked, customers, owners, staff, open>>
        BY <1>25 DEF FindStaff
    <2>2. CASE Leave(w)
        BY <2>1, <2>2, LeaveLook
    <2>3. CASE ~Leave(w)
        <3>1. Goto(w, "staff") /\ UNCHANGED stale
            BY <1>25, <2>3 DEF FindStaff
        <3>2. w \notin stale => Look(w)'
            BY <1>25, <2>1, <2>3, <3>1 DEF FindStaff, Goto, Looks, Look, Below, NoStaff,
               Active
        <3> QED BY <2>1, <3>1, <3>2, GotoLook
    <2> QED BY <2>2, <2>3
<1>26. ASSUME NEW w \in Workers, InsertStaff(w) PROVE (Finite /\ Looks)'
    <2> DEFINE e == item[w]
    <2>1. CASE Leave(w) /\ UNCHANGED staff
        BY <1>26, <2>1, LeaveLook DEF InsertStaff
    <2>2. CASE /\ LeaveTelling(w, Others(w, ByStaff) \cup OthersOn(w, ByEmail, e))
               /\ staff' = [staff EXCEPT ![e] = "active"]
        <3>1. /\ pc' = [pc EXCEPT ![w] = "idle"] /\ item' = [item EXCEPT ![w] = NONE]
              /\ rows' = [rows EXCEPT ![w] = {}] /\ item[w] \in Emails
              /\ stale' = (stale \cup Others(w, ByStaff) \cup OthersOn(w, ByEmail, e)) \ {w}
              /\ \A v \in Workers \ {w} : found'[v] = found[v]
              /\ UNCHANGED <<plan, blocked, customers, owners, open>>
            BY <1>26, <2>2 DEF InsertStaff, LeaveTelling, Clear
        <3> QED BY <2>2, <3>1, SeatTold
    <2> QED BY <1>26, <2>1, <2>2 DEF InsertStaff
<1>27. ASSUME NEW w \in Workers, InsertShift(w) PROVE (Finite /\ Looks)'
    <2> DEFINE e == item[w]
    <2>1. /\ pc' = [pc EXCEPT ![w] = "idle"] /\ item' = [item EXCEPT ![w] = NONE]
          /\ rows' = [rows EXCEPT ![w] = {}]
          /\ open' = [open EXCEPT ![e] = @ \cup {shifts[e] + 1}]
          /\ stale' = (stale \cup OthersOn(w, {"in"}, e)) \ {w}
          /\ \A v \in Workers \ {w} : found'[v] = found[v]
          /\ UNCHANGED <<plan, blocked, customers, owners, staff>>
        BY <1>27 DEF InsertShift, LeaveTelling, Clear
    <2>2. Active' = Active /\ \A x : Users(x)' = Users(x)
        BY <2>1 DEF Active, Users
    <2>3. Look(w)'
        BY <2>1 DEF Look
    <2>4. ASSUME NEW v \in Workers \ stale', v # w PROVE Look(v)'
        <3>1. v \notin stale /\ (pc[v] = "in" => item[v] # e)
            BY <2>1, <2>4 DEF OthersOn, Others
        <3>2. pc[v] = "in" => open'[item[v]] = open[item[v]]
            BY <2>1, <3>1
        <3> QED BY <2>1, <2>2, <2>4, <3>1, <3>2, Unaffected
    <2>5. Finite'
        BY <2>1, <2>2 DEF Finite
    <2> QED BY <2>3, <2>4, <2>5 DEF Looks
<1>28. ASSUME NEW w \in Workers, CloseShift(w) PROVE (Finite /\ Looks)'
    BY <1>28, LeaveLook DEF CloseShift
<1>29. ASSUME NEW w \in Workers, Abort(w) PROVE (Finite /\ Looks)'
    BY <1>29, LeaveLook DEF Abort
<1>30. ASSUME NEW e \in Emails, AddUser(e) PROVE (Finite /\ Looks)'
    BY <1>30, SeatEdited DEF AddUser, NoStaff, StaffStatus
<1>31. ASSUME NEW e \in Emails, SetActive(e) PROVE (Finite /\ Looks)'
    <2>1. PICK s \in StaffStatus : staff' = [staff EXCEPT ![e] = s]
        BY <1>31 DEF SetActive, StaffStatus
    <2> QED BY <1>31, <2>1, SeatEdited DEF SetActive, Staff
<1>32. ASSUME ApplyPlan PROVE (Finite /\ Looks)'
    <2>1. UNCHANGED <<customers, owners, staff, open, pc, item, rows, found>>
        BY <1>32 DEF ApplyPlan
    <2>2. Finite'
        BY <2>1 DEF Active
    <2>3. Active' = Active /\ \A e : Users(e)' = Users(e)
        BY <2>1 DEF Active, Users
    <2>4. ASSUME NEW v \in Workers \ stale' PROVE Look(v)'
        <3>1. v \notin stale /\ pc[v] \notin ByLimit /\ UNCHANGED blocked
            BY <1>32, <2>4, NoneAssumption DEF ApplyPlan, Others
        <3> QED BY <2>1, <2>3, <3>1, Unaffected
    <2> QED BY <2>2, <2>4 DEF Looks
<1>33. ASSUME ChangeBilling PROVE (Finite /\ Looks)'
    <2>1. UNCHANGED <<customers, owners, staff, open, pc, item, rows, found>>
        BY <1>33 DEF ChangeBilling
    <2>2. Finite'
        BY <2>1 DEF Active
    <2>3. Active' = Active /\ \A e : Users(e)' = Users(e)
        BY <2>1 DEF Active, Users
    <2>4. ASSUME NEW v \in Workers \ stale' PROVE Look(v)'
        <3>1. v \notin stale /\ pc[v] \notin Creating /\ UNCHANGED plan
            BY <1>33, <2>4, NoneAssumption DEF ChangeBilling, Others
        <3> QED BY <2>1, <2>3, <3>1, Unaffected
    <2> QED BY <2>2, <2>4 DEF Looks
<1>34. ASSUME NEW w \in Workers, NEW m \in Messages, Redeliver(w, m) PROVE (Finite /\ Looks)'
    <2>1. /\ UNCHANGED <<plan, blocked, customers, owners, staff, open, stale, found>>
          /\ rows' = [rows EXCEPT ![w] = rows[w]] /\ IsFiniteSet(rows[w])
          /\ \E l, i : pc' = [pc EXCEPT ![w] = l] /\ item' = [item EXCEPT ![w] = i]
        BY <1>34 DEF Redeliver, TakeEvent, Occupy
    <2>2. Look(w)'
        BY <1>34, <2>1 DEF Redeliver, TakeEvent, FirstAwait, Occupy, Look
    <2>3. PICK l, i : pc' = [pc EXCEPT ![w] = l] /\ item' = [item EXCEPT ![w] = i]
        BY <2>1
    <2> QED BY <2>1, <2>2, <2>3, OthersLook
<1>35. ASSUME NEW w \in Workers, AdmitImport(w) PROVE (Finite /\ Looks)'
    <2>1. UNCHANGED <<plan, blocked, customers, owners, staff, open>>
        BY <1>35 DEF AdmitImport
    <2>2. CASE Leave(w)
        BY <2>1, <2>2, LeaveLook
    <2>3. CASE ~Leave(w)
        <3>1. Goto(w, "limit") /\ UNCHANGED stale /\ ~blocked
            BY <1>35, <2>3 DEF AdmitImport, CanWrite
        <3>2. Look(w)'
            BY <2>1, <3>1 DEF Goto, Look
        <3> QED BY <2>1, <3>1, <3>2, GotoLook
    <2> QED BY <2>2, <2>3
<1>36. ASSUME NEW w \in Workers, ReadLimit(w) PROVE (Finite /\ Looks)'
    <2>1. /\ UNCHANGED <<plan, blocked, customers, owners, staff, open, stale>>
          /\ rows' = [rows EXCEPT ![w] = rows[w]] /\ IsFiniteSet(rows[w])
          /\ pc' = [pc EXCEPT ![w] = "room"] /\ item' = [item EXCEPT ![w] = item[w]]
          /\ found' = [found EXCEPT ![w] = [list |-> found[w].list, limit |-> plan.customers]]
        BY <1>36 DEF ReadLimit
    <2>2. w \notin stale => Look(w)'
        BY <1>36, <2>1 DEF ReadLimit, Looks, Look
    <2> QED BY <2>1, <2>2, OthersLook
<1>37. ASSUME NEW w \in Workers, TakeRows(w) PROVE (Finite /\ Looks)'
    <2> DEFINE S == FirstRows(found[w].list, found[w].limit)
    <2>1. /\ UNCHANGED <<plan, blocked, customers, owners, staff, open, stale>>
          /\ rows' = [rows EXCEPT ![w] = S] /\ pc[w] = "room"
          /\ pc' = [pc EXCEPT ![w] = "rows"] /\ item' = [item EXCEPT ![w] = item[w]]
          /\ found' = [found EXCEPT ![w] = NONE]
        BY <1>37 DEF TakeRows
    <2>2. found[w].list \in Lists /\ found[w].limit \in Nat \cup {NONE}
        BY <2>1
    <2>3. /\ IsFiniteSet(S)
          /\ S # {} /\ found[w].limit # NONE =>
               Cardinality(customers) + Cardinality(S) <= found[w].limit
        BY <2>2, RowsFit
    <2> HIDE DEF S
    <2>4. w \notin stale => ~blocked /\ found[w].limit = plan.customers
        BY <2>1 DEF Looks, Look
    <2>5. rows'[w] = S /\ pc'[w] = "rows"
        BY <2>1
    <2>6. w \notin stale => Look(w)'
        BY <2>1, <2>3, <2>4, <2>5 DEF Look
    <2> QED BY <2>1, <2>3, <2>6, OthersLook
<1>38. ASSUME NEW w \in Workers, MirrorLines(w) PROVE (Finite /\ Looks)'
    <2>1. CASE NextChat(w, chats[w])
        BY <1>38, <2>1, ChatLook DEF MirrorLines
    <2>2. CASE Goto(w, "lead") /\ UNCHANGED stale
        <3>1. Look(w)'
            BY <1>38, <2>2 DEF MirrorLines, Goto, Look
        <3> QED BY <1>38, <2>2, <3>1, GotoLook DEF MirrorLines
    <2> QED BY <1>38, <2>1, <2>2 DEF MirrorLines
<1>39. CASE UNCHANGED vars
    BY <1>39 DEF Looks, Look, Active, Users, vars, tenant, imported, inbound, accounts,
       work, local, history, bounds
<1> QED BY <1>1, <1>2, <1>3, <1>4, <1>5, <1>6, <1>7, <1>8, <1>9, <1>10, <1>11, <1>12,
           <1>13, <1>14, <1>15, <1>16, <1>17, <1>18, <1>19, <1>20, <1>21, <1>22,
           <1>23, <1>24, <1>25, <1>26, <1>27, <1>28, <1>29, <1>30, <1>31, <1>32,
           <1>33, <1>34, <1>35, <1>36, <1>37, <1>38, <1>39 DEF Next, Begin, Continue,
           UpdateStaff, UpdateUser

\* A look that is not out of date does not fail at the write.
Holds(w) == <<pc[w], rows[w]>>' # <<pc[w], rows[w]>> => ~Exceeds(w)
Within   == \A w \in Workers \ stale : Holds(w)

LEMMA LooksHold == Looked /\ [Next]_vars => Within
<1> SUFFICES ASSUME Looked, [Next]_vars PROVE Within
    OBVIOUS
<1>0. /\ Cardinality(customers) \in Nat /\ Cardinality(Active) \in Nat
      /\ {plan.customers, plan.staff} \subseteq Nat \cup {NONE}
    BY FS_CardinalityType, PlansAssumption DEF Looked, Typed, Columns, Finite
<1> USE <1>0, NoneAssumption DEF Within, Holds, Exceeds, Over, Below, Looked, Typed,
       Finite, Agenda,
        OfPhone, OfMessage, OfEmail, Labels, tenant, imported, inbound, accounts, work,
        local, history, bounds, Creating, ByLimit, ByCustomers, ByStaff, ByEmail
<1>1. ASSUME NEW w \in Workers, NEW p \in Phones, CreateCustomer(w, p) PROVE Within
    BY <1>1 DEF CreateCustomer, Start, Occupy
<1>2. ASSUME NEW w \in Workers, NEW p \in Phones, BookForCaller(w, p) PROVE Within
    BY <1>2 DEF BookForCaller, Start, Occupy
<1>3. ASSUME NEW w \in Workers, NEW list \in Lists, ImportCustomers(w, list) PROVE Within
    BY <1>3 DEF ImportCustomers, BeginImport, Start, Occupy
<1>4. ASSUME NEW w \in Workers, NEW list \in Lists, ImportExport(w, list) PROVE Within
    BY <1>4 DEF ImportExport, BeginImport, Start, Occupy
<1>5. ASSUME NEW w \in Workers, NEW m \in Messages, Receive(w, m) PROVE Within
    BY <1>5 DEF Receive, TakeEvent, FirstAwait, Start, Occupy
<1>6. ASSUME NEW w \in Workers, NEW m \in Messages, ReplayEvent(w, m) PROVE Within
    BY <1>6 DEF ReplayEvent, Start, Occupy
<1>7. ASSUME NEW w \in Workers, NEW e \in Emails, Register(w, e) PROVE Within
    BY <1>7 DEF Register, Start, Occupy
<1>8. ASSUME NEW w \in Workers, NEW e \in Emails, CreateStaff(w, e) PROVE Within
    BY <1>8 DEF CreateStaff, Start, Occupy
<1>9. ASSUME NEW w \in Workers, NEW e \in Emails, CheckIn(w, e) PROVE Within
    BY <1>9 DEF CheckIn, Start, Occupy
<1>10. ASSUME NEW w \in Workers, NEW e \in Emails, CheckOut(w, e) PROVE Within
    BY <1>10 DEF CheckOut, Start, Occupy
<1>11. ASSUME NEW w \in Workers, CountCustomers(w) PROVE Within
    BY <1>11 DEF CountCustomers, Goto, Leave, LeaveTelling, Clear
<1>12. ASSUME NEW w \in Workers, InsertCustomer(w) PROVE Within
    BY <1>12 DEF Looks, Look, InsertCustomer, LeaveTelling, Clear
<1>13. ASSUME NEW w \in Workers, UpsertCaller(w) PROVE Within
    BY <1>13 DEF UpsertCaller, LeaveTelling, Clear
<1>14. ASSUME NEW w \in Workers, UpsertRow(w) PROVE Within
    <2>1. pc[w] = "rows" /\ rows[w] # {} /\ IsFiniteSet(rows[w])
          /\ UNCHANGED pc /\ \A u \in Workers \ {w} : rows'[u] = rows[u]
        BY <1>14 DEF UpsertRow
    <2>2. Cardinality(rows[w]) \in Nat /\ Cardinality(rows[w]) # 0
        BY <2>1, FS_CardinalityType, FS_EmptySet
    <2>3. w \notin stale => ~Over(Cardinality(customers), plan.customers) /\ ~blocked
        BY <2>1, <2>2 DEF Looks, Look
    <2> QED BY <2>1, <2>3
<1>15. ASSUME NEW w \in Workers, MatchChats(w) PROVE Within
    BY <1>15 DEF MatchChats, NextChat, Matched, Leave, LeaveTelling, Clear
<1>16. ASSUME NEW w \in Workers, OpenThread(w) PROVE Within
    BY <1>16 DEF OpenThread, Goto
<1>17. ASSUME NEW w \in Workers, KeepLines(w) PROVE Within
    BY <1>17 DEF KeepLines, Goto
<1>18. ASSUME NEW w \in Workers, CreateLead(w) PROVE Within
    BY <1>18 DEF CreateLead, NextChat, Leave, LeaveTelling, Clear
<1>19. ASSUME NEW w \in Workers, UpsertSender(w) PROVE Within
    BY <1>19 DEF UpsertSender, Goto
<1>20. ASSUME NEW w \in Workers, LogMessage(w) PROVE Within
    BY <1>20 DEF LogMessage, Goto
<1>21. ASSUME NEW w \in Workers, EndMessage(w) PROVE Within
    BY <1>21 DEF EndMessage, Leave, LeaveTelling, Clear
<1>22. ASSUME NEW w \in Workers, NEW n \in Names, FindSlug(w, n) PROVE Within
    BY <1>22 DEF FindSlug
<1>23. ASSUME NEW w \in Workers, InsertTenant(w) PROVE Within
    BY <1>23 DEF Looks, Look, InsertTenant, Leave, LeaveTelling, Clear
<1>24. ASSUME NEW w \in Workers, CountStaff(w) PROVE Within
    BY <1>24 DEF CountStaff, Goto, Leave, LeaveTelling, Clear
<1>25. ASSUME NEW w \in Workers, FindStaff(w) PROVE Within
    BY <1>25 DEF FindStaff, Goto, Leave, LeaveTelling, Clear
<1>26. ASSUME NEW w \in Workers, InsertStaff(w) PROVE Within
    BY <1>26 DEF Looks, Look, InsertStaff, Leave, LeaveTelling, Clear
<1>27. ASSUME NEW w \in Workers, InsertShift(w) PROVE Within
    BY <1>27 DEF Looks, Look, InsertShift, LeaveTelling, Clear
<1>28. ASSUME NEW w \in Workers, CloseShift(w) PROVE Within
    BY <1>28 DEF CloseShift, Leave, LeaveTelling, Clear
<1>29. ASSUME NEW w \in Workers, Abort(w) PROVE Within
    BY <1>29 DEF Abort, Leave, LeaveTelling, Clear
<1>30. ASSUME NEW e \in Emails, AddUser(e) PROVE Within
    BY <1>30 DEF AddUser
<1>31. ASSUME NEW e \in Emails, SetActive(e) PROVE Within
    BY <1>31 DEF SetActive
<1>32. ASSUME ApplyPlan PROVE Within
    BY <1>32 DEF ApplyPlan
<1>33. ASSUME ChangeBilling PROVE Within
    BY <1>33 DEF ChangeBilling
<1>34. ASSUME NEW w \in Workers, NEW m \in Messages, Redeliver(w, m) PROVE Within
    BY <1>34 DEF Redeliver, TakeEvent, FirstAwait, Occupy
<1>35. ASSUME NEW w \in Workers, AdmitImport(w) PROVE Within
    BY <1>35 DEF AdmitImport, Goto, Leave, LeaveTelling, Clear
<1>36. ASSUME NEW w \in Workers, ReadLimit(w) PROVE Within
    BY <1>36 DEF ReadLimit
<1>37. ASSUME NEW w \in Workers, TakeRows(w) PROVE Within
    BY <1>37 DEF TakeRows
<1>38. ASSUME NEW w \in Workers, MirrorLines(w) PROVE Within
    BY <1>38 DEF MirrorLines, Goto, NextChat, Leave, LeaveTelling, Clear
<1>39. CASE UNCHANGED vars
    BY <1>39 DEF vars, tenant, imported, inbound, accounts, work, local, history, bounds
<1> QED BY <1>1, <1>2, <1>3, <1>4, <1>5, <1>6, <1>7, <1>8, <1>9, <1>10, <1>11, <1>12,
           <1>13, <1>14, <1>15, <1>16, <1>17, <1>18, <1>19, <1>20, <1>21, <1>22,
           <1>23, <1>24, <1>25, <1>26, <1>27, <1>28, <1>29, <1>30, <1>31, <1>32,
           <1>33, <1>34, <1>35, <1>36, <1>37, <1>38, <1>39 DEF Next, Begin, Continue,
           UpdateStaff, UpdateUser

\* The look before the write fails for those only whose look is out of date: the
\* property of all behaviors.
THEOREM FreshLooksHold == Spec => OnlyOldLooksExceed
<1>1. Looked /\ [Next]_vars => Looked'
    <2> SUFFICES ASSUME Looked, [Next]_vars PROVE Looked'
        OBVIOUS
    <2>1. Typed'
        BY StepFlags, StepColumns, StepAgenda, StepFindings, StepRefers DEF Looked, Typed
    <2>2. Finite' /\ Looks'
        BY StepLooks
    <2> QED BY <2>1, <2>2 DEF Looked
<1>2. Looked /\ [Next]_vars =>
        [\A w \in Workers \ stale :
            <<pc[w], rows[w]>>' # <<pc[w], rows[w]>> => ~Exceeds(w)]_vars
    BY LooksHold DEF Within, Holds
<1> QED BY InitLooked, <1>1, <1>2, PTL DEF Spec, OnlyOldLooksExceed
=============================================================================
