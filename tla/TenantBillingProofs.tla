------------------------- MODULE TenantBillingProofs -------------------------
(***************************************************************************)
(* What TenantBilling promises for every set of events, calls and changes: *)
(* the money of an event is in the ledger once, and is there when the      *)
(* event is done; an active subscription has been paid for; and a scan or  *)
(* a checkout does harm only with an old copy of the tenant.               *)
(***************************************************************************)
EXTENDS TenantBilling, TLAPS

\* A call has an event exactly while it handles one, and the scan that ends a
\* trial goes on with the task for it.
LocalOK ==
    \A w \in Workers :
        /\ key[w] # NONE => pc[w] \in Handling
        /\ pc[w] = "expire" => data[w] = "trial"

TypeInv == TypeOK /\ LocalOK

\* The labels of the statements, and what a call may hold.
Label == Handling \cup Holding \cup {"idle", "entry"}
Datum == Part \cup Task \cup Entry \cup Link \cup {NONE}

USE DEF Handling, Holding, Label, Datum

\* The fields of a tenant that one of the calls writes stay in their domains.
LEMMA TenantTyped ==
    ASSUME NEW t \in Tenant
    PROVE  /\ Paid(t) \in Tenant /\ Paid(t).sub = "ACTIVE"
           /\ PastDue(t) \in Tenant /\ PastDue(t).sub = "PAST_DUE"
           /\ Canceled(t) \in Tenant /\ Canceled(t).sub = "CANCELED"
           /\ [t EXCEPT !.pastDue = FALSE] \in Tenant
           /\ [t EXCEPT !.status = "ARCHIVED"] \in Tenant
           /\ [t EXCEPT !.status = "ACTIVE"] \in Tenant
           /\ \A b \in BOOLEAN : [t EXCEPT !.linked = b] \in Tenant
           /\ \A x \in Trial : [t EXCEPT !.trial = x] \in Tenant
BY DEF Tenant, TenantStatus, SubscriptionStatus, Paid, PastDue, Canceled

\* What the platform's people write by updateTenant is a tenant.
LEMMA ChangeTyped ==
    ASSUME TypeInv, NEW c \in Changes, UpdateTenant(c)
    PROVE  tenant' \in Tenant
<1>1. PICK a \in TenantStatus, b \in SubscriptionStatus, d \in Trial :
            a = Given(c.status, tenant.status) /\ b = Given(c.sub, tenant.sub)
            /\ d = Given(c.trial, tenant.trial)
    <2>1. /\ Given(c.status, tenant.status) \in TenantStatus
          /\ Given(c.sub, tenant.sub) \in SubscriptionStatus
          /\ Given(c.trial, tenant.trial) \in Trial
        BY BoundsAssumption DEF Given, Change, TypeInv, TypeOK, Tenant
    <2> QED BY <2>1, Zenon
<1>2. PICK id \in BOOLEAN : id = Given(c.linked, tenant.linked)
    BY BoundsAssumption DEF Given, Change, TypeInv, TypeOK, Tenant
<1> DEFINE past0 == IF c.sub = NONE THEN tenant.pastDue ELSE c.sub \in {"PAST_DUE", "UNPAID"}
           end0  == IF c.sub = NONE THEN tenant.canceled ELSE c.sub = "CANCELED"
<1>3. PICK past \in BOOLEAN, end \in BOOLEAN : past = past0 /\ end = end0
    <2>1. past0 \in BOOLEAN /\ end0 \in BOOLEAN
        <3>1. tenant.pastDue \in BOOLEAN /\ tenant.canceled \in BOOLEAN
            BY DEF TypeInv, TypeOK, Tenant
        <3>2. (c.sub \in {"PAST_DUE", "UNPAID"}) \in BOOLEAN /\ (c.sub = "CANCELED") \in BOOLEAN
            OBVIOUS
        <3>3. CASE c.sub = NONE
            BY <3>1, <3>3, Zenon
        <3>4. CASE c.sub # NONE
            BY <3>2, <3>4, Zenon
        <3> QED BY <3>3, <3>4
    <2> HIDE DEF past0, end0
    <2> QED BY <2>1, Zenon
<1>4. tenant' = [tenant EXCEPT !.status = a, !.sub = b, !.trial = d, !.linked = id,
                               !.pastDue = past, !.canceled = end]
    BY <1>1, <1>2, <1>3 DEF UpdateTenant, Write
<1> QED BY <1>4 DEF TypeInv, TypeOK, Tenant

\* A call that moves on keeps its local variables in their domains.
LEMMA HoldTyped ==
    ASSUME TypeInv, NEW w \in Workers, NEW label \in Label,
           NEW e \in Events \cup {NONE}, NEW d \in Datum,
           Hold(w, label, e, d),
           \A f \in Events : event[f] # NONE => event'[f] # NONE,
           IF label \in Handling THEN e \in Events /\ event'[e] # NONE ELSE e = NONE,
           label \in {"find", "create"} => d \in Part,
           label = "expire" => d = "trial",
           label = "task" => d \in Task,
           label = "entry" => d \in Entry,
           label = "link" => d \in Link
    PROVE  /\ pc' \in [Workers -> Label]
           /\ key' \in [Workers -> Events \cup {NONE}]
           /\ data' \in [Workers -> Datum]
           /\ \A v \in Workers :
                /\ pc'[v] \in Handling => key'[v] \in Events /\ event'[key'[v]] # NONE
                /\ pc'[v] \in {"find", "create"} => data'[v] \in Part
                /\ pc'[v] = "task" => data'[v] \in Task
                /\ pc'[v] = "entry" => data'[v] \in Entry
                /\ pc'[v] = "link" => data'[v] \in Link
           /\ LocalOK'
<1>1. \A v \in Workers \ {w} : pc'[v] = pc[v] /\ key'[v] = key[v] /\ data'[v] = data[v]
    BY DEF Hold, TypeInv, TypeOK
<1>2. pc'[w] = label /\ key'[w] = e /\ data'[w] = d
    BY DEF Hold, TypeInv, TypeOK
<1>3. /\ pc' \in [Workers -> Label]
      /\ key' \in [Workers -> Events \cup {NONE}]
      /\ data' \in [Workers -> Datum]
    BY DEF Hold, TypeInv, TypeOK
<1> QED BY <1>1, <1>2, <1>3 DEF TypeInv, TypeOK, LocalOK

\* The initial state is well typed.
LEMMA InitTyped == Init => TypeInv
<1> SUFFICES ASSUME Init PROVE TypeInv
    OBVIOUS
<1>1. tenant \in Tenant
    BY BoundsAssumption DEF Init, Start, Tenant, Trial
<1>2. 0 \in 0..MaxReplays /\ 0 \in 0..MaxEdits /\ 0 \in 0..MaxFaults
    BY BoundsAssumption
<1> QED BY <1>1, <1>2 DEF Init, TypeInv, TypeOK, LocalOK

-----------------------------------------------------------------------------
\* Every statement keeps the types.
LEMMA StepTyped == TypeInv /\ [Next]_vars => TypeInv'
<1> SUFFICES ASSUME TypeInv, [Next]_vars PROVE TypeInv'
    OBVIOUS
<1> USE BoundsAssumption, NamesAssumption DEF ledger, bounds
<1>0. /\ tenant \in Tenant /\ sent \in [Events -> Contents]
      /\ "RECEIVED" # NONE /\ "PROCESSED" # NONE /\ "IGNORED" # NONE /\ "FAILED" # NONE
    BY DEF TypeInv, TypeOK, EventStatus
<1>1. ASSUME NEW w \in Workers, NEW e \in Events, StoreEvent(w, e) \/ ReplayEvent(w, e)
      PROVE  TypeInv'
    <2>1. event' = [event EXCEPT ![e] = "RECEIVED"] /\ Hold(w, "resolve", e, NONE)
        BY <1>1 DEF StoreEvent, ReplayEvent
    <2>2. event' \in [Events -> EventStatus \cup {NONE}] /\ event'[e] # NONE
          /\ \A f \in Events : event[f] # NONE => event'[f] # NONE
        BY <1>0, <2>1 DEF TypeInv, TypeOK, EventStatus
    <2>3. overlapped' \subseteq Events /\ replays' \in 0..MaxReplays
        BY <1>1 DEF StoreEvent, ReplayEvent, TypeInv, TypeOK
    <2> QED BY <1>1, <2>1, <2>2, <2>3, HoldTyped DEF StoreEvent, ReplayEvent, TypeInv, TypeOK
<1>2. ASSUME NEW w \in Workers, ResolveTenant(w) \/ FindRow(w) \/ CatchError(w)
      PROVE  TypeInv'
    <2>1. key[w] \in Events /\ event'[key[w]] # NONE /\ data[w] \in Datum
        BY <1>2 DEF ResolveTenant, FindRow, CatchError, TypeInv, TypeOK
    <2>2. \E label \in Handling, d \in Datum :
             Hold(w, label, key[w], d) /\ (label \in {"find", "create"} => d \in Part)
        BY <1>2, <2>1 DEF ResolveTenant, FindRow, AfterRow, CatchError, Goto, TypeInv, TypeOK, Part
    <2>3. faults' \in 0..MaxFaults
        BY <1>2 DEF ResolveTenant, FindRow, CatchError, TypeInv, TypeOK
    <2> QED BY <1>2, <2>1, <2>2, <2>3, HoldTyped DEF ResolveTenant, FindRow, CatchError, TypeInv, TypeOK
<1>3. ASSUME NEW w \in Workers, ApplyEvent(w) PROVE TypeInv'
    <2>1. key[w] \in Events /\ event'[key[w]] # NONE /\ data[w] \in Datum
        BY <1>3 DEF ApplyEvent, TypeInv, TypeOK
    <2>2. \E label \in Handling, d \in Datum :
             Hold(w, label, key[w], d) /\ (label \in {"find", "create"} => d \in Part)
        BY <1>3, <2>1 DEF ApplyEvent, AfterApply, Goto, Part
    <2>3. tenant' \in Tenant
        BY <1>0, <1>3, TenantTyped DEF ApplyEvent, Write
    <2>4. stale' \subseteq Workers
        BY <1>3 DEF ApplyEvent, Write, TypeInv, TypeOK
    <2> QED BY <1>3, <2>1, <2>2, <2>3, <2>4, HoldTyped DEF ApplyEvent, TypeInv, TypeOK
<1>4. ASSUME NEW w \in Workers, CompleteCheckout(w) PROVE TypeInv'
    <2>1. key[w] \in Events /\ event'[key[w]] # NONE /\ data[w] \in Datum
        BY <1>4 DEF CompleteCheckout, TypeInv, TypeOK
    <2>2. /\ tenant' = [Paid(tenant) EXCEPT !.linked = @ \/ sent[key[w]].linking]
          /\ stale' \subseteq Workers
        BY <1>4 DEF CompleteCheckout, Write, TypeInv, TypeOK
    <2>3. tenant' \in Tenant
        BY <1>0, <2>2, TenantTyped
    <2>4. rows' \in [Events \X Part -> Nat]
        BY <1>4 DEF CompleteCheckout, TypeInv, TypeOK
    <2> QED BY <1>4, <2>1, <2>2, <2>3, <2>4, HoldTyped DEF CompleteCheckout, Goto, TypeInv, TypeOK
<1>5. ASSUME NEW w \in Workers, CreateRow(w) PROVE TypeInv'
    <2>1. key[w] \in Events /\ event'[key[w]] # NONE /\ data[w] \in Part
        BY <1>5 DEF CreateRow, TypeInv, TypeOK
    <2>2. \E label \in Handling, d \in Datum :
             Hold(w, label, key[w], d) /\ (label \in {"find", "create"} => d \in Part)
        BY <1>5, <2>1 DEF CreateRow, AfterRow, Goto, Part
    <2>3. rows' \in [Events \X Part -> Nat]
        BY <1>5, <2>1 DEF CreateRow, TypeInv, TypeOK
    <2> QED BY <1>5, <2>1, <2>2, <2>3, HoldTyped DEF CreateRow, TypeInv, TypeOK
<1>6. ASSUME NEW w \in Workers, MarkEvent(w) PROVE TypeInv'
    <2>1. key[w] \in Events /\ Hold(w, "idle", NONE, NONE) /\ stale' \subseteq Workers
        BY <1>6 DEF MarkEvent, Leave, Fresh, TypeInv, TypeOK
    <2>2. event' \in [Events -> EventStatus \cup {NONE}]
          /\ \A f \in Events : event[f] # NONE => event'[f] # NONE
        BY <1>0, <1>6, <2>1 DEF MarkEvent, TypeInv, TypeOK, EventStatus
    <2> QED BY <1>6, <2>1, <2>2, HoldTyped DEF MarkEvent, TypeInv, TypeOK
<1>7. ASSUME NEW w \in Workers, ScanTrial(w) \/ ScanRecovery(w) PROVE TypeInv'
    <2>1. \E label \in {"expire", "task"}, d \in Task :
             Hold(w, label, NONE, d) /\ (label = "expire" => d = "trial")
        BY <1>7 DEF ScanTrial, ScanRecovery, Task
    <2> QED BY <1>7, <2>1, HoldTyped DEF ScanTrial, ScanRecovery, TypeInv, TypeOK
<1>8. ASSUME NEW w \in Workers, ExpireTrial(w) PROVE TypeInv'
    <2>1. Hold(w, "task", NONE, "trial") /\ "trial" \in Task
        BY <1>8 DEF ExpireTrial, Goto, TypeInv, TypeOK, LocalOK, Task
    <2>2. tenant' \in Tenant /\ stale' \subseteq Workers
        BY <1>0, <1>8, TenantTyped DEF ExpireTrial, Write, TypeInv, TypeOK
    <2> QED BY <1>8, <2>1, <2>2, HoldTyped DEF ExpireTrial, TypeInv, TypeOK
<1>9. ASSUME NEW w \in Workers, OpenTask(w) \/ Crash(w) PROVE TypeInv'
    <2>1. Hold(w, "idle", NONE, NONE) /\ stale' \subseteq Workers
        BY <1>9 DEF OpenTask, Crash, Leave, Fresh, TypeInv, TypeOK
    <2>2. tasks' \subseteq Task /\ faults' \in 0..MaxFaults
        BY <1>9 DEF OpenTask, Crash, TypeInv, TypeOK
    <2> QED BY <1>9, <2>1, <2>2, HoldTyped DEF OpenTask, Crash, TypeInv, TypeOK
<1>10. ASSUME NEW w \in Workers, NEW entry \in Entry, CreateEntry(w, entry) PROVE TypeInv'
    <2>1. edits' \in 0..MaxEdits /\ noted' \in BOOLEAN
        BY <1>10 DEF CreateEntry, Edit, TypeInv, TypeOK
    <2> QED BY <1>10, <2>1, HoldTyped DEF CreateEntry, TypeInv, TypeOK
<1>11. ASSUME NEW w \in Workers, ApplyEntry(w) PROVE TypeInv'
    <2>1. tenant' \in Tenant
        BY <1>0, <1>11, TenantTyped DEF ApplyEntry, Write, TypeInv, TypeOK, Entry
    <2>2. stale' \subseteq Workers
        BY <1>11 DEF ApplyEntry, Write, TypeInv, TypeOK
    <2> QED BY <1>11, <2>1, <2>2, HoldTyped DEF ApplyEntry, TypeInv, TypeOK
<1>12. ASSUME NEW w \in Workers, ReadForCheckout(w) PROVE TypeInv'
    <2>1. edits' \in 0..MaxEdits /\ \E d \in Link : Hold(w, "link", NONE, d)
        BY <1>12 DEF ReadForCheckout, Edit, TypeInv, TypeOK, Link
    <2> QED BY <1>12, <2>1, HoldTyped DEF ReadForCheckout, TypeInv, TypeOK
<1>13. ASSUME NEW w \in Workers, NEW given \in BOOLEAN, StoreLink(w, given) PROVE TypeInv'
    <2>1. tenant' \in Tenant
        BY <1>0, <1>13, TenantTyped DEF StoreLink, LinkOf
    <2>2. stale' \subseteq Workers /\ Hold(w, "idle", NONE, NONE)
        BY <1>13 DEF StoreLink, TypeInv, TypeOK
    <2> QED BY <1>13, <2>1, <2>2, HoldTyped DEF StoreLink, TypeInv, TypeOK
<1>14. CASE AtOnce
    <2> USE DEF AtOnce, UpdateTenant, ArchiveTenant, RestoreTenant, MarkMockBillingSucceeded,
                CloseTask, TrialPasses
    <2>1. UNCHANGED <<sent, event, rows, local, overlapped, replays, faults>>
        BY <1>14
    <2>2. stale' \subseteq Workers
        BY <1>14 DEF Write, TypeInv, TypeOK
    <2>4. edits' \in 0..MaxEdits
        <3>1. edits' = edits \/ (edits < MaxEdits /\ edits' = edits + 1)
            BY <1>14 DEF Edit
        <3> QED BY <3>1 DEF TypeInv, TypeOK
    <2>5. noted' \in BOOLEAN /\ byHand' \in BOOLEAN
        BY <1>14 DEF TypeInv, TypeOK
    <2>6. tasks' \subseteq Task
        BY <1>14 DEF TypeInv, TypeOK
    <2>3. tenant' \in Tenant
        <3>1. CASE \E c \in Changes : UpdateTenant(c)
            BY <3>1, ChangeTyped
        <3>2. CASE ArchiveTenant \/ RestoreTenant \/ TrialPasses \/ \E k \in Task : CloseTask(k)
            BY <1>0, <3>2, TenantTyped DEF Restored, Write, Trial
        <3>3. CASE MarkMockBillingSucceeded
            BY <1>0, <3>3, TenantTyped DEF Write
        <3> QED BY <1>14, <3>1, <3>2, <3>3
    <2> QED BY <2>1, <2>2, <2>3, <2>4, <2>5, <2>6 DEF TypeInv, TypeOK, LocalOK, local
<1>15. CASE UNCHANGED vars
    BY <1>15 DEF TypeInv, TypeOK, LocalOK, vars, local
<1> QED BY <1>1, <1>2, <1>3, <1>4, <1>5, <1>6, <1>7, <1>8, <1>9, <1>10, <1>11, <1>12, <1>13,
           <1>14, <1>15
        DEF Next, Begin, Continue, VerifyEvent, ProviderGives, StripeGives, PaystackGives, MockGives

\* Every row and every call stays in its domain, and a call that handles an event
\* works on one that is stored.
THEOREM TypeCorrect == Spec => []TypeOK
<1>1. TypeInv => TypeOK
    BY DEF TypeInv
<1> QED BY <1>1, InitTyped, StepTyped, PTL DEF Spec

\* Where a call goes on, and where the others stay.
LEMMA HoldSets ==
    ASSUME TypeInv, NEW w \in Workers, NEW label, NEW e, NEW d, Hold(w, label, e, d)
    PROVE  /\ pc'[w] = label /\ key'[w] = e /\ data'[w] = d
           /\ \A v \in Workers \ {w} : pc'[v] = pc[v] /\ key'[v] = key[v] /\ data'[v] = data[v]
BY DEF Hold, TypeInv, TypeOK

-----------------------------------------------------------------------------
(***************************************************************************)
(* The money of an event is in the ledger once.                            *)
(***************************************************************************)
\* One call handles an event, or it is known that two did.
AloneOK ==
    \A v, w \in Workers :
        v # w /\ key[v] = key[w] /\ key[v] # NONE => key[v] \in overlapped

\* The row a call is about to make is still missing.
FoundOK ==
    \A w \in Workers :
        pc[w] = "create" /\ key[w] \notin overlapped => rows[<<key[w], data[w]>>] = 0

OnceInv == TypeInv /\ AloneOK /\ FoundOK /\ RecordedOnce

\* A call that makes no row goes on with its event, or leaves it.
LEMMA KeepOnce ==
    ASSUME OnceInv, NEW w \in Workers, UNCHANGED <<rows, overlapped>>,
           \A v \in Workers \ {w} : pc'[v] = pc[v] /\ key'[v] = key[v] /\ data'[v] = data[v],
           key'[w] \in {key[w], NONE},
           pc'[w] = "create" => rows[<<key'[w], data'[w]>>] = 0
    PROVE  AloneOK' /\ FoundOK' /\ RecordedOnce'
<1>1. AloneOK'
    BY DEF OnceInv, AloneOK
<1>2. FoundOK'
    BY DEF OnceInv, FoundOK
<1> QED BY <1>1, <1>2 DEF OnceInv, RecordedOnce

\* Every step makes a row only where there is none, and only once, unless two
\* calls handle its event.
LEMMA StepOnce == OnceInv /\ [Next]_vars => OnceInv'
<1> SUFFICES ASSUME OnceInv, [Next]_vars PROVE AloneOK' /\ FoundOK' /\ RecordedOnce'
    BY StepTyped DEF OnceInv
<1> USE NamesAssumption DEF ledger
<1>0. TypeInv /\ TypeInv'
    BY StepTyped DEF OnceInv
<1>1. ASSUME NEW w \in Workers, NEW e \in Events, StoreEvent(w, e)
      PROVE  AloneOK' /\ FoundOK' /\ RecordedOnce'
    <2>1. Hold(w, "resolve", e, NONE) /\ UNCHANGED <<rows, overlapped>>
        BY <1>1 DEF StoreEvent
    <2>2. \A v \in Workers : key[v] # e
        BY <1>0, <1>1 DEF StoreEvent, TypeInv, TypeOK, LocalOK
    <2>3. AloneOK' /\ FoundOK'
        BY <1>0, <2>1, <2>2, HoldSets DEF OnceInv, AloneOK, FoundOK
    <2> QED BY <2>1, <2>3 DEF OnceInv, RecordedOnce
<1>2. ASSUME NEW w \in Workers, NEW e \in Events, ReplayEvent(w, e)
      PROVE  AloneOK' /\ FoundOK' /\ RecordedOnce'
    <2>1. Hold(w, "resolve", e, NONE) /\ UNCHANGED rows
        BY <1>2 DEF ReplayEvent
    <2>2. /\ overlapped \subseteq overlapped'
          /\ \A v \in Workers : key[v] = e => e \in overlapped'
        BY <1>2 DEF ReplayEvent
    <2>3. AloneOK'
        BY <1>0, <2>1, <2>2, HoldSets DEF OnceInv, AloneOK
    <2>4. FoundOK'
        BY <1>0, <2>1, <2>2, HoldSets DEF OnceInv, FoundOK
    <2> QED BY <2>1, <2>2, <2>3, <2>4 DEF OnceInv, RecordedOnce
<1>3. ASSUME NEW w \in Workers, FindRow(w) PROVE AloneOK' /\ FoundOK' /\ RecordedOnce'
    <2>1. key[w] \in Events /\ data[w] \in Part /\ UNCHANGED <<rows, overlapped>>
        BY <1>0, <1>3 DEF FindRow, TypeInv, TypeOK
    <2>2. rows[<<key[w], data[w]>>] \in Nat
        BY <1>0, <2>1 DEF TypeInv, TypeOK
    <2>3. \E label \in Handling, d \in Datum :
             /\ Hold(w, label, key[w], d)
             /\ label = "create" => d = data[w] /\ rows[<<key[w], d>>] = 0
        BY <1>3, <2>1, <2>2 DEF FindRow, RowFound, AfterRow, Goto, Part
    <2> QED BY <1>0, <2>1, <2>3, HoldSets, KeepOnce
<1>4. ASSUME NEW w \in Workers, CreateRow(w) PROVE AloneOK' /\ FoundOK' /\ RecordedOnce'
    <2>1. key[w] \in Events /\ data[w] \in Part /\ UNCHANGED overlapped /\ pc[w] = "create"
        BY <1>0, <1>4 DEF CreateRow, TypeInv, TypeOK
    <2>2. \E label \in {"find", "mark"}, d \in Datum : Hold(w, label, key[w], d)
        BY <1>4, <2>1 DEF CreateRow, AfterRow, Goto, Part
    <2>3. rows' = [rows EXCEPT ![<<key[w], data[w]>>] = @ + 1]
        BY <1>4 DEF CreateRow
    <2>4. \A e \in Events, p \in Part : e # key[w] => rows'[<<e, p>>] = rows[<<e, p>>]
        BY <1>0, <2>3 DEF TypeInv, TypeOK
    <2>5. AloneOK'
        BY <1>0, <2>1, <2>2, HoldSets DEF OnceInv, AloneOK
    <2>6. FoundOK'
        <3> SUFFICES ASSUME NEW v \in Workers, pc'[v] = "create", key'[v] \notin overlapped'
                     PROVE  rows'[<<key'[v], data'[v]>>] = 0
            BY DEF FoundOK
        <3>1. v # w /\ pc[v] = "create" /\ key'[v] = key[v] /\ data'[v] = data[v]
            BY <1>0, <2>2, HoldSets
        <3>2. key[v] # key[w] /\ key[v] \in Events /\ data[v] \in Part
            BY <1>0, <2>1, <3>1 DEF OnceInv, AloneOK, TypeInv, TypeOK
        <3> QED BY <2>1, <2>4, <3>1, <3>2 DEF OnceInv, FoundOK
    <2>7. RecordedOnce'
        <3> SUFFICES ASSUME NEW e \in Events, e \notin overlapped, NEW p \in Part
                     PROVE  rows'[<<e, p>>] <= 1
            BY <2>1 DEF RecordedOnce
        <3>1. rows[<<e, p>>] <= 1 /\ rows[<<e, p>>] \in Nat
            BY <1>0 DEF OnceInv, RecordedOnce, TypeInv, TypeOK
        <3>2. CASE e = key[w] /\ p = data[w]
            BY <1>0, <2>1, <2>3, <3>2 DEF OnceInv, FoundOK, TypeInv, TypeOK
        <3>3. CASE ~(e = key[w] /\ p = data[w])
            BY <1>0, <2>3, <3>1, <3>3 DEF TypeInv, TypeOK
        <3> QED BY <3>2, <3>3
    <2> QED BY <2>5, <2>6, <2>7
<1>5. ASSUME NEW w \in Workers, CompleteCheckout(w) PROVE AloneOK' /\ FoundOK' /\ RecordedOnce'
    <2>1. key[w] \in Events /\ UNCHANGED overlapped /\ Hold(w, "mark", key[w], data[w])
        BY <1>0, <1>5 DEF CompleteCheckout, Goto, TypeInv, TypeOK
    <2>2. \A e \in Events, p \in Part :
             \/ rows'[<<e, p>>] = rows[<<e, p>>]
             \/ e = key[w] /\ rows'[<<e, p>>] = 1
        BY <1>0, <1>5 DEF CompleteCheckout, TypeInv, TypeOK
    <2>3. AloneOK'
        BY <1>0, <2>1, HoldSets DEF OnceInv, AloneOK
    <2>4. FoundOK'
        <3> SUFFICES ASSUME NEW v \in Workers, pc'[v] = "create", key'[v] \notin overlapped'
                     PROVE  rows'[<<key'[v], data'[v]>>] = 0
            BY DEF FoundOK
        <3>1. v # w /\ pc[v] = "create" /\ key'[v] = key[v] /\ data'[v] = data[v]
            BY <1>0, <2>1, HoldSets
        <3>2. key[v] # key[w] /\ key[v] \in Events /\ data[v] \in Part
            BY <1>0, <2>1, <3>1 DEF OnceInv, AloneOK, TypeInv, TypeOK
        <3> QED BY <2>1, <2>2, <3>1, <3>2 DEF OnceInv, FoundOK
    <2>5. RecordedOnce'
        BY <2>1, <2>2 DEF OnceInv, RecordedOnce
    <2> QED BY <2>3, <2>4, <2>5
<1> DEFINE Other(w) ==
        \/ ResolveTenant(w) \/ ApplyEvent(w) \/ MarkEvent(w) \/ CatchError(w)
        \/ ScanTrial(w) \/ ScanRecovery(w) \/ ExpireTrial(w) \/ OpenTask(w) \/ Crash(w)
        \/ \E entry \in Entry : CreateEntry(w, entry)
        \/ ApplyEntry(w) \/ ReadForCheckout(w)
        \/ \E given \in BOOLEAN : StoreLink(w, given)
<1>6. ASSUME NEW w \in Workers, Other(w) PROVE AloneOK' /\ FoundOK' /\ RecordedOnce'
    <2>1. UNCHANGED <<rows, overlapped>>
        BY <1>6 DEF ResolveTenant, ApplyEvent, MarkEvent, CatchError, ScanTrial, ScanRecovery,
               ExpireTrial, OpenTask, Crash, CreateEntry, ApplyEntry, ReadForCheckout, StoreLink
    <2>3. data[w] \in Datum
        BY <1>0 DEF TypeInv, TypeOK
    <2>2. \E label \in Label, e \in {key[w], NONE}, d \in Datum : label # "create" /\ Hold(w, label, e, d)
        <3>1. CASE ApplyEvent(w)
            BY <2>3, <3>1 DEF ApplyEvent, AfterApply, Goto, Part
        <3>2. CASE ResolveTenant(w) \/ CatchError(w)
            BY <2>3, <3>2 DEF ResolveTenant, CatchError, Goto
        <3>3. CASE MarkEvent(w) \/ OpenTask(w) \/ Crash(w) \/ ApplyEntry(w)
                   \/ \E given \in BOOLEAN : StoreLink(w, given)
            BY <3>3 DEF MarkEvent, OpenTask, Crash, ApplyEntry, StoreLink, Leave
        <3>4. CASE ScanTrial(w) \/ ScanRecovery(w) \/ ReadForCheckout(w)
                   \/ \E entry \in Entry : CreateEntry(w, entry)
            BY <3>4 DEF ScanTrial, ScanRecovery, ReadForCheckout, CreateEntry, Task, Link
        <3>5. CASE ExpireTrial(w)
            BY <2>3, <3>5 DEF ExpireTrial, Goto
        <3> QED BY <1>6, <3>1, <3>2, <3>3, <3>4, <3>5
    <2> QED BY ZenonT(40), <1>0, <2>1, <2>2, HoldSets, KeepOnce
<1>7. CASE AtOnce \/ UNCHANGED vars
    <2>1. UNCHANGED <<rows, overlapped, pc, key, data>>
        BY <1>7 DEF AtOnce, UpdateTenant, ArchiveTenant, RestoreTenant, MarkMockBillingSucceeded,
               CloseTask, TrialPasses, vars, local
    <2> QED BY <2>1 DEF OnceInv, AloneOK, FoundOK, RecordedOnce
<1>8. \/ \E w \in Workers : Other(w) \/ FindRow(w) \/ CreateRow(w) \/ CompleteCheckout(w)
      \/ \E w \in Workers, e \in Events : StoreEvent(w, e) \/ ReplayEvent(w, e)
      \/ AtOnce \/ UNCHANGED vars
    BY DEF Next, Begin, Continue, VerifyEvent, ProviderGives, StripeGives, PaystackGives, MockGives
<1> HIDE DEF Other
<1> QED BY <1>1, <1>2, <1>3, <1>4, <1>5, <1>6, <1>7, <1>8

\* The money of an event is in the ledger once, however often it is delivered or
\* replayed, unless two calls handle it at once.
THEOREM MoneyIsRecordedOnce == Spec => []RecordedOnce
<1>1. Init => OnceInv
    <2>1. Init => AloneOK /\ FoundOK /\ RecordedOnce
        BY DEF Init, AloneOK, FoundOK, RecordedOnce
    <2> QED BY <2>1, InitTyped DEF OnceInv
<1>2. OnceInv => RecordedOnce
    BY DEF OnceInv
<1> QED BY <1>1, <1>2, StepOnce, PTL DEF Spec

-----------------------------------------------------------------------------
(***************************************************************************)
(* An event that is done is in the ledger, and an active subscription is   *)
(* paid for.                                                               *)
(***************************************************************************)
\* A call that is about to answer has its rows, and one that has come to the main
\* row has that of the setup fee.
DoneOK ==
    \A w \in Workers :
        /\ pc[w] = "mark" /\ sent[key[w]].kind # "notice" =>
              \A p \in Fees(sent[key[w]]) : rows[<<key[w], p>>] > 0
        /\ pc[w] \in {"find", "create"} /\ data[w] = "main" /\ "fee" \in Fees(sent[key[w]]) =>
              rows[<<key[w], "fee">>] > 0

DoneInv == TypeInv /\ DoneOK /\ ProcessedIsRecorded

\* What DoneOK says of one call.
CallDone(label, e, d) ==
    /\ label = "mark" /\ sent[e].kind # "notice" => \A p \in Fees(sent[e]) : rows[<<e, p>>] > 0
    /\ label \in {"find", "create"} /\ d = "main" /\ "fee" \in Fees(sent[e]) =>
          rows[<<e, "fee">>] > 0

\* No row leaves the ledger.
LEMMA RowsGrow ==
    ASSUME TypeInv, [Next]_vars
    PROVE  /\ \A e \in Events, p \in Part : rows[<<e, p>>] > 0 => rows'[<<e, p>>] > 0
           /\ sent' = sent
<1>1. ASSUME NEW w \in Workers, CreateRow(w)
      PROVE  \A e \in Events, p \in Part : rows[<<e, p>>] > 0 => rows'[<<e, p>>] > 0
    BY <1>1 DEF CreateRow, TypeInv, TypeOK
<1>2. ASSUME NEW w \in Workers, CompleteCheckout(w)
      PROVE  \A e \in Events, p \in Part : rows[<<e, p>>] > 0 => rows'[<<e, p>>] > 0
    BY <1>2 DEF CompleteCheckout, TypeInv, TypeOK
<1>3. \/ UNCHANGED rows
      \/ \E w \in Workers : CreateRow(w) \/ CompleteCheckout(w)
    BY ZenonT(40) DEF Next, Begin, Continue, AtOnce, VerifyEvent, StoreEvent, ReplayEvent, ResolveTenant,
           ApplyEvent, FindRow, MarkEvent, CatchError, ScanTrial, ScanRecovery, ExpireTrial,
           OpenTask, CloseTask, UpdateTenant, ArchiveTenant, RestoreTenant, CreateEntry,
           ApplyEntry, MarkMockBillingSucceeded, ReadForCheckout, StoreLink, TrialPasses, Crash,
           vars, ledger
<1>4. sent' = sent
    BY ZenonT(40) DEF Next, Begin, Continue, AtOnce, VerifyEvent, StoreEvent, ReplayEvent, ResolveTenant,
           ApplyEvent, CompleteCheckout, FindRow, CreateRow, MarkEvent, CatchError, ScanTrial,
           ScanRecovery, ExpireTrial, OpenTask, CloseTask, UpdateTenant, ArchiveTenant,
           RestoreTenant, CreateEntry, ApplyEntry, MarkMockBillingSucceeded, ReadForCheckout,
           StoreLink, TrialPasses, Crash, vars
<1> QED BY <1>1, <1>2, <1>3, <1>4

\* A call goes on to a label at which it may be, and marks no event as done.
LEMMA KeepDone ==
    ASSUME DoneInv, [Next]_vars, NEW w \in Workers, NEW label \in Label,
           NEW e \in Events \cup {NONE}, NEW d \in Datum, Hold(w, label, e, d),
           CallDone(label, e, d)',
           \A f \in Events : event'[f] = "PROCESSED" => event[f] = "PROCESSED"
    PROVE  DoneOK' /\ ProcessedIsRecorded'
<1>1. /\ \A f \in Events, p \in Part : rows[<<f, p>>] > 0 => rows'[<<f, p>>] > 0
      /\ sent' = sent
    BY RowsGrow DEF DoneInv
<1>2. /\ pc'[w] = label /\ key'[w] = e /\ data'[w] = d
      /\ \A v \in Workers \ {w} : pc'[v] = pc[v] /\ key'[v] = key[v] /\ data'[v] = data[v]
    BY HoldSets DEF DoneInv
<1>3. \A v \in Workers : pc[v] \in Handling => key[v] \in Events
    BY DEF DoneInv, TypeInv, TypeOK
<1>4. \A c : Fees(c) \subseteq Part
    BY DEF Fees, Part
<1>5. DoneOK'
    <2> SUFFICES ASSUME NEW v \in Workers PROVE CallDone(pc[v], key[v], data[v])'
        BY DEF DoneOK, CallDone
    <2>1. CASE v = w
        BY <1>2, <2>1 DEF CallDone
    <2>2. CASE v # w
        <3>1. pc'[v] = pc[v] /\ key'[v] = key[v] /\ data'[v] = data[v]
            BY <1>2, <2>2
        <3>2. CallDone(pc[v], key[v], data[v])
            BY DEF DoneInv, DoneOK, CallDone
        <3>3. CASE pc[v] \in {"mark", "find", "create"}
            <4>1. key[v] \in Events
                BY <1>3, <3>3
            <4>2. \A p \in Fees(sent[key[v]]) : rows[<<key[v], p>>] > 0 => rows'[<<key[v], p>>] > 0
                BY <1>1, <1>4, <4>1
            <4> QED BY <1>1, <3>1, <3>2, <4>2 DEF CallDone
        <3>4. CASE pc[v] \notin {"mark", "find", "create"}
            BY <3>1, <3>4 DEF CallDone
        <3> QED BY <3>3, <3>4
    <2> QED BY <2>1, <2>2
<1>6. ProcessedIsRecorded'
    BY <1>1, <1>4 DEF DoneInv, ProcessedIsRecorded
<1> QED BY <1>5, <1>6

\* Every step that ends the work on an event leaves its rows behind.
LEMMA StepDone == DoneInv /\ [Next]_vars => DoneInv'
<1> SUFFICES ASSUME DoneInv, [Next]_vars PROVE DoneOK' /\ ProcessedIsRecorded'
    BY StepTyped DEF DoneInv
<1> USE DEF ledger
<1>0. TypeInv /\ TypeInv'
    BY StepTyped DEF DoneInv
<1>1. ASSUME NEW w \in Workers, NEW e \in Events, StoreEvent(w, e) \/ ReplayEvent(w, e)
      PROVE  DoneOK' /\ ProcessedIsRecorded'
    <2>1. Hold(w, "resolve", e, NONE) /\ event' = [event EXCEPT ![e] = "RECEIVED"]
        BY <1>1 DEF StoreEvent, ReplayEvent
    <2>2. \A f \in Events : event'[f] = "PROCESSED" => event[f] = "PROCESSED"
        BY <1>0, <2>1 DEF TypeInv, TypeOK
    <2>3. CallDone("resolve", e, NONE)'
        BY DEF CallDone
    <2> QED BY <2>1, <2>2, <2>3, KeepDone
<1>2. ASSUME NEW w \in Workers, ApplyEvent(w) PROVE DoneOK' /\ ProcessedIsRecorded'
    <2>1. PICK e \in Events, o \in Datum : e = key[w] /\ o = data[w]
        BY <1>0, <1>2 DEF ApplyEvent, TypeInv, TypeOK
    <2>2. UNCHANGED <<event, sent>> /\ AfterApply(w) /\ sent[e].kind # "checkout"
        BY <1>2, <2>1 DEF ApplyEvent
    <2>3. \E label \in Label, d \in Datum : Hold(w, label, e, d) /\ CallDone(label, e, d)'
        <3>1. CASE sent[e].kind = "notice"
            <4>1. Hold(w, "mark", e, o)
                BY <2>1, <2>2, <3>1 DEF AfterApply, Goto
            <4>2. CallDone("mark", e, o)'
                BY <2>2, <3>1 DEF CallDone
            <4> QED BY <4>1, <4>2
        <3>2. CASE sent[e].kind = "paystack" /\ sent[e].fee
            <4>1. Hold(w, "find", e, "fee")
                BY <2>1, <2>2, <3>2 DEF AfterApply
            <4>2. CallDone("find", e, "fee")' /\ "fee" \in Datum
                BY DEF CallDone, Part
            <4> QED BY <4>1, <4>2
        <3>3. CASE sent[e].kind # "notice" /\ ~(sent[e].kind = "paystack" /\ sent[e].fee)
            <4>1. Hold(w, "find", e, "main")
                BY <2>1, <2>2, <3>3 DEF AfterApply
            <4>2. CallDone("find", e, "main")' /\ "main" \in Datum
                BY <2>2, <3>3 DEF CallDone, Fees, Part
            <4> QED BY <4>1, <4>2
        <3> QED BY <3>1, <3>2, <3>3
    <2> QED BY <2>2, <2>3, KeepDone
<1>3. ASSUME NEW w \in Workers, CompleteCheckout(w) PROVE DoneOK' /\ ProcessedIsRecorded'
    <2>1. PICK e \in Events, d \in Datum : e = key[w] /\ d = data[w]
        BY <1>0, <1>3 DEF CompleteCheckout, TypeInv, TypeOK
    <2>2. UNCHANGED <<event, sent>> /\ Hold(w, "mark", e, d)
        BY <1>3, <2>1 DEF CompleteCheckout, Goto
    <2>3. \A p \in Fees(sent[e]) : rows'[<<e, p>>] > 0
        <3>1. \A p \in Part : rows[<<e, p>>] \in Nat
            BY <1>0 DEF TypeInv, TypeOK
        <3>2. \A p \in Part : p \in Fees(sent[e]) =>
                 rows'[<<e, p>>] = IF rows[<<e, p>>] = 0 THEN 1 ELSE rows[<<e, p>>]
            BY <1>0, <1>3, <2>1 DEF CompleteCheckout, Fees, TypeInv, TypeOK
        <3> QED BY <3>1, <3>2 DEF Fees, Part
    <2>4. CallDone("mark", e, d)'
        BY <2>2, <2>3 DEF CallDone
    <2> QED BY <2>2, <2>4, KeepDone
<1>4. ASSUME NEW w \in Workers, FindRow(w) \/ CreateRow(w) PROVE DoneOK' /\ ProcessedIsRecorded'
    <2>1. PICK e \in Events, p \in Part : e = key[w] /\ p = data[w]
        BY <1>0, <1>4 DEF FindRow, CreateRow, TypeInv, TypeOK
    <2>2. UNCHANGED <<event, sent>> /\ p \in Datum /\ (p = "fee" \/ p = "main") /\ "main" \in Datum
        BY <1>4 DEF FindRow, CreateRow, Part
    <2>3. \A q \in Part : rows[<<e, q>>] > 0 => rows'[<<e, q>>] > 0
        BY <1>0, RowsGrow
    <2>4. p = "main" /\ "fee" \in Fees(sent[e]) => rows'[<<e, "fee">>] > 0
        BY <1>4, <2>1, <2>3 DEF FindRow, CreateRow, DoneInv, DoneOK, Part
    <2>5. ASSUME AfterRow(w), rows'[<<e, p>>] > 0
          PROVE  \E label \in Label, d \in Datum : Hold(w, label, e, d) /\ CallDone(label, e, d)'
        <3>1. CASE p = "fee"
            <4>1. Hold(w, "find", e, "main")
                BY <2>1, <2>5, <3>1 DEF AfterRow
            <4>2. CallDone("find", e, "main")'
                BY <2>5, <3>1 DEF CallDone
            <4> QED BY <2>2, <4>1, <4>2
        <3>2. CASE p = "main"
            <4>1. Hold(w, "mark", e, p)
                BY <2>1, <2>5, <3>2 DEF AfterRow, Goto
            <4>2. CallDone("mark", e, p)'
                BY <2>2, <2>4, <2>5, <3>2 DEF CallDone, Fees, Part
            <4> QED BY <2>2, <4>1, <4>2
        <3> QED BY <2>2, <3>1, <3>2
    <2>6. \E label \in Label, d \in Datum : Hold(w, label, e, d) /\ CallDone(label, e, d)'
        <3>1. CASE FindRow(w) /\ RowFound(w)
            BY <2>1, <2>3, <2>5, <3>1 DEF FindRow, RowFound
        <3>2. CASE FindRow(w) /\ ~RowFound(w)
            <4>1. Hold(w, "create", e, p)
                BY <2>1, <3>2 DEF FindRow, Goto
            <4>2. CallDone("create", e, p)'
                BY <2>2, <2>4 DEF CallDone
            <4> QED BY <2>2, <4>1, <4>2
        <3>3. CASE CreateRow(w)
            <4>1. rows'[<<e, p>>] > 0
                BY <1>0, <2>1, <3>3 DEF CreateRow, TypeInv, TypeOK
            <4> QED BY <2>5, <3>3, <4>1 DEF CreateRow
        <3> QED BY <1>4, <3>1, <3>2, <3>3
    <2> QED BY <2>2, <2>6, KeepDone
<1>5. ASSUME NEW w \in Workers, MarkEvent(w) PROVE DoneOK' /\ ProcessedIsRecorded'
    <2>1. key[w] \in Events /\ Hold(w, "idle", NONE, NONE) /\ UNCHANGED <<sent, rows>>
        BY <1>0, <1>5 DEF MarkEvent, Leave, TypeInv, TypeOK
    <2>2. \A f \in Events : event'[f] = "PROCESSED" => event[f] = "PROCESSED" \/ (f = key[w] /\ pc[w] = "mark")
        <3>1. event \in [Events -> EventStatus \cup {NONE}]
            BY <1>0 DEF TypeInv, TypeOK
        <3> QED BY <1>5, <3>1 DEF MarkEvent
    <2>3. ProcessedIsRecorded'
        BY <2>1, <2>2 DEF DoneInv, DoneOK, ProcessedIsRecorded
    <2>4. DoneOK'
        BY <1>0, <2>1, HoldSets DEF DoneInv, DoneOK
    <2> QED BY <2>3, <2>4
<1> DEFINE Other(w) ==
        \/ ResolveTenant(w) \/ CatchError(w)
        \/ ScanTrial(w) \/ ScanRecovery(w) \/ ExpireTrial(w) \/ OpenTask(w) \/ Crash(w)
        \/ \E entry \in Entry : CreateEntry(w, entry)
        \/ ApplyEntry(w) \/ ReadForCheckout(w)
        \/ \E given \in BOOLEAN : StoreLink(w, given)
<1>6. ASSUME NEW w \in Workers, Other(w) PROVE DoneOK' /\ ProcessedIsRecorded'
    <2>1. UNCHANGED event /\ data[w] \in Datum /\ key[w] \in Events \cup {NONE}
        BY <1>0, <1>6 DEF ResolveTenant, CatchError, ScanTrial, ScanRecovery, ExpireTrial, OpenTask,
               Crash, CreateEntry, ApplyEntry, ReadForCheckout, StoreLink, TypeInv, TypeOK
    <2>2. \E label \in Label \ {"find", "create", "mark"}, e \in Events \cup {NONE}, d \in Datum :
             Hold(w, label, e, d)
        <3>1. CASE ResolveTenant(w) \/ CatchError(w) \/ ExpireTrial(w)
            BY <2>1, <3>1 DEF ResolveTenant, CatchError, ExpireTrial, Goto
        <3>2. CASE OpenTask(w) \/ Crash(w) \/ ApplyEntry(w)
                   \/ \E given \in BOOLEAN : StoreLink(w, given)
            BY <3>2 DEF OpenTask, Crash, ApplyEntry, StoreLink, Leave
        <3>3. CASE ScanTrial(w) \/ ScanRecovery(w) \/ ReadForCheckout(w)
                   \/ \E entry \in Entry : CreateEntry(w, entry)
            BY <3>3 DEF ScanTrial, ScanRecovery, ReadForCheckout, CreateEntry, Task, Link
        <3> QED BY <1>6, <3>1, <3>2, <3>3
    <2>3. \A label \in Label \ {"find", "create", "mark"} : \A e, d : CallDone(label, e, d)'
        BY DEF CallDone
    <2> QED BY <2>1, <2>2, <2>3, KeepDone
<1>7. CASE AtOnce \/ UNCHANGED vars
    <2>1. UNCHANGED <<sent, event, rows, pc, key, data>>
        BY <1>7 DEF AtOnce, UpdateTenant, ArchiveTenant, RestoreTenant, MarkMockBillingSucceeded,
               CloseTask, TrialPasses, vars, local
    <2> QED BY <2>1 DEF DoneInv, DoneOK, ProcessedIsRecorded
<1>8. \/ \E w \in Workers : \/ Other(w) \/ ApplyEvent(w) \/ FindRow(w) \/ CreateRow(w)
                            \/ CompleteCheckout(w) \/ MarkEvent(w)
      \/ \E w \in Workers, e \in Events : StoreEvent(w, e) \/ ReplayEvent(w, e)
      \/ AtOnce \/ UNCHANGED vars
    BY DEF Next, Begin, Continue, VerifyEvent, ProviderGives, StripeGives, PaystackGives, MockGives
<1> HIDE DEF Other
<1> QED BY <1>1, <1>2, <1>3, <1>4, <1>5, <1>6, <1>7, <1>8

\* At first no event is done.
LEMMA InitDone == Init => DoneInv
<1> SUFFICES ASSUME Init PROVE DoneOK /\ ProcessedIsRecorded
    BY InitTyped DEF DoneInv
<1>1. NONE # "PROCESSED"
    BY NamesAssumption DEF EventStatus
<1> QED BY <1>1 DEF Init, DoneOK, ProcessedIsRecorded

\* An event that is done needs no replay: the ledger has its row, and that of the
\* setup fee it paid, whatever failed on the way.
THEOREM DoneIsRecorded == Spec => []ProcessedIsRecorded
<1>1. DoneInv => ProcessedIsRecorded
    BY DEF DoneInv
<1> QED BY <1>1, InitDone, StepDone, PTL DEF Spec

\* Who enters a payment by hand has entered it in the ledger.
EntryOK == \A w \in Workers : pc[w] = "entry" /\ data[w] = "paid" => noted

\* An active subscription was set by hand, or paid by hand, or there is the event
\* of a payment.
PaidOK ==
    tenant.sub = "ACTIVE" =>
        byHand \/ noted \/ \E e \in Events : Pays(e) /\ event[e] # NONE

PaidInv == DoneInv /\ EntryOK /\ PaidOK

\* What has happened has happened.
LEMMA PaymentsStay ==
    ASSUME TypeInv, [Next]_vars
    PROVE  /\ \A e \in Events : event[e] # NONE => event'[e] # NONE
           /\ noted => noted'
           /\ byHand => byHand'
<1> USE DEF ledger
<1>1. \A e \in Events : event[e] # NONE => event'[e] # NONE
    <2>1. ASSUME NEW w \in Workers, NEW e \in Events, StoreEvent(w, e) \/ ReplayEvent(w, e)
          PROVE  \A f \in Events : event[f] # NONE => event'[f] # NONE
        BY <2>1, NamesAssumption DEF StoreEvent, ReplayEvent, EventStatus, TypeInv, TypeOK
    <2>2. ASSUME NEW w \in Workers, MarkEvent(w)
          PROVE  \A f \in Events : event[f] # NONE => event'[f] # NONE
        BY <2>2, NamesAssumption DEF MarkEvent, EventStatus, TypeInv, TypeOK
    <2>3. \/ UNCHANGED event
          \/ \E w \in Workers, e \in Events : StoreEvent(w, e) \/ ReplayEvent(w, e)
          \/ \E w \in Workers : MarkEvent(w)
        BY DEF Next, Begin, Continue, AtOnce, VerifyEvent, ResolveTenant, ApplyEvent,
               CompleteCheckout, FindRow, CreateRow, CatchError, ScanTrial, ScanRecovery,
               ExpireTrial, OpenTask, CloseTask, UpdateTenant, ArchiveTenant, RestoreTenant,
               CreateEntry, ApplyEntry, MarkMockBillingSucceeded, ReadForCheckout, StoreLink,
               TrialPasses, Crash, vars
    <2> QED BY <2>1, <2>2, <2>3
<1>2. noted => noted'
    <2>1. \/ UNCHANGED noted \/ MarkMockBillingSucceeded
          \/ \E w \in Workers, entry \in Entry : CreateEntry(w, entry)
        BY ZenonT(40) DEF Next, Begin, Continue, AtOnce, VerifyEvent, StoreEvent, ReplayEvent, ResolveTenant,
               ApplyEvent, CompleteCheckout, FindRow, CreateRow, MarkEvent, CatchError, ScanTrial,
               ScanRecovery, ExpireTrial, OpenTask, CloseTask, UpdateTenant, ArchiveTenant,
               RestoreTenant, ApplyEntry, ReadForCheckout,
               StoreLink, TrialPasses, Crash, vars
    <2> QED BY <2>1 DEF MarkMockBillingSucceeded, CreateEntry
<1>3. byHand => byHand'
    <2>1. UNCHANGED byHand \/ \E c \in Changes : UpdateTenant(c)
        BY ZenonT(40) DEF Next, Begin, Continue, AtOnce, VerifyEvent, StoreEvent, ReplayEvent, ResolveTenant,
               ApplyEvent, CompleteCheckout, FindRow, CreateRow, MarkEvent, CatchError, ScanTrial,
               ScanRecovery, ExpireTrial, OpenTask, CloseTask, ArchiveTenant, CreateEntry,
               RestoreTenant, ApplyEntry, MarkMockBillingSucceeded, ReadForCheckout,
               StoreLink, TrialPasses, Crash, vars
    <2> QED BY <2>1 DEF UpdateTenant
<1> QED BY <1>1, <1>2, <1>3

\* Who makes a subscription active: an event of a payment, a payment entered by
\* hand or mocked, or somebody who sets it.
LEMMA ActiveBy ==
    ASSUME TypeInv, [Next]_vars, tenant'.sub = "ACTIVE", tenant.sub # "ACTIVE"
    PROVE  \/ noted' \/ byHand'
           \/ \E w \in Workers : pc[w] = "entry" /\ data[w] = "paid"
           \/ \E e \in Events : Pays(e) /\ event[e] # NONE
<1>0. tenant \in Tenant
    BY DEF TypeInv, TypeOK
<1>1. ASSUME NEW w \in Workers, ApplyEvent(w) \/ CompleteCheckout(w)
      PROVE  \E e \in Events : Pays(e) /\ event[e] # NONE
    <2>1. key[w] \in Events /\ event[key[w]] # NONE
        BY <1>1 DEF ApplyEvent, CompleteCheckout, TypeInv, TypeOK
    <2>2. Pays(key[w])
        <3>1. CASE CompleteCheckout(w)
            BY <3>1 DEF CompleteCheckout, Pays
        <3>2. CASE ApplyEvent(w)
            BY <1>0, <3>2, TenantTyped DEF ApplyEvent, Write, Pays
        <3> QED BY <1>1, <3>1, <3>2
    <2> QED BY <2>1, <2>2
<1>2. ASSUME NEW w \in Workers, ApplyEntry(w) PROVE pc[w] = "entry" /\ data[w] = "paid"
    BY <1>0, <1>2, TenantTyped DEF ApplyEntry, Write, TypeInv, TypeOK, Entry, Tenant
<1>3. ASSUME NEW c \in Changes, UpdateTenant(c) PROVE byHand'
    <2>1. tenant'.sub = Given(c.sub, tenant.sub)
        BY <1>0, <1>3 DEF UpdateTenant, Write, Tenant
    <2> QED BY <1>3, <2>1 DEF UpdateTenant, Given
<1>4. MarkMockBillingSucceeded => noted'
    BY DEF MarkMockBillingSucceeded
<1>5. ASSUME NEW w \in Workers, ExpireTrial(w) PROVE FALSE
    BY <1>0, <1>5, TenantTyped DEF ExpireTrial, Write
<1>6. ASSUME \/ ArchiveTenant \/ RestoreTenant \/ TrialPasses
             \/ \E w \in Workers, given \in BOOLEAN : StoreLink(w, given)
      PROVE  FALSE
    BY <1>0, <1>6 DEF ArchiveTenant, RestoreTenant, Restored, TrialPasses, StoreLink, Write, Tenant
<1>7. tenant' # tenant
    BY DEF Tenant
<1>8. \/ \E w \in Workers : ApplyEvent(w) \/ CompleteCheckout(w) \/ ApplyEntry(w) \/ ExpireTrial(w)
      \/ \E w \in Workers, given \in BOOLEAN : StoreLink(w, given)
      \/ \E c \in Changes : UpdateTenant(c)
      \/ ArchiveTenant \/ RestoreTenant \/ TrialPasses \/ MarkMockBillingSucceeded
    BY <1>7 DEF Next, Begin, Continue, AtOnce, VerifyEvent, StoreEvent, ReplayEvent, ResolveTenant,
           FindRow, CreateRow, MarkEvent, CatchError, ScanTrial, ScanRecovery, OpenTask, CloseTask,
           CreateEntry, ReadForCheckout, Crash, vars,
           ProviderGives, StripeGives, PaystackGives, MockGives
<1> QED BY <1>1, <1>2, <1>3, <1>4, <1>5, <1>6, <1>8

\* A payment is entered by hand before the tenant is changed.
LEMMA StepEntry ==
    ASSUME TypeInv, EntryOK, [Next]_vars
    PROVE  EntryOK'
<1>0. noted => noted'
    BY PaymentsStay
<1>1. ASSUME NEW w \in Workers, NEW entry \in Entry, CreateEntry(w, entry) PROVE EntryOK'
    <2>1. Hold(w, "entry", NONE, entry) /\ (entry = "paid" => noted')
        BY <1>1 DEF CreateEntry
    <2> QED BY <1>0, <2>1, HoldSets DEF EntryOK
<1> DEFINE Other(w) ==
        \/ ResolveTenant(w) \/ ApplyEvent(w) \/ CompleteCheckout(w) \/ FindRow(w) \/ CreateRow(w)
        \/ MarkEvent(w) \/ CatchError(w) \/ ScanTrial(w) \/ ScanRecovery(w) \/ ExpireTrial(w)
        \/ OpenTask(w) \/ Crash(w) \/ ApplyEntry(w) \/ ReadForCheckout(w)
        \/ \E e \in Events : StoreEvent(w, e) \/ ReplayEvent(w, e)
        \/ \E given \in BOOLEAN : StoreLink(w, given)
<1>2. ASSUME NEW w \in Workers, Other(w) PROVE EntryOK'
    <2>1. \A v \in Workers : pc'[v] = "entry" => pc[v] = "entry" /\ data'[v] = data[v]
        BY <1>2 DEF TypeInv, TypeOK, Hold, Goto, Leave, AfterApply, AfterRow, ResolveTenant, ApplyEvent,
               CompleteCheckout, FindRow, CreateRow, MarkEvent, CatchError, ScanTrial, ScanRecovery,
               ExpireTrial, OpenTask, Crash, ApplyEntry, ReadForCheckout, StoreEvent, ReplayEvent,
               StoreLink
    <2> QED BY <1>0, <2>1 DEF EntryOK
<1>3. CASE AtOnce \/ UNCHANGED vars
    <2>1. UNCHANGED <<pc, key, data>>
        BY <1>3 DEF AtOnce, UpdateTenant, ArchiveTenant, RestoreTenant, MarkMockBillingSucceeded,
               CloseTask, TrialPasses, vars, local
    <2> QED BY <1>0, <2>1 DEF EntryOK
<1>4. \/ \E w \in Workers : Other(w) \/ \E entry \in Entry : CreateEntry(w, entry)
      \/ AtOnce \/ UNCHANGED vars
    BY DEF Next, Begin, Continue, VerifyEvent, ProviderGives, StripeGives, PaystackGives, MockGives
<1> HIDE DEF Other
<1> QED BY <1>1, <1>2, <1>3, <1>4

\* No step makes a subscription active for nothing.
LEMMA StepPaid == PaidInv /\ [Next]_vars => PaidInv'
<1> SUFFICES ASSUME PaidInv, [Next]_vars PROVE PaidOK'
    BY StepDone, StepEntry DEF PaidInv, DoneInv
<1>1. TypeInv /\ EntryOK /\ PaidOK
    BY DEF PaidInv, DoneInv
<1>2. \A e \in Events : Pays(e) => Pays(e)'
    BY <1>1, RowsGrow DEF Pays
<1>3. noted \/ byHand \/ (\E e \in Events : Pays(e) /\ event[e] # NONE) => PaidOK'
    BY <1>1, <1>2, PaymentsStay DEF PaidOK
<1>4. noted' \/ byHand' => PaidOK'
    BY DEF PaidOK
<1>5. CASE tenant.sub = "ACTIVE"
    BY <1>1, <1>3, <1>5 DEF PaidOK
<1>6. CASE tenant'.sub # "ACTIVE"
    BY <1>6 DEF PaidOK
<1>7. CASE tenant.sub # "ACTIVE" /\ tenant'.sub = "ACTIVE"
    BY <1>1, <1>3, <1>4, <1>7, ActiveBy DEF EntryOK
<1> QED BY <1>5, <1>6, <1>7

\* Nobody has an active subscription for nothing: unless it was set by hand, its
\* payment is in the ledger, or waits in an event that was not done.
THEOREM ActiveTenantsHavePaid == Spec => []ActiveIsPaid
<1>1. Init => PaidInv
    <2> SUFFICES ASSUME Init PROVE EntryOK /\ PaidOK
        BY InitDone DEF PaidInv
    <2>1. EntryOK
        BY DEF Init, EntryOK
    <2>2. PICK given \in Starts : tenant.sub = given.sub /\ byHand = (given.sub = "ACTIVE")
        BY DEF Init
    <2>3. PaidOK
        BY <2>2 DEF PaidOK
    <2> QED BY <2>1, <2>3
<1>2. PaidInv => ActiveIsPaid
    <2> SUFFICES ASSUME PaidInv, tenant.sub = "ACTIVE"
                 PROVE  \/ byHand \/ noted
                        \/ \E e \in Events :
                              /\ Pays(e)
                              /\ rows[<<e, "main">>] > 0 \/ event[e] \in EventStatus \ {"PROCESSED"}
        BY DEF ActiveIsPaid
    <2>1. CASE byHand \/ noted
        BY <2>1
    <2>2. ASSUME NEW e \in Events, Pays(e), event[e] # NONE
          PROVE  rows[<<e, "main">>] > 0 \/ event[e] \in EventStatus \ {"PROCESSED"}
        <3>1. event[e] \in EventStatus
            BY <2>2 DEF PaidInv, DoneInv, TypeInv, TypeOK
        <3>2. sent[e].kind # "notice" /\ "main" \in Fees(sent[e])
            BY <2>2 DEF Pays, Fees, Part
        <3>3. event[e] = "PROCESSED" => rows[<<e, "main">>] > 0
            BY <3>2 DEF PaidInv, DoneInv, ProcessedIsRecorded
        <3> QED BY <3>1, <3>3
    <2> QED BY <2>1, <2>2 DEF PaidInv, PaidOK
<1> QED BY <1>1, <1>2, StepPaid, PTL DEF Spec

-----------------------------------------------------------------------------
(***************************************************************************)
(* A scan or a checkout does harm only with an old copy of the tenant.     *)
(***************************************************************************)
\* What a call that has read the tenant is about to write is right for the tenant,
\* unless its copy is old.
FreshAt(w) ==
    \/ w \in stale
    \/ /\ pc[w] = "expire" => tenant.sub = "TRIALING"
       /\ pc[w] = "task" /\ data[w] = "recovery" => tenant.sub \in {"PAST_DUE", "UNPAID"}
       /\ pc[w] = "link" /\ tenant.linked => data[w] = "linked"

FreshInv == TypeInv /\ \A w \in Workers : FreshAt(w)

\* The copy of a call that does not move is fresh, or known to be old.
LEMMA OthersFresh ==
    ASSUME FreshInv, NEW v \in Workers, pc'[v] = pc[v], data'[v] = data[v],
           v \in stale => v \in stale',
           \/ tenant' = tenant \/ v \in stale' \/ pc[v] \notin Holding
           \/ tenant'.sub = tenant.sub /\ tenant'.linked = tenant.linked
    PROVE  FreshAt(v)'
BY DEF FreshInv, FreshAt

\* A call that holds no copy cannot hold an old one.
LEMMA FreshElsewhere ==
    ASSUME NEW w \in Workers, pc'[w] \notin Holding
    PROVE  FreshAt(w)'
BY DEF FreshAt

\* Whoever writes the tenant makes the copies of the others old.
LEMMA WriteFresh ==
    ASSUME FreshInv, NEW u, NEW new, Write(u, new), NEW v \in Workers, v # u
    PROVE  /\ v \in stale => v \in stale'
           /\ tenant' = tenant \/ v \in stale' \/ pc[v] \notin Holding
BY DEF Write

\* Every step leaves each copy fresh, or knows that it is old.
LEMMA StepFresh == FreshInv /\ [Next]_vars => FreshInv'
<1> SUFFICES ASSUME FreshInv, [Next]_vars PROVE \A v \in Workers : FreshAt(v)'
    BY StepTyped DEF FreshInv
<1>0. TypeInv
    BY DEF FreshInv
<1> USE NamesAssumption DEF ledger
<1> DEFINE Handle(w) ==
        \/ ResolveTenant(w) \/ ApplyEvent(w) \/ CompleteCheckout(w) \/ FindRow(w)
        \/ CreateRow(w) \/ CatchError(w) \/ ApplyEntry(w)
        \/ \E e \in Events : StoreEvent(w, e) \/ ReplayEvent(w, e)
        \/ \E entry \in Entry : CreateEntry(w, entry)
<1>1. ASSUME NEW w \in Workers, Handle(w), NEW v \in Workers PROVE FreshAt(v)'
    <2>1. pc'[w] \notin Holding
        BY <1>0, <1>1 DEF TypeInv, TypeOK, Hold, Goto, AfterApply, AfterRow, ResolveTenant, ApplyEvent,
               CompleteCheckout, FindRow, CreateRow, CatchError, ApplyEntry, StoreEvent,
               ReplayEvent, CreateEntry
    <2>2. UNCHANGED <<tenant, stale>> \/ \E new : Write(w, new)
        BY <1>1 DEF ResolveTenant, ApplyEvent, CompleteCheckout, FindRow, CreateRow, CatchError,
               ApplyEntry, StoreEvent, ReplayEvent, CreateEntry
    <2>3. v # w => pc'[v] = pc[v] /\ data'[v] = data[v]
        BY <1>0, <1>1 DEF TypeInv, TypeOK, Hold, Goto, AfterApply, AfterRow, ResolveTenant, ApplyEvent,
               CompleteCheckout, FindRow, CreateRow, CatchError, ApplyEntry, StoreEvent,
               ReplayEvent, CreateEntry
    <2>4. CASE v = w
        BY <2>1, <2>4, FreshElsewhere
    <2>5. CASE v # w
        BY <2>2, <2>3, <2>5, WriteFresh, OthersFresh
    <2> QED BY <2>4, <2>5
<1>2. ASSUME NEW w \in Workers, MarkEvent(w) \/ OpenTask(w) \/ Crash(w), NEW v \in Workers
      PROVE  FreshAt(v)'
    <2>1. UNCHANGED tenant /\ Leave(w)
        BY <1>2 DEF MarkEvent, OpenTask, Crash
    <2>2. pc'[w] = "idle" /\ (v # w => pc'[v] = pc[v] /\ data'[v] = data[v])
        BY <1>0, <2>1, HoldSets DEF Leave
    <2>3. v # w /\ v \in stale => v \in stale'
        BY <2>1 DEF Leave, Fresh
    <2>4. CASE v = w
        BY <2>2, <2>4, FreshElsewhere
    <2>5. CASE v # w
        BY <2>1, <2>2, <2>3, <2>5, OthersFresh
    <2> QED BY <2>4, <2>5
<1>3. ASSUME NEW w \in Workers, ScanTrial(w) \/ ScanRecovery(w) \/ ReadForCheckout(w),
             NEW v \in Workers
      PROVE  FreshAt(v)'
    <2>1. UNCHANGED <<tenant, stale>>
        BY <1>3 DEF ScanTrial, ScanRecovery, ReadForCheckout
    <2>2. v # w => pc'[v] = pc[v] /\ data'[v] = data[v]
        BY <1>0, <1>3 DEF ScanTrial, ScanRecovery, ReadForCheckout, Hold, TypeInv, TypeOK
    <2>3. FreshAt(w)'
        <3>1. CASE ScanTrial(w)
            BY <1>0, <2>1, <3>1, HoldSets DEF ScanTrial, Ending, FreshAt
        <3>2. CASE ScanRecovery(w)
            BY <1>0, <2>1, <3>2, HoldSets DEF ScanRecovery, FreshAt
        <3>3. CASE ReadForCheckout(w)
            BY <1>0, <2>1, <3>3, HoldSets DEF ReadForCheckout, FreshAt
        <3> QED BY <1>3, <3>1, <3>2, <3>3
    <2>4. CASE v # w
        BY <2>1, <2>2, <2>4, OthersFresh
    <2> QED BY <2>3, <2>4
<1>4. ASSUME NEW w \in Workers, ExpireTrial(w), NEW v \in Workers PROVE FreshAt(v)'
    <2>1. Write(w, PastDue(tenant)) /\ Hold(w, "task", key[w], data[w]) /\ data[w] = "trial"
        BY <1>0, <1>4 DEF ExpireTrial, Goto, TypeInv, LocalOK
    <2>2. CASE v = w
        BY <1>0, <2>1, <2>2, HoldSets DEF FreshAt
    <2>3. CASE v # w
        BY <1>0, <2>1, <2>3, HoldSets, WriteFresh, OthersFresh
    <2> QED BY <2>2, <2>3
<1>5. ASSUME NEW w \in Workers, NEW given \in BOOLEAN, StoreLink(w, given), NEW v \in Workers
      PROVE  FreshAt(v)'
    <2>1. Hold(w, "idle", NONE, NONE)
        BY <1>5 DEF StoreLink
    <2>2. CASE v = w
        BY <1>0, <2>1, <2>2, HoldSets, FreshElsewhere
    <2>3. CASE v # w
        <3>1. /\ v \in stale => v \in stale'
              /\ tenant' = tenant \/ v \in stale' \/ pc[v] \notin Holding
            BY <1>5, <2>3 DEF StoreLink
        <3> QED BY <1>0, <2>1, <2>3, <3>1, HoldSets, OthersFresh
    <2> QED BY <2>2, <2>3
<1>6. CASE AtOnce
    <2>1. UNCHANGED <<pc, data>>
        BY <1>6 DEF AtOnce, UpdateTenant, ArchiveTenant, RestoreTenant, MarkMockBillingSucceeded,
               CloseTask, TrialPasses, local
    <2>2. CASE TrialPasses
        BY <1>0, <2>1, <2>2, OthersFresh DEF TrialPasses, TypeInv, TypeOK, Tenant
    <2>3. CASE \E k \in Task : CloseTask(k)
        BY <2>1, <2>3, OthersFresh DEF CloseTask
    <2>4. CASE \/ \E c \in Changes : UpdateTenant(c)
               \/ ArchiveTenant \/ RestoreTenant \/ MarkMockBillingSucceeded
        <3>1. \E new : Write(NONE, new)
            BY <2>4 DEF UpdateTenant, ArchiveTenant, RestoreTenant, MarkMockBillingSucceeded
        <3>2. ASSUME NEW v \in Workers
              PROVE  /\ v \in stale => v \in stale'
                     /\ tenant' = tenant \/ v \in stale' \/ pc[v] \notin Holding
            BY <3>1 DEF Write
        <3> QED BY <2>1, <3>2, OthersFresh
    <2> QED BY <1>6, <2>2, <2>3, <2>4 DEF AtOnce
<1>7. CASE UNCHANGED vars
    BY <1>7 DEF vars, local, FreshInv, FreshAt
<1> QED
    <2>1. \/ \E w \in Workers : \/ Handle(w) \/ MarkEvent(w) \/ OpenTask(w) \/ Crash(w)
                                \/ ScanTrial(w) \/ ScanRecovery(w) \/ ReadForCheckout(w)
                                \/ ExpireTrial(w)
                                \/ \E given \in BOOLEAN : StoreLink(w, given)
          \/ AtOnce \/ UNCHANGED vars
        BY DEF Next, Begin, Continue, VerifyEvent, ProviderGives, StripeGives, PaystackGives, MockGives
    <2> HIDE DEF Handle
    <2> QED BY <1>1, <1>2, <1>3, <1>4, <1>5, <1>6, <1>7, <2>1

\* What a call with a fresh copy of the tenant does to it, and to the tasks.
LEMMA FreshCopiesDoNoHarm ==
    ASSUME FreshInv, [Next]_vars, NEW w \in Workers, w \notin stale, Moves(w)
    PROVE  /\ tenant'.sub # tenant.sub => tenant.sub = "TRIALING"
           /\ tasks' # tasks /\ "recovery" \in tasks' \ tasks =>
                tenant.sub \in {"PAST_DUE", "UNPAID"}
           /\ tenant.linked => tenant'.linked
<1> USE DEF ledger
<1>0. TypeInv /\ FreshAt(w) /\ tenant \in Tenant
    BY DEF FreshInv, TypeInv, TypeOK
<1>1. CASE ExpireTrial(w)
    BY <1>0, <1>1 DEF ExpireTrial, Write, PastDue, FreshAt, Tenant
<1>2. CASE OpenTask(w)
    BY <1>0, <1>2 DEF OpenTask, FreshAt
<1>3. ASSUME NEW given \in BOOLEAN, StoreLink(w, given)
      PROVE  tenant'.sub = tenant.sub /\ tasks' = tasks /\ (tenant.linked => tenant'.linked)
    BY <1>0, <1>3 DEF StoreLink, LinkOf, FreshAt, Tenant
<1>4. CASE Crash(w)
    BY <1>4 DEF Crash
<1>5. ExpireTrial(w) \/ OpenTask(w) \/ Crash(w) \/ \E given \in BOOLEAN : StoreLink(w, given)
    <2>1. pc[w] \in Holding /\ pc'[w] # pc[w]
        BY DEF Moves
    <2>2. PICK u \in Workers : Begin(u) \/ Continue(u) \/ CatchError(u) \/ Crash(u)
        <3>1. UNCHANGED vars \/ AtOnce => UNCHANGED pc
            BY DEF AtOnce, UpdateTenant, ArchiveTenant, RestoreTenant, MarkMockBillingSucceeded,
               CloseTask, TrialPasses, vars, local
        <3> QED BY <2>1, <3>1 DEF Next
    <2>3. u = w
        <3>1. pc'[w] = pc[w] \/ u = w
            BY <1>0, <2>2 DEF Begin, Continue, VerifyEvent, StoreEvent, ReplayEvent, ResolveTenant,
               ApplyEvent, CompleteCheckout, FindRow, CreateRow, MarkEvent, CatchError, ScanTrial,
               ScanRecovery, ExpireTrial, OpenTask, CreateEntry, ApplyEntry, ReadForCheckout,
               StoreLink, Crash, Leave, Goto, Hold, AfterApply, AfterRow, TypeInv, TypeOK
        <3> QED BY <2>1, <3>1
    <2> QED BY <2>1, <2>2, <2>3 DEF Begin, Continue, VerifyEvent, StoreEvent, ReplayEvent,
            ResolveTenant, ApplyEvent, CompleteCheckout, FindRow, CreateRow, MarkEvent, CatchError,
            ScanTrial, ScanRecovery, CreateEntry, ApplyEntry, ReadForCheckout,
            ProviderGives, StripeGives, PaystackGives, MockGives
<1> QED BY <1>1, <1>2, <1>3, <1>4, <1>5

\* A scan moves no subscription but a trial, asks to recover none that is not past
\* due, and a checkout forgets no subscription, but for an old copy of the tenant.
THEOREM FreshCopiesAreHarmless == Spec => OnlyOldCopiesHarm
<1>1. Init => FreshInv
    <2>1. Init => \A w \in Workers : FreshAt(w)
        BY DEF Init, FreshAt
    <2> QED BY <2>1, InitTyped DEF FreshInv
<1>2. FreshInv /\ [Next]_vars =>
        [\A w \in Workers \ stale : Moves(w) =>
         /\ tenant'.sub # tenant.sub => tenant.sub = "TRIALING"
         /\ tasks' # tasks /\ "recovery" \in tasks' \ tasks =>
              tenant.sub \in {"PAST_DUE", "UNPAID"}
         /\ tenant.linked => tenant'.linked]_vars
    BY FreshCopiesDoNoHarm
<1> QED BY <1>1, <1>2, StepFresh, PTL DEF Spec, OnlyOldCopiesHarm
=============================================================================
