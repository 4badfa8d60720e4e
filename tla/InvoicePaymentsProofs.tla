------------------------ MODULE InvoicePaymentsProofs ------------------------
(***************************************************************************)
(* What InvoicePayments promises for every set of invoices, payments and   *)
(* calls: states are well typed, an event that counts as processed has     *)
(* recorded its payment, and only a stale copy gets past the end of an     *)
(* invoice.                                                                *)
(***************************************************************************)
EXTENDS InvoicePayments, TLAPS

\* The labels of a call that holds a copy of an invoice, of one that holds the
\* status it has read, and of one that has a payment.
HasDoc  == {"status", "insert", "insertverified", "checkout", "link", "sign"}
HasSeen == {"insert", "checkout", "link"}
HasPay  == {"checkout", "link", "sign", "complete", "mark", "catch", "mock"}

\* The local variables of a call are set when it needs them, and not longer.
LocalOK ==
    \A w \in Workers :
        /\ doc[w] = NONE <=> pc[w] \notin HasDoc
        /\ todo[w] # {} => pc[w] = "scan"
        /\ pc[w] \in HasPay => pay[w] \in Rows
        /\ pc[w] \in HasSeen => seen[w] \in InvoiceStatus
        /\ pc[w] = "status" => want[w] \in InvoiceStatus

\* There is an event of a payment only where there is the payment.
EventOK == \A p \in Payments : event[p] # NONE => p \in Rows

TypeInv == TypeOK /\ LocalOK /\ EventOK

USE DEF EventOK, Labels, Inserting, HasDoc, HasSeen, HasPay

\* No row, invoice or payment is the missing one.
LEMMA RowsExist ==
    /\ \A r \in Payment : r # NONE
    /\ \A i \in Invoices : i # NONE
    /\ \A p \in Payments : p # NONE
BY IdsAssumption

\* An ended call holds nothing.
LEMMA ForgetLocal ==
    ASSUME TypeInv, NEW w \in Workers, Forget(w), Rows \subseteq Rows'
    PROVE  /\ pc' \in [Workers -> Labels]
           /\ doc' \in [Workers -> Invoices \cup {NONE}]
           /\ pay' \in [Workers -> Rows \cup {NONE}]
           /\ seen' \in [Workers -> InvoiceStatus \cup {NONE}]
           /\ want' \in [Workers -> InvoiceStatus \cup {NONE}]
           /\ todo' \in [Workers -> SUBSET Invoices]
           /\ LocalOK'
BY DEF TypeInv, TypeOK, LocalOK, Forget, Goto

\* The history of copies stays one of invoices.
LEMMA OutdateTyped ==
    ASSUME TypeInv, NEW w \in Workers, NEW W \in SUBSET Invoices, Outdate(w, W)
    PROVE  since' \in [Workers -> SUBSET Invoices]
<1> DEFINE f(v) == IF v = w THEN since[w] \cap Copies(w)'
                   ELSE since[v] \cup (W \cap Copies(v))
<1>1. \A v \in Workers : f(v) \in SUBSET Invoices
    BY DEF TypeInv, TypeOK
<1>2. since' = [v \in Workers |-> f(v)]
    BY DEF Outdate
<1> HIDE DEF f
<1> QED BY <1>1, <1>2

\* Whoever writes an invoice leaves the rows typed.
LEMMA StoreTyped ==
    ASSUME TypeInv, NEW w \in Workers, NEW i \in Invoices, NEW s \in InvoiceStatus,
           Store(w, i, s)
    PROVE  /\ invoice' \in [Invoices -> InvoiceStatus]
           /\ since' \in [Workers -> SUBSET Invoices]
<1>1. invoice' \in [Invoices -> InvoiceStatus]
    BY DEF Store, TypeInv, TypeOK
<1>2. Outdate(w, {i})
    BY DEF Store
<1> QED BY <1>1, <1>2, OutdateTyped

\* The transaction of completePayment records the payment, takes back none,
\* and writes its invoice.
LEMMA SettleTyped ==
    ASSUME TypeInv, NEW w \in Workers, pc[w] \in {"complete", "mock"}, Settle(w),
           NEW p, p = pay[w]
    PROVE  /\ invoice' \in [Invoices -> InvoiceStatus]
           /\ since' \in [Workers -> SUBSET Invoices]
           /\ payment' \in [Payments -> Payment \cup {NONE}]
           /\ Rows' = Rows
           /\ Succeeded(p)'
           /\ \A q \in Payments : Succeeded(q) => Succeeded(q)'
<1>1. p \in Payments /\ p \in Rows /\ payment[p] \in Payment
    BY RowsExist DEF TypeInv, TypeOK, LocalOK, Rows
<1>2. payment[p].invoice \in Invoices /\ "PAID" \in InvoiceStatus
    BY <1>1 DEF Payment, InvoiceStatus
<1>3. payment' = [payment EXCEPT ![p].status = "SUCCEEDED"]
    BY DEF Settle
<1>4. payment' \in [Payments -> Payment \cup {NONE}]
    BY <1>1, <1>3 DEF TypeInv, TypeOK, Payment
<1>5. payment'[p] \in Payment /\ payment'[p].status = "SUCCEEDED" /\ payment'[p] # NONE
    BY <1>1, <1>3, RowsExist DEF TypeInv, TypeOK, Payment
<1>6. \A q \in Payments : q # p => payment'[q] = payment[q]
    BY <1>1, <1>3 DEF TypeInv, TypeOK
<1>7. Rows' = Rows
    BY <1>1, <1>5, <1>6 DEF Rows
<1>8. Succeeded(p)' /\ \A q \in Payments : Succeeded(q) => Succeeded(q)'
    BY <1>1, <1>5, <1>6, <1>7 DEF Succeeded
<1>9. Store(w, payment[p].invoice, "PAID")
    BY DEF Settle
<1> QED BY <1>2, <1>4, <1>7, <1>8, <1>9, StoreTyped

\* The initial states are well typed.
LEMMA InitTyped == Init => TypeInv
<1> SUFFICES ASSUME Init PROVE TypeInv
    OBVIOUS
<1>1. Rows = {} /\ 0 \in 0..MaxFaults
    BY FaultsAssumption DEF Init, Rows
<1>2. invoice \in [Invoices -> InvoiceStatus]
    BY DEF Init, InvoiceStatus
<1> QED BY <1>1, <1>2, RowsExist DEF Init, TypeInv, TypeOK, LocalOK

\* A worker that has inserted its payment has the row.
LEMMA InsertTyped ==
    ASSUME TypeInv, NEW w \in Workers, NEW p \in Payments,
           pc[w] \in Inserting, p \notin Rows,
           payment' = [payment EXCEPT ![p] = [invoice |-> doc[w], status |-> "PENDING"]]
    PROVE  /\ payment' \in [Payments -> Payment \cup {NONE}]
           /\ Rows' = Rows \cup {p}
<1>1. doc[w] \in Invoices
    BY DEF TypeInv, TypeOK, LocalOK
<1>2. payment'[p] \in Payment /\ payment'[p] # NONE
    BY <1>1, RowsExist DEF TypeInv, TypeOK, Payment
<1>3. \A q \in Payments : q # p => payment'[q] = payment[q]
    BY DEF TypeInv, TypeOK
<1>4. payment' \in [Payments -> Payment \cup {NONE}]
    BY <1>1 DEF TypeInv, TypeOK, Payment
<1> QED BY <1>2, <1>3, <1>4 DEF Rows

\* Every statement of a call, fault and outside event keeps the types.
LEMMA StepTyped == TypeInv /\ [Next]_vars => TypeInv'
<1> SUFFICES ASSUME TypeInv, [Next]_vars PROVE TypeInv'
    OBVIOUS
<1> USE FaultsAssumption, RowsExist
<1>1. ASSUME NEW w \in Workers, NEW i \in Invoices, NEW s \in InvoiceStatus,
             BeginStatus(w, i, s)
      PROVE  TypeInv'
    BY <1>1 DEF TypeInv, TypeOK, LocalOK, BeginStatus, Goto, rows, external, Rows
<1>2. ASSUME NEW w \in Workers, WriteStatus(w) PROVE TypeInv'
    <2>1. doc[w] \in Invoices /\ want[w] \in InvoiceStatus
        BY <1>2 DEF WriteStatus, TypeInv, TypeOK, LocalOK
    <2>2. Rows' = Rows
        BY <1>2 DEF WriteStatus, Rows
    <2> QED BY <1>2, <2>1, <2>2, StoreTyped, ForgetLocal DEF WriteStatus, external, TypeInv, TypeOK
<1>3. ASSUME NEW w \in Workers, NEW i \in Invoices, BeginLink(w, i) PROVE TypeInv'
    BY <1>3 DEF TypeInv, TypeOK, LocalOK, BeginLink, Goto, rows, external, Rows
<1>4. ASSUME NEW w \in Workers, NEW p \in Payments, InsertPayment(w, p) PROVE TypeInv'
    <2>1. /\ payment' \in [Payments -> Payment \cup {NONE}]
          /\ Rows' = Rows \cup {p}
        BY <1>4, InsertTyped DEF InsertPayment
    <2> QED BY <1>4, <2>1 DEF InsertPayment, TypeInv, TypeOK, LocalOK, Goto, external
<1>5. ASSUME NEW w \in Workers, OpenCheckout(w) PROVE TypeInv'
    BY <1>5 DEF TypeInv, TypeOK, LocalOK, OpenCheckout, Goto, rows, local, Rows
<1>6. ASSUME NEW w \in Workers, WriteLink(w) PROVE TypeInv'
    <2> DEFINE s == IF seen[w] = "DRAFT" THEN "SENT" ELSE seen[w]
    <2>1. doc[w] \in Invoices /\ s \in InvoiceStatus
        BY <1>6 DEF WriteLink, TypeInv, TypeOK, LocalOK, InvoiceStatus
    <2>2. Rows' = Rows /\ Store(w, doc[w], s)
        BY <1>6 DEF WriteLink, Rows
    <2> HIDE DEF s
    <2> QED BY <1>6, <2>1, <2>2, StoreTyped, ForgetLocal DEF WriteLink, external, TypeInv, TypeOK
<1>7. ASSUME NEW w \in Workers, NEW p \in Payments, StoreEvent(w, p) PROVE TypeInv'
    BY <1>7 DEF TypeInv, TypeOK, LocalOK, StoreEvent, Goto, external, Rows, EventStatus
<1>8. ASSUME NEW w \in Workers, NEW p \in Payments, Replay(w, p) PROVE TypeInv'
    BY <1>8 DEF TypeInv, TypeOK, LocalOK, Replay, Goto, external, Rows, EventStatus
<1>9. ASSUME NEW w \in Workers, NEW p \in Payments, BeginMock(w, p) PROVE TypeInv'
    BY <1>9 DEF TypeInv, TypeOK, LocalOK, BeginMock, Found, Goto, rows, external, Rows
<1>10. ASSUME NEW w \in Workers, NEW i \in Invoices, BeginVerify(w, i) PROVE TypeInv'
    BY <1>10 DEF TypeInv, TypeOK, LocalOK, BeginVerify, Goto, rows, external, Rows
<1>11. ASSUME NEW w \in Workers, NEW p \in Payments, InsertVerified(w, p) PROVE TypeInv'
    <2>1. /\ payment' \in [Payments -> Payment \cup {NONE}]
          /\ Rows' = Rows \cup {p}
        BY <1>11, InsertTyped DEF InsertVerified
    <2> QED BY <1>11, <2>1 DEF InsertVerified, TypeInv, TypeOK, LocalOK, Goto, external
<1>12. ASSUME NEW w \in Workers, SignEvent(w) PROVE TypeInv'
    <2>1. since' \in [Workers -> SUBSET Invoices] /\ Rows' = Rows
        BY <1>12, OutdateTyped DEF SignEvent, Rows
    <2> QED BY ZenonT(40), <1>12, <2>1
           DEF SignEvent, TypeInv, TypeOK, LocalOK, Goto, external, Rows, EventStatus
<1>13. ASSUME NEW w \in Workers, CompletePayment(w) PROVE TypeInv'
    <2>1. pc[w] = "complete" /\ Settle(w)
        BY <1>13 DEF CompletePayment
    <2> QED BY <1>13, <2>1, SettleTyped DEF CompletePayment, TypeInv, TypeOK, LocalOK, Goto,
                external, local
<1>14. ASSUME NEW w \in Workers, CompleteMock(w) PROVE TypeInv'
    <2>1. pc[w] = "mock" /\ Settle(w) /\ Forget(w)
        BY <1>14 DEF CompleteMock
    <2> QED BY <1>14, <2>1, SettleTyped, ForgetLocal DEF CompleteMock, TypeInv, TypeOK, external
<1>15. ASSUME NEW w \in Workers, MarkEvent(w) PROVE TypeInv'
    <2>1. since' \in [Workers -> SUBSET Invoices] /\ Rows' = Rows
        BY <1>15, OutdateTyped DEF MarkEvent, Rows
    <2>2. event' \in [Payments -> EventStatus \cup {NONE}]
        BY <1>15 DEF MarkEvent, Outcome, EventStatus, TypeInv, TypeOK
    <2> QED BY <1>15, <2>1, <2>2, ForgetLocal DEF MarkEvent, TypeInv, TypeOK, external
<1>16. ASSUME NEW w \in Workers, BeginScan(w) PROVE TypeInv'
    <2>1. DueList \in SUBSET Invoices
        BY DEF DueList, TypeInv, TypeOK
    <2> QED BY <1>16, <2>1 DEF TypeInv, TypeOK, LocalOK, BeginScan, Goto, rows, external, Rows
<1>17. ASSUME NEW w \in Workers, NEW i \in Invoices, MarkOverdue(w, i) PROVE TypeInv'
    <2>1. "OVERDUE" \in InvoiceStatus
        BY DEF InvoiceStatus
    <2>2. /\ invoice' \in [Invoices -> InvoiceStatus]
          /\ since' \in [Workers -> SUBSET Invoices]
          /\ Rows' = Rows
        BY <1>17, <2>1, StoreTyped DEF MarkOverdue, Rows
    <2> QED BY <1>17, <2>2 DEF MarkOverdue, TypeInv, TypeOK, LocalOK, Goto, external
<1>18. CASE CollectionsScan
    <2> DEFINE overdue == {i \in pastDue : invoice[i] = "SENT"}
    <2>1. overdue \in SUBSET Invoices
        BY DEF TypeInv, TypeOK
    <2>2. since' = [v \in Workers |-> since[v] \cup (overdue \cap Copies(v))]
        BY <1>18 DEF CollectionsScan
    <2>3. since' \in [Workers -> SUBSET Invoices]
        BY <2>1, <2>2 DEF TypeInv, TypeOK
    <2>4. invoice' \in [Invoices -> InvoiceStatus]
        BY <1>18 DEF CollectionsScan, InvoiceStatus, TypeInv, TypeOK
    <2> QED BY <1>18, <2>3, <2>4 DEF CollectionsScan, TypeInv, TypeOK, LocalOK, external, local, Rows
<1>19. ASSUME NEW w \in Workers, Throw(w) PROVE TypeInv'
    BY <1>19 DEF TypeInv, TypeOK, LocalOK, Throw, Goto, rows, external, local, Rows
<1>20. ASSUME NEW w \in Workers, Abort(w) PROVE TypeInv'
    <2>1. since' \in [Workers -> SUBSET Invoices] /\ Rows' = Rows
        BY <1>20, OutdateTyped DEF Abort, Rows, rows
    <2> QED BY <1>20, <2>1, ForgetLocal DEF Abort, TypeInv, TypeOK, rows, external
<1>21. ASSUME NEW i \in Invoices, DueDatePasses(i) PROVE TypeInv'
    BY <1>21 DEF TypeInv, TypeOK, LocalOK, DueDatePasses, rows, external, local, Rows
<1>22. ASSUME NEW p \in Payments, CustomerPays(p) PROVE TypeInv'
    BY <1>22 DEF TypeInv, TypeOK, LocalOK, CustomerPays, rows, local, Rows
<1>23. CASE UNCHANGED vars
    BY <1>23 DEF TypeInv, TypeOK, LocalOK, vars, rows, external, local, Rows
<1> QED BY <1>1, <1>2, <1>3, <1>4, <1>5, <1>6, <1>7, <1>8, <1>9, <1>10, <1>11, <1>12,
           <1>13, <1>14, <1>15, <1>16, <1>17, <1>18, <1>19, <1>20, <1>21, <1>22, <1>23
           DEF Next, Begin, Continue

\* Rows and the local variables of the calls stay in their domains, and whoever
\* works on a payment works on a row that exists.
THEOREM TypeCorrect == Spec => []TypeOK
<1>1. TypeInv => TypeOK
    BY DEF TypeInv
<1> QED BY <1>1, InitTyped, StepTyped, PTL DEF Spec

-----------------------------------------------------------------------------
(***************************************************************************)
(* An event that counts as processed has recorded its payment.             *)
(***************************************************************************)
\* Between the transaction and the answer the payment is recorded, too.
MarkOK == \A w \in Workers : pc[w] = "mark" => Succeeded(pay[w])

ProcessedInv == TypeInv /\ MarkOK /\ ProcessedMeansSucceeded

\* A payment that is inserted takes none back.
LEMMA InsertSucceeds ==
    ASSUME NEW p \in Payments, NEW r, p \notin Rows, TypeInv,
           payment' = [payment EXCEPT ![p] = r]
    PROVE  \A q \in Payments : Succeeded(q) => Succeeded(q)'
BY DEF Succeeded, Rows, TypeInv, TypeOK

\* No step takes back a payment that has been recorded.
LEMMA SucceededStays ==
    ASSUME TypeInv, [Next]_vars
    PROVE  \A p \in Payments : Succeeded(p) => Succeeded(p)'
<1>1. CASE UNCHANGED payment
    BY <1>1 DEF Succeeded, Rows
<1>2. ASSUME NEW w \in Workers, Settle(w), pc[w] \in {"complete", "mock"}
      PROVE  \A p \in Payments : Succeeded(p) => Succeeded(p)'
    BY <1>2, SettleTyped
<1>3. ASSUME NEW w \in Workers, NEW p \in Payments, InsertPayment(w, p) \/ InsertVerified(w, p)
      PROVE  \A q \in Payments : Succeeded(q) => Succeeded(q)'
    BY <1>3, InsertSucceeds DEF InsertPayment, InsertVerified
<1>4. \/ UNCHANGED payment
      \/ \E w \in Workers : Settle(w) /\ pc[w] \in {"complete", "mock"}
      \/ \E w \in Workers, p \in Payments : InsertPayment(w, p) \/ InsertVerified(w, p)
    BY DEF Next, Begin, Continue, BeginStatus, WriteStatus, BeginLink, OpenCheckout,
           WriteLink, StoreEvent, Replay, BeginMock, BeginVerify, SignEvent, CompletePayment,
           CompleteMock, MarkEvent, BeginScan, MarkOverdue, CollectionsScan, Throw, Abort,
           DueDatePasses, CustomerPays, vars, rows
<1> QED BY <1>1, <1>2, <1>3, <1>4

\* An event is marked as processed, and a call gets to that mark, only when the
\* payment of the event is recorded.
LEMMA StepProcessed == ProcessedInv /\ [Next]_vars => ProcessedInv'
<1> SUFFICES ASSUME ProcessedInv, [Next]_vars PROVE ProcessedInv'
    OBVIOUS
<1>1. TypeInv /\ TypeInv'
    BY StepTyped DEF ProcessedInv
<1>2. \A p \in Payments : Succeeded(p) => Succeeded(p)'
    BY <1>1, SucceededStays
<1> DEFINE Marks == \A w \in Workers : pc'[w] = "mark" => pc[w] = "mark" /\ pay'[w] = pay[w]
<1> USE DEF ProcessedInv, MarkOK, ProcessedMeansSucceeded
<1>3. Marks => MarkOK'
    <2> SUFFICES ASSUME Marks, NEW w \in Workers, pc'[w] = "mark" PROVE Succeeded(pay[w])'
        OBVIOUS
    <2>1. pay[w] \in Payments /\ Succeeded(pay[w]) /\ pay'[w] = pay[w]
        BY <1>1 DEF TypeInv, TypeOK, LocalOK, Rows
    <2>2. \A p : p = pay[w] => Succeeded(p)'
        BY <1>2, <2>1
    <2> QED BY <2>1, <2>2 DEF Succeeded, Rows
<1>4. UNCHANGED event => ProcessedMeansSucceeded'
    BY <1>2
<1>5. ASSUME NEW p, event' = [event EXCEPT ![p] = "RECEIVED"] PROVE ProcessedMeansSucceeded'
    BY <1>1, <1>2, <1>5 DEF TypeInv, TypeOK
<1> DEFINE Other(w) ==
        \/ BeginScan(w) \/ Throw(w) \/ Abort(w) \/ WriteStatus(w) \/ OpenCheckout(w)
        \/ WriteLink(w) \/ CompleteMock(w)
        \/ \E i \in Invoices : BeginLink(w, i) \/ BeginVerify(w, i) \/ MarkOverdue(w, i)
        \/ \E i \in Invoices, s \in InvoiceStatus : BeginStatus(w, i, s)
        \/ \E p \in Payments : BeginMock(w, p) \/ InsertPayment(w, p) \/ InsertVerified(w, p)
<1>6. ASSUME NEW w \in Workers, Other(w) PROVE UNCHANGED event /\ Marks
    BY <1>1, <1>6 DEF TypeInv, TypeOK, Goto, Forget, BeginScan, Throw, Abort, WriteStatus,
           OpenCheckout, WriteLink, CompleteMock, BeginLink, BeginVerify, MarkOverdue,
           BeginStatus, BeginMock, InsertPayment, InsertVerified, rows, local
<1>7. CASE \/ CollectionsScan
           \/ \E i \in Invoices : DueDatePasses(i)
           \/ \E p \in Payments : CustomerPays(p)
    BY <1>1, <1>3, <1>4, <1>7 DEF CollectionsScan, DueDatePasses, CustomerPays, rows, local
<1>8. ASSUME NEW w \in Workers, SignEvent(w) \/ \E p \in Payments : StoreEvent(w, p) \/ Replay(w, p)
      PROVE  MarkOK' /\ ProcessedMeansSucceeded'
    <2>1. \E p : event' = [event EXCEPT ![p] = "RECEIVED"]
        BY <1>8 DEF SignEvent, StoreEvent, Replay
    <2>2. Marks
        BY <1>1, <1>8 DEF TypeInv, TypeOK, Goto, SignEvent, StoreEvent, Replay
    <2> QED BY <1>3, <1>5, <2>1, <2>2
<1>9. ASSUME NEW w \in Workers, CompletePayment(w) PROVE MarkOK' /\ ProcessedMeansSucceeded'
    <2>1. pc[w] = "complete" /\ Settle(w) /\ UNCHANGED <<event, pay>>
        BY <1>9 DEF CompletePayment, local
    <2>2. \A v \in Workers : pc'[v] = "mark" => v = w \/ pc[v] = "mark"
        BY <1>1, <1>9 DEF CompletePayment, Goto, TypeInv, TypeOK
    <2>3. \A p : p = pay[w] => Succeeded(p)'
        BY <1>1, <2>1, SettleTyped
    <2>4. ASSUME NEW v \in Workers, pc'[v] = "mark" PROVE Succeeded(pay[v])'
        <3>1. \A p : p = pay[v] => Succeeded(p)'
            <4>1. CASE v = w
                BY <2>3, <4>1
            <4>2. CASE v # w
                BY <1>1, <1>2, <2>2, <2>4, <4>2 DEF TypeInv, TypeOK, LocalOK, Rows
            <4> QED BY <4>1, <4>2
        <3> QED BY <2>1, <3>1 DEF Succeeded, Rows
    <2> QED BY <1>4, <2>1, <2>4
<1>10. ASSUME NEW w \in Workers, MarkEvent(w) PROVE MarkOK' /\ ProcessedMeansSucceeded'
    <2>1. Marks
        BY <1>1, <1>10 DEF MarkEvent, Forget, Goto, TypeInv, TypeOK
    <2>2. pc[w] = "mark" => Succeeded(pay[w])
        OBVIOUS
    <2>3. ASSUME NEW p \in Payments, event'[p] = "PROCESSED" PROVE Succeeded(p)
        BY <1>1, <1>10, <2>2, <2>3 DEF MarkEvent, Outcome, TypeInv, TypeOK
    <2> QED BY <1>2, <1>3, <2>1, <2>3
<1> QED
    <2>1. \/ \E w \in Workers : Other(w)
          \/ CollectionsScan \/ \E i \in Invoices : DueDatePasses(i)
          \/ (\E p \in Payments : CustomerPays(p)) \/ UNCHANGED vars
          \/ \E w \in Workers : \/ SignEvent(w) \/ CompletePayment(w) \/ MarkEvent(w)
                                \/ \E p \in Payments : StoreEvent(w, p) \/ Replay(w, p)
        BY DEF Next, Begin, Continue
    <2>2. CASE UNCHANGED vars
        BY <1>1, <1>3, <1>4, <2>2 DEF vars, rows, local
    <2> HIDE DEF Other, Marks
    <2> QED BY <1>1, <1>3, <1>4, <1>6, <1>7, <1>8, <1>9, <1>10, <2>1, <2>2

\* An event that the console shows as PROCESSED has recorded its payment, whatever
\* exceptions, replays and ends of the process there were.
THEOREM ProcessedIsSucceeded == Spec => []ProcessedMeansSucceeded
<1>1. Init => ProcessedInv
    <2>1. Init => MarkOK
        BY DEF Init, MarkOK
    <2>2. Init => ProcessedMeansSucceeded
        BY IdsAssumption DEF Init, ProcessedMeansSucceeded, EventStatus
    <2> QED BY <2>1, <2>2, InitTyped DEF ProcessedInv
<1>2. ProcessedInv => ProcessedMeansSucceeded
    BY DEF ProcessedInv
<1> QED BY <1>1, <1>2, StepProcessed, PTL DEF Spec

-----------------------------------------------------------------------------
(***************************************************************************)
(* Only a stale copy gets past the end of an invoice.                      *)
(***************************************************************************)
\* What w is about to do to i is what it may do, unless its copy is stale.
FreshAt(w, i) ==
    \/ i \in since[w]
    \/ /\ pc[w] = "status" /\ doc[w] = i => StatusTransitionAllowed(invoice[i], want[w])
       /\ pc[w] \in HasSeen /\ doc[w] = i => seen[w] = invoice[i] /\ Payable(i)
       /\ pc[w] = "insertverified" /\ doc[w] = i => Payable(i)
       /\ i \in todo[w] => Payable(i)

FreshOK == \A w \in Workers, i \in Invoices : FreshAt(w, i)

FreshInv == TypeInv /\ FreshOK

\* The copies of the calls that do not move are fresh, or known to be stale.
LEMMA OthersFresh ==
    ASSUME FreshInv, NEW w \in Workers, NEW W \in SUBSET Invoices,
           \A i \in Invoices \ W : invoice'[i] = invoice[i],
           NEW v \in Workers, v # w,
           since'[v] = since[v] \cup (W \cap Copies(v)),
           /\ pc'[v] = pc[v] /\ doc'[v] = doc[v] /\ seen'[v] = seen[v]
           /\ want'[v] = want[v] /\ todo'[v] = todo[v],
           NEW i \in Invoices
    PROVE  FreshAt(v, i)'
BY DEF FreshInv, FreshOK, FreshAt, Copies, Payable

\* A call that is over may do nothing.
LEMMA ForgetFresh ==
    ASSUME FreshInv, NEW w \in Workers, Forget(w), NEW i \in Invoices
    PROVE  FreshAt(w, i)'
BY DEF FreshInv, TypeInv, TypeOK, FreshAt, Forget, Goto

\* Whoever ends its call, and writes at most the invoices W, leaves fresh copies.
LEMMA EndFresh ==
    ASSUME FreshInv, NEW w \in Workers, NEW W \in SUBSET Invoices, Forget(w), Outdate(w, W),
           \A i \in Invoices \ W : invoice'[i] = invoice[i]
    PROVE  FreshOK'
<1>1. ASSUME NEW v \in Workers, v # w, NEW i \in Invoices PROVE FreshAt(v, i)'
    <2>1. since'[v] = since[v] \cup (W \cap Copies(v))
        BY <1>1 DEF Outdate
    <2>2. /\ pc'[v] = pc[v] /\ doc'[v] = doc[v] /\ seen'[v] = seen[v]
          /\ want'[v] = want[v] /\ todo'[v] = todo[v]
        BY <1>1 DEF Forget, Goto, FreshInv, TypeInv, TypeOK
    <2> QED BY <1>1, <2>1, <2>2, OthersFresh
<1> QED BY <1>1, ForgetFresh DEF FreshOK

\* A call that writes no invoice leaves fresh copies when its own is fresh.
LEMMA MoveFresh ==
    ASSUME FreshInv, NEW w \in Workers, UNCHANGED <<invoice, since>>,
           \A i \in Invoices : FreshAt(w, i)',
           \A v \in Workers \ {w} : /\ pc'[v] = pc[v] /\ doc'[v] = doc[v] /\ seen'[v] = seen[v]
                                    /\ want'[v] = want[v] /\ todo'[v] = todo[v]
    PROVE  FreshOK'
BY DEF FreshInv, FreshOK, FreshAt, Payable

\* Every step leaves each copy fresh, or marks it as stale.
LEMMA StepFresh == FreshInv /\ [Next]_vars => FreshInv'
<1> SUFFICES ASSUME FreshInv, [Next]_vars PROVE FreshOK'
    BY StepTyped DEF FreshInv
<1> DEFINE Same(w) == \A v \in Workers \ {w} :
                         /\ pc'[v] = pc[v] /\ doc'[v] = doc[v] /\ seen'[v] = seen[v]
                         /\ want'[v] = want[v] /\ todo'[v] = todo[v]
<1>1. ASSUME NEW w \in Workers, Begin(w) PROVE FreshOK'
    <2> USE DEF FreshInv, TypeInv, TypeOK, Goto, rows
    <2>1. UNCHANGED <<invoice, since>> /\ Same(w)
        BY <1>1 DEF Begin, BeginStatus, BeginLink, BeginVerify, StoreEvent, Replay,
                    BeginMock, BeginScan
    <2>2. ASSUME NEW i \in Invoices PROVE FreshAt(w, i)'
        <3>1. CASE \/ \E j \in Invoices, s \in InvoiceStatus : BeginStatus(w, j, s)
                   \/ \E j \in Invoices : BeginLink(w, j)
            BY <3>1 DEF BeginStatus, BeginLink, FreshAt, LocalOK, Payable
        <3>2. CASE \E j \in Invoices : BeginVerify(w, j)
            BY <3>2 DEF BeginVerify, NewInvoice, FreshAt, LocalOK, Payable
        <3>3. CASE \E p \in Payments : StoreEvent(w, p) \/ Replay(w, p) \/ BeginMock(w, p)
            BY <3>3 DEF StoreEvent, Replay, BeginMock, FreshAt, LocalOK
        <3>4. CASE BeginScan(w)
            BY <3>4 DEF BeginScan, DueList, FreshAt, Payable
        <3> QED BY <1>1, <3>1, <3>2, <3>3, <3>4 DEF Begin
    <2> QED BY <2>1, <2>2, MoveFresh
<1>2. ASSUME NEW w \in Workers, \/ OpenCheckout(w) \/ Throw(w)
                                \/ \E p \in Payments : InsertPayment(w, p) \/ InsertVerified(w, p)
      PROVE  FreshOK'
    <2> USE DEF FreshInv, TypeInv, TypeOK, Goto, rows, local
    <2>1. UNCHANGED <<invoice, since>> /\ Same(w)
        BY <1>2 DEF OpenCheckout, InsertPayment, InsertVerified, Throw
    <2>2. ASSUME NEW i \in Invoices PROVE FreshAt(w, i)'
        BY <1>2 DEF OpenCheckout, InsertPayment, InsertVerified, Throw, FreshOK, FreshAt,
                    LocalOK, Payable
    <2> QED BY <2>1, <2>2, MoveFresh
<1>3. ASSUME NEW w \in Workers, MarkEvent(w) \/ Abort(w) PROVE FreshOK'
    BY <1>3, EndFresh DEF MarkEvent, Abort, rows
<1>4. ASSUME NEW w \in Workers, NEW i \in Invoices, NEW s, Store(w, i, s), Forget(w) PROVE FreshOK'
    BY <1>4, EndFresh DEF Store, FreshInv, TypeInv, TypeOK
<1>5. ASSUME NEW w \in Workers, WriteStatus(w) \/ WriteLink(w) PROVE FreshOK'
    <2>1. doc[w] \in Invoices
        BY <1>5 DEF WriteStatus, WriteLink, FreshInv, TypeInv, TypeOK, LocalOK
    <2> QED BY <1>4, <1>5, <2>1 DEF WriteStatus, WriteLink
<1>6. ASSUME NEW w \in Workers, Settle(w), pc[w] \in {"complete", "mock"}
      PROVE  \E i \in Invoices : Store(w, i, "PAID")
    <2>1. pay[w] \in Payments /\ payment[pay[w]] \in Payment
        BY <1>6, RowsExist DEF FreshInv, TypeInv, TypeOK, LocalOK, Rows
    <2> QED BY <1>6, <2>1 DEF Settle, Payment
<1>7. ASSUME NEW w \in Workers, CompleteMock(w) PROVE FreshOK'
    BY <1>4, <1>6, <1>7 DEF CompleteMock
<1> DEFINE Write(w, i) ==
        /\ Outdate(w, {i})
        /\ \A j \in Invoices \ {i} : invoice'[j] = invoice[j]
<1>8. ASSUME NEW w \in Workers, NEW i \in Invoices, Write(w, i), Same(w),
             \A j \in Invoices : FreshAt(w, j)'
      PROVE  FreshOK'
    <2>1. \A v \in Workers \ {w} : since'[v] = since[v] \cup ({i} \cap Copies(v))
        BY <1>8 DEF Outdate
    <2>2. ASSUME NEW v \in Workers, v # w, NEW j \in Invoices PROVE FreshAt(v, j)'
        BY <1>8, <2>1, <2>2, OthersFresh
    <2> QED BY <1>8, <2>2 DEF FreshOK
<1>9. ASSUME NEW w \in Workers, CompletePayment(w) PROVE FreshOK'
    <2> USE DEF FreshInv, TypeInv, TypeOK
    <2>1. PICK i \in Invoices : Store(w, i, "PAID")
        BY <1>6, <1>9 DEF CompletePayment
    <2>2. Write(w, i) /\ Same(w)
        BY <1>9, <2>1 DEF Store, CompletePayment, Goto, local
    <2>3. ASSUME NEW j \in Invoices PROVE FreshAt(w, j)'
        BY <1>9 DEF CompletePayment, Goto, local, FreshAt, LocalOK
    <2> QED BY <1>8, <2>2, <2>3
<1>10. ASSUME NEW w \in Workers, SignEvent(w) PROVE FreshOK'
    <2> USE DEF FreshInv, TypeInv, TypeOK
    <2>1. Same(w) /\ UNCHANGED invoice
        BY <1>10 DEF SignEvent, Goto
    <2>2. \A v \in Workers \ {w} : since'[v] = since[v] \cup ({} \cap Copies(v))
        BY <1>10 DEF SignEvent, Outdate
    <2>3. ASSUME NEW j \in Invoices PROVE FreshAt(w, j)'
        BY <1>10 DEF SignEvent, Goto, FreshAt, LocalOK
    <2>4. ASSUME NEW v \in Workers, v # w, NEW j \in Invoices PROVE FreshAt(v, j)'
        BY <2>1, <2>2, <2>4, OthersFresh
    <2> QED BY <2>3, <2>4 DEF FreshOK
<1>11. ASSUME NEW w \in Workers, NEW i \in Invoices, MarkOverdue(w, i) PROVE FreshOK'
    <2> USE DEF FreshInv, TypeInv, TypeOK
    <2>1. Write(w, i) /\ Same(w)
        BY <1>11 DEF Store, MarkOverdue, Goto
    <2>2. pc[w] = "scan" /\ pc'[w] \in {"idle", "scan"} /\ todo'[w] = todo[w] \ {i}
        BY <1>11 DEF MarkOverdue, Goto
    <2>3. \A j \in todo'[w] : j \in since'[w] \/ (j \notin since[w] /\ j # i)
        BY <2>1, <2>2 DEF Outdate, Copies
    <2>4. ASSUME NEW j \in Invoices PROVE FreshAt(w, j)'
        BY <2>1, <2>2, <2>3 DEF FreshAt, FreshOK, Payable
    <2> QED BY <1>8, <2>1, <2>4
<1>12. CASE CollectionsScan
    BY <1>12 DEF CollectionsScan, local, FreshInv, FreshOK, FreshAt, TypeInv, TypeOK, Copies, Payable
<1>13. CASE \/ \E i \in Invoices : DueDatePasses(i)
            \/ \E p \in Payments : CustomerPays(p)
            \/ UNCHANGED vars
    BY <1>13 DEF DueDatePasses, CustomerPays, vars, rows, local, FreshInv, FreshOK, FreshAt, Payable
<1> HIDE DEF Same, Write
<1> QED BY <1>1, <1>2, <1>3, <1>5, <1>7, <1>9, <1>10, <1>11, <1>12, <1>13 DEF Next, Continue

\* What a step does to an invoice that is paid or void, when no copy of it is stale.
LEMMA EndKept ==
    ASSUME FreshInv, [Next]_vars, NEW i \in Invoices, ~Payable(i),
           \A w \in Workers : i \notin since[w]
    PROVE  \/ /\ invoice'[i] = invoice[i]
              /\ \A p \in Payments \ Rows : payment'[p] # NONE => payment'[p].invoice # i
           \/ invoice'[i] = "PAID" /\ \E p \in Rows : payment[p].invoice = i /\ Succeeded(p)'
<1> DEFINE Kept == /\ invoice'[i] = invoice[i]
                   /\ \A p \in Payments \ Rows : payment'[p] # NONE => payment'[p].invoice # i
           Paid == invoice'[i] = "PAID" /\ \E p \in Rows : payment[p].invoice = i /\ Succeeded(p)'
<1> SUFFICES Kept \/ Paid
    OBVIOUS
<1>1. \A w \in Workers : FreshAt(w, i) /\ i \notin since[w]
    BY DEF FreshInv, FreshOK
<1>2. UNCHANGED <<invoice, payment>> => Kept
    BY DEF Rows
<1>3. ASSUME NEW w \in Workers, NEW j \in Invoices, NEW s, Store(w, j, s), UNCHANGED payment,
             j = i => s = invoice[i]
      PROVE  Kept
    BY <1>3 DEF Store, Rows, FreshInv, TypeInv, TypeOK
<1>4. ASSUME NEW w \in Workers, WriteStatus(w) PROVE Kept
    <2>1. doc[w] \in Invoices /\ pc[w] = "status" /\ UNCHANGED payment /\ Store(w, doc[w], want[w])
        BY <1>4 DEF WriteStatus, FreshInv, TypeInv, TypeOK, LocalOK
    <2>2. doc[w] = i => StatusTransitionAllowed(invoice[i], want[w])
        BY <1>1, <2>1 DEF FreshAt
    <2>3. doc[w] = i => want[w] = invoice[i]
        BY <2>2 DEF StatusTransitionAllowed, statusTransitions, Payable
    <2> QED BY <1>3, <2>1, <2>3
<1>5. ASSUME NEW w \in Workers, WriteLink(w) PROVE Kept
    <2> DEFINE s == IF seen[w] = "DRAFT" THEN "SENT" ELSE seen[w]
    <2>1. doc[w] \in Invoices /\ pc[w] = "link" /\ UNCHANGED payment /\ Store(w, doc[w], s)
        BY <1>5 DEF WriteLink, FreshInv, TypeInv, TypeOK, LocalOK
    <2>2. doc[w] # i
        BY <1>1, <2>1 DEF FreshAt
    <2> HIDE DEF s
    <2> QED BY <1>3, <2>1, <2>2
<1>6. ASSUME NEW w \in Workers, NEW p \in Payments, InsertPayment(w, p) \/ InsertVerified(w, p)
      PROVE  Kept
    <2>1. doc[w] # i /\ UNCHANGED invoice
        BY <1>1, <1>6 DEF InsertPayment, InsertVerified, FreshAt
    <2>2. payment' = [payment EXCEPT ![p] = [invoice |-> doc[w], status |-> "PENDING"]]
        BY <1>6 DEF InsertPayment, InsertVerified
    <2> QED BY <2>1, <2>2 DEF Rows, FreshInv, TypeInv, TypeOK
<1>7. ASSUME NEW w \in Workers, Settle(w), pc[w] \in {"complete", "mock"} PROVE Kept \/ Paid
    <2> DEFINE p == pay[w]
    <2>1. p \in Rows /\ p \in Payments /\ payment[p] \in Payment
        BY <1>7, RowsExist DEF FreshInv, TypeInv, TypeOK, LocalOK, Rows
    <2>2. invoice' = [invoice EXCEPT ![payment[p].invoice] = "PAID"]
        BY <1>7 DEF Settle, Store
    <2>3. \E q : q = p /\ Succeeded(q)' /\ Rows' = Rows
        BY <1>7, SettleTyped DEF FreshInv
    <2>4. CASE payment[p].invoice = i
        BY <2>1, <2>2, <2>3, <2>4 DEF FreshInv, TypeInv, TypeOK
    <2>5. CASE payment[p].invoice # i
        BY <2>2, <2>3, <2>5 DEF Rows, FreshInv, TypeInv, TypeOK
    <2> QED BY <2>4, <2>5
<1>8. ASSUME NEW w \in Workers, NEW j \in Invoices, MarkOverdue(w, j) PROVE Kept
    <2>1. j # i
        BY <1>1, <1>8 DEF MarkOverdue, FreshAt
    <2> QED BY <1>3, <1>8, <2>1 DEF MarkOverdue
<1>9. CASE CollectionsScan
    BY <1>9 DEF CollectionsScan, Payable, Rows, FreshInv, TypeInv, TypeOK
<1>10. \/ \E w \in Workers : \/ WriteStatus(w) \/ WriteLink(w)
                             \/ \E p \in Payments : InsertPayment(w, p) \/ InsertVerified(w, p)
                             \/ Settle(w) /\ pc[w] \in {"complete", "mock"}
                             \/ \E j \in Invoices : MarkOverdue(w, j)
       \/ CollectionsScan
       \/ UNCHANGED <<invoice, payment>>
    BY DEF Next, Begin, Continue, BeginStatus, BeginLink, OpenCheckout, StoreEvent, Replay,
           BeginMock, BeginVerify, SignEvent, CompletePayment, CompleteMock, MarkEvent,
           BeginScan, Throw, Abort, DueDatePasses, CustomerPays, vars, rows
<1> HIDE DEF Kept, Paid
<1> QED BY <1>2, <1>4, <1>5, <1>6, <1>7, <1>8, <1>9, <1>10

\* No manager, link or scan that sees the end of an invoice goes past it; what does
\* is a payment of an earlier checkout, or a call whose copy is stale.
THEOREM EndsAreKept == Spec => OnlyStaleWritesAfterEnd
<1>1. Init => FreshInv
    <2>1. Init => FreshOK
        BY DEF Init, FreshOK, FreshAt
    <2> QED BY <2>1, InitTyped DEF FreshInv
<1>2. FreshInv /\ [Next]_vars =>
        [\A i \in Invoices : ~Payable(i) =>
          \/ /\ invoice'[i] = invoice[i]
             /\ \A p \in Payments \ Rows : payment'[p] # NONE => payment'[p].invoice # i
          \/ invoice'[i] = "PAID" /\ \E p \in Rows : payment[p].invoice = i /\ Succeeded(p)'
          \/ \E w \in Workers : i \in since[w]]_vars
    BY EndKept
<1> QED BY <1>1, <1>2, StepFresh, PTL DEF Spec, OnlyStaleWritesAfterEnd
=============================================================================
