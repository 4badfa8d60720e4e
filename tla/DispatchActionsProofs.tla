------------------------ MODULE DispatchActionsProofs ------------------------
(***************************************************************************)
(* What the action queue promises for every set of bookings, staff and     *)
(* calls: states are well typed, and no call opens an action about a stage *)
(* that it could see the booking is not in.                                *)
(***************************************************************************)
EXTENDS DispatchActions, SequenceTheorems, FiniteSetTheorems, TLAPS

\* No stored value is the missing one.
LEMMA ValuesExist ==
    /\ \A x \in Booking : x # NONE
    /\ \A x \in Task : x # NONE
    /\ \A x \in Call : x # NONE
    /\ \A x \in Bookings : x # NONE
    /\ \A x \in BookingStatus : x # NONE
BY NoneAssumption

\* An element of a concatenation is one of its parts.
LEMMA Concatenated ==
    ASSUME NEW s \in Seq(Entries), NEW t \in Seq(Entries)
    PROVE  /\ s \o t \in Seq(Entries)
           /\ \A i \in 1..Len(s \o t) :
                \/ \E j \in 1..Len(s) : (s \o t)[i] = s[j]
                \/ \E j \in 1..Len(t) : (s \o t)[i] = t[j]
<1>1. /\ s \o t \in Seq(Entries) /\ Len(s \o t) = Len(s) + Len(t)
      /\ Len(s) \in Nat /\ Len(t) \in Nat
    OBVIOUS
<1>2. ASSUME NEW i \in 1..Len(s \o t)
      PROVE  \/ \E j \in 1..Len(s) : (s \o t)[i] = s[j]
             \/ \E j \in 1..Len(t) : (s \o t)[i] = t[j]
    <2>1. CASE i <= Len(s)
        <3>1. i \in 1..Len(s) /\ (s \o t)[i] = s[i]
            BY <1>1, <2>1
        <3> QED BY <3>1
    <2>2. CASE i > Len(s)
        <3>1. i - Len(s) \in 1..Len(t) /\ (s \o t)[i] = t[i - Len(s)]
            BY <1>1, <2>2
        <3> QED BY <3>1
    <2> QED BY <1>1, <2>1, <2>2
<1> QED BY <1>1, <1>2

\* Its second part is there.
LEMMA ConcatenatedLast ==
    ASSUME NEW s \in Seq(Entries), NEW t \in Seq(Entries), NEW j \in 1..Len(t)
    PROVE  \E i \in 1..Len(s \o t) : (s \o t)[i] = t[j]
<1>1. /\ Len(s \o t) = Len(s) + Len(t) /\ Len(s) \in Nat /\ Len(t) \in Nat
    OBVIOUS
<1>2. Len(s) + j \in 1..Len(s \o t) /\ (s \o t)[Len(s) + j] = t[j]
    BY <1>1
<1> QED BY <1>2

-----------------------------------------------------------------------------
\* An entry that opens an action about a stage is made for a booking whose
\* row is in that stage.
Suits(e, row) ==
    e.do \in {"open", "openFor"} =>
        \A t \in DOMAIN Wanted : t \in e.types => row.status \in Wanted[t]

\* The entries that handleBookingStatusChanged makes suit the row it was
\* given.
LEMMA FollowUpSuits ==
    ASSUME NEW b \in Bookings, NEW row \in Booking, NEW invoice \in {"NONE", "DUE", "PAID"}
    PROVE  /\ FollowUp(b, row, invoice) \in Seq(Entries)
           /\ \A i \in 1..Len(FollowUp(b, row, invoice)) :
                /\ FollowUp(b, row, invoice)[i].b = b
                /\ Suits(FollowUp(b, row, invoice)[i], row)
<1> DEFINE F == FollowUp(b, row, invoice)
<1>0. /\ row.status \in BookingStatus /\ row.staff \in Assignee
      /\ NONE \in Assignee
    BY DEF Booking, Assignee
<1>1. CASE row.status = "CONFIRMED"
    <2>1. F = <<OpenFor(b, row.staff)>>
        BY <1>1 DEF FollowUp
    <2>2. OpenFor(b, row.staff) \in Entries
        BY <1>0 DEF OpenFor, Entry, Entries, Types
    <2>3. Suits(OpenFor(b, row.staff), row) /\ OpenFor(b, row.staff).b = b
        BY <1>1 DEF OpenFor, Entry, Suits, Wanted
    <2> QED BY <2>1, <2>2, <2>3
<1>2. CASE row.status = "IN_PROGRESS"
    <2>1. F = <<Close(b, Finished.IN_PROGRESS)>>
        BY <1>2 DEF FollowUp
    <2>2. Close(b, Finished.IN_PROGRESS) \in Entries
        BY <1>0 DEF Close, Entry, Entries, Types, Finished
    <2>3. /\ Suits(Close(b, Finished.IN_PROGRESS), row)
          /\ Close(b, Finished.IN_PROGRESS).b = b
        BY DEF Close, Entry, Suits
    <2> QED BY <2>1, <2>2, <2>3
<1>3. CASE row.status = "NO_SHOW"
    <2>1. F = <<Open(b, "FOLLOW_UP_NO_SHOW")>>
        BY <1>3 DEF FollowUp
    <2>2. Open(b, "FOLLOW_UP_NO_SHOW") \in Entries
        BY <1>0 DEF Open, Entry, Entries, Types
    <2>3. /\ Suits(Open(b, "FOLLOW_UP_NO_SHOW"), row)
          /\ Open(b, "FOLLOW_UP_NO_SHOW").b = b
        BY <1>3 DEF Open, Entry, Suits, Wanted
    <2> QED BY <2>1, <2>2, <2>3
<1>4. CASE row.status = "COMPLETED"
    <2>1. /\ Close(b, Finished.COMPLETED) \in Entries
          /\ CollectPayment(b, invoice) \in Entries
          /\ Open(b, "REQUEST_REVIEW") \in Entries
        BY <1>0 DEF Close, CollectPayment, Open, Entry, Entries, Types, Finished
    <2>2. /\ Suits(Close(b, Finished.COMPLETED), row)
          /\ Close(b, Finished.COMPLETED).b = b
        BY DEF Close, Entry, Suits
    <2>3. /\ Suits(CollectPayment(b, invoice), row)
          /\ CollectPayment(b, invoice).b = b
        BY <1>4 DEF CollectPayment, Open, Entry, Suits, Wanted
    <2>4. /\ Suits(Open(b, "REQUEST_REVIEW"), row)
          /\ Open(b, "REQUEST_REVIEW").b = b
        BY <1>4 DEF Open, Entry, Suits, Wanted
    <2>5. CASE invoice = "PAID"
        <3>1. F = <<Close(b, Finished.COMPLETED), Open(b, "REQUEST_REVIEW")>>
            BY <1>4, <2>5 DEF FollowUp
        <3> QED BY <3>1, <2>1, <2>2, <2>4
    <2>6. CASE invoice # "PAID"
        <3>1. F = <<Close(b, Finished.COMPLETED), CollectPayment(b, invoice),
                    Open(b, "REQUEST_REVIEW")>>
            BY <1>4, <2>6 DEF FollowUp
        <3> QED BY <3>1, <2>1, <2>2, <2>3, <2>4
    <2> QED BY <2>5, <2>6
<1>5. CASE row.status \in {"REQUESTED", "CANCELLED"}
    <2>1. F = <<>>
        BY <1>5 DEF FollowUp
    <2> QED BY <2>1
<1> QED BY <1>0, <1>1, <1>2, <1>3, <1>4, <1>5 DEF BookingStatus

\* A list of bookings in any order is a sequence of them.
LEMMA OrdersAreSequences ==
    ASSUME NEW S \in SUBSET Bookings, NEW order \in SetToSeqs(S)
    PROVE  order \in Seq(S)
<1>1. IsFiniteSet(S)
    BY FiniteAssumption, FS_Subset
<1>2. Cardinality(S) \in Nat
    BY <1>1, FS_CardinalityType
<1>3. order \in [1..Cardinality(S) -> S]
    BY DEF SetToSeqs
<1> QED BY <1>2, <1>3

\* The entries a scan makes of a list suit the rows it lists.
LEMMA ScanSuits ==
    ASSUME booking \in [Bookings -> Booking \cup {NONE}],
           NEW type \in {"DISPATCH_STAFF", "CONFIRM_BOOKING"},
           NEW near \in SUBSET AtRisk[type], NEW order \in SetToSeqs(near)
    PROVE  /\ OpenAll(order, type) \in Seq(Entries)
           /\ \A i \in 1..Len(OpenAll(order, type)) :
                LET e == OpenAll(order, type)[i]
                IN e.b \in Rows /\ Suits(e, booking[e.b])
<1>1. /\ near \subseteq Rows
      /\ \A b \in near : booking[b].status \in Wanted[type]
    <2>1. CASE type = "DISPATCH_STAFF"
        <3>1. /\ AtRisk[type] = {b \in Rows : /\ booking[b].status = "CONFIRMED"
                                              /\ booking[b].staff = NONE}
              /\ Wanted[type] = {"CONFIRMED"}
            BY <2>1 DEF AtRisk, Wanted
        <3> QED BY <3>1
    <2>2. CASE type = "CONFIRM_BOOKING"
        <3>1. /\ AtRisk[type] = {b \in Rows : booking[b].status = "REQUESTED"}
              /\ Wanted[type] = {"REQUESTED"}
            BY <2>2 DEF AtRisk, Wanted
        <3> QED BY <3>1
    <2> QED BY <2>1, <2>2
<1>2. near \in SUBSET Bookings
    BY <1>1 DEF Rows
<1>3. order \in Seq(near)
    BY <1>2, OrdersAreSequences
<1>4. Len(order) \in Nat /\ DOMAIN order = 1..Len(order)
      /\ \A i \in 1..Len(order) : order[i] \in near
    BY <1>3
<1>5. OpenAll(order, type) = [i \in 1..Len(order) |-> Open(order[i], type)]
    BY <1>4 DEF OpenAll
<1>6. \A b \in near : /\ Open(b, type) \in Entries
                      /\ Open(b, type).b = b
                      /\ Suits(Open(b, type), booking[b])
    BY <1>1, <1>2 DEF Open, Entry, Entries, Types, Assignee, Suits, Wanted
<1>7. OpenAll(order, type) \in [1..Len(order) -> Entries]
    BY <1>4, <1>5, <1>6
<1>8. /\ OpenAll(order, type) \in Seq(Entries)
      /\ Len(OpenAll(order, type)) = Len(order)
    BY <1>4, <1>7
<1> QED BY <1>1, <1>4, <1>5, <1>6, <1>8

\* The entries of an overdue scan.
OverdueEntries(order) ==
    [i \in 1..(2 * Len(order)) |->
       IF i % 2 = 1 THEN MarkOverdue(order[(i + 1) \div 2])
       ELSE Open(order[i \div 2], "COLLECT_PAYMENT")]

\* They open nothing about a stage of a booking.
LEMMA OverdueSuits ==
    ASSUME NEW late \in SUBSET Bookings, NEW order \in SetToSeqs(late)
    PROVE  /\ OverdueEntries(order) \in Seq(Entries)
           /\ \A i \in 1..Len(OverdueEntries(order)) :
                LET e == OverdueEntries(order)[i]
                IN e.b \in late /\ \A row : Suits(e, row)
<1>1. order \in Seq(late)
    BY OrdersAreSequences
<1>2. Len(order) \in Nat /\ \A i \in 1..Len(order) : order[i] \in late
    BY <1>1
<1>3. \A b \in late :
        /\ MarkOverdue(b) \in Entries /\ MarkOverdue(b).b = b
        /\ \A row : Suits(MarkOverdue(b), row)
        /\ Open(b, "COLLECT_PAYMENT") \in Entries /\ Open(b, "COLLECT_PAYMENT").b = b
        /\ \A row : Suits(Open(b, "COLLECT_PAYMENT"), row)
    BY DEF MarkOverdue, Open, Entry, Entries, Types, Assignee, Suits, Wanted
<1>4. 2 * Len(order) \in Nat
    BY <1>2
<1>5. ASSUME NEW i \in 1..(2 * Len(order))
      PROVE  LET e == OverdueEntries(order)[i]
             IN e \in Entries /\ e.b \in late /\ \A row : Suits(e, row)
    <2>1. CASE i % 2 = 1
        <3>1. (i + 1) \div 2 \in 1..Len(order)
            BY <1>2, <2>1
        <3>2. OverdueEntries(order)[i] = MarkOverdue(order[(i + 1) \div 2])
            BY <2>1 DEF OverdueEntries
        <3> QED BY <1>2, <1>3, <3>1, <3>2
    <2>2. CASE i % 2 # 1
        <3>1. i \div 2 \in 1..Len(order)
            BY <1>2, <2>2
        <3>2. OverdueEntries(order)[i] = Open(order[i \div 2], "COLLECT_PAYMENT")
            BY <2>2 DEF OverdueEntries
        <3> QED BY <1>2, <1>3, <3>1, <3>2
    <2> QED BY <2>1, <2>2
<1>6. OverdueEntries(order) \in [1..(2 * Len(order)) -> Entries]
    BY <1>5 DEF OverdueEntries
<1>7. /\ OverdueEntries(order) \in Seq(Entries)
      /\ Len(OverdueEntries(order)) = 2 * Len(order)
    BY <1>4, <1>6
<1> QED BY <1>5, <1>7

-----------------------------------------------------------------------------
\* The rows and the shapes of the local variables.
Globals ==
    /\ booking \in [Bookings -> Booking \cup {NONE}]
    /\ bill \in [Bookings -> {"NONE", "DUE", "PAID"}]
    /\ task \in [Keys -> Task \cup {NONE}]
    /\ pc \in [Workers -> Labels]
    /\ call \in [Workers -> Call \cup {NONE}]
    /\ agenda \in [Workers -> Seq(Entries)]
    /\ since \in [Workers -> SUBSET Bookings]
    /\ disturbed \subseteq Bookings
    /\ edits \in 0..MaxEdits
    /\ \A b \in Bookings : bill[b] # "NONE" => b \in Rows

\* What w relies on: a call has found its booking, an agenda is about
\* bookings that exist, and it suits the rows that w has seen, which are the
\* rows of now unless others wrote them since.
Local(w) ==
    /\ pc[w] \in {"write", "bill", "reread"} => call[w] \in Call /\ call[w].b \in Rows
    /\ pc[w] = "agenda" => agenda[w] # <<>>
    /\ pc[w] \in {"idle", "write", "bill", "reread"} => agenda[w] = <<>>
    /\ \A i \in 1..Len(agenda[w]) :
         LET e == agenda[w][i]
         IN e.b \in Rows /\ (e.b \in since[w] \/ Suits(e, booking[e.b]))
    /\ pc[w] = "bill" /\ call[w].kind # "update" =>
         call[w].b \in since[w] \/ booking[call[w].b].status = "COMPLETED"

Inv == Globals /\ \A w \in Workers : Local(w)

\* The invariant contains the type invariant.
LEMMA InvTyped == Inv => TypeOK
BY DEF Inv, Globals, Local, TypeOK

\* Nothing exists at first.
LEMMA InitInv == Init => Inv
<1> SUFFICES ASSUME Init PROVE Inv
    OBVIOUS
<1>1. <<>> \in Seq(Entries) /\ Len(<<>>) = 0 /\ MaxEdits \in Nat
    BY EditsAssumption
<1>2. \A w \in Workers : pc[w] = "idle" /\ agenda[w] = <<>>
    BY DEF Init
<1>3. Globals
    BY <1>1 DEF Init, Globals, Labels
<1> QED BY <1>1, <1>2, <1>3 DEF Inv, Local

\* Whoever takes no step and whose bookings nobody writes relies on the same.
LEMMA KeptLocal ==
    ASSUME Inv, NEW v \in Workers, booking' = booking, since'[v] = since[v],
           pc'[v] = pc[v], call'[v] = call[v], agenda'[v] = agenda[v]
    PROVE  Local(v)'
BY DEF Inv, Local, Rows, Suits

\* A stored row is there and typed, and every other row stays.
LEMMA StoreTyped ==
    ASSUME Inv, NEW w \in Workers, NEW b \in Bookings, NEW row \in Booking,
           Store(w, b, row)
    PROVE  /\ booking' \in [Bookings -> Booking \cup {NONE}]
           /\ since' \in [Workers -> SUBSET Bookings]
           /\ disturbed' \subseteq Bookings
           /\ b \in Rows' /\ booking'[b] = row
           /\ Rows \subseteq Rows'
BY ValuesExist DEF Inv, Globals, Store, Rows

\* Whoever takes no step while another one stores a row either has no agenda
\* yet or knows that its copy is stale.
LEMMA StoreLocal ==
    ASSUME Inv, NEW v \in Workers, NEW w \in Workers \ {v},
           NEW b \in Bookings, NEW row \in Booking, Store(w, b, row),
           pc'[v] = pc[v], call'[v] = call[v], agenda'[v] = agenda[v]
    PROVE  Local(v)'
<1>1. \A c \in Rows : c \in Rows' /\ (c # b => booking'[c] = booking[c])
    BY ValuesExist DEF Inv, Globals, Store, Rows
<1>2. CASE pc[v] \in {"idle", "write", "reread"}
    BY <1>1, <1>2 DEF Inv, Local
<1>3. CASE pc[v] \notin {"idle", "write", "reread"}
    <2>1. since'[v] = since[v] \cup {b}
        BY <1>3 DEF Store
    <2>2. \A i \in 1..Len(agenda'[v]) :
            LET e == agenda'[v][i]
            IN e.b \in Rows' /\ (e.b \in since'[v] \/ Suits(e, booking'[e.b]))
        BY <1>1, <2>1 DEF Inv, Local
    <2>3. pc'[v] = "bill" /\ call'[v].kind # "update" =>
            call'[v].b \in since'[v] \/ booking'[call'[v].b].status = "COMPLETED"
        BY <1>1, <2>1 DEF Inv, Local
    <2> QED BY <1>1, <2>2, <2>3 DEF Inv, Local
<1> QED BY <1>2, <1>3

\* Whoever goes on with entries that suit relies on them.
LEMMA ProceedLocal ==
    ASSUME Inv, NEW w \in Workers, NEW entries \in Seq(Entries), Proceed(w, entries),
           \A i \in 1..Len(entries) :
             LET e == entries[i]
             IN e.b \in Rows' /\ (e.b \in since'[w] \/ Suits(e, booking'[e.b]))
    PROVE  /\ Local(w)'
           /\ pc' \in [Workers -> Labels]
           /\ call' \in [Workers -> Call \cup {NONE}]
           /\ agenda' \in [Workers -> Seq(Entries)]
           /\ \A v \in Workers \ {w} :
                pc'[v] = pc[v] /\ call'[v] = call[v] /\ agenda'[v] = agenda[v]
BY DEF Inv, Globals, Local, Proceed, Goto, Labels

\* So does everybody, when the one that goes on leaves the bookings alone.
LEMMA ProceedLocals ==
    ASSUME Inv, NEW w \in Workers, NEW entries \in Seq(Entries), Proceed(w, entries),
           booking' = booking, \A v \in Workers \ {w} : since'[v] = since[v],
           \A i \in 1..Len(entries) :
             LET e == entries[i]
             IN e.b \in Rows /\ (e.b \in since'[w] \/ Suits(e, booking[e.b]))
    PROVE  /\ \A v \in Workers : Local(v)'
           /\ pc' \in [Workers -> Labels]
           /\ call' \in [Workers -> Call \cup {NONE}]
           /\ agenda' \in [Workers -> Seq(Entries)]
<1>1. \A i \in 1..Len(entries) :
        LET e == entries[i]
        IN e.b \in Rows' /\ (e.b \in since'[w] \/ Suits(e, booking'[e.b]))
    BY DEF Rows
<1>2. /\ Local(w)'
      /\ pc' \in [Workers -> Labels]
      /\ call' \in [Workers -> Call \cup {NONE}]
      /\ agenda' \in [Workers -> Seq(Entries)]
      /\ \A v \in Workers \ {w} :
           pc'[v] = pc[v] /\ call'[v] = call[v] /\ agenda'[v] = agenda[v]
    BY <1>1, ProceedLocal
<1>3. \A v \in Workers \ {w} : Local(v)'
    BY <1>2, KeptLocal
<1> QED BY <1>2, <1>3

\* Whoever makes the first statement of its agenda goes on with the others.
LEMMA TailLocals ==
    ASSUME Inv, NEW w \in Workers, pc[w] = "agenda", Proceed(w, Tail(agenda[w])),
           Rest(w, since[w]), booking' = booking
    PROVE  /\ \A v \in Workers : Local(v)'
           /\ pc' \in [Workers -> Labels]
           /\ call' \in [Workers -> Call \cup {NONE}]
           /\ agenda' \in [Workers -> Seq(Entries)]
           /\ since' \in [Workers -> SUBSET Bookings]
<1> DEFINE rest == Tail(agenda[w])
<1>1. /\ agenda[w] \in Seq(Entries) /\ agenda[w] # <<>>
      /\ since \in [Workers -> SUBSET Bookings]
      /\ agenda \in [Workers -> Seq(Entries)]
    BY DEF Inv, Globals, Local
<1>2. /\ rest \in Seq(Entries) /\ Len(rest) = Len(agenda[w]) - 1
      /\ \A i \in 1..Len(rest) : rest[i] = agenda[w][i + 1]
    BY <1>1
<1>3. agenda'[w] = rest
    BY <1>1 DEF Proceed
<1>4. /\ since' \in [Workers -> SUBSET Bookings]
      /\ \A v \in Workers \ {w} : since'[v] = since[v]
      /\ rest # <<>> => since'[w] = since[w]
    BY <1>1, <1>3 DEF Rest
<1>5. \A i \in 1..Len(rest) : i + 1 \in 1..Len(agenda[w]) /\ rest # <<>>
    <2>1. Len(agenda[w]) \in Nat /\ Len(<<>>) = 0
        BY <1>1
    <2>2. rest = <<>> => Len(rest) = 0
        BY <2>1
    <2>3. \A i \in 1..Len(rest) : Len(rest) # 0 /\ i + 1 \in 1..Len(agenda[w])
        BY <1>2, <2>1
    <2> QED BY <2>2, <2>3
<1>6. \A i \in 1..Len(rest) :
        LET e == rest[i]
        IN e.b \in Rows /\ (e.b \in since'[w] \/ Suits(e, booking[e.b]))
    BY <1>2, <1>4, <1>5 DEF Inv, Local
<1> QED BY <1>2, <1>4, <1>6, ProceedLocals

-----------------------------------------------------------------------------
\* The calls that store a row keep the invariant.
LEMMA CreateKeeps ==
    ASSUME Inv, NEW w \in Workers, ~Busy(w), UNCHANGED edits,
           NEW b \in Bookings, NEW row \in Booking, Create(w, b, row)
    PROVE  Inv'
<1> DEFINE entries == FollowUp(b, row, "NONE")
<1>1. /\ Store(w, b, row) /\ Proceed(w, entries)
      /\ bill' = bill /\ task' = task
    BY DEF Create
<1>2. /\ entries \in Seq(Entries)
      /\ \A i \in 1..Len(entries) : entries[i].b = b /\ Suits(entries[i], row)
    BY FollowUpSuits
<1>3. /\ booking' \in [Bookings -> Booking \cup {NONE}]
      /\ since' \in [Workers -> SUBSET Bookings]
      /\ disturbed' \subseteq Bookings
      /\ b \in Rows' /\ booking'[b] = row /\ Rows \subseteq Rows'
    BY <1>1, StoreTyped
<1>4. /\ Local(w)'
      /\ pc' \in [Workers -> Labels]
      /\ call' \in [Workers -> Call \cup {NONE}]
      /\ agenda' \in [Workers -> Seq(Entries)]
      /\ \A v \in Workers \ {w} :
           pc'[v] = pc[v] /\ call'[v] = call[v] /\ agenda'[v] = agenda[v]
    BY <1>1, <1>2, <1>3, ProceedLocal
<1>5. \A v \in Workers \ {w} : Local(v)'
    BY <1>1, <1>4, StoreLocal
<1>6. Globals'
    BY <1>1, <1>3, <1>4 DEF Inv, Globals
<1> QED BY <1>4, <1>5, <1>6 DEF Inv

LEMMA WriteKeeps ==
    ASSUME Inv, NEW w \in Workers, Write(w)
    PROVE  Inv'
<1> DEFINE c == call[w]
           row == [status |-> IF c.to = NONE THEN booking[c.b].status ELSE c.to,
                   staff |-> IF c.staff = NONE THEN booking[c.b].staff ELSE c.staff]
           first == IF c.kind = "assign" THEN <<HandOver(c.b, c.staff)>> ELSE <<>>
           follow == FollowUp(c.b, row, bill[c.b])
           entries == first \o follow
           billing == row.status = "COMPLETED" /\ bill[c.b] = "NONE"
                        /\ c.kind # "completeUnbilled"
<1>1. /\ pc[w] = "write" /\ Store(w, c.b, row)
      /\ bill' = bill /\ task' = task /\ edits' = edits
      /\ billing => Goto(w, "bill") /\ UNCHANGED <<call, agenda>>
      /\ ~billing => Proceed(w, entries)
    BY DEF Write
<1>2. /\ c \in Call /\ c.b \in Rows /\ c.b \in Bookings
      /\ booking[c.b] \in Booking /\ bill[c.b] \in {"NONE", "DUE", "PAID"}
      /\ agenda[w] = <<>>
    BY <1>1 DEF Inv, Globals, Local, Rows
<1>3. row \in Booking
    BY <1>2 DEF Call, Booking
<1>4. /\ booking' \in [Bookings -> Booking \cup {NONE}]
      /\ since' \in [Workers -> SUBSET Bookings]
      /\ disturbed' \subseteq Bookings
      /\ c.b \in Rows' /\ booking'[c.b] = row /\ Rows \subseteq Rows'
    BY <1>1, <1>2, <1>3, StoreTyped
<1>5. CASE billing
    <2>1. /\ pc' = [pc EXCEPT ![w] = "bill"] /\ call' = call /\ agenda' = agenda
        BY <1>1, <1>5 DEF Goto
    <2>2. /\ pc' \in [Workers -> Labels] /\ pc'[w] = "bill"
          /\ \A v \in Workers \ {w} : pc'[v] = pc[v]
        BY <2>1 DEF Inv, Globals, Labels
    <2>3. Local(w)'
        BY <1>2, <1>4, <1>5, <2>1, <2>2 DEF Local
    <2>4. \A v \in Workers \ {w} : Local(v)'
        BY <1>1, <1>2, <1>3, <2>1, <2>2, StoreLocal
    <2>5. Globals'
        BY <1>1, <1>3, <1>4, <2>1, <2>2 DEF Inv, Globals
    <2> QED BY <2>3, <2>4, <2>5 DEF Inv
<1>6. CASE ~billing
    <2>1. /\ follow \in Seq(Entries)
          /\ \A i \in 1..Len(follow) : follow[i].b = c.b /\ Suits(follow[i], row)
        <3> HIDE DEF c, row
        <3> QED BY <1>2, <1>3, FollowUpSuits
    <2>2. /\ first \in Seq(Entries)
          /\ \A i \in 1..Len(first) : first[i].b = c.b /\ Suits(first[i], row)
        <3>1. /\ HandOver(c.b, c.staff) \in Entries
              /\ HandOver(c.b, c.staff).b = c.b
              /\ Suits(HandOver(c.b, c.staff), row)
            BY <1>2 DEF HandOver, Entry, Entries, Types, Call, Suits
        <3> QED BY <3>1
    <2> HIDE DEF c, row, first, follow
    <2>3. /\ entries \in Seq(Entries)
          /\ \A i \in 1..Len(entries) : entries[i].b = c.b /\ Suits(entries[i], row)
        <3>1. /\ entries \in Seq(Entries)
              /\ \A i \in 1..Len(entries) : (\E j \in 1..Len(first) : entries[i] = first[j])
                                        \/ (\E j \in 1..Len(follow) : entries[i] = follow[j])
            BY <2>1, <2>2, Concatenated
        <3> HIDE DEF entries
        <3> QED BY <2>1, <2>2, <3>1
    <2> HIDE DEF entries
    <2>4. /\ Local(w)'
          /\ pc' \in [Workers -> Labels]
          /\ call' \in [Workers -> Call \cup {NONE}]
          /\ agenda' \in [Workers -> Seq(Entries)]
          /\ \A v \in Workers \ {w} :
               pc'[v] = pc[v] /\ call'[v] = call[v] /\ agenda'[v] = agenda[v]
        BY <1>1, <1>4, <1>6, <2>3, ProceedLocal
    <2>5. \A v \in Workers \ {w} : Local(v)'
        BY <1>1, <1>2, <1>3, <2>4, StoreLocal
    <2>6. Globals'
        BY <1>1, <1>3, <1>4, <2>4 DEF Inv, Globals
    <2> QED BY <2>4, <2>5, <2>6 DEF Inv
<1> QED BY <1>5, <1>6

\* A call that begins has nothing on its agenda.
LEMMA BeginKeeps ==
    ASSUME Inv, NEW w \in Workers, ~Busy(w), UNCHANGED edits,
           NEW kind \in {"update", "assign", "complete", "completeUnbilled"},
           NEW b \in Bookings, NEW to \in BookingStatus \cup {NONE},
           NEW s \in Assignee, Begin(w, kind, b, to, s)
    PROVE  Inv'
<1> DEFINE c == [kind |-> kind, b |-> b, to |-> to, staff |-> s]
<1>1. /\ b \in Rows /\ call' = [call EXCEPT ![w] = c] /\ pc' = [pc EXCEPT ![w] = "write"]
      /\ since' = [since EXCEPT ![w] = {}] /\ booking' = booking /\ bill' = bill
      /\ task' = task /\ agenda' = agenda /\ disturbed' = disturbed
    BY DEF Begin, Goto
<1>2. c \in Call
    BY DEF Call
<1>3. Globals'
    BY <1>1, <1>2 DEF Inv, Globals, Labels, Rows
<1>4. \A v \in Workers \ {w} : Local(v)'
    <2>1. \A v \in Workers \ {w} : /\ since'[v] = since[v] /\ pc'[v] = pc[v]
                                  /\ call'[v] = call[v] /\ agenda'[v] = agenda[v]
        BY <1>1 DEF Inv, Globals
    <2> QED BY <1>1, <2>1, KeptLocal
<1>5. Local(w)'
    <2>1. pc'[w] = "write" /\ call'[w] = c /\ c.b = b /\ b \in Rows'
        BY <1>1 DEF Inv, Globals, Rows
    <2>2. agenda'[w] = <<>> /\ Len(<<>>) = 0
        BY <1>1 DEF Busy, Inv, Local
    <2> QED BY <1>2, <2>1, <2>2 DEF Local
<1> QED BY <1>3, <1>4, <1>5 DEF Inv

\* Calls that end without writing, and calls cut off, leave no agenda.
LEMMA EndLocals ==
    ASSUME Inv, NEW w \in Workers, Proceed(w, <<>>), Rest(w, {}), booking' = booking
    PROVE  /\ \A v \in Workers : Local(v)'
           /\ pc' \in [Workers -> Labels]
           /\ call' \in [Workers -> Call \cup {NONE}]
           /\ agenda' \in [Workers -> Seq(Entries)]
           /\ since' \in [Workers -> SUBSET Bookings]
<1>1. <<>> \in Seq(Entries) /\ \A i \in 1..Len(<<>>) : FALSE
    OBVIOUS
<1>2. /\ since' \in [Workers -> SUBSET Bookings]
      /\ \A v \in Workers \ {w} : since'[v] = since[v]
    BY DEF Inv, Globals, Rest
<1> QED BY <1>1, <1>2, ProceedLocals

LEMMA ConflictKeeps ==
    ASSUME Inv, NEW w \in Workers, ConflictFound(w)
    PROVE  Inv'
<1>1. /\ pc[w] = "write" /\ Proceed(w, <<>>) /\ Rest(w, {})
      /\ UNCHANGED <<booking, bill, disturbed, edits>>
    BY DEF ConflictFound
<1>2. call[w] \in Call
    BY <1>1 DEF Inv, Local
<1>3. task' \in [Keys -> Task \cup {NONE}]
    <2>1. \A t \in Task : [t EXCEPT !.status = "OPEN"] \in Task
        BY DEF Task, ActionStatus
    <2>2. [status |-> "OPEN", staff |-> call[w].staff] \in Task
        BY <1>2 DEF Task, ActionStatus, Call
    <2> QED BY <2>1, <2>2 DEF ConflictFound, Inv, Globals
<1> QED BY <1>1, <1>3, EndLocals DEF Inv, Globals, Rows

LEMMA FailKeeps ==
    ASSUME Inv, NEW w \in Workers, Fail(w)
    PROVE  Inv'
<1>1. disturbed' \subseteq Bookings
    BY DEF Fail, Concerns, Inv, Globals
<1>2. /\ Proceed(w, <<>>) /\ Rest(w, {})
      /\ UNCHANGED <<booking, bill, task, edits>>
    BY DEF Fail
<1> QED BY <1>1, <1>2, EndLocals DEF Inv, Globals, Rows

\* What a completion still has to open suits the row it stored.
LEMMA BillKeeps ==
    ASSUME Inv, NEW w \in Workers, BillJob(w)
    PROVE  Inv'
<1> DEFINE c == call[w]
           invoice == IF bill[c.b] = "NONE" THEN "DUE" ELSE bill[c.b]
           row == [status |-> "COMPLETED", staff |-> c.staff]
           entries == FollowUp(c.b, row, invoice)
<1>1. /\ pc[w] = "bill" /\ bill' = [bill EXCEPT ![c.b] = invoice]
      /\ booking' = booking /\ task' = task /\ since' = since
      /\ disturbed' = disturbed /\ edits' = edits
      /\ c.kind = "update" => Goto(w, "reread") /\ call' = call /\ agenda' = agenda
      /\ c.kind # "update" => Proceed(w, entries)
    BY DEF BillJob, history
<1>2. /\ c \in Call /\ c.b \in Rows /\ c.b \in Bookings
      /\ invoice \in {"NONE", "DUE", "PAID"} /\ agenda[w] = <<>>
    BY <1>1 DEF Inv, Globals, Local, Rows
<1>3. /\ bill' \in [Bookings -> {"NONE", "DUE", "PAID"}]
      /\ \A b \in Bookings : bill'[b] # "NONE" => b \in Rows'
    BY <1>1, <1>2 DEF Inv, Globals, Rows
<1>4. CASE c.kind = "update"
    <2>1. /\ pc' = [pc EXCEPT ![w] = "reread"] /\ call' = call /\ agenda' = agenda
        BY <1>1, <1>4 DEF Goto
    <2>2. /\ pc' \in [Workers -> Labels] /\ pc'[w] = "reread"
          /\ \A v \in Workers \ {w} : pc'[v] = pc[v]
        BY <2>1 DEF Inv, Globals, Labels
    <2>3. Local(w)'
        BY <1>1, <1>2, <2>1, <2>2 DEF Local, Rows
    <2>4. \A v \in Workers \ {w} : Local(v)'
        BY <1>1, <2>1, <2>2, KeptLocal
    <2>5. Globals'
        BY <1>1, <1>3, <2>1, <2>2 DEF Inv, Globals
    <2> QED BY <2>3, <2>4, <2>5 DEF Inv
<1>5. CASE c.kind # "update"
    <2>1. row \in Booking
        BY <1>2 DEF Booking, Call, BookingStatus
    <2>2. /\ entries \in Seq(Entries)
          /\ \A i \in 1..Len(entries) : entries[i].b = c.b /\ Suits(entries[i], row)
        BY <1>2, <2>1, FollowUpSuits
    <2>3. c.b \in since[w] \/ booking[c.b].status = "COMPLETED"
        BY <1>1, <1>5 DEF Inv, Local
    <2>4. \A i \in 1..Len(entries) :
            LET e == entries[i]
            IN e.b \in Rows /\ (e.b \in since'[w] \/ Suits(e, booking[e.b]))
        BY <1>1, <1>2, <2>2, <2>3 DEF Suits
    <2>5. Proceed(w, entries)
        BY <1>1, <1>5
    <2> HIDE DEF c, row, entries, invoice
    <2>6. /\ \A v \in Workers : Local(v)'
          /\ pc' \in [Workers -> Labels]
          /\ call' \in [Workers -> Call \cup {NONE}]
          /\ agenda' \in [Workers -> Seq(Entries)]
        BY <1>1, <2>2, <2>4, <2>5, ProceedLocals
    <2> QED BY <1>1, <1>3, <2>6 DEF Inv, Globals
<1> QED BY <1>4, <1>5

LEMMA RereadKeeps ==
    ASSUME Inv, NEW w \in Workers, ReadAgain(w)
    PROVE  Inv'
<1> DEFINE b == call[w].b
           entries == FollowUp(b, booking[b], bill[b])
<1>1. /\ pc[w] = "reread" /\ since' = [since EXCEPT ![w] = {}] /\ Proceed(w, entries)
      /\ UNCHANGED <<booking, bill, task, disturbed, edits>>
    BY DEF ReadAgain
<1>2. /\ b \in Rows /\ b \in Bookings /\ booking[b] \in Booking
      /\ bill[b] \in {"NONE", "DUE", "PAID"}
    BY <1>1 DEF Inv, Globals, Local, Rows
<1>3. /\ entries \in Seq(Entries)
      /\ \A i \in 1..Len(entries) : entries[i].b = b /\ Suits(entries[i], booking[b])
    BY <1>2, FollowUpSuits
<1>4. /\ since' \in [Workers -> SUBSET Bookings]
      /\ \A v \in Workers \ {w} : since'[v] = since[v]
    BY <1>1 DEF Inv, Globals
<1> HIDE DEF b, entries
<1>5. /\ \A v \in Workers : Local(v)'
      /\ pc' \in [Workers -> Labels]
      /\ call' \in [Workers -> Call \cup {NONE}]
      /\ agenda' \in [Workers -> Seq(Entries)]
    BY <1>1, <1>2, <1>3, <1>4, ProceedLocals
<1> QED BY <1>1, <1>4, <1>5 DEF Inv, Globals, Rows

\* The scans list rows that are there, in the stage they look for.
LEMMA ScanFirstKeeps ==
    ASSUME Inv, NEW w \in Workers, ~Busy(w), UNCHANGED edits,
           NEW type \in {"DISPATCH_STAFF", "CONFIRM_BOOKING"}, ScanFirst(w, type)
    PROVE  Inv'
<1>0. PICK near \in SUBSET AtRisk[type] : \E order \in SetToSeqs(near) :
        agenda' = [agenda EXCEPT ![w] = OpenAll(order, type)]
    BY DEF ScanFirst
<1>1. PICK order \in SetToSeqs(near) :
        agenda' = [agenda EXCEPT ![w] = OpenAll(order, type)]
    BY <1>0
<1> DEFINE entries == OpenAll(order, type)
<1>2. /\ booking \in [Bookings -> Booking \cup {NONE}]
      /\ booking' = booking /\ bill' = bill /\ task' = task /\ call' = call
      /\ disturbed' = disturbed
      /\ pc' = [pc EXCEPT ![w] = Other(type)] /\ since' = [since EXCEPT ![w] = {}]
    BY DEF ScanFirst, Goto, Inv, Globals
<1>3. /\ entries \in Seq(Entries)
      /\ \A i \in 1..Len(entries) :
           LET e == entries[i] IN e.b \in Rows /\ Suits(e, booking[e.b])
    BY <1>2, ScanSuits
<1> HIDE DEF entries
<1>4. Globals'
    BY <1>1, <1>2, <1>3 DEF Inv, Globals, Labels, Rows, Other, entries
<1>5. \A v \in Workers \ {w} : Local(v)'
    <2>1. \A v \in Workers \ {w} : /\ since'[v] = since[v] /\ pc'[v] = pc[v]
                                  /\ call'[v] = call[v] /\ agenda'[v] = agenda[v]
        BY <1>1, <1>2 DEF Inv, Globals
    <2> QED BY <1>2, <2>1, KeptLocal
<1>6. Local(w)'
    <2>1. pc'[w] \in {"DISPATCH_STAFF", "CONFIRM_BOOKING"} /\ agenda'[w] = entries
        BY <1>1, <1>2 DEF Inv, Globals, Other, entries
    <2> QED BY <1>2, <1>3, <2>1 DEF Local, Rows
<1> QED BY <1>4, <1>5, <1>6 DEF Inv

LEMMA ScanSecondKeeps ==
    ASSUME Inv, NEW w \in Workers,
           NEW type \in {"DISPATCH_STAFF", "CONFIRM_BOOKING"}, ScanSecond(w, type)
    PROVE  Inv'
<1> DEFINE stale == {b \in since[w] : \E i \in DOMAIN agenda[w] : agenda[w][i].b = b}
<1>0. PICK near \in SUBSET AtRisk[type] : \E order \in SetToSeqs(near) :
        Proceed(w, agenda[w] \o OpenAll(order, type))
    BY DEF ScanSecond
<1>1. PICK order \in SetToSeqs(near) : Proceed(w, agenda[w] \o OpenAll(order, type))
    BY <1>0
<1> DEFINE more == OpenAll(order, type)
           entries == agenda[w] \o more
<1>2. /\ booking \in [Bookings -> Booking \cup {NONE}]
      /\ UNCHANGED <<booking, bill, task, disturbed, edits>>
      /\ Rest(w, stale)
      /\ agenda \in [Workers -> Seq(Entries)] /\ since \in [Workers -> SUBSET Bookings]
    BY DEF ScanSecond, Inv, Globals
<1>3. /\ more \in Seq(Entries)
      /\ \A i \in 1..Len(more) :
           LET e == more[i] IN e.b \in Rows /\ Suits(e, booking[e.b])
    BY <1>2, ScanSuits
<1>4. /\ agenda[w] \in Seq(Entries) /\ DOMAIN agenda[w] = 1..Len(agenda[w])
      /\ \A i \in 1..Len(agenda[w]) :
           LET e == agenda[w][i]
           IN e.b \in Rows /\ (e.b \in stale \/ Suits(e, booking[e.b]))
    BY <1>2 DEF Inv, Local
<1> HIDE DEF more, stale
<1>5. /\ entries \in Seq(Entries)
      /\ \A i \in 1..Len(entries) :
           LET e == entries[i]
           IN e.b \in Rows /\ (e.b \in stale \/ Suits(e, booking[e.b]))
    <2>1. /\ entries \in Seq(Entries)
          /\ \A i \in 1..Len(entries) : (\E j \in 1..Len(agenda[w]) : entries[i] = agenda[w][j])
                                        \/ (\E j \in 1..Len(more) : entries[i] = more[j])
        BY <1>3, <1>4, Concatenated
    <2> HIDE DEF entries
    <2> QED BY <1>3, <1>4, <2>1
<1>6. stale \in SUBSET Bookings
    BY <1>2 DEF stale
<1>7. Proceed(w, entries) /\ agenda'[w] = entries
    BY <1>1, <1>2 DEF Proceed, more
<1>8. /\ since' \in [Workers -> SUBSET Bookings]
      /\ \A v \in Workers \ {w} : since'[v] = since[v]
      /\ entries # <<>> => since'[w] = stale
    BY <1>2, <1>6, <1>7 DEF Rest
<1> HIDE DEF entries
<1>9. \A i \in 1..Len(entries) :
        LET e == entries[i]
        IN e.b \in Rows /\ (e.b \in since'[w] \/ Suits(e, booking[e.b]))
    <2>1. entries = <<>> => \A i \in 1..Len(entries) : FALSE
        OBVIOUS
    <2> QED BY <1>5, <1>8, <2>1
<1>10. /\ \A v \in Workers : Local(v)'
       /\ pc' \in [Workers -> Labels]
       /\ call' \in [Workers -> Call \cup {NONE}]
       /\ agenda' \in [Workers -> Seq(Entries)]
    BY <1>2, <1>5, <1>7, <1>8, <1>9, ProceedLocals
<1> QED BY <1>2, <1>8, <1>10 DEF Inv, Globals, Rows

LEMMA ScanOverdueKeeps ==
    ASSUME Inv, NEW w \in Workers, UNCHANGED edits, ScanOverdue(w)
    PROVE  Inv'
<1>0. PICK late \in SUBSET Overdue : \E order \in SetToSeqs(late) :
        Proceed(w, OverdueEntries(order))
    BY DEF ScanOverdue, OverdueEntries
<1>1. PICK order \in SetToSeqs(late) : Proceed(w, OverdueEntries(order))
    BY <1>0
<1>2. late \in SUBSET Bookings /\ late \subseteq Rows
    BY DEF Overdue, Inv, Globals
<1> DEFINE entries == OverdueEntries(order)
<1>3. /\ entries \in Seq(Entries)
      /\ \A i \in 1..Len(entries) :
           LET e == entries[i] IN e.b \in late /\ \A row : Suits(e, row)
    BY <1>2, OverdueSuits
<1> HIDE DEF entries
<1>4. \A i \in 1..Len(entries) :
        LET e == entries[i]
        IN e.b \in Rows /\ (e.b \in since'[w] \/ Suits(e, booking[e.b]))
    BY <1>2, <1>3
<1>5. /\ UNCHANGED <<booking, bill, task, disturbed>>
      /\ since' = [since EXCEPT ![w] = {}]
    BY DEF ScanOverdue
<1>6. /\ since' \in [Workers -> SUBSET Bookings]
      /\ \A v \in Workers \ {w} : since'[v] = since[v]
    BY <1>5 DEF Inv, Globals
<1>7. /\ \A v \in Workers : Local(v)'
      /\ pc' \in [Workers -> Labels]
      /\ call' \in [Workers -> Call \cup {NONE}]
      /\ agenda' \in [Workers -> Seq(Entries)]
    BY <1>1, <1>3, <1>4, <1>5, <1>6, ProceedLocals DEF entries
<1> QED BY <1>5, <1>6, <1>7 DEF Inv, Globals, Rows

-----------------------------------------------------------------------------
\* The statements of an agenda store typed actions, and touch no booking.
Statement(w) ==
    OpenAction(w) \/ OpenActionFor(w) \/ HandOverActions(w) \/ CloseActions(w)

LEMMA StatementTyped ==
    ASSUME Inv, NEW w \in Workers, Statement(w)
    PROVE  /\ task' \in [Keys -> Task \cup {NONE}]
           /\ pc[w] = "agenda" /\ Proceed(w, Tail(agenda[w])) /\ Rest(w, since[w])
           /\ UNCHANGED <<booking, bill, disturbed, edits>>
<1> DEFINE e == Head(agenda[w])
           Mine(k) == k[2] = e.b /\ k[1] \in e.types
<1>1. /\ pc[w] = "agenda" /\ Proceed(w, Tail(agenda[w])) /\ Rest(w, since[w])
      /\ UNCHANGED <<booking, bill, disturbed, edits>>
    BY DEF Statement, OpenAction, OpenActionFor, HandOverActions, CloseActions, Apply, Does
<1>2. e.staff \in Assignee
    <2>1. agenda[w] \in Seq(Entries) /\ agenda[w] # <<>>
        BY <1>1 DEF Inv, Globals, Local
    <2>2. e \in Entries
        BY <2>1
    <2> QED BY <2>2 DEF Entries
<1>3. /\ \A k \in Keys : task[k] \in Task \cup {NONE}
      /\ \A t \in Task, st \in ActionStatus : [t EXCEPT !.status = st] \in Task
      /\ \A st \in ActionStatus, s \in Assignee : [status |-> st, staff |-> s] \in Task
      /\ {"OPEN", "IN_PROGRESS", "COMPLETED"} \subseteq ActionStatus /\ NONE \in Assignee
    BY DEF Inv, Globals, Task, ActionStatus, Assignee
<1>4. CASE OpenAction(w)
    <2>1. task' = [k \in Keys |-> IF Mine(k)
                                   THEN IF task[k] = NONE THEN [status |-> "OPEN", staff |-> NONE]
                                        ELSE [task[k] EXCEPT !.status = "OPEN"]
                                   ELSE task[k]]
        BY <1>4 DEF OpenAction, Apply
    <2> QED BY <1>1, <1>3, <2>1
<1>5. CASE OpenActionFor(w)
    <2>1. task' = [k \in Keys |-> IF Mine(k) THEN [status |-> "OPEN", staff |-> e.staff]
                                   ELSE task[k]]
        BY <1>5 DEF OpenActionFor, Apply
    <2> QED BY <1>1, <1>2, <1>3, <2>1
<1>6. CASE HandOverActions(w)
    <2>1. task' = [k \in Keys |-> IF Mine(k)
                                   THEN IF Active(task[k])
                                        THEN [status |-> "IN_PROGRESS", staff |-> e.staff]
                                        ELSE task[k]
                                   ELSE task[k]]
        BY <1>6 DEF HandOverActions, Apply
    <2> QED BY <1>1, <1>2, <1>3, <2>1
<1>7. CASE CloseActions(w)
    <2>1. task' = [k \in Keys |-> IF Mine(k)
                                   THEN IF Active(task[k])
                                        THEN [task[k] EXCEPT !.status = "COMPLETED"]
                                        ELSE task[k]
                                   ELSE task[k]]
        BY <1>7 DEF CloseActions, Apply
    <2> QED BY <1>1, <1>3, <2>1 DEF Active
<1> QED BY <1>4, <1>5, <1>6, <1>7 DEF Statement

LEMMA StatementKeeps ==
    ASSUME Inv, NEW w \in Workers, Statement(w)
    PROVE  Inv'
BY StatementTyped, TailLocals DEF Inv, Globals, Rows

LEMMA SetOverdueKeeps ==
    ASSUME Inv, NEW w \in Workers, SetOverdue(w)
    PROVE  Inv'
<1> DEFINE b == Head(agenda[w]).b
<1>1. /\ pc[w] = "agenda" /\ bill' = [bill EXCEPT ![b] = "DUE"]
      /\ Proceed(w, Tail(agenda[w])) /\ Rest(w, since[w])
      /\ UNCHANGED <<booking, task, disturbed, edits>>
    BY DEF SetOverdue, Does
<1>2. agenda[w] \in Seq(Entries) /\ agenda[w] # <<>>
    BY <1>1 DEF Inv, Globals, Local
<1>3. 1 \in 1..Len(agenda[w]) /\ Head(agenda[w]) = agenda[w][1]
    BY <1>2
<1>4. b \in Rows
    BY <1>3 DEF Inv, Local
<1>5. /\ bill' \in [Bookings -> {"NONE", "DUE", "PAID"}]
      /\ \A c \in Bookings : bill'[c] # "NONE" => c \in Rows'
    BY <1>1, <1>4 DEF Inv, Globals, Rows
<1> QED BY <1>1, <1>5, TailLocals DEF Inv, Globals

\* What is done outside the calls touches neither a booking nor a call.
LEMMA UpdateActionKeeps ==
    ASSUME Inv, NEW k \in Keys, NEW status \in ActionStatus \cup {NONE},
           NEW s \in Assignee, UpdateAction(k, status, s)
    PROVE  Inv'
<1>1. /\ edits < MaxEdits /\ edits' = edits + 1 /\ task[k] # NONE
      /\ task' = [task EXCEPT ![k] = [status |-> IF status = NONE THEN @.status ELSE status,
                                     staff |-> IF s = NONE THEN @.staff ELSE s]]
      /\ disturbed' = disturbed \cup {k[2]}
      /\ UNCHANGED <<booking, bill, pc, call, agenda, since>>
    BY DEF UpdateAction, local
<1>2. task[k] \in Task /\ k[2] \in Bookings
    BY <1>1 DEF Inv, Globals, Keys
<1>3. task' \in [Keys -> Task \cup {NONE}]
    BY <1>1, <1>2 DEF Inv, Globals, Task
<1>4. edits' \in 0..MaxEdits
    BY <1>1, EditsAssumption DEF Inv, Globals
<1>5. Globals'
    BY <1>1, <1>2, <1>3, <1>4 DEF Inv, Globals, Rows
<1>6. \A v \in Workers : Local(v)'
    BY <1>1, KeptLocal
<1> QED BY <1>5, <1>6 DEF Inv

LEMMA BillKept ==
    ASSUME Inv, NEW b \in Bookings, CreateInvoice(b) \/ CompletePayment(b)
    PROVE  Inv'
<1>1. /\ \E i \in {"DUE", "PAID"} : bill' = [bill EXCEPT ![b] = i]
      /\ b \in Rows
      /\ UNCHANGED <<booking, task, pc, call, agenda, since, disturbed, edits>>
    BY DEF CreateInvoice, CompletePayment, local, history, Inv, Globals
<1>2. Globals'
    BY <1>1 DEF Inv, Globals, Rows
<1>3. \A v \in Workers : Local(v)'
    BY <1>1, KeptLocal
<1> QED BY <1>2, <1>3 DEF Inv

\* Every step keeps the invariant.
LEMMA NextInv == Inv /\ [Next]_vars => Inv'
<1> SUFFICES ASSUME Inv, [Next]_vars PROVE Inv'
    OBVIOUS
<1>1. ASSUME NEW w \in Workers, Start(w) PROVE Inv'
    <2>1. ~Busy(w) /\ UNCHANGED edits
        BY <1>1 DEF Start
    <2>2. ASSUME NEW b \in Bookings, NEW row \in Booking, Create(w, b, row) PROVE Inv'
        BY <2>1, <2>2, CreateKeeps
    <2>3. ASSUME NEW b \in Bookings, NEW to \in BookingStatus \cup {NONE},
                 NEW s \in Assignee, BeginUpdate(w, b, to, s)
          PROVE  Inv'
        BY <2>1, <2>3, BeginKeeps DEF BeginUpdate
    <2>4. ASSUME NEW b \in Bookings, BeginStart(w, b) PROVE Inv'
        <3>1. "IN_PROGRESS" \in BookingStatus /\ NONE \in Assignee
            BY DEF BookingStatus, Assignee
        <3> QED BY <2>1, <2>4, <3>1, BeginKeeps DEF BeginStart
    <2>5. ASSUME NEW b \in Bookings, NEW kind \in {"complete", "completeUnbilled"},
                 BeginComplete(w, b, kind)
          PROVE  Inv'
        <3>1. "COMPLETED" \in BookingStatus /\ NONE \in Assignee
            BY DEF BookingStatus, Assignee
        <3> QED BY <2>1, <2>5, <3>1, BeginKeeps DEF BeginComplete
    <2>6. ASSUME NEW b \in Bookings, NEW s \in Staff, BeginAssign(w, b, s) PROVE Inv'
        <3> DEFINE to == IF booking[b].status = "REQUESTED" THEN "CONFIRMED"
                         ELSE booking[b].status
        <3>1. to \in BookingStatus /\ s \in Assignee
            BY <2>6 DEF BeginAssign, BookingStatus, Assignee
        <3>2. Begin(w, "assign", b, to, s)
            BY <2>6 DEF BeginAssign
        <3> HIDE DEF to
        <3> QED BY <2>1, <3>1, <3>2, BeginKeeps
    <2>7. ASSUME NEW type \in {"DISPATCH_STAFF", "CONFIRM_BOOKING"}, ScanFirst(w, type)
          PROVE  Inv'
        BY <2>1, <2>7, ScanFirstKeeps
    <2>8. ASSUME ScanOverdue(w) PROVE Inv'
        BY <2>1, <2>8, ScanOverdueKeeps
    <2> QED BY <1>1, <2>2, <2>3, <2>4, <2>5, <2>6, <2>7, <2>8 DEF Start
<1>2. ASSUME NEW w \in Workers, Continue(w) PROVE Inv'
    <2>1. ASSUME NEW type \in {"DISPATCH_STAFF", "CONFIRM_BOOKING"}, ScanSecond(w, type)
          PROVE  Inv'
        BY <2>1, ScanSecondKeeps
    <2> QED BY <1>2, <2>1, ConflictKeeps, WriteKeeps, BillKeeps, RereadKeeps,
               StatementKeeps, SetOverdueKeeps DEF Continue, Statement
<1>3. ASSUME NEW w \in Workers, Fail(w) PROVE Inv'
    BY <1>3, FailKeeps
<1>4. ASSUME NEW b \in Bookings, CreateInvoice(b) \/ CompletePayment(b) PROVE Inv'
    BY <1>4, BillKept
<1>5. ASSUME NEW k \in Keys, NEW status \in ActionStatus \cup {NONE},
             NEW s \in Assignee, UpdateAction(k, status, s)
      PROVE  Inv'
    BY <1>5, UpdateActionKeeps
<1>6. ASSUME UNCHANGED vars PROVE Inv'
    <2>1. UNCHANGED <<booking, bill, task, pc, call, agenda, since, disturbed, edits>>
        BY <1>6 DEF vars, local, history
    <2>2. \A v \in Workers : Local(v)'
        BY <2>1, KeptLocal
    <2> QED BY <2>1, <2>2 DEF Inv, Globals, Rows
<1> QED BY <1>1, <1>2, <1>3, <1>4, <1>5, <1>6 DEF Next

\* In every state a call can leave behind, every booking, invoice and action
\* is typed, every invoice has its booking, and no call is about a booking
\* that does not exist: handlers never fall through to a missing row.
THEOREM TypeCorrect == Spec => []TypeOK
<1>1. Spec => []Inv
    BY InitInv, NextInv, PTL DEF Spec
<1> QED BY <1>1, InvTyped, PTL

-----------------------------------------------------------------------------
\* No action about a stage of a booking is opened, by whichever of the calls
\* and scans in progress, while the booking is in another stage, unless
\* somebody else wrote the booking after that call or scan looked at it.
THEOREM OpensAreStale == Spec => OnlyStaleOpens
<1> DEFINE Good ==
      \A type \in DOMAIN Wanted, b \in Bookings :
        /\ type \in Tracked
        /\ ~IsOpen(task[<<type, b>>]) /\ IsOpen(task'[<<type, b>>])
        /\ edits' = edits
        => \/ booking[b].status \in Wanted[type]
           \/ \E w \in Workers : b \in since[w] /\ agenda'[w] # agenda[w]
<1>1. ASSUME Inv, [Next]_vars PROVE [Good]_vars
    <2> SUFFICES ASSUME NEW type \in DOMAIN Wanted, NEW b \in Bookings, type \in Tracked,
                        ~IsOpen(task[<<type, b>>]), IsOpen(task'[<<type, b>>]), edits' = edits
                 PROVE  \/ booking[b].status \in Wanted[type]
                        \/ \E w \in Workers : b \in since[w] /\ agenda'[w] # agenda[w]
        OBVIOUS
    <2> DEFINE k == <<type, b>>
    <2>1. task' # task /\ k \in Keys /\ type # "RESOLVE_STAFF_CONFLICT"
        BY DEF Keys, Wanted
    <2>2. ASSUME NEW w \in Workers, Statement(w)
          PROVE  \/ booking[b].status \in Wanted[type]
                 \/ b \in since[w] /\ agenda'[w] # agenda[w]
        <3> DEFINE e == agenda[w][1]
        <3>1. /\ pc[w] = "agenda" /\ Proceed(w, Tail(agenda[w]))
            BY <2>2, <1>1, StatementTyped
        <3>2. /\ agenda[w] \in Seq(Entries) /\ agenda[w] # <<>>
              /\ agenda \in [Workers -> Seq(Entries)]
            BY <1>1, <3>1 DEF Inv, Globals, Local
        <3>3. 1 \in 1..Len(agenda[w]) /\ Head(agenda[w]) = e
            BY <3>2
        <3>4. agenda'[w] # agenda[w]
            <4>1. agenda'[w] = Tail(agenda[w])
                BY <3>1, <3>2 DEF Proceed
            <4>2. Len(Tail(agenda[w])) # Len(agenda[w])
                BY <3>2
            <4> QED BY <4>1, <4>2
        <3>5. e.b \in since[w] \/ Suits(e, booking[e.b])
            BY <1>1, <3>3 DEF Inv, Local
        <3>6. e.b = b /\ type \in e.types /\ e.do \in {"open", "openFor"}
            <4>1. k[1] = type /\ k[2] = b
                OBVIOUS
            <4>2. CASE OpenAction(w)
                BY <2>1, <3>3, <4>1, <4>2 DEF OpenAction, Apply, Does
            <4>3. CASE OpenActionFor(w)
                BY <2>1, <3>3, <4>1, <4>3 DEF OpenActionFor, Apply, Does
            <4>4. CASE HandOverActions(w)
                BY <2>1, <4>4 DEF HandOverActions, Apply, Does, IsOpen, Active
            <4>5. CASE CloseActions(w)
                BY <2>1, <4>5 DEF CloseActions, Apply, Does, IsOpen, Active
            <4> QED BY <2>2, <4>2, <4>3, <4>4, <4>5 DEF Statement
        <3> QED BY <3>4, <3>5, <3>6 DEF Suits
    <2>3. ASSUME NEW w \in Workers, ConflictFound(w) PROVE FALSE
        <3>1. task'[k] = task[k]
            BY <1>1, <2>1, <2>3 DEF ConflictFound, Inv, Globals
        <3> QED BY <3>1 DEF IsOpen
    <2>4. ASSUME NEW j \in Keys, NEW status \in ActionStatus \cup {NONE},
                 NEW s \in Assignee, UpdateAction(j, status, s)
          PROVE  FALSE
        BY <1>1, <2>4 DEF UpdateAction, Inv, Globals
    <2>5. \/ \E w \in Workers : Statement(w) \/ ConflictFound(w)
          \/ \E j \in Keys, status \in ActionStatus \cup {NONE}, s \in Assignee :
               UpdateAction(j, status, s)
        <3>1. ASSUME NEW w \in Workers, Start(w) PROVE FALSE
            BY <2>1, <3>1 DEF Start, Create, BeginUpdate, BeginStart, BeginComplete,
                 BeginAssign, Begin, ScanFirst, ScanOverdue
        <3>2. ASSUME NEW w \in Workers, Continue(w) PROVE Statement(w) \/ ConflictFound(w)
            BY <2>1, <3>2 DEF Continue, Statement, Write, BillJob, ReadAgain, ScanSecond,
                 SetOverdue
        <3>3. ASSUME NEW w \in Workers, Fail(w) PROVE FALSE
            BY <2>1, <3>3 DEF Fail
        <3>4. ASSUME NEW c \in Bookings, CreateInvoice(c) \/ CompletePayment(c) PROVE FALSE
            BY <2>1, <3>4 DEF CreateInvoice, CompletePayment
        <3>5. ~ UNCHANGED vars
            BY <2>1 DEF vars
        <3> QED BY <1>1, <3>1, <3>2, <3>3, <3>4, <3>5 DEF Next
    <2> QED BY <2>2, <2>3, <2>4, <2>5
<1>2. Spec => []Inv
    BY InitInv, NextInv, PTL DEF Spec
<1>3. Inv /\ [Next]_vars => [Good]_vars
    BY <1>1
<1> QED BY <1>2, <1>3, PTL DEF Spec, OnlyStaleOpens

-----------------------------------------------------------------------------
(***************************************************************************)
(* The actions of a booking that no call has disturbed.  Its row has been  *)
(* the same since the call that wrote it, which was alone; so every entry  *)
(* about it was made from that row, and the follow-up that is missing is   *)
(* still on an agenda, or to be billed first.                              *)
(***************************************************************************)
\* A copy is stale only of a disturbed booking, somebody is assigned by an
\* assignment, and what is handed out about other bookings goes to their staff.
WorkerOK(w) ==
    /\ since[w] \subseteq disturbed
    /\ pc[w] = "write" /\ call[w].kind = "assign" => call[w].staff \in Staff
    /\ \A i \in 1..Len(agenda[w]) :
         LET e == agenda[w][i]
         IN e.b \notin disturbed /\ e.do \in {"openFor", "handOver"} => e.staff = booking[e.b].staff

Pending(w, e) == \E i \in 1..Len(agenda[w]) : agenda[w][i] = e

\* The dispatch of a confirmed booking is assigned to its staff, or will be.
SyncOK ==
    \A k \in Keys :
        k[1] = "DISPATCH_STAFF" /\ k[2] \notin disturbed /\ Is(k[2], "CONFIRMED") =>
            \/ task[k] # NONE /\ task[k].staff = booking[k[2]].staff
            \/ \E w \in Workers : Pending(w, OpenFor(k[2], booking[k[2]].staff))

Billing(w, b) == pc[w] \in {"bill", "reread"} /\ call[w].b = b

\* What is left to do before a completed job is closed, or will be.
ClosedOK ==
    \A k \in Keys :
        /\ k[1] \in {"DISPATCH_STAFF", "CONFIRM_BOOKING"} /\ k[2] \notin disturbed
        /\ Is(k[2], "COMPLETED")
        => \/ ~Active(task[k])
           \/ \E w \in Workers : Billing(w, k[2]) \/ Pending(w, Close(k[2], Finished.COMPLETED))

Sync == (\A w \in Workers : WorkerOK(w)) /\ SyncOK /\ ClosedOK

LEMMA InitSync == Init => Sync
<1> SUFFICES ASSUME Init PROVE Sync
    OBVIOUS
<1>1. Len(<<>>) = 0 /\ \A w \in Workers : agenda[w] = <<>> /\ since[w] = {} /\ pc[w] = "idle"
    BY DEF Init
<1>2. \A b \in Bookings : b \notin Rows
    BY DEF Init, Rows
<1>3. \A w \in Workers : WorkerOK(w)
    BY <1>1 DEF WorkerOK
<1>4. SyncOK /\ ClosedOK
    BY <1>2 DEF SyncOK, ClosedOK, Is, Rows
<1> QED BY <1>3, <1>4 DEF Sync

\* The parts of a key.
LEMMA KeysTyped == \A k \in Keys : k[1] \in Types /\ k[2] \in Bookings
BY TrackedAssumption DEF Keys

\* The follow-up of a row assigns its staff, and closes what a completion ends.
LEMMA FollowUpExact ==
    ASSUME NEW b \in Bookings, NEW row \in Booking, NEW invoice \in {"NONE", "DUE", "PAID"}
    PROVE  /\ \A i \in 1..Len(FollowUp(b, row, invoice)) :
                FollowUp(b, row, invoice)[i].do \in {"openFor", "handOver"} =>
                    FollowUp(b, row, invoice)[i].staff = row.staff
           /\ row.status = "CONFIRMED" =>
                \E i \in 1..Len(FollowUp(b, row, invoice)) :
                    FollowUp(b, row, invoice)[i] = OpenFor(b, row.staff)
           /\ row.status = "COMPLETED" =>
                \E i \in 1..Len(FollowUp(b, row, invoice)) :
                    FollowUp(b, row, invoice)[i] = Close(b, Finished.COMPLETED)
<1> DEFINE F == FollowUp(b, row, invoice)
<1>0. row.status \in BookingStatus
    BY DEF Booking
<1>1. CASE row.status = "CONFIRMED"
    <2>1. F = <<OpenFor(b, row.staff)>>
        BY <1>1 DEF FollowUp
    <2>2. Len(F) = 1 /\ F[1] = OpenFor(b, row.staff)
        BY <2>1
    <2>3. 1 \in 1..Len(F) /\ \A i \in 1..Len(F) : i = 1
        BY <2>2
    <2>4. OpenFor(b, row.staff).staff = row.staff
        BY DEF OpenFor, Entry
    <2> HIDE DEF F
    <2>5. /\ \A i \in 1..Len(F) : F[i].staff = row.staff
          /\ \E i \in 1..Len(F) : F[i] = OpenFor(b, row.staff)
        BY <2>2, <2>3, <2>4
    <2> QED BY <1>1, <2>5 DEF F
<1>2. CASE row.status \in {"IN_PROGRESS", "NO_SHOW"}
    <2>1. F = <<Close(b, Finished.IN_PROGRESS)>> \/ F = <<Open(b, "FOLLOW_UP_NO_SHOW")>>
        BY <1>2 DEF FollowUp
    <2>2. \A i \in 1..Len(F) : F[i].do \notin {"openFor", "handOver"}
        BY <2>1 DEF Close, Open, Entry
    <2> HIDE DEF F
    <2> QED BY <1>2, <2>2 DEF F
<1>3. CASE row.status = "COMPLETED"
    <2>1. \/ F = <<Close(b, Finished.COMPLETED), Open(b, "REQUEST_REVIEW")>>
          \/ F = <<Close(b, Finished.COMPLETED), CollectPayment(b, invoice),
                   Open(b, "REQUEST_REVIEW")>>
        BY <1>3 DEF FollowUp
    <2>2. \A i \in 1..Len(F) : F[i].do \notin {"openFor", "handOver"}
        BY <2>1 DEF Close, Open, Entry, CollectPayment
    <2>3. 1 \in 1..Len(F) /\ F[1] = Close(b, Finished.COMPLETED)
        BY <2>1
    <2> HIDE DEF F
    <2> QED BY <1>3, <2>2, <2>3 DEF F
<1>4. CASE row.status \in {"REQUESTED", "CANCELLED"}
    <2>1. F = <<>> /\ Len(<<>>) = 0
        BY <1>4 DEF FollowUp
    <2> QED BY <1>4, <2>1
<1> QED BY <1>0, <1>1, <1>2, <1>3, <1>4 DEF BookingStatus

\* Whoever stores a row and is not alone has disturbed it.
LEMMA StoreDisturbs ==
    ASSUME Inv, Sync, NEW w \in Workers, NEW b \in Bookings, NEW row \in Booking, Store(w, b, row)
    PROVE  /\ disturbed \subseteq disturbed' /\ \A v \in Workers : since'[v] \subseteq disturbed'
           /\ b \notin disturbed' => \A v \in Workers \ {w} : pc[v] = "idle" /\ agenda[v] = <<>>
           /\ booking'[b] = row /\ \A c \in Bookings : c # b => booking'[c] = booking[c]
           /\ \A c \in Bookings : c # b => (c \in Rows' <=> c \in Rows)
<1>1. disturbed' = IF \E v \in Workers \ {w} : Busy(v) THEN disturbed \cup {b} ELSE disturbed
    BY DEF Store
<1>2. ASSUME NEW v \in Workers PROVE since'[v] \subseteq disturbed'
    <2>1. since'[v] = IF v # w /\ pc[v] \notin {"idle", "write", "reread"}
                     THEN since[v] \cup {b} ELSE {}
        BY DEF Store
    <2>2. since[v] \subseteq disturbed
        BY DEF Sync, WorkerOK
    <2> QED BY <1>1, <2>1, <2>2 DEF Busy
<1>3. b \notin disturbed' => \A v \in Workers \ {w} : pc[v] = "idle" /\ agenda[v] = <<>>
    BY <1>1 DEF Busy, Inv, Local
<1>4. booking'[b] = row /\ \A c \in Bookings : c # b => booking'[c] = booking[c]
    BY DEF Store, Inv, Globals
<1> QED BY <1>1, <1>2, <1>3, <1>4 DEF Rows

\* A call that stores a row and goes on with its follow-up keeps the promise.
LEMMA StoreSync ==
    ASSUME Inv, Sync, NEW w \in Workers, NEW b \in Bookings, NEW row \in Booking,
           pc[w] \in {"idle", "write"}, Store(w, b, row), task' = task,
           NEW entries \in Seq(Entries), Proceed(w, entries),
           \A i \in 1..Len(entries) :
              entries[i].b = b /\ (entries[i].do \in {"openFor", "handOver"} => entries[i].staff = row.staff),
           row.status = "CONFIRMED" => \E i \in 1..Len(entries) : entries[i] = OpenFor(b, row.staff),
           row.status = "COMPLETED" => \E i \in 1..Len(entries) : entries[i] = Close(b, Finished.COMPLETED)
    PROVE  Sync'
<1>1. /\ disturbed \subseteq disturbed' /\ \A v \in Workers : since'[v] \subseteq disturbed'
      /\ b \notin disturbed' => \A v \in Workers \ {w} : pc[v] = "idle" /\ agenda[v] = <<>>
      /\ booking'[b] = row /\ \A c \in Bookings : c # b => booking'[c] = booking[c]
      /\ \A c \in Bookings : c # b => (c \in Rows' <=> c \in Rows)
    BY StoreDisturbs
<1>2. /\ agenda'[w] = entries /\ pc'[w] \in {"idle", "agenda"} /\ agenda[w] = <<>>
      /\ \A v \in Workers \ {w} :
            agenda'[v] = agenda[v] /\ pc'[v] = pc[v] /\ call'[v] = call[v]
    BY DEF Proceed, Goto, Inv, Globals, Local
<1>3. Len(<<>>) = 0 /\ \A v \in Workers : \A i \in 1..Len(agenda[v]) : agenda[v][i].b \in Bookings
    BY DEF Inv, Local, Rows
<1>4. \A v \in Workers \ {w} : WorkerOK(v)'
    BY <1>1, <1>2, <1>3 DEF Sync, WorkerOK
<1>5. WorkerOK(w)'
    BY <1>1, <1>2 DEF WorkerOK
<1>6. \A v \in Workers : \A e : Pending(v, e) => v # w /\ Pending(v, e)'
    BY <1>2, <1>3 DEF Pending
<1>7. SyncOK'
    <2> SUFFICES ASSUME NEW k \in Keys, k[1] = "DISPATCH_STAFF", k[2] \notin disturbed',
                        Is(k[2], "CONFIRMED")'
                 PROVE  \/ task'[k] # NONE /\ task'[k].staff = booking'[k[2]].staff
                        \/ \E v \in Workers : Pending(v, OpenFor(k[2], booking[k[2]].staff))'
        BY DEF SyncOK
    <2>1. CASE k[2] = b
        <3>1. PICK i \in 1..Len(entries) : entries[i] = OpenFor(b, row.staff)
            BY <1>1, <2>1 DEF Is
        <3>2. Pending(w, OpenFor(k[2], booking[k[2]].staff))'
            BY <1>1, <1>2, <2>1, <3>1 DEF Pending, OpenFor
        <3> QED BY <3>2
    <2>2. CASE k[2] # b
        <3>1. k[2] \in Bookings /\ booking'[k[2]] = booking[k[2]] /\ Is(k[2], "CONFIRMED")
            BY <1>1, <2>2, KeysTyped DEF Is
        <3>2. ASSUME NEW v \in Workers, Pending(v, OpenFor(k[2], booking[k[2]].staff))
              PROVE  Pending(v, OpenFor(k[2], booking[k[2]].staff))'
            BY <1>2, <1>3, <3>1, <3>2 DEF Pending, OpenFor
        <3> QED BY <1>1, <3>1, <3>2 DEF Sync, SyncOK
    <2> QED BY <2>1, <2>2
<1>8. ClosedOK'
    <2> SUFFICES ASSUME NEW k \in Keys, k[1] \in {"DISPATCH_STAFF", "CONFIRM_BOOKING"},
                        k[2] \notin disturbed', Is(k[2], "COMPLETED")'
                 PROVE  \/ ~Active(task'[k])
                        \/ \E v \in Workers : \/ Billing(v, k[2])'
                                              \/ Pending(v, Close(k[2], Finished.COMPLETED))'
        BY DEF ClosedOK
    <2>1. CASE k[2] = b
        <3>1. PICK i \in 1..Len(entries) : entries[i] = Close(b, Finished.COMPLETED)
            BY <1>1, <2>1 DEF Is
        <3>2. Pending(w, Close(k[2], Finished.COMPLETED))'
            BY <1>2, <2>1, <3>1 DEF Pending, Close
        <3> QED BY <3>2
    <2>2. CASE k[2] # b
        <3>1. k[2] \in Bookings /\ Is(k[2], "COMPLETED")
            BY <1>1, <2>2, KeysTyped DEF Is
        <3>2. ASSUME NEW v \in Workers, Pending(v, Close(k[2], Finished.COMPLETED))
              PROVE  Pending(v, Close(k[2], Finished.COMPLETED))'
            BY <1>2, <1>3, <3>2 DEF Pending, Close
        <3>3. ASSUME NEW v \in Workers, Billing(v, k[2]) PROVE Billing(v, k[2])'
            BY <1>2, <3>3 DEF Billing
        <3> QED BY <1>1, <3>1, <3>2, <3>3 DEF Sync, ClosedOK
    <2> QED BY <2>1, <2>2
<1> QED BY <1>4, <1>5, <1>7, <1>8 DEF Sync

LEMMA CreateSync ==
    ASSUME Inv, Sync, NEW w \in Workers, ~Busy(w), NEW b \in Bookings, NEW row \in Booking,
           Create(w, b, row)
    PROVE  Sync'
<1> DEFINE F == FollowUp(b, row, "NONE")
<1>1. Store(w, b, row) /\ Proceed(w, F) /\ task' = task /\ pc[w] = "idle"
    BY DEF Create, Busy
<1>2. /\ F \in Seq(Entries) /\ \A i \in 1..Len(F) : F[i].b = b
      /\ \A i \in 1..Len(F) : F[i].do \in {"openFor", "handOver"} => F[i].staff = row.staff
      /\ row.status = "CONFIRMED" => \E i \in 1..Len(F) : F[i] = OpenFor(b, row.staff)
      /\ row.status = "COMPLETED" => \E i \in 1..Len(F) : F[i] = Close(b, Finished.COMPLETED)
    <2>1. "NONE" \in {"NONE", "DUE", "PAID"}
        OBVIOUS
    <2>2. F \in Seq(Entries) /\ \A i \in 1..Len(F) : F[i].b = b
        BY <2>1, FollowUpSuits
    <2>3. \A i \in 1..Len(F) : F[i].do \in {"openFor", "handOver"} => F[i].staff = row.staff
        BY <2>1, FollowUpExact
    <2>4. /\ row.status = "CONFIRMED" => \E i \in 1..Len(F) : F[i] = OpenFor(b, row.staff)
          /\ row.status = "COMPLETED" => \E i \in 1..Len(F) : F[i] = Close(b, Finished.COMPLETED)
        BY <2>1, FollowUpExact
    <2> QED BY <2>2, <2>3, <2>4
<1> HIDE DEF F
<1> QED BY <1>1, <1>2, StoreSync

LEMMA WriteSync ==
    ASSUME Inv, Sync, NEW w \in Workers, Write(w)
    PROVE  Sync'
<1> DEFINE c == call[w]
           row == [status |-> IF c.to = NONE THEN booking[c.b].status ELSE c.to,
                   staff |-> IF c.staff = NONE THEN booking[c.b].staff ELSE c.staff]
           first == IF c.kind = "assign" THEN <<HandOver(c.b, c.staff)>> ELSE <<>>
           follow == FollowUp(c.b, row, bill[c.b])
           entries == first \o follow
           billing == row.status = "COMPLETED" /\ bill[c.b] = "NONE"
                        /\ c.kind # "completeUnbilled"
<1>1. /\ pc[w] = "write" /\ Store(w, c.b, row) /\ task' = task
      /\ billing => Goto(w, "bill") /\ UNCHANGED <<call, agenda>>
      /\ ~billing => Proceed(w, entries)
    BY DEF Write
<1>2. /\ c \in Call /\ c.b \in Rows /\ c.b \in Bookings /\ booking[c.b] \in Booking
      /\ bill[c.b] \in {"NONE", "DUE", "PAID"} /\ agenda[w] = <<>>
    BY <1>1 DEF Inv, Globals, Local, Rows
<1>3. row \in Booking
    BY <1>2 DEF Call, Booking
<1>4. c.kind = "assign" => row.staff = c.staff
    BY <1>1, NoneAssumption DEF Sync, WorkerOK
<1>5. CASE ~billing
    <2>1. /\ follow \in Seq(Entries) /\ \A i \in 1..Len(follow) : follow[i].b = c.b
          /\ \A i \in 1..Len(follow) :
                follow[i].do \in {"openFor", "handOver"} => follow[i].staff = row.staff
          /\ row.status = "CONFIRMED" => \E i \in 1..Len(follow) : follow[i] = OpenFor(c.b, row.staff)
          /\ row.status = "COMPLETED" =>
                \E i \in 1..Len(follow) : follow[i] = Close(c.b, Finished.COMPLETED)
        <3> HIDE DEF c, row
        <3>1. follow \in Seq(Entries) /\ \A i \in 1..Len(follow) : follow[i].b = c.b
            BY <1>2, <1>3, FollowUpSuits
        <3>2. \A i \in 1..Len(follow) :
                follow[i].do \in {"openFor", "handOver"} => follow[i].staff = row.staff
            BY <1>2, <1>3, FollowUpExact
        <3>3. /\ row.status = "CONFIRMED" => \E i \in 1..Len(follow) : follow[i] = OpenFor(c.b, row.staff)
              /\ row.status = "COMPLETED" =>
                    \E i \in 1..Len(follow) : follow[i] = Close(c.b, Finished.COMPLETED)
            BY <1>2, <1>3, FollowUpExact
        <3> QED BY <3>1, <3>2, <3>3
    <2>2. /\ first \in Seq(Entries)
          /\ \A i \in 1..Len(first) : first[i].b = c.b /\ first[i].staff = row.staff
        <3>1. /\ HandOver(c.b, c.staff) \in Entries
              /\ HandOver(c.b, c.staff).b = c.b /\ HandOver(c.b, c.staff).staff = c.staff
            BY <1>2 DEF HandOver, Entry, Entries, Types, Call
        <3> QED BY <1>4, <3>1
    <2> HIDE DEF c, row, first, follow
    <2>3. /\ entries \in Seq(Entries)
          /\ \A i \in 1..Len(entries) : (\E j \in 1..Len(first) : entries[i] = first[j])
                                        \/ (\E j \in 1..Len(follow) : entries[i] = follow[j])
        BY <2>1, <2>2, Concatenated
    <2>4. \A j \in 1..Len(follow) : \E i \in 1..Len(entries) : entries[i] = follow[j]
        BY <2>1, <2>2, ConcatenatedLast
    <2> HIDE DEF entries
    <2>5. ASSUME NEW i \in 1..Len(entries)
          PROVE  /\ entries[i].b = c.b
                 /\ entries[i].do \in {"openFor", "handOver"} => entries[i].staff = row.staff
        <3>1. CASE \E j \in 1..Len(first) : entries[i] = first[j]
            BY <2>2, <3>1
        <3>2. CASE \E j \in 1..Len(follow) : entries[i] = follow[j]
            BY <2>1, <3>2
        <3> QED BY <2>3, <3>1, <3>2
    <2>6. /\ row.status = "CONFIRMED" => \E i \in 1..Len(entries) : entries[i] = OpenFor(c.b, row.staff)
          /\ row.status = "COMPLETED" =>
                \E i \in 1..Len(entries) : entries[i] = Close(c.b, Finished.COMPLETED)
        BY <2>1, <2>4
    <2> QED BY <1>1, <1>2, <1>3, <1>5, <2>3, <2>5, <2>6, StoreSync
<1>6. CASE billing
    <2>1. /\ row.status = "COMPLETED" /\ agenda' = agenda /\ call' = call
          /\ pc'[w] = "bill" /\ \A v \in Workers \ {w} : pc'[v] = pc[v]
        BY <1>1, <1>6 DEF Goto, Inv, Globals
    <2> HIDE DEF row, c, billing
    <2>2. /\ disturbed \subseteq disturbed' /\ \A v \in Workers : since'[v] \subseteq disturbed'
          /\ c.b \notin disturbed' => \A v \in Workers \ {w} : pc[v] = "idle" /\ agenda[v] = <<>>
          /\ booking'[c.b] = row /\ \A d \in Bookings : d # c.b => booking'[d] = booking[d]
          /\ \A d \in Bookings : d # c.b => (d \in Rows' <=> d \in Rows)
        BY <1>1, <1>2, <1>3, StoreDisturbs
    <2>3. Len(<<>>) = 0 /\ \A v \in Workers : \A i \in 1..Len(agenda[v]) : agenda[v][i].b \in Bookings
        BY DEF Inv, Local, Rows
    <2>4. \A v \in Workers : WorkerOK(v)'
        BY <1>2, <2>1, <2>2, <2>3 DEF Sync, WorkerOK
    <2>5. SyncOK'
        <3> SUFFICES ASSUME NEW k \in Keys, k[1] = "DISPATCH_STAFF", k[2] \notin disturbed',
                            Is(k[2], "CONFIRMED")'
                     PROVE  \/ task'[k] # NONE /\ task'[k].staff = booking'[k[2]].staff
                            \/ \E v \in Workers : Pending(v, OpenFor(k[2], booking[k[2]].staff))'
            BY DEF SyncOK
        <3>1. k[2] # c.b
            BY <2>1, <2>2 DEF Is
        <3>2. k[2] \in Bookings /\ booking'[k[2]] = booking[k[2]] /\ Is(k[2], "CONFIRMED")
            BY <2>2, <3>1, KeysTyped DEF Is
        <3>3. \A v \in Workers : Pending(v, OpenFor(k[2], booking[k[2]].staff)) =>
                                    Pending(v, OpenFor(k[2], booking[k[2]].staff))'
            BY <2>1, <3>2 DEF Pending, OpenFor
        <3> QED BY <1>1, <2>2, <3>2, <3>3 DEF Sync, SyncOK
    <2>6. ClosedOK'
        <3> SUFFICES ASSUME NEW k \in Keys, k[1] \in {"DISPATCH_STAFF", "CONFIRM_BOOKING"},
                            k[2] \notin disturbed', Is(k[2], "COMPLETED")'
                     PROVE  \/ ~Active(task'[k])
                            \/ \E v \in Workers : \/ Billing(v, k[2])'
                                                  \/ Pending(v, Close(k[2], Finished.COMPLETED))'
            BY DEF ClosedOK
        <3>1. CASE k[2] = c.b
            BY <2>1, <3>1 DEF Billing, c
        <3>2. CASE k[2] # c.b
            <4>1. k[2] \in Bookings /\ Is(k[2], "COMPLETED")
                BY <2>2, <3>2, KeysTyped DEF Is
            <4>2. \A v \in Workers : /\ Billing(v, k[2]) => Billing(v, k[2])'
                                     /\ Pending(v, Close(k[2], Finished.COMPLETED)) =>
                                           Pending(v, Close(k[2], Finished.COMPLETED))'
                BY <1>1, <2>1 DEF Billing, Pending, Close
            <4> QED BY <1>1, <2>2, <4>1, <4>2 DEF Sync, ClosedOK
        <3> QED BY <3>1, <3>2
    <2> QED BY <2>4, <2>5, <2>6 DEF Sync
<1> QED BY <1>5, <1>6

\* A step of one call that leaves the bookings and these actions alone keeps the
\* promise, if what it drops is about disturbed bookings.
LEMMA MoveSync ==
    ASSUME Inv, Sync, NEW w \in Workers, booking' = booking, disturbed \subseteq disturbed',
           \A k \in Keys : k[1] # "RESOLVE_STAFF_CONFLICT" => task'[k] = task[k],
           \A v \in Workers \ {w} : /\ pc'[v] = pc[v] /\ call'[v] = call[v]
                                    /\ agenda'[v] = agenda[v] /\ since'[v] = since[v],
           WorkerOK(w)',
           \A e : Pending(w, e) => e.b \in disturbed' \/ Pending(w, e)',
           \A b \in Bookings : Billing(w, b) =>
              \/ b \in disturbed' \/ ~Is(b, "COMPLETED")
              \/ Billing(w, b)' \/ Pending(w, Close(b, Finished.COMPLETED))'
    PROVE  Sync'
<1>1. \A v \in Workers \ {w} : WorkerOK(v)'
    BY DEF Sync, WorkerOK
<1>2. \A v \in Workers \ {w} : \A e : Pending(v, e) => Pending(v, e)'
    BY DEF Pending
<1>3. \A v \in Workers : \A e : Pending(v, e) => e.b \in disturbed' \/ Pending(v, e)'
    BY <1>2
<1>4. \A b \in Bookings, status \in BookingStatus : Is(b, status)' = Is(b, status)
    BY DEF Is, Rows
<1>5. "CONFIRMED" \in BookingStatus /\ "COMPLETED" \in BookingStatus
    BY DEF BookingStatus
<1>6. SyncOK'
    <2> SUFFICES ASSUME NEW k \in Keys, k[1] = "DISPATCH_STAFF", k[2] \notin disturbed',
                        Is(k[2], "CONFIRMED")'
                 PROVE  \/ task'[k] # NONE /\ task'[k].staff = booking'[k[2]].staff
                        \/ \E v \in Workers : Pending(v, OpenFor(k[2], booking[k[2]].staff))'
        BY DEF SyncOK
    <2>1. k[2] \in Bookings /\ Is(k[2], "CONFIRMED") /\ task'[k] = task[k]
        BY KeysTyped DEF Is, Rows
    <2>2. PICK e : e = OpenFor(k[2], booking[k[2]].staff)
        OBVIOUS
    <2>3. e.b = k[2] /\ e = OpenFor(k[2], booking'[k[2]].staff)
        BY <2>2 DEF OpenFor, Entry
    <2>4. ASSUME NEW v \in Workers, Pending(v, e) PROVE Pending(v, OpenFor(k[2], booking[k[2]].staff))'
        <3>1. Pending(v, e)'
            BY <1>3, <2>3, <2>4
        <3> QED BY <2>3, <3>1 DEF Pending
    <2> QED BY <2>1, <2>2, <2>4 DEF Sync, SyncOK
<1>7. ClosedOK'
    <2> SUFFICES ASSUME NEW k \in Keys, k[1] \in {"DISPATCH_STAFF", "CONFIRM_BOOKING"},
                        k[2] \notin disturbed', Is(k[2], "COMPLETED")'
                 PROVE  \/ ~Active(task'[k])
                        \/ \E v \in Workers : \/ Billing(v, k[2])'
                                              \/ Pending(v, Close(k[2], Finished.COMPLETED))'
        BY DEF ClosedOK
    <2>1. k[2] \in Bookings /\ Is(k[2], "COMPLETED") /\ task'[k] = task[k]
        BY KeysTyped DEF Is, Rows
    <2>2. Close(k[2], Finished.COMPLETED).b = k[2]
        BY DEF Close, Entry
    <2>3. ASSUME NEW v \in Workers, Pending(v, Close(k[2], Finished.COMPLETED))
          PROVE  Pending(v, Close(k[2], Finished.COMPLETED))'
        BY <1>3, <2>2, <2>3
    <2>4. ASSUME NEW v \in Workers, Billing(v, k[2])
          PROVE  Billing(v, k[2])' \/ Pending(v, Close(k[2], Finished.COMPLETED))'
        <3>1. CASE v # w
            BY <2>4, <3>1 DEF Billing
        <3>2. CASE v = w
            BY <2>1, <2>4, <3>2
        <3> QED BY <3>1, <3>2
    <2> QED BY <2>1, <2>3, <2>4 DEF Sync, ClosedOK
<1> QED BY <1>1, <1>6, <1>7 DEF Sync

\* Whoever has no agenda drops nothing, and ends by forgetting which copies are stale.
LEMMA NothingPending ==
    ASSUME NEW w \in Workers, agenda[w] = <<>>
    PROVE  \A e : ~Pending(w, e)
<1>1. Len(<<>>) = 0
    OBVIOUS
<1> QED BY <1>1 DEF Pending

LEMMA BeginSync ==
    ASSUME Inv, Sync, NEW w \in Workers, ~Busy(w), NEW kind, NEW b \in Bookings, NEW to, NEW s,
           Begin(w, kind, b, to, s), kind = "assign" => s \in Staff
    PROVE  Sync'
<1>1. /\ pc[w] = "idle" /\ agenda[w] = <<>> /\ agenda' = agenda /\ Len(<<>>) = 0
      /\ call'[w].kind = kind /\ call'[w].staff = s /\ since'[w] = {} /\ disturbed' = disturbed
      /\ \A v \in Workers \ {w} : /\ pc'[v] = pc[v] /\ call'[v] = call[v]
                                   /\ agenda'[v] = agenda[v] /\ since'[v] = since[v]
    BY DEF Begin, Busy, Goto, Inv, Globals, Local
<1>2. WorkerOK(w)'
    BY <1>1 DEF WorkerOK
<1>3. \A c \in Bookings : ~Billing(w, c)
    BY <1>1 DEF Billing
<1> QED BY <1>1, <1>2, <1>3, NothingPending, MoveSync DEF Begin

\* A call that goes on with entries that hand nothing out.
LEMMA PlainWorker ==
    ASSUME NEW w \in Workers, pc'[w] # "write", since'[w] \subseteq disturbed',
           \A i \in 1..Len(agenda'[w]) : agenda'[w][i].do \notin {"openFor", "handOver"}
    PROVE  WorkerOK(w)'
BY DEF WorkerOK

\* A scan looks for bookings whose actions it opens for nobody.
LEMMA OpenAllPlain ==
    ASSUME NEW order, NEW type, OpenAll(order, type) \in Seq(Entries)
    PROVE  \A i \in 1..Len(OpenAll(order, type)) : OpenAll(order, type)[i].do = "open"
<1>1. DOMAIN OpenAll(order, type) = 1..Len(OpenAll(order, type))
    OBVIOUS
<1>2. DOMAIN OpenAll(order, type) = DOMAIN order
    BY DEF OpenAll
<1> QED BY <1>1, <1>2 DEF OpenAll, Open, Entry

LEMMA ScanFirstSync ==
    ASSUME Inv, Sync, NEW w \in Workers, ~Busy(w),
           NEW type \in {"DISPATCH_STAFF", "CONFIRM_BOOKING"}, ScanFirst(w, type)
    PROVE  Sync'
<1>0. PICK near \in SUBSET AtRisk[type] : \E order \in SetToSeqs(near) :
        agenda' = [agenda EXCEPT ![w] = OpenAll(order, type)]
    BY DEF ScanFirst
<1>1. PICK order \in SetToSeqs(near) :
        agenda' = [agenda EXCEPT ![w] = OpenAll(order, type)]
    BY <1>0
<1>2. /\ booking \in [Bookings -> Booking \cup {NONE}] /\ booking' = booking /\ task' = task
      /\ call' = call /\ disturbed' = disturbed /\ pc[w] = "idle" /\ agenda[w] = <<>>
      /\ pc'[w] # "write" /\ since'[w] = {}
      /\ \A v \in Workers \ {w} : /\ pc'[v] = pc[v] /\ agenda'[v] = agenda[v] /\ since'[v] = since[v]
    BY <1>1 DEF ScanFirst, Other, Busy, Goto, Inv, Globals, Local
<1>3. agenda'[w] = OpenAll(order, type)
    BY <1>1 DEF Inv, Globals
<1>4. OpenAll(order, type) \in Seq(Entries)
    BY <1>2, ScanSuits
<1>5. \A i \in 1..Len(OpenAll(order, type)) : OpenAll(order, type)[i].do = "open"
    BY <1>4, OpenAllPlain
<1>6. WorkerOK(w)'
    BY <1>2, <1>3, <1>5, PlainWorker
<1>7. \A c \in Bookings : ~Billing(w, c)
    BY <1>2 DEF Billing
<1> QED BY <1>2, <1>6, <1>7, NothingPending, MoveSync

LEMMA ScanSecondSync ==
    ASSUME Inv, Sync, NEW w \in Workers,
           NEW type \in {"DISPATCH_STAFF", "CONFIRM_BOOKING"}, ScanSecond(w, type)
    PROVE  Sync'
<1>0. PICK near \in SUBSET AtRisk[type] : \E order \in SetToSeqs(near) :
        Proceed(w, agenda[w] \o OpenAll(order, type))
    BY DEF ScanSecond
<1>1. PICK order \in SetToSeqs(near) : Proceed(w, agenda[w] \o OpenAll(order, type))
    BY <1>0
<1> DEFINE more == OpenAll(order, type)
           entries == agenda[w] \o more
<1>2. /\ booking \in [Bookings -> Booking \cup {NONE}]
      /\ booking' = booking /\ task' = task /\ disturbed' = disturbed /\ pc[w] = type
      /\ agenda[w] \in Seq(Entries)
      /\ agenda'[w] = entries /\ pc'[w] \in {"idle", "agenda"}
      /\ \A v \in Workers \ {w} : /\ pc'[v] = pc[v] /\ agenda'[v] = agenda[v]
                                   /\ call'[v] = call[v]
    BY <1>1 DEF ScanSecond, Proceed, Goto, Inv, Globals
<1>3. /\ since'[w] \subseteq disturbed
      /\ \A v \in Workers \ {w} : since'[v] = since[v]
    <2>1. since[w] \subseteq disturbed /\ since \in [Workers -> SUBSET Bookings]
        BY DEF Sync, WorkerOK, Inv, Globals
    <2> QED BY <2>1 DEF ScanSecond, Rest
<1>4. more \in Seq(Entries)
    BY <1>2, ScanSuits
<1>5. \A i \in 1..Len(more) : more[i].do = "open"
    BY <1>4, OpenAllPlain
<1> HIDE DEF more
<1>6. /\ entries \in Seq(Entries)
      /\ \A i \in 1..Len(entries) : (\E j \in 1..Len(agenda[w]) : entries[i] = agenda[w][j])
                                     \/ (\E j \in 1..Len(more) : entries[i] = more[j])
    BY <1>2, <1>4, Concatenated
<1>7. \A i \in 1..Len(agenda[w]) : i \in 1..Len(entries) /\ entries[i] = agenda[w][i]
    BY <1>2, <1>4
<1> HIDE DEF entries
<1>8. WorkerOK(w)'
    <2>1. ASSUME NEW i \in 1..Len(entries), entries[i].b \notin disturbed,
                 entries[i].do \in {"openFor", "handOver"}
          PROVE  entries[i].staff = booking[entries[i].b].staff
        <3>1. PICK j \in 1..Len(agenda[w]) : entries[i] = agenda[w][j]
            BY <1>5, <1>6, <2>1
        <3> QED BY <2>1, <3>1 DEF Sync, WorkerOK
    <2> QED BY <1>2, <1>3, <2>1 DEF WorkerOK
<1>9. \A e : Pending(w, e) => Pending(w, e)'
    BY <1>2, <1>7 DEF Pending
<1>10. \A c \in Bookings : ~Billing(w, c)
    BY <1>2 DEF Billing
<1> QED BY <1>2, <1>3, <1>8, <1>9, <1>10, MoveSync

LEMMA ScanOverdueSync ==
    ASSUME Inv, Sync, NEW w \in Workers, ~Busy(w), ScanOverdue(w)
    PROVE  Sync'
<1>0. PICK late \in SUBSET Overdue : \E order \in SetToSeqs(late) :
        Proceed(w, OverdueEntries(order))
    BY DEF ScanOverdue, OverdueEntries
<1>1. PICK order \in SetToSeqs(late) : Proceed(w, OverdueEntries(order))
    BY <1>0
<1> DEFINE entries == OverdueEntries(order)
<1>2. late \in SUBSET Bookings
    BY DEF Overdue
<1>3. entries \in Seq(Entries)
    BY <1>2, OverdueSuits
<1>4. \A i \in 1..Len(entries) : entries[i].do \notin {"openFor", "handOver"}
    <2>1. DOMAIN entries = 1..Len(entries)
        BY <1>3
    <2>2. DOMAIN entries = 1..(2 * Len(order))
        BY DEF OverdueEntries
    <2> QED BY <2>1, <2>2 DEF OverdueEntries, MarkOverdue, Open, Entry
<1> HIDE DEF entries
<1>5. /\ booking' = booking /\ task' = task /\ disturbed' = disturbed /\ pc[w] = "idle"
      /\ agenda[w] = <<>> /\ agenda'[w] = entries /\ pc'[w] # "write" /\ since'[w] = {}
      /\ \A v \in Workers \ {w} : /\ pc'[v] = pc[v] /\ agenda'[v] = agenda[v]
                                   /\ call'[v] = call[v] /\ since'[v] = since[v]
    BY <1>1 DEF ScanOverdue, Proceed, Goto, Busy, Inv, Globals, Local, entries
<1>6. WorkerOK(w)'
    BY <1>4, <1>5, PlainWorker
<1>7. \A c \in Bookings : ~Billing(w, c)
    BY <1>5 DEF Billing
<1> QED BY <1>5, <1>6, <1>7, NothingPending, MoveSync

\* Calls that end without writing, and calls cut off.
LEMMA EndSync ==
    ASSUME Inv, Sync, NEW w \in Workers, Proceed(w, <<>>), Rest(w, {}), booking' = booking,
           \A k \in Keys : k[1] # "RESOLVE_STAFF_CONFLICT" => task'[k] = task[k],
           disturbed \subseteq disturbed', pc[w] = "write" \/ Concerns(w) \subseteq disturbed'
    PROVE  Sync'
<1>1. /\ pc'[w] = "idle" /\ agenda'[w] = <<>> /\ since'[w] = {} /\ Len(<<>>) = 0
      /\ \A v \in Workers \ {w} : /\ pc'[v] = pc[v] /\ agenda'[v] = agenda[v]
                                   /\ call'[v] = call[v] /\ since'[v] = since[v]
    BY DEF Proceed, Goto, Rest, Inv, Globals
<1>2. WorkerOK(w)'
    BY <1>1 DEF WorkerOK
<1>3. \A e : Pending(w, e) => e.b \in disturbed'
    <2>1. CASE pc[w] = "write"
        BY <2>1, NothingPending DEF Inv, Local
    <2>2. CASE Concerns(w) \subseteq disturbed'
        <3>1. DOMAIN agenda[w] = 1..Len(agenda[w])
            BY DEF Inv, Globals
        <3>2. \A i \in 1..Len(agenda[w]) : agenda[w][i].b \in Bookings
            BY DEF Inv, Local, Rows
        <3> QED BY <2>2, <3>1, <3>2 DEF Concerns, Pending
    <2> QED BY <2>1, <2>2
<1>4. \A b \in Bookings : Billing(w, b) => b \in disturbed'
    <2>1. pc[w] \in {"bill", "reread"} => call[w] # NONE
        BY ValuesExist DEF Inv, Local
    <2> QED BY <2>1 DEF Billing, Concerns
<1> QED BY <1>1, <1>2, <1>3, <1>4, MoveSync

LEMMA ConflictSync ==
    ASSUME Inv, Sync, NEW w \in Workers, ConflictFound(w)
    PROVE  Sync'
<1>1. /\ pc[w] = "write" /\ Proceed(w, <<>>) /\ Rest(w, {})
      /\ booking' = booking /\ disturbed' = disturbed
    BY DEF ConflictFound
<1>2. \A k \in Keys : k[1] # "RESOLVE_STAFF_CONFLICT" => task'[k] = task[k]
    BY DEF ConflictFound, Inv, Globals
<1> QED BY <1>1, <1>2, EndSync

LEMMA FailSync ==
    ASSUME Inv, Sync, NEW w \in Workers, Fail(w)
    PROVE  Sync'
<1>1. /\ Proceed(w, <<>>) /\ Rest(w, {}) /\ booking' = booking /\ task' = task
      /\ disturbed \subseteq disturbed' /\ Concerns(w) \subseteq disturbed'
    BY DEF Fail
<1> QED BY <1>1, EndSync

\* A call that goes on with the follow-up of a row closes what a completion ends.
LEMMA FollowSync ==
    ASSUME Inv, Sync, NEW w \in Workers, pc[w] \in {"bill", "reread"},
           NEW row \in Booking, NEW invoice \in {"NONE", "DUE", "PAID"},
           Proceed(w, FollowUp(call[w].b, row, invoice)),
           row = booking[call[w].b] \/ row.status = "COMPLETED",
           UNCHANGED <<booking, task, disturbed>>, since'[w] \subseteq since[w],
           \A v \in Workers \ {w} : since'[v] = since[v]
    PROVE  Sync'
<1> DEFINE b == call[w].b
           F == FollowUp(b, row, invoice)
<1>1. b \in Bookings /\ b \in Rows /\ agenda[w] = <<>>
    BY DEF Inv, Local, Rows
<1>2. F \in Seq(Entries) /\ \A i \in 1..Len(F) : F[i].b = b
    BY <1>1, FollowUpSuits
<1>3. /\ \A i \in 1..Len(F) : F[i].do \in {"openFor", "handOver"} => F[i].staff = row.staff
      /\ row.status = "COMPLETED" => \E i \in 1..Len(F) : F[i] = Close(b, Finished.COMPLETED)
    BY <1>1, FollowUpExact
<1>4. row.status = "COMPLETED" => \A i \in 1..Len(F) : F[i].do \notin {"openFor", "handOver"}
    <2> SUFFICES ASSUME row.status = "COMPLETED"
                 PROVE  \A i \in 1..Len(F) : F[i].do \notin {"openFor", "handOver"}
        OBVIOUS
    <2>1. \/ F = <<Close(b, Finished.COMPLETED), Open(b, "REQUEST_REVIEW")>>
          \/ F = <<Close(b, Finished.COMPLETED), CollectPayment(b, invoice),
                   Open(b, "REQUEST_REVIEW")>>
        BY DEF FollowUp
    <2> QED BY <2>1 DEF Close, Open, Entry, CollectPayment
<1>5. /\ agenda'[w] = F /\ pc'[w] # "write"
      /\ \A v \in Workers \ {w} : /\ pc'[v] = pc[v] /\ agenda'[v] = agenda[v]
                                   /\ call'[v] = call[v]
    BY DEF Proceed, Goto, Inv, Globals
<1> HIDE DEF F
<1>6. WorkerOK(w)'
    <2>1. since'[w] \subseteq disturbed'
        BY DEF Sync, WorkerOK
    <2>2. CASE row.status = "COMPLETED"
        BY <1>4, <1>5, <2>1, <2>2, PlainWorker
    <2>3. CASE row = booking[b]
        BY <1>2, <1>3, <1>5, <2>1, <2>3 DEF WorkerOK
    <2> QED BY <2>2, <2>3
<1>7. \A c \in Bookings : Billing(w, c) =>
           ~Is(c, "COMPLETED") \/ Pending(w, Close(c, Finished.COMPLETED))'
    <2> SUFFICES ASSUME NEW c \in Bookings, Billing(w, c), Is(c, "COMPLETED")
                 PROVE  Pending(w, Close(c, Finished.COMPLETED))'
        OBVIOUS
    <2>1. c = b /\ row.status = "COMPLETED"
        BY DEF Billing, Is
    <2>2. PICK i \in 1..Len(F) : F[i] = Close(b, Finished.COMPLETED)
        BY <1>3, <2>1
    <2> QED BY <1>5, <2>1, <2>2 DEF Pending, Close
<1> QED BY <1>1, <1>5, <1>6, <1>7, NothingPending, MoveSync

LEMMA BillSync ==
    ASSUME Inv, Sync, NEW w \in Workers, BillJob(w)
    PROVE  Sync'
<1> DEFINE c == call[w]
           invoice == IF bill[c.b] = "NONE" THEN "DUE" ELSE bill[c.b]
           row == [status |-> "COMPLETED", staff |-> c.staff]
<1>1. /\ pc[w] = "bill" /\ booking' = booking /\ task' = task /\ since' = since
      /\ disturbed' = disturbed
      /\ c.kind = "update" => Goto(w, "reread") /\ call' = call /\ agenda' = agenda
      /\ c.kind # "update" => Proceed(w, FollowUp(c.b, row, invoice))
    BY DEF BillJob, history
<1>2. c \in Call /\ c.b \in Bookings /\ invoice \in {"NONE", "DUE", "PAID"} /\ agenda[w] = <<>>
    BY <1>1 DEF Inv, Globals, Local, Rows
<1>3. CASE c.kind # "update"
    <2>1. row \in Booking /\ row.status = "COMPLETED"
        BY <1>2 DEF Booking, Call, BookingStatus
    <2> HIDE DEF row, invoice
    <2> QED BY <1>1, <1>2, <1>3, <2>1, FollowSync
<1>4. CASE c.kind = "update"
    <2>1. /\ pc'[w] = "reread" /\ \A v \in Workers \ {w} : pc'[v] = pc[v]
        BY <1>1, <1>4 DEF Goto, Inv, Globals
    <2>2. WorkerOK(w)'
        BY <1>1, <1>4, <2>1 DEF Sync, WorkerOK
    <2>3. \A b \in Bookings : Billing(w, b) => Billing(w, b)'
        BY <1>1, <1>4, <2>1 DEF Billing
    <2> QED BY <1>1, <1>2, <1>4, <2>1, <2>2, <2>3, NothingPending, MoveSync
<1> QED BY <1>3, <1>4

LEMMA RereadSync ==
    ASSUME Inv, Sync, NEW w \in Workers, ReadAgain(w)
    PROVE  Sync'
<1> DEFINE b == call[w].b
           row == booking[b]
           invoice == bill[b]
<1>1. /\ pc[w] = "reread" /\ Proceed(w, FollowUp(b, row, invoice))
      /\ booking' = booking /\ task' = task /\ disturbed' = disturbed
      /\ since'[w] = {} /\ \A v \in Workers \ {w} : since'[v] = since[v]
    BY DEF ReadAgain, Inv, Globals
<1>2. row \in Booking /\ invoice \in {"NONE", "DUE", "PAID"}
    BY <1>1 DEF Inv, Globals, Local, Rows
<1>3. row = booking[call[w].b]
    OBVIOUS
<1> HIDE DEF row, invoice
<1> QED BY <1>1, <1>2, <1>3, FollowSync

-----------------------------------------------------------------------------
\* What the first statement of an agenda does to the actions of an undisturbed
\* booking.
Effect(e) ==
    \A k \in Keys : k[2] \notin disturbed =>
        /\ /\ k[1] = "DISPATCH_STAFF" /\ Is(k[2], "CONFIRMED")
           /\ \/ e = OpenFor(k[2], booking[k[2]].staff)
              \/ task[k] # NONE /\ task[k].staff = booking[k[2]].staff
           => task'[k] # NONE /\ task'[k].staff = booking[k[2]].staff
        /\ /\ k[1] \in {"DISPATCH_STAFF", "CONFIRM_BOOKING"} /\ Is(k[2], "COMPLETED")
           /\ e = Close(k[2], Finished.COMPLETED) \/ ~Active(task[k])
           => ~Active(task'[k])

\* The first entry of an agenda, and what is known of it.
LEMMA FirstEntry ==
    ASSUME Inv, Sync, NEW w \in Workers, pc[w] = "agenda"
    PROVE  /\ 1 \in 1..Len(agenda[w]) /\ Head(agenda[w]) = agenda[w][1] /\ agenda[w][1] \in Entries
           /\ agenda[w][1].b \notin disturbed =>
                 /\ Suits(agenda[w][1], booking[agenda[w][1].b])
                 /\ agenda[w][1].do \in {"openFor", "handOver"} =>
                       agenda[w][1].staff = booking[agenda[w][1].b].staff
<1>1. agenda[w] \in Seq(Entries) /\ agenda[w] # <<>>
    BY DEF Inv, Globals, Local
<1>2. 1 \in 1..Len(agenda[w]) /\ Head(agenda[w]) = agenda[w][1] /\ agenda[w][1] \in Entries
    BY <1>1
<1>3. since[w] \subseteq disturbed
    BY DEF Sync, WorkerOK
<1> QED BY <1>2, <1>3 DEF Inv, Local, Sync, WorkerOK

LEMMA StatementEffect ==
    ASSUME Inv, Sync, NEW w \in Workers, Statement(w)
    PROVE  Effect(agenda[w][1])
<1> DEFINE e == agenda[w][1]
           Mine(k) == k[2] = e.b /\ k[1] \in e.types
<1>1. /\ pc[w] = "agenda" /\ booking' = booking /\ disturbed' = disturbed
    BY StatementTyped
<1>2. /\ Head(agenda[w]) = e
      /\ e.b \notin disturbed =>
            /\ Suits(e, booking[e.b])
            /\ e.do \in {"openFor", "handOver"} => e.staff = booking[e.b].staff
    BY <1>1, FirstEntry
<1>3. /\ \A k \in Keys : task[k] \in Task \cup {NONE}
      /\ \A t \in Task, st \in ActionStatus :
            [t EXCEPT !.status = st].staff = t.staff /\ [t EXCEPT !.status = st].status = st
      /\ \A t \in Task, st \in ActionStatus : [t EXCEPT !.status = st] \in Task
      /\ \A st, s : [status |-> st, staff |-> s].staff = s /\ [status |-> st, staff |-> s].status = st
      /\ {"OPEN", "IN_PROGRESS", "COMPLETED"} \subseteq ActionStatus
    BY DEF Inv, Globals, Task, ActionStatus
<1>4. \A k \in Keys : task[k] \in Task => task[k] # NONE
    BY ValuesExist
<1>5. \A b : /\ OpenFor(b, booking[b].staff).do = "openFor" /\ Close(b, Finished.COMPLETED).do = "close"
             /\ OpenFor(b, booking[b].staff).b = b /\ Close(b, Finished.COMPLETED).b = b
             /\ OpenFor(b, booking[b].staff).types = {"DISPATCH_STAFF"}
             /\ Close(b, Finished.COMPLETED).types = {"DISPATCH_STAFF", "CONFIRM_BOOKING"}
    BY DEF OpenFor, Close, Entry, Finished
<1>6. \A k \in Keys : /\ k[2] \notin disturbed /\ Is(k[2], "COMPLETED")
                      /\ k[1] \in {"DISPATCH_STAFF", "CONFIRM_BOOKING"}
                      /\ e.do \in {"open", "openFor"}
                      => ~Mine(k)
    BY <1>2 DEF Suits, Wanted, Is
<1>7. ASSUME NEW s PROVE [status |-> "OPEN", staff |-> s] # NONE \/ s \notin Assignee
    BY <1>3, ValuesExist DEF Task
<1>8. e.staff \in Assignee
    BY <1>1, FirstEntry DEF Entries
<1>9. CASE OpenAction(w)
    <2>1. e.do = "open" /\ \A k \in Keys :
            task'[k] = IF Mine(k) THEN IF task[k] = NONE THEN [status |-> "OPEN", staff |-> NONE]
                                       ELSE [task[k] EXCEPT !.status = "OPEN"]
                       ELSE task[k]
        BY <1>2, <1>9 DEF OpenAction, Apply, Does
    <2> HIDE DEF e
    <2>2. ASSUME NEW k \in Keys, task[k] # NONE
          PROVE  task'[k] # NONE /\ task'[k].staff = task[k].staff
        <3>1. PICK t \in Task : t = task[k]
            BY <1>3, <2>2
        <3>2. task'[k] = t \/ task'[k] = [t EXCEPT !.status = "OPEN"]
            BY <2>1, <2>2, <3>1
        <3>3. /\ [t EXCEPT !.status = "OPEN"] \in Task
              /\ [t EXCEPT !.status = "OPEN"].staff = t.staff
            BY DEF Task, ActionStatus
        <3>4. \A x \in Task : x # NONE
            BY ValuesExist
        <3> QED BY <3>1, <3>2, <3>3, <3>4
    <2>3. ASSUME NEW k \in Keys, k[2] \notin disturbed, Is(k[2], "COMPLETED"),
                 k[1] \in {"DISPATCH_STAFF", "CONFIRM_BOOKING"}
          PROVE  task'[k] = task[k]
        BY <1>6, <2>1, <2>3
    <2>4. \A k \in Keys : e # OpenFor(k[2], booking[k[2]].staff) /\ e # Close(k[2], Finished.COMPLETED)
        BY <1>5, <2>1
    <2> QED BY <2>2, <2>3, <2>4 DEF Effect, e
<1>10. CASE OpenActionFor(w)
    <2>1. e.do = "openFor" /\ \A k \in Keys :
            task'[k] = IF Mine(k) THEN [status |-> "OPEN", staff |-> e.staff] ELSE task[k]
        BY <1>2, <1>10 DEF OpenActionFor, Apply, Does
    <2> HIDE DEF e
    <2>2. ASSUME NEW k \in Keys, k[2] \notin disturbed, Mine(k)
          PROVE  task'[k] # NONE /\ task'[k].staff = booking[k[2]].staff
        BY <1>2, <1>3, <1>7, <1>8, <2>1, <2>2
    <2>3. ASSUME NEW k \in Keys, k[2] \notin disturbed, Is(k[2], "COMPLETED"),
                 k[1] \in {"DISPATCH_STAFF", "CONFIRM_BOOKING"}
          PROVE  task'[k] = task[k]
        BY <1>6, <2>1, <2>3
    <2>4. \A k \in Keys : /\ e # Close(k[2], Finished.COMPLETED)
                          /\ k[1] = "DISPATCH_STAFF" /\ e = OpenFor(k[2], booking[k[2]].staff) => Mine(k)
        <3> TAKE k \in Keys
        <3> QED BY ZenonT(40), <1>5, <2>1
    <2>5. \A k \in Keys : ~Mine(k) => task'[k] = task[k]
        BY <2>1
    <2> HIDE DEF Mine
    <2> QED BY <2>2, <2>3, <2>4, <2>5 DEF Effect, e
<1>11. CASE HandOverActions(w)
    <2>1. e.do = "handOver" /\ \A k \in Keys :
            task'[k] = IF Mine(k) THEN IF Active(task[k])
                                       THEN [status |-> "IN_PROGRESS", staff |-> e.staff]
                                       ELSE task[k]
                       ELSE task[k]
        BY <1>2, <1>11 DEF HandOverActions, Apply, Does
    <2> HIDE DEF e
    <2>2. \A k \in Keys : ~Active(task[k]) => task'[k] = task[k]
        BY <2>1
    <2>3. [status |-> "IN_PROGRESS", staff |-> e.staff] \in Task
        BY <1>3, <1>8 DEF Task
    <2>4. ASSUME NEW k \in Keys, k[2] \notin disturbed, task[k] # NONE,
                 task[k].staff = booking[k[2]].staff
          PROVE  task'[k] # NONE /\ task'[k].staff = booking[k[2]].staff
        BY <1>2, <1>3, <2>1, <2>3, <2>4, ValuesExist
    <2>5. \A k \in Keys : e # OpenFor(k[2], booking[k[2]].staff) /\ e # Close(k[2], Finished.COMPLETED)
        BY <1>5, <2>1
    <2> QED BY <2>2, <2>4, <2>5 DEF Effect, e
<1>12. CASE CloseActions(w)
    <2>1. e.do = "close" /\ \A k \in Keys :
            task'[k] = IF Mine(k) THEN IF Active(task[k])
                                       THEN [task[k] EXCEPT !.status = "COMPLETED"]
                                       ELSE task[k]
                       ELSE task[k]
        BY <1>2, <1>12 DEF CloseActions, Apply, Does
    <2> HIDE DEF e
    <2>2. \A k \in Keys : ~Active(task[k]) => task'[k] = task[k]
        BY <2>1
    <2>3. ASSUME NEW k \in Keys, task[k] # NONE
          PROVE  task'[k] # NONE /\ task'[k].staff = task[k].staff
        <3>1. PICK t \in Task : t = task[k]
            BY <1>3, <2>3
        <3>2. task'[k] = t \/ task'[k] = [t EXCEPT !.status = "COMPLETED"]
            BY <2>1, <2>3, <3>1
        <3>3. /\ [t EXCEPT !.status = "COMPLETED"] \in Task
              /\ [t EXCEPT !.status = "COMPLETED"].staff = t.staff
            BY DEF Task, ActionStatus
        <3>4. \A x \in Task : x # NONE
            BY ValuesExist
        <3> QED BY <3>1, <3>2, <3>3, <3>4
    <2>4. ASSUME NEW k \in Keys, k[1] \in {"DISPATCH_STAFF", "CONFIRM_BOOKING"},
                 e = Close(k[2], Finished.COMPLETED)
          PROVE  ~Active(task'[k])
        <3>1. Mine(k)
            BY <1>5, <2>4
        <3>2. CASE Active(task[k])
            <4>1. task[k] \in Task /\ task'[k] = [task[k] EXCEPT !.status = "COMPLETED"]
                BY <1>3, <2>1, <3>1, <3>2 DEF Active
            <4> QED BY <1>3, <4>1 DEF Active
        <3> QED BY <2>2, <3>2
    <2>5. \A k \in Keys : e # OpenFor(k[2], booking[k[2]].staff)
        BY <1>5, <2>1
    <2> QED BY <2>2, <2>3, <2>4, <2>5 DEF Effect, e
<1> QED BY <1>9, <1>10, <1>11, <1>12 DEF Statement

\* A statement of an agenda keeps the promise.
LEMMA TailSync ==
    ASSUME Inv, Sync, NEW w \in Workers, pc[w] = "agenda", Proceed(w, Tail(agenda[w])),
           Rest(w, since[w]), booking' = booking, disturbed' = disturbed, Effect(agenda[w][1])
    PROVE  Sync'
<1> DEFINE e == agenda[w][1]
           rest == Tail(agenda[w])
<1>1. /\ agenda[w] \in Seq(Entries) /\ agenda[w] # <<>>
      /\ agenda \in [Workers -> Seq(Entries)] /\ since \in [Workers -> SUBSET Bookings]
    BY DEF Inv, Globals, Local
<1>2. /\ Len(rest) = Len(agenda[w]) - 1 /\ Len(agenda[w]) \in Nat
      /\ \A i \in 1..Len(rest) : rest[i] = agenda[w][i + 1]
    BY <1>1
<1>3. /\ agenda'[w] = rest /\ pc'[w] \in {"idle", "agenda"}
      /\ since'[w] \subseteq since[w]
      /\ \A v \in Workers \ {w} : /\ pc'[v] = pc[v] /\ agenda'[v] = agenda[v]
                                   /\ call'[v] = call[v] /\ since'[v] = since[v]
    BY <1>1 DEF Proceed, Goto, Rest, Inv, Globals
<1>4. \A i \in 1..Len(agenda[w]) : i = 1 \/ (i - 1 \in 1..Len(rest) /\ rest[i - 1] = agenda[w][i])
    BY <1>2
<1>5. \A i \in 1..Len(rest) : i + 1 \in 1..Len(agenda[w])
    BY <1>2
<1> HIDE DEF e, rest
<1>6. \A v \in Workers : WorkerOK(v)'
    <2>1. WorkerOK(w)'
        BY <1>2, <1>3, <1>5 DEF Sync, WorkerOK
    <2>2. \A v \in Workers \ {w} : WorkerOK(v)'
        BY <1>3 DEF Sync, WorkerOK
    <2> QED BY <2>1, <2>2
<1>7. \A v \in Workers : \A x : Pending(v, x) => x = e \/ Pending(v, x)'
    <2>1. \A x : Pending(w, x) => x = e \/ Pending(w, x)'
        BY <1>3, <1>4 DEF Pending, e
    <2>2. \A v \in Workers \ {w} : \A x : Pending(v, x) => Pending(v, x)'
        BY <1>3 DEF Pending
    <2> QED BY <2>1, <2>2
<1>8. \A v \in Workers, b \in Bookings : Billing(v, b) => Billing(v, b)'
    BY <1>3 DEF Billing
<1>9. Effect(e)
    BY DEF e
<1>10. SyncOK'
    <2> SUFFICES ASSUME NEW k \in Keys, k[1] = "DISPATCH_STAFF", k[2] \notin disturbed,
                        Is(k[2], "CONFIRMED")'
                 PROVE  \/ task'[k] # NONE /\ task'[k].staff = booking'[k[2]].staff
                        \/ \E v \in Workers : Pending(v, OpenFor(k[2], booking[k[2]].staff))'
        BY DEF SyncOK
    <2>1. Is(k[2], "CONFIRMED")
        BY DEF Is, Rows
    <2>2. PICK x : x = OpenFor(k[2], booking[k[2]].staff)
        OBVIOUS
    <2>3. ASSUME NEW v \in Workers, Pending(v, x)
          PROVE  x = e \/ Pending(v, OpenFor(k[2], booking[k[2]].staff))'
        <3>1. CASE x = e
            BY <3>1
        <3>2. CASE Pending(v, x)'
            <4>1. x = OpenFor(k[2], booking'[k[2]].staff)
                BY <2>2
            <4>2. PICK i \in 1..Len(agenda'[v]) : agenda'[v][i] = x
                BY <3>2 DEF Pending
            <4> QED BY <4>1, <4>2 DEF Pending, OpenFor
        <3> QED BY <1>7, <2>3, <3>1, <3>2
    <2> QED BY <1>9, <2>1, <2>2, <2>3 DEF Sync, SyncOK, Effect
<1>11. ClosedOK'
    <2> SUFFICES ASSUME NEW k \in Keys, k[1] \in {"DISPATCH_STAFF", "CONFIRM_BOOKING"},
                        k[2] \notin disturbed, Is(k[2], "COMPLETED")'
                 PROVE  \/ ~Active(task'[k])
                        \/ \E v \in Workers : \/ Billing(v, k[2])'
                                              \/ Pending(v, Close(k[2], Finished.COMPLETED))'
        BY DEF ClosedOK
    <2>1. Is(k[2], "COMPLETED") /\ k[2] \in Bookings
        BY KeysTyped DEF Is, Rows
    <2> QED BY <1>7, <1>8, <1>9, <2>1 DEF Sync, ClosedOK, Effect
<1> QED BY <1>6, <1>10, <1>11 DEF Sync

\* What managers do to an action counts as a disturbance, invoices do not matter.
LEMMA OutsideSync ==
    ASSUME Inv, Sync,
           \/ \E k \in Keys, status \in ActionStatus \cup {NONE}, s \in Assignee :
                 UpdateAction(k, status, s)
           \/ \E b \in Bookings : CreateInvoice(b) \/ CompletePayment(b)
           \/ UNCHANGED vars
    PROVE  Sync'
<1>1. /\ UNCHANGED <<booking, pc, call, agenda, since>> /\ disturbed \subseteq disturbed'
      /\ \A k \in Keys : k[2] \notin disturbed' => task'[k] = task[k]
    BY DEF UpdateAction, CreateInvoice, CompletePayment, vars, local, history, Inv, Globals
<1>2. \A v \in Workers : WorkerOK(v)'
    BY <1>1 DEF Sync, WorkerOK
<1>3. SyncOK'
    BY <1>1 DEF Sync, SyncOK, Is, Rows, Pending, OpenFor
<1>4. ClosedOK'
    BY <1>1 DEF Sync, ClosedOK, Is, Rows, Pending, Close, Billing
<1> QED BY <1>2, <1>3, <1>4 DEF Sync

\* Every step keeps the promise about undisturbed bookings.
LEMMA NextSync == Inv /\ Sync /\ [Next]_vars => Sync'
<1> SUFFICES ASSUME Inv, Sync, [Next]_vars PROVE Sync'
    OBVIOUS
<1>1. ASSUME NEW w \in Workers, Start(w) PROVE Sync'
    <2>1. ~Busy(w)
        BY <1>1 DEF Start
    <2>2. ASSUME NEW b \in Bookings, NEW row \in Booking, Create(w, b, row) PROVE Sync'
        BY <2>1, <2>2, CreateSync
    <2>3. ASSUME NEW b \in Bookings, NEW to \in BookingStatus \cup {NONE},
                 NEW s \in Assignee, BeginUpdate(w, b, to, s)
          PROVE  Sync'
        BY <2>1, <2>3, BeginSync DEF BeginUpdate
    <2>4. ASSUME NEW b \in Bookings, BeginStart(w, b) PROVE Sync'
        BY <2>1, <2>4, BeginSync DEF BeginStart
    <2>5. ASSUME NEW b \in Bookings, NEW kind \in {"complete", "completeUnbilled"},
                 BeginComplete(w, b, kind)
          PROVE  Sync'
        BY <2>1, <2>5, BeginSync DEF BeginComplete
    <2>6. ASSUME NEW b \in Bookings, NEW s \in Staff, BeginAssign(w, b, s) PROVE Sync'
        BY <2>1, <2>6, BeginSync DEF BeginAssign
    <2>7. ASSUME NEW type \in {"DISPATCH_STAFF", "CONFIRM_BOOKING"}, ScanFirst(w, type)
          PROVE  Sync'
        BY <2>1, <2>7, ScanFirstSync
    <2>8. ASSUME ScanOverdue(w) PROVE Sync'
        BY <2>1, <2>8, ScanOverdueSync
    <2> QED BY <1>1, <2>2, <2>3, <2>4, <2>5, <2>6, <2>7, <2>8 DEF Start
<1>2. ASSUME NEW w \in Workers, Continue(w) PROVE Sync'
    <2>1. ASSUME NEW type \in {"DISPATCH_STAFF", "CONFIRM_BOOKING"}, ScanSecond(w, type)
          PROVE  Sync'
        BY <2>1, ScanSecondSync
    <2>2. ASSUME Statement(w) PROVE Sync'
        BY <2>2, StatementTyped, StatementEffect, TailSync
    <2>3. ASSUME SetOverdue(w) PROVE Sync'
        <3>1. /\ pc[w] = "agenda" /\ Head(agenda[w]).do = "markOverdue"
              /\ Proceed(w, Tail(agenda[w])) /\ Rest(w, since[w])
              /\ booking' = booking /\ task' = task /\ disturbed' = disturbed
            BY <2>3 DEF SetOverdue, Does
        <3>2. agenda[w][1].do = "markOverdue"
            BY <3>1, FirstEntry
        <3>3. \A b : /\ OpenFor(b, booking[b].staff).do # "markOverdue"
                     /\ Close(b, Finished.COMPLETED).do # "markOverdue"
            BY DEF OpenFor, Close, Entry
        <3>4. Effect(agenda[w][1])
            BY <3>1, <3>2, <3>3 DEF Effect
        <3> QED BY <3>1, <3>4, TailSync
    <2> QED BY <1>2, <2>1, <2>2, <2>3, ConflictSync, WriteSync, BillSync, RereadSync
            DEF Continue, Statement
<1>3. ASSUME NEW w \in Workers, Fail(w) PROVE Sync'
    BY <1>3, FailSync
<1> QED BY <1>1, <1>2, <1>3, OutsideSync DEF Next

LEMMA AlwaysSync == Spec => [](Inv /\ Sync)
BY InitInv, InitSync, NextInv, NextSync, PTL DEF Spec

\* When all calls have ended, no agenda and no bill is left.
LEMMA QuietIsDone ==
    ASSUME Inv, Quiet, NEW w \in Workers
    PROVE  (\A e : ~Pending(w, e)) /\ (\A b : ~Billing(w, b))
<1>1. pc[w] = "idle"
    BY DEF Quiet, Busy
<1> QED BY <1>1, NothingPending DEF Inv, Local, Billing

\* Between calls, the dispatch action of a confirmed booking that no two calls
\* have crossed on is assigned to whom the booking is assigned to.
THEOREM AssigneesAreInSync == Spec => []AssigneeInSync
<1>1. Inv /\ Sync => AssigneeInSync
    BY QuietIsDone DEF AssigneeInSync, Sync, SyncOK
<1> QED BY <1>1, AlwaysSync, PTL

\* Likewise, a completed job has no dispatch or confirmation left to do.
THEOREM CompletedJobsAreClosed == Spec => []CompletedIsClosed
<1>1. Inv /\ Sync => CompletedIsClosed
    BY QuietIsDone DEF CompletedIsClosed, Sync, ClosedOK
<1> QED BY <1>1, AlwaysSync, PTL
=============================================================================
