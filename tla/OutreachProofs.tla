---------------------------- MODULE OutreachProofs ----------------------------
(***************************************************************************)
(* What Outreach promises for every set of runs and every bound: states    *)
(* are well typed, nobody is contacted twice without a reason, nothing     *)
(* counts as done that was not, and only an old copy bothers a customer.   *)
(***************************************************************************)
EXTENDS Outreach, TLAPS

\* The stages of an invoice that have a reminder or a task.
LEMMA StagesOfDue ==
    /\ Len(Due) = 7
    /\ \A d \in 1..7 : Due[d] \in Stage \cup {"early", "late"}
    /\ "early" \notin Stage /\ "late" \notin Stage
<1>1. Len(Due) = 7
    BY DEF Due
<1>2. ASSUME NEW d \in 1..7 PROVE Due[d] \in Stage \cup {"early", "late"}
    BY <1>2 DEF Due, Stage
<1> QED BY <1>1, <1>2 DEF Stage

\* The labels of a worker, and what it works on at each of them.
Label == ByInvoice \cup ByCustomer \cup {"idle", "receipt", "thank"}
Item  == Stage \cup Offer \cup {"lead", "receipt", NONE}

Before == {"link", "remind", "receipt"}
After  == {"task", "record", "thank"}

ItemOK ==
    \A w \in Workers :
        /\ pc[w] \in {"link", "remind", "task", "record"} => item[w] \in Stage
        /\ pc[w] \in {"receipt", "thank"} => item[w] = "receipt"
        /\ pc[w] = "offer" => item[w] \in Offer
        /\ pc[w] = "leads" => item[w] = "lead"

Flags == {link, large, charged, future, thanked} \subseteq BOOLEAN /\ copy \in [Workers -> BOOLEAN]

Rows ==
    /\ status \in InvoiceStatus /\ due \in 1..Len(Due)
    /\ promise \in {"none", "later", "due"} /\ last \in Offer \cup {"recent"}
    /\ lead \in {"open", "cold", "closed"}
    /\ days \in 0..MaxDays /\ edits \in 0..MaxEdits /\ faults \in 0..MaxFaults

Work ==
    /\ tasks \subseteq Task /\ done \subseteq Stage
    /\ sent \in [Stage \cup {"receipt"} -> 0..MaxSent]
    /\ pc \in [Workers -> Label]
    /\ item \in [Workers -> Item]
    /\ crossed \cup broken \subseteq Stage \cup {"receipt"} /\ stale \subseteq Workers
    /\ ItemOK

Typed == Rows /\ Flags /\ Work

\* The initial states are well typed.
LEMMA InitTyped == Init => Typed
<1> SUFFICES ASSUME Init PROVE Typed
    OBVIOUS
<1>1. Rows
    BY BoundsAssumption DEF Init, Rows, InvoiceStatus
<1>2. Flags
    BY Zenon DEF Init, Flags
<1>3. Work
    BY BoundsAssumption DEF Init, Work, ItemOK, Label, Item
<1> QED BY <1>1, <1>2, <1>3 DEF Typed

\* The columns stay in their domains.
LEMMA StepRows == Rows /\ [Next]_vars => Rows'
<1> SUFFICES ASSUME Rows, [Next]_vars PROVE Rows'
    OBVIOUS
<1> USE StagesOfDue, BoundsAssumption DEF Rows, InvoiceStatus, Offer
<1>1. ASSUME NEW w \in Workers, ReadInvoices(w) PROVE Rows'
    BY <1>1 DEF ReadInvoices, Hold, invoice, customer, log, local, history, bounds
<1>2. ASSUME NEW w \in Workers, CheckStage(w) PROVE Rows'
    BY <1>2 DEF CheckStage, StartItem, Leave, Hold, HasStage, StageNow, invoice, customer,
       log, local, history, bounds
<1>3. ASSUME NEW w \in Workers, MakeLink(w) PROVE Rows'
    BY <1>3 DEF MakeLink, Leave, Hold, invoice, customer, log, local, history, bounds
<1>4. ASSUME NEW w \in Workers, SendReminder(w) PROVE Rows'
    BY <1>4 DEF SendReminder, Goto, Hold, invoice, customer, log, local, history, bounds
<1>5. ASSUME NEW w \in Workers, OpenStageTask(w) PROVE Rows'
    BY <1>5 DEF OpenStageTask, OpenTask, Goto, Hold, invoice, customer, log, local,
       history, bounds
<1>6. ASSUME NEW w \in Workers, RecordStage(w) PROVE Rows'
    BY <1>6 DEF RecordStage, Leave, Hold, invoice, customer, log, local, history, bounds
<1>7. ASSUME NEW w \in Workers, ReadPromises(w) PROVE Rows'
    BY <1>7 DEF ReadPromises, Hold, invoice, customer, log, local, history, bounds
<1>8. ASSUME NEW w \in Workers, FollowUp(w) PROVE Rows'
    BY <1>8 DEF FollowUp, OpenTask, Leave, Hold, invoice, customer, log, local, history,
       bounds
<1>9. ASSUME NEW w \in Workers, ReadPayments(w) PROVE Rows'
    BY <1>9 DEF ReadPayments, StartItem, Hold, invoice, customer, log, local, history,
       bounds
<1>10. ASSUME NEW w \in Workers, SendReceipt(w) PROVE Rows'
    BY <1>10 DEF SendReceipt, Goto, Hold, invoice, customer, log, local, history, bounds
<1>11. ASSUME NEW w \in Workers, RecordReceipt(w) PROVE Rows'
    BY <1>11 DEF RecordReceipt, Leave, Hold, invoice, customer, log, local, history, bounds
<1>12. ASSUME NEW w \in Workers, ReadProfiles(w) PROVE Rows'
    BY <1>12 DEF ReadProfiles, Hold, invoice, customer, log, local, history, bounds
<1>13. ASSUME NEW w \in Workers, ReadLeads(w) PROVE Rows'
    BY <1>13 DEF ReadLeads, Hold, invoice, customer, log, local, history, bounds
<1>14. ASSUME NEW w \in Workers, OpenOffer(w) PROVE Rows'
    BY <1>14 DEF OpenOffer, OpenTask, Leave, Hold, invoice, customer, log, local, history,
       bounds
<1>15. ASSUME NEW w \in Workers, FollowUpLead(w) PROVE Rows'
    BY <1>15 DEF FollowUpLead, OpenTask, Leave, Hold, invoice, customer, log, local,
       history, bounds
<1>16. ASSUME NEW w \in Workers, Abort(w) PROVE Rows'
    BY <1>16 DEF Abort, Leave, Hold, invoice, customer, log, local, history, bounds
<1>17. ASSUME NEW s \in {"PAID", "VOID"}, CloseInvoice(s) PROVE Rows'
    BY <1>17 DEF CloseInvoice, SetStatus, OldCopies, Edit, invoice, customer, log, local,
       history, bounds
<1>18. CASE NotePromise
    BY <1>18 DEF NotePromise, Edit, invoice, customer, log, local, history, bounds
<1>19. CASE RemindByHand
    BY <1>19 DEF RemindByHand, Edit, invoice, customer, log, local, history, bounds
<1>20. CASE SendInvoiceLink
    BY <1>20 DEF SendInvoiceLink, Edit, invoice, customer, log, local, history, bounds
<1>21. CASE ScanOverdue
    BY <1>21 DEF ScanOverdue, SetStatus, OldCopies, Edit, invoice, customer, log, local,
       history, bounds
<1>22. CASE CustomerPays
    BY <1>22 DEF CustomerPays, SetStatus, OldCopies, Edit, invoice, customer, log, local,
       history, bounds
<1>23. CASE Book
    BY <1>23 DEF Book, CustomerBooks, OldCopies, Edit, invoice, customer, log, local,
       history, bounds
<1>24. CASE Visit
    BY <1>24 DEF Visit, CustomerBooks, OldCopies, Edit, invoice, customer, log, local,
       history, bounds
<1>25. CASE Cancel
    BY <1>25 DEF Cancel, CustomerBooks, OldCopies, Edit, invoice, customer, log, local,
       history, bounds
<1>26. ASSUME NEW l \in {"open", "closed"}, TouchLead(l) PROVE Rows'
    BY <1>26 DEF TouchLead, OldCopies, Edit, invoice, customer, log, local, history, bounds
<1>27. CASE DaysPass
    BY <1>27 DEF DaysPass, invoice, customer, log, local, history, bounds
<1>28. CASE UNCHANGED vars
    BY <1>28 DEF vars, invoice, customer, log, local, history, bounds
<1> QED BY <1>1, <1>2, <1>3, <1>4, <1>5, <1>6, <1>7, <1>8, <1>9, <1>10, <1>11,
           <1>12, <1>13, <1>14, <1>15, <1>16, <1>17, <1>18, <1>19, <1>20,
           <1>21, <1>22, <1>23, <1>24, <1>25, <1>26, <1>27, <1>28 DEF Next,
           Others, Begin, Continue

\* The flags stay truth values.
LEMMA StepFlags == Flags /\ [Next]_vars => Flags'
<1> SUFFICES ASSUME Flags, [Next]_vars PROVE Flags'
    OBVIOUS
<1> USE DEF Flags
<1>1. ASSUME NEW w \in Workers, ReadInvoices(w) PROVE Flags'
    BY <1>1 DEF ReadInvoices, Hold, invoice, customer, log, local, history, bounds
<1>2. ASSUME NEW w \in Workers, CheckStage(w) PROVE Flags'
    BY <1>2 DEF CheckStage, StartItem, Leave, Hold, HasStage, StageNow, invoice, customer,
       log, local, history, bounds
<1>3. ASSUME NEW w \in Workers, MakeLink(w) PROVE Flags'
    BY <1>3 DEF MakeLink, Leave, Hold, invoice, customer, log, local, history, bounds
<1>4. ASSUME NEW w \in Workers, SendReminder(w) PROVE Flags'
    BY <1>4 DEF SendReminder, Goto, Hold, invoice, customer, log, local, history, bounds
<1>5. ASSUME NEW w \in Workers, OpenStageTask(w) PROVE Flags'
    BY <1>5 DEF OpenStageTask, OpenTask, Goto, Hold, invoice, customer, log, local,
       history, bounds
<1>6. ASSUME NEW w \in Workers, RecordStage(w) PROVE Flags'
    BY <1>6 DEF RecordStage, Leave, Hold, invoice, customer, log, local, history, bounds
<1>7. ASSUME NEW w \in Workers, ReadPromises(w) PROVE Flags'
    BY <1>7 DEF ReadPromises, Hold, invoice, customer, log, local, history, bounds
<1>8. ASSUME NEW w \in Workers, FollowUp(w) PROVE Flags'
    BY <1>8 DEF FollowUp, OpenTask, Leave, Hold, invoice, customer, log, local, history,
       bounds
<1>9. ASSUME NEW w \in Workers, ReadPayments(w) PROVE Flags'
    BY <1>9 DEF ReadPayments, StartItem, Hold, invoice, customer, log, local, history,
       bounds
<1>10. ASSUME NEW w \in Workers, SendReceipt(w) PROVE Flags'
    BY <1>10 DEF SendReceipt, Goto, Hold, invoice, customer, log, local, history, bounds
<1>11. ASSUME NEW w \in Workers, RecordReceipt(w) PROVE Flags'
    BY <1>11 DEF RecordReceipt, Leave, Hold, invoice, customer, log, local, history, bounds
<1>12. ASSUME NEW w \in Workers, ReadProfiles(w) PROVE Flags'
    BY <1>12 DEF ReadProfiles, Hold, invoice, customer, log, local, history, bounds
<1>13. ASSUME NEW w \in Workers, ReadLeads(w) PROVE Flags'
    BY <1>13 DEF ReadLeads, Hold, invoice, customer, log, local, history, bounds
<1>14. ASSUME NEW w \in Workers, OpenOffer(w) PROVE Flags'
    BY <1>14 DEF OpenOffer, OpenTask, Leave, Hold, invoice, customer, log, local, history,
       bounds
<1>15. ASSUME NEW w \in Workers, FollowUpLead(w) PROVE Flags'
    BY <1>15 DEF FollowUpLead, OpenTask, Leave, Hold, invoice, customer, log, local,
       history, bounds
<1>16. ASSUME NEW w \in Workers, Abort(w) PROVE Flags'
    BY <1>16 DEF Abort, Leave, Hold, invoice, customer, log, local, history, bounds
<1>17. ASSUME NEW s \in {"PAID", "VOID"}, CloseInvoice(s) PROVE Flags'
    BY <1>17 DEF CloseInvoice, SetStatus, OldCopies, Edit, invoice, customer, log, local,
       history, bounds
<1>18. CASE NotePromise
    BY <1>18 DEF NotePromise, Edit, invoice, customer, log, local, history, bounds
<1>19. CASE RemindByHand
    BY <1>19 DEF RemindByHand, Edit, invoice, customer, log, local, history, bounds
<1>20. CASE SendInvoiceLink
    BY <1>20 DEF SendInvoiceLink, Edit, invoice, customer, log, local, history, bounds
<1>21. CASE ScanOverdue
    BY <1>21 DEF ScanOverdue, SetStatus, OldCopies, Edit, invoice, customer, log, local,
       history, bounds
<1>22. CASE CustomerPays
    BY <1>22 DEF CustomerPays, SetStatus, OldCopies, Edit, invoice, customer, log, local,
       history, bounds
<1>23. CASE Book
    BY <1>23 DEF Book, CustomerBooks, OldCopies, Edit, invoice, customer, log, local,
       history, bounds
<1>24. CASE Visit
    BY <1>24 DEF Visit, CustomerBooks, OldCopies, Edit, invoice, customer, log, local,
       history, bounds
<1>25. CASE Cancel
    BY <1>25 DEF Cancel, CustomerBooks, OldCopies, Edit, invoice, customer, log, local,
       history, bounds
<1>26. ASSUME NEW l \in {"open", "closed"}, TouchLead(l) PROVE Flags'
    BY <1>26 DEF TouchLead, OldCopies, Edit, invoice, customer, log, local, history, bounds
<1>27. CASE DaysPass
    BY <1>27 DEF DaysPass, invoice, customer, log, local, history, bounds
<1>28. CASE UNCHANGED vars
    BY <1>28 DEF vars, invoice, customer, log, local, history, bounds
<1> QED BY <1>1, <1>2, <1>3, <1>4, <1>5, <1>6, <1>7, <1>8, <1>9, <1>10, <1>11,
           <1>12, <1>13, <1>14, <1>15, <1>16, <1>17, <1>18, <1>19, <1>20,
           <1>21, <1>22, <1>23, <1>24, <1>25, <1>26, <1>27, <1>28 DEF Next,
           Others, Begin, Continue

\* The log, the tasks and the agendas of the workers stay typed.
LEMMA StepWork == Typed /\ [Next]_vars => Work'
<1> SUFFICES ASSUME Typed, [Next]_vars PROVE Work'
    OBVIOUS
<1> USE StagesOfDue, BoundsAssumption DEF Typed, Rows, Work, ItemOK, Label, Item,
        ByInvoice, ByCustomer, Task
<1>1. ASSUME NEW w \in Workers, ReadInvoices(w) PROVE Work'
    BY <1>1 DEF ReadInvoices, Hold, invoice, customer, log, local, history, bounds
<1>2. ASSUME NEW w \in Workers, CheckStage(w) PROVE Work'
    BY <1>2 DEF CheckStage, StartItem, Leave, Hold, HasStage, StageNow, invoice, customer,
       log, local, history, bounds
<1>3. ASSUME NEW w \in Workers, MakeLink(w) PROVE Work'
    BY <1>3 DEF MakeLink, Leave, Hold, invoice, customer, log, local, history, bounds
<1>4. ASSUME NEW w \in Workers, SendReminder(w) PROVE Work'
    BY <1>4 DEF SendReminder, Goto, Hold, invoice, customer, log, local, history, bounds
<1>5. ASSUME NEW w \in Workers, OpenStageTask(w) PROVE Work'
    BY <1>5 DEF OpenStageTask, OpenTask, Goto, Hold, invoice, customer, log, local,
       history, bounds
<1>6. ASSUME NEW w \in Workers, RecordStage(w) PROVE Work'
    BY <1>6 DEF RecordStage, Leave, Hold, invoice, customer, log, local, history, bounds
<1>7. ASSUME NEW w \in Workers, ReadPromises(w) PROVE Work'
    BY <1>7 DEF ReadPromises, Hold, invoice, customer, log, local, history, bounds
<1>8. ASSUME NEW w \in Workers, FollowUp(w) PROVE Work'
    BY <1>8 DEF FollowUp, OpenTask, Leave, Hold, invoice, customer, log, local, history,
       bounds
<1>9. ASSUME NEW w \in Workers, ReadPayments(w) PROVE Work'
    BY <1>9 DEF ReadPayments, StartItem, Hold, invoice, customer, log, local, history,
       bounds
<1>10. ASSUME NEW w \in Workers, SendReceipt(w) PROVE Work'
    BY <1>10 DEF SendReceipt, Goto, Hold, invoice, customer, log, local, history, bounds
<1>11. ASSUME NEW w \in Workers, RecordReceipt(w) PROVE Work'
    BY <1>11 DEF RecordReceipt, Leave, Hold, invoice, customer, log, local, history, bounds
<1>12. ASSUME NEW w \in Workers, ReadProfiles(w) PROVE Work'
    BY <1>12 DEF ReadProfiles, Hold, invoice, customer, log, local, history, bounds
<1>13. ASSUME NEW w \in Workers, ReadLeads(w) PROVE Work'
    BY <1>13 DEF ReadLeads, Hold, invoice, customer, log, local, history, bounds
<1>14. ASSUME NEW w \in Workers, OpenOffer(w) PROVE Work'
    BY <1>14 DEF OpenOffer, OpenTask, Leave, Hold, invoice, customer, log, local, history,
       bounds
<1>15. ASSUME NEW w \in Workers, FollowUpLead(w) PROVE Work'
    BY <1>15 DEF FollowUpLead, OpenTask, Leave, Hold, invoice, customer, log, local,
       history, bounds
<1>16. ASSUME NEW w \in Workers, Abort(w) PROVE Work'
    BY <1>16 DEF Abort, Leave, Hold, invoice, customer, log, local, history, bounds
<1>17. ASSUME NEW s \in {"PAID", "VOID"}, CloseInvoice(s) PROVE Work'
    BY <1>17 DEF CloseInvoice, SetStatus, OldCopies, Edit, invoice, customer, log, local,
       history, bounds
<1>18. CASE NotePromise
    BY <1>18 DEF NotePromise, Edit, invoice, customer, log, local, history, bounds
<1>19. CASE RemindByHand
    BY <1>19 DEF RemindByHand, Edit, invoice, customer, log, local, history, bounds
<1>20. CASE SendInvoiceLink
    BY <1>20 DEF SendInvoiceLink, Edit, invoice, customer, log, local, history, bounds
<1>21. CASE ScanOverdue
    BY <1>21 DEF ScanOverdue, SetStatus, OldCopies, Edit, invoice, customer, log, local,
       history, bounds
<1>22. CASE CustomerPays
    BY <1>22 DEF CustomerPays, SetStatus, OldCopies, Edit, invoice, customer, log, local,
       history, bounds
<1>23. CASE Book
    BY <1>23 DEF Book, CustomerBooks, OldCopies, Edit, invoice, customer, log, local,
       history, bounds
<1>24. CASE Visit
    BY <1>24 DEF Visit, CustomerBooks, OldCopies, Edit, invoice, customer, log, local,
       history, bounds
<1>25. CASE Cancel
    BY <1>25 DEF Cancel, CustomerBooks, OldCopies, Edit, invoice, customer, log, local,
       history, bounds
<1>26. ASSUME NEW l \in {"open", "closed"}, TouchLead(l) PROVE Work'
    BY <1>26 DEF TouchLead, OldCopies, Edit, invoice, customer, log, local, history, bounds
<1>27. CASE DaysPass
    BY <1>27 DEF DaysPass, invoice, customer, log, local, history, bounds
<1>28. CASE UNCHANGED vars
    BY <1>28 DEF vars, invoice, customer, log, local, history, bounds
<1> QED BY <1>1, <1>2, <1>3, <1>4, <1>5, <1>6, <1>7, <1>8, <1>9, <1>10, <1>11,
           <1>12, <1>13, <1>14, <1>15, <1>16, <1>17, <1>18, <1>19, <1>20,
           <1>21, <1>22, <1>23, <1>24, <1>25, <1>26, <1>27, <1>28 DEF Next,
           Others, Begin, Continue

\* Rows, tasks and agendas stay in their domains, and who is past the check of
\* a stage works on one, however many runs overlap.
THEOREM TypeCorrect == Spec => []TypeOK
<1>1. Typed => TypeOK
    BY DEF Typed, Rows, Flags, Work, ItemOK, TypeOK, Label, Item
<1>2. Typed /\ [Next]_vars => Typed'
    BY StepRows, StepFlags, StepWork DEF Typed
<1> QED BY InitTyped, <1>1, <1>2, PTL DEF Spec

-----------------------------------------------------------------------------
\* Why the audit log is right: its writer has sent and opened before.
Behind ==
    \A w \in Workers :
        /\ pc[w] \in {"task", "record"} /\ item[w] \in Reminded => sent[item[w]] > 0
        /\ pc[w] = "record" /\ item[w] \in Escalated => item[w] \in tasks
        /\ pc[w] = "thank" => sent["receipt"] > 0

DoneInv == Typed /\ RecordedIsDone /\ Behind

\* Nothing is done or sent at first.
LEMMA InitDone == Init => DoneInv
BY InitTyped DEF DoneInv, Init, RecordedIsDone, Behind

\* Each statement keeps the audit log behind the contacts.
LEMMA StepDone == DoneInv /\ [Next]_vars => DoneInv'
<1> SUFFICES ASSUME Typed, Typed', RecordedIsDone, Behind, [Next]_vars
             PROVE  RecordedIsDone' /\ Behind'
    BY StepRows, StepFlags, StepWork DEF DoneInv, Typed
<1> USE BoundsAssumption DEF Typed, Work, ItemOK, RecordedIsDone, Behind, Reminded,
        Escalated, Stage, Sends
<1>1. ASSUME NEW w \in Workers, ReadInvoices(w) PROVE RecordedIsDone' /\ Behind'
    BY <1>1 DEF ReadInvoices, Hold, invoice, customer, log, local, history, bounds
<1>2. ASSUME NEW w \in Workers, CheckStage(w) PROVE RecordedIsDone' /\ Behind'
    BY <1>2 DEF CheckStage, StartItem, Leave, Hold, HasStage, StageNow, AlreadyRan,
       invoice, customer, log, local, history, bounds
<1>3. ASSUME NEW w \in Workers, MakeLink(w) PROVE RecordedIsDone' /\ Behind'
    BY <1>3 DEF MakeLink, Leave, Hold, invoice, customer, log, local, history, bounds
<1>4. ASSUME NEW w \in Workers, SendReminder(w) PROVE RecordedIsDone' /\ Behind'
    <2>1. /\ item[w] \in Stage /\ pc[w] = "remind" /\ pc' = [pc EXCEPT ![w] = "task"]
          /\ item' = item /\ UNCHANGED <<tasks, done, thanked>>
          /\ done \cup Reminded \subseteq Stage /\ pc \in [Workers -> Label]
          /\ \A v \in Workers : pc[v] \in {"task", "record"} => item[v] \in Stage
        BY <1>4 DEF SendReminder, Goto, Hold
    <2>2. sent \in [Stage \cup {"receipt"} -> Nat]
        BY DEF Work
    <2> HIDE DEF Stage, Reminded, Escalated, Typed, Work, ItemOK, Sends
    <2>3. \A i \in Stage \cup {"receipt"} : sent[i] > 0 => sent'[i] > 0
        BY <1>4, <2>1, <2>2 DEF SendReminder
    <2>4. item[w] \in Reminded => sent'[item[w]] > 0
        BY <1>4, <2>1, <2>2 DEF SendReminder, Sends
    <2>5. RecordedIsDone'
        BY <2>1, <2>3
    <2>6. Behind'
        BY <2>1, <2>3, <2>4
    <2> QED BY <2>5, <2>6
<1>5. ASSUME NEW w \in Workers, OpenStageTask(w) PROVE RecordedIsDone' /\ Behind'
    BY <1>5 DEF OpenStageTask, OpenTask, Goto, Hold, Creates, invoice, customer, log,
       local, history, bounds
<1>6. ASSUME NEW w \in Workers, RecordStage(w) PROVE RecordedIsDone' /\ Behind'
    BY <1>6 DEF RecordStage, Leave, Hold, invoice, customer, log, local, history, bounds
<1>7. ASSUME NEW w \in Workers, ReadPromises(w) PROVE RecordedIsDone' /\ Behind'
    BY <1>7 DEF ReadPromises, Hold, invoice, customer, log, local, history, bounds
<1>8. ASSUME NEW w \in Workers, FollowUp(w) PROVE RecordedIsDone' /\ Behind'
    BY <1>8 DEF FollowUp, OpenTask, Leave, Hold, invoice, customer, log, local, history,
       bounds
<1>9. ASSUME NEW w \in Workers, ReadPayments(w) PROVE RecordedIsDone' /\ Behind'
    BY <1>9 DEF ReadPayments, StartItem, Hold, invoice, customer, log, local, history,
       bounds
<1>10. ASSUME NEW w \in Workers, SendReceipt(w) PROVE RecordedIsDone' /\ Behind'
    BY <1>10 DEF SendReceipt, Goto, Hold, invoice, customer, log, local, history, bounds
<1>11. ASSUME NEW w \in Workers, RecordReceipt(w) PROVE RecordedIsDone' /\ Behind'
    BY <1>11 DEF RecordReceipt, Leave, Hold, invoice, customer, log, local, history, bounds
<1>12. ASSUME NEW w \in Workers, ReadProfiles(w) PROVE RecordedIsDone' /\ Behind'
    BY <1>12 DEF ReadProfiles, Hold, invoice, customer, log, local, history, bounds
<1>13. ASSUME NEW w \in Workers, ReadLeads(w) PROVE RecordedIsDone' /\ Behind'
    BY <1>13 DEF ReadLeads, Hold, invoice, customer, log, local, history, bounds
<1>14. ASSUME NEW w \in Workers, OpenOffer(w) PROVE RecordedIsDone' /\ Behind'
    BY <1>14 DEF OpenOffer, OpenTask, Leave, Hold, invoice, customer, log, local, history,
       bounds
<1>15. ASSUME NEW w \in Workers, FollowUpLead(w) PROVE RecordedIsDone' /\ Behind'
    BY <1>15 DEF FollowUpLead, OpenTask, Leave, Hold, invoice, customer, log, local,
       history, bounds
<1>16. ASSUME NEW w \in Workers, Abort(w) PROVE RecordedIsDone' /\ Behind'
    BY <1>16 DEF Abort, Leave, Hold, invoice, customer, log, local, history, bounds
<1>17. CASE Others
    BY <1>17 DEF Others, CloseInvoice, NotePromise, RemindByHand,
           SendInvoiceLink, ScanOverdue, CustomerPays, Book, Visit, Cancel,
           CustomerBooks, TouchLead, DaysPass, SetStatus, invoice, customer,
           log, local, history, bounds
<1>18. CASE UNCHANGED vars
    BY <1>18 DEF vars, invoice, customer, log, local, history, bounds
<1> QED BY <1>1, <1>2, <1>3, <1>4, <1>5, <1>6, <1>7, <1>8, <1>9, <1>10, <1>11,
           <1>12, <1>13, <1>14, <1>15, <1>16, <1>17, <1>18 DEF Next, Begin,
           Continue

\* Wherever a run fails: what the audit log says was done was done.
THEOREM DoneWasDone == Spec => []RecordedIsDone
<1>1. DoneInv => RecordedIsDone
    BY DEF DoneInv
<1> QED BY InitDone, StepDone, <1>1, PTL DEF Spec

-----------------------------------------------------------------------------
\* A worker that has not been told relies on what is still so.
Current ==
    \A w \in Workers \ stale :
        /\ pc[w] \in ByInvoice => Open
        /\ pc[w] = "offer" => ~future
        /\ pc[w] = "leads" => lead = "cold"

CopyInv == Typed /\ Current

\* No worker has a copy at first.
LEMMA InitCurrent == Init => CopyInv
BY InitTyped DEF CopyInv, Init, Current, ByInvoice

\* Whoever writes tells the workers with a copy.
LEMMA StepCurrent == CopyInv /\ [Next]_vars => CopyInv'
<1> SUFFICES ASSUME Typed, Typed', Current, [Next]_vars PROVE Current'
    BY StepRows, StepFlags, StepWork DEF CopyInv, Typed
<1> USE NoneAssumption DEF Typed, Rows, Work, Current, ByInvoice, Open, InvoiceStatus,
        OldCopies, Label, ByCustomer
<1>1. ASSUME NEW w \in Workers, ReadInvoices(w) PROVE Current'
    BY <1>1 DEF ReadInvoices, Hold, invoice, customer, log, local, history, bounds,
       Collectable
<1>2. ASSUME NEW w \in Workers, CheckStage(w) PROVE Current'
    BY <1>2 DEF CheckStage, StartItem, Leave, Hold, HasStage, StageNow, AlreadyRan,
       invoice, customer, log, local, history, bounds, Collectable
<1>3. ASSUME NEW w \in Workers, MakeLink(w) PROVE Current'
    BY <1>3 DEF MakeLink, Leave, Hold, invoice, customer, log, local, history, bounds,
       Collectable
<1>4. ASSUME NEW w \in Workers, SendReminder(w) PROVE Current'
    BY <1>4 DEF SendReminder, Goto, Hold, invoice, customer, log, local, history, bounds,
       Collectable
<1>5. ASSUME NEW w \in Workers, OpenStageTask(w) PROVE Current'
    BY <1>5 DEF OpenStageTask, OpenTask, Goto, Hold, Creates, invoice, customer, log,
       local, history, bounds, Collectable
<1>6. ASSUME NEW w \in Workers, RecordStage(w) PROVE Current'
    BY <1>6 DEF RecordStage, Leave, Hold, invoice, customer, log, local, history, bounds,
       Collectable
<1>7. ASSUME NEW w \in Workers, ReadPromises(w) PROVE Current'
    BY <1>7 DEF ReadPromises, Hold, invoice, customer, log, local, history, bounds,
       Collectable
<1>8. ASSUME NEW w \in Workers, FollowUp(w) PROVE Current'
    BY <1>8 DEF FollowUp, OpenTask, Leave, Hold, invoice, customer, log, local, history,
       bounds, Collectable
<1>9. ASSUME NEW w \in Workers, ReadPayments(w) PROVE Current'
    BY <1>9 DEF ReadPayments, StartItem, Hold, invoice, customer, log, local, history,
       bounds, Collectable
<1>10. ASSUME NEW w \in Workers, SendReceipt(w) PROVE Current'
    BY <1>10 DEF SendReceipt, Goto, Hold, invoice, customer, log, local, history, bounds,
       Collectable
<1>11. ASSUME NEW w \in Workers, RecordReceipt(w) PROVE Current'
    BY <1>11 DEF RecordReceipt, Leave, Hold, invoice, customer, log, local, history,
       bounds, Collectable
<1>12. ASSUME NEW w \in Workers, ReadProfiles(w) PROVE Current'
    BY <1>12 DEF ReadProfiles, Hold, invoice, customer, log, local, history, bounds,
       Collectable
<1>13. ASSUME NEW w \in Workers, ReadLeads(w) PROVE Current'
    BY <1>13 DEF ReadLeads, Hold, invoice, customer, log, local, history, bounds,
       Collectable
<1>14. ASSUME NEW w \in Workers, OpenOffer(w) PROVE Current'
    BY <1>14 DEF OpenOffer, OpenTask, Leave, Hold, invoice, customer, log, local, history,
       bounds, Collectable
<1>15. ASSUME NEW w \in Workers, FollowUpLead(w) PROVE Current'
    BY <1>15 DEF FollowUpLead, OpenTask, Leave, Hold, invoice, customer, log, local,
       history, bounds, Collectable
<1>16. ASSUME NEW w \in Workers, Abort(w) PROVE Current'
    BY <1>16 DEF Abort, Leave, Hold, invoice, customer, log, local, history, bounds,
       Collectable
<1>17. CASE Others
    BY <1>17 DEF Others, CloseInvoice, NotePromise, RemindByHand,
           SendInvoiceLink, ScanOverdue, CustomerPays, Book, Visit, Cancel,
           CustomerBooks, TouchLead, DaysPass, SetStatus, invoice, customer,
           log, local, history, bounds, Collectable
<1>18. CASE UNCHANGED vars
    BY <1>18 DEF vars, invoice, customer, log, local, history, bounds, Collectable
<1> QED BY <1>1, <1>2, <1>3, <1>4, <1>5, <1>6, <1>7, <1>8, <1>9, <1>10, <1>11,
           <1>12, <1>13, <1>14, <1>15, <1>16, <1>17, <1>18 DEF Next, Begin,
           Continue

\* For any runs, scans and people at work: only an old copy reminds somebody of
\* what is settled, or offers and chases what was attended to.
THEOREM OldCopiesOnly == Spec => OnlyOldCopiesBother
<1> DEFINE Good == \A w \in Workers \ stale :
                     pc'[w] # pc[w] /\ UNCHANGED faults => ~Bothers(w)
<1>1. CopyInv => Good
    BY DEF CopyInv, Current, Bothers, ByInvoice
<1>2. CopyInv /\ [Next]_vars => [Good]_vars
    BY <1>1
<1> QED BY InitCurrent, StepCurrent, <1>2, PTL DEF Spec, OnlyOldCopiesBother

-----------------------------------------------------------------------------
\* Worker w works on i; it may still contact the customer; it has.
On(w, i)   == item[w] = i /\ pc[w] \in Before \cup After
Will(w, i) == item[w] = i /\ pc[w] \in Before
Has(w, i)  == item[w] = i /\ pc[w] \in After

Recorded(i) == IF i = "receipt" THEN thanked ELSE i \in done

\* Why a stage that nobody crossed or failed at has one contact: one worker at
\* most is at it, and after the contact either it still is, or the log says so.
Alone(i) ==
    /\ sent[i] <= 1
    /\ \A v, w \in Workers : On(v, i) /\ On(w, i) => v = w
    /\ \A w \in Workers : Will(w, i) => sent[i] = 0
    /\ sent[i] # 0 => Recorded(i) \/ \E w \in Workers : Has(w, i)

ContactInv == Typed /\ \A i \in (Stage \cup {"receipt"}) \ (crossed \cup broken) : Alone(i)

\* Nobody has been contacted at first.
LEMMA InitAlone == Init => ContactInv
<1> SUFFICES ASSUME Init PROVE \A i \in Stage \cup {"receipt"} : Alone(i)
    BY InitTyped DEF ContactInv
<1>1. \A w \in Workers : pc[w] = "idle"
    BY DEF Init
<1>2. \A i \in Stage \cup {"receipt"} : sent[i] = 0
    BY DEF Init
<1> QED BY <1>1, <1>2 DEF Alone, On, Will, Has, Before, After

\* A reason is never taken back.
LEMMA ReasonsStay == Typed /\ [Next]_vars => crossed \cup broken \subseteq crossed' \cup broken'
<1> SUFFICES ASSUME [Next]_vars PROVE crossed \cup broken \subseteq crossed' \cup broken'
    OBVIOUS
<1>1. ASSUME NEW w \in Workers, ReadInvoices(w) PROVE crossed \cup broken \subseteq crossed' \cup broken'
    BY <1>1 DEF ReadInvoices, Hold, invoice, customer, log, local, history, bounds
<1>2. ASSUME NEW w \in Workers, CheckStage(w) PROVE crossed \cup broken \subseteq crossed' \cup broken'
    BY <1>2 DEF CheckStage, StartItem, Leave, Hold, HasStage, StageNow, AlreadyRan,
       invoice, customer, log, local, history, bounds
<1>3. ASSUME NEW w \in Workers, MakeLink(w) PROVE crossed \cup broken \subseteq crossed' \cup broken'
    BY <1>3 DEF MakeLink, Leave, Hold, invoice, customer, log, local, history, bounds
<1>4. ASSUME NEW w \in Workers, SendReminder(w) PROVE crossed \cup broken \subseteq crossed' \cup broken'
    BY <1>4 DEF SendReminder, Goto, Hold, invoice, customer, log, local, history, bounds
<1>5. ASSUME NEW w \in Workers, OpenStageTask(w) PROVE crossed \cup broken \subseteq crossed' \cup broken'
    BY <1>5 DEF OpenStageTask, OpenTask, Goto, Hold, Creates, invoice, customer, log,
       local, history, bounds
<1>6. ASSUME NEW w \in Workers, RecordStage(w) PROVE crossed \cup broken \subseteq crossed' \cup broken'
    BY <1>6 DEF RecordStage, Leave, Hold, invoice, customer, log, local, history, bounds
<1>7. ASSUME NEW w \in Workers, ReadPromises(w) PROVE crossed \cup broken \subseteq crossed' \cup broken'
    BY <1>7 DEF ReadPromises, Hold, invoice, customer, log, local, history, bounds
<1>8. ASSUME NEW w \in Workers, FollowUp(w) PROVE crossed \cup broken \subseteq crossed' \cup broken'
    BY <1>8 DEF FollowUp, OpenTask, Leave, Hold, invoice, customer, log, local, history,
       bounds
<1>9. ASSUME NEW w \in Workers, ReadPayments(w) PROVE crossed \cup broken \subseteq crossed' \cup broken'
    BY <1>9 DEF ReadPayments, StartItem, Hold, invoice, customer, log, local, history,
       bounds
<1>10. ASSUME NEW w \in Workers, SendReceipt(w) PROVE crossed \cup broken \subseteq crossed' \cup broken'
    BY <1>10 DEF SendReceipt, Goto, Hold, invoice, customer, log, local, history, bounds
<1>11. ASSUME NEW w \in Workers, RecordReceipt(w) PROVE crossed \cup broken \subseteq crossed' \cup broken'
    BY <1>11 DEF RecordReceipt, Leave, Hold, invoice, customer, log, local, history, bounds
<1>12. ASSUME NEW w \in Workers, ReadProfiles(w) PROVE crossed \cup broken \subseteq crossed' \cup broken'
    BY <1>12 DEF ReadProfiles, Hold, invoice, customer, log, local, history, bounds
<1>13. ASSUME NEW w \in Workers, ReadLeads(w) PROVE crossed \cup broken \subseteq crossed' \cup broken'
    BY <1>13 DEF ReadLeads, Hold, invoice, customer, log, local, history, bounds
<1>14. ASSUME NEW w \in Workers, OpenOffer(w) PROVE crossed \cup broken \subseteq crossed' \cup broken'
    BY <1>14 DEF OpenOffer, OpenTask, Leave, Hold, invoice, customer, log, local, history,
       bounds
<1>15. ASSUME NEW w \in Workers, FollowUpLead(w) PROVE crossed \cup broken \subseteq crossed' \cup broken'
    BY <1>15 DEF FollowUpLead, OpenTask, Leave, Hold, invoice, customer, log, local,
       history, bounds
<1>16. ASSUME NEW w \in Workers, Abort(w) PROVE crossed \cup broken \subseteq crossed' \cup broken'
    BY <1>16 DEF Abort, Leave, Hold, invoice, customer, log, local, history, bounds
<1>17. CASE Others
    BY <1>17 DEF Others, CloseInvoice, NotePromise, RemindByHand,
           SendInvoiceLink, ScanOverdue, CustomerPays, Book, Visit, Cancel,
           CustomerBooks, TouchLead, DaysPass, SetStatus, invoice, customer,
           log, local, history, bounds
<1>18. CASE UNCHANGED vars
    BY <1>18 DEF vars, invoice, customer, log, local, history, bounds
<1> QED BY <1>1, <1>2, <1>3, <1>4, <1>5, <1>6, <1>7, <1>8, <1>9, <1>10, <1>11,
           <1>12, <1>13, <1>14, <1>15, <1>16, <1>17, <1>18 DEF Next, Begin,
           Continue

\* Each statement keeps the one contact of a stage without a reason.
LEMMA StepAlone == ContactInv /\ [Next]_vars => ContactInv'
<1> SUFFICES ASSUME Typed, Typed', [Next]_vars, NEW i \in Stage \cup {"receipt"},
                    i \notin crossed' \cup broken', Alone(i)
             PROVE  Alone(i)'
    BY StepRows, StepFlags, StepWork, ReasonsStay DEF ContactInv, Typed
<1> USE BoundsAssumption, StagesOfDue DEF Typed, Rows, Work, ItemOK, Alone, On, Will, Has,
        Before, After,
        Recorded, Stage, Label
<1>1. ASSUME NEW w \in Workers, ReadInvoices(w) PROVE Alone(i)'
    BY <1>1 DEF ReadInvoices, Hold, invoice, customer, log, local, history, bounds
<1>2. ASSUME NEW w \in Workers, CheckStage(w) PROVE Alone(i)'
    BY <1>2 DEF CheckStage, StartItem, Leave, Hold, HasStage, StageNow, AlreadyRan,
       invoice, customer, log, local, history, bounds
<1>3. ASSUME NEW w \in Workers, MakeLink(w) PROVE Alone(i)'
    BY <1>3 DEF MakeLink, Leave, Hold, invoice, customer, log, local, history, bounds
<1>4. ASSUME NEW w \in Workers, SendReminder(w) PROVE Alone(i)'
    BY <1>4 DEF SendReminder, Goto, Hold, invoice, customer, log, local, history, bounds
<1>5. ASSUME NEW w \in Workers, OpenStageTask(w) PROVE Alone(i)'
    BY <1>5 DEF OpenStageTask, OpenTask, Goto, Hold, Creates, invoice, customer, log,
       local, history, bounds
<1>6. ASSUME NEW w \in Workers, RecordStage(w) PROVE Alone(i)'
    BY <1>6 DEF RecordStage, Leave, Hold, invoice, customer, log, local, history, bounds
<1>7. ASSUME NEW w \in Workers, ReadPromises(w) PROVE Alone(i)'
    BY <1>7 DEF ReadPromises, Hold, invoice, customer, log, local, history, bounds
<1>8. ASSUME NEW w \in Workers, FollowUp(w) PROVE Alone(i)'
    BY <1>8 DEF FollowUp, OpenTask, Leave, Hold, invoice, customer, log, local, history,
       bounds
<1>9. ASSUME NEW w \in Workers, ReadPayments(w) PROVE Alone(i)'
    BY <1>9 DEF ReadPayments, StartItem, Hold, invoice, customer, log, local, history,
       bounds
<1>10. ASSUME NEW w \in Workers, SendReceipt(w) PROVE Alone(i)'
    BY <1>10 DEF SendReceipt, Goto, Hold, invoice, customer, log, local, history, bounds
<1>11. ASSUME NEW w \in Workers, RecordReceipt(w) PROVE Alone(i)'
    BY <1>11 DEF RecordReceipt, Leave, Hold, invoice, customer, log, local, history, bounds
<1>12. ASSUME NEW w \in Workers, ReadProfiles(w) PROVE Alone(i)'
    BY <1>12 DEF ReadProfiles, Hold, invoice, customer, log, local, history, bounds
<1>13. ASSUME NEW w \in Workers, ReadLeads(w) PROVE Alone(i)'
    BY <1>13 DEF ReadLeads, Hold, invoice, customer, log, local, history, bounds
<1>14. ASSUME NEW w \in Workers, OpenOffer(w) PROVE Alone(i)'
    BY <1>14 DEF OpenOffer, OpenTask, Leave, Hold, invoice, customer, log, local, history,
       bounds
<1>15. ASSUME NEW w \in Workers, FollowUpLead(w) PROVE Alone(i)'
    BY <1>15 DEF FollowUpLead, OpenTask, Leave, Hold, invoice, customer, log, local,
       history, bounds
<1>16. ASSUME NEW w \in Workers, Abort(w) PROVE Alone(i)'
    BY <1>16 DEF Abort, Leave, Hold, invoice, customer, log, local, history, bounds
<1>17. CASE Others
    BY <1>17 DEF Others, CloseInvoice, NotePromise, RemindByHand,
           SendInvoiceLink, ScanOverdue, CustomerPays, Book, Visit, Cancel,
           CustomerBooks, TouchLead, DaysPass, SetStatus, invoice, customer,
           log, local, history, bounds
<1>18. CASE UNCHANGED vars
    BY <1>18 DEF vars, invoice, customer, log, local, history, bounds
<1> QED BY <1>1, <1>2, <1>3, <1>4, <1>5, <1>6, <1>7, <1>8, <1>9, <1>10, <1>11,
           <1>12, <1>13, <1>14, <1>15, <1>16, <1>17, <1>18 DEF Next, Begin,
           Continue

\* For every stage and the receipt, any number of runs and wherever they fail:
\* a second contact has two runs between the look and the entry, or a failure.
THEOREM CustomersAreContactedOnce == Spec => []ContactedOnce
<1>1. ContactInv => ContactedOnce
    BY BoundsAssumption DEF ContactInv, Typed, Work, Alone, ContactedOnce
<1> QED BY InitAlone, StepAlone, <1>1, PTL DEF Spec
=============================================================================
