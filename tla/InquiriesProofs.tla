--------------------------- MODULE InquiriesProofs ---------------------------
(***************************************************************************)
(* What Inquiries promises for every set of intents, messages and calls:   *)
(* an inquiry is booked once, its booking can be found and its lead is     *)
(* won, and the receptionist does not take back what is settled, but for   *)
(* the reasons the histories name.                                         *)
(***************************************************************************)
EXTENDS Inquiries, TLAPS

\* A call works on an inquiry exactly while it writes or converts it, and holds
\* the booking it has made until the end.
LocalOK ==
    \A w \in Workers :
        /\ key[w] # NONE <=> pc[w] \in Converting \cup Writing
        /\ pc[w] \in {"record", "winlead", "win", "winintent"} => made[w] # 0

\* A lead with the id of an intent has its intent.
LeadOK == \A i \in Intents : lead[i] # NONE => intent[i] # NONE

TypeInv == TypeOK /\ LocalOK /\ LeadOK

USE DEF Labels, Converting, Checked, Writing

\* No intent and no lead is the missing one, and the lead by hand has no intent.
LEMMA RowsExist ==
    /\ \A r \in Intent \cup Lead : r # NONE
    /\ \A l \in Leads : l # NONE
    /\ ByHand \notin Intents /\ Leads = Intents \cup {ByHand}
    /\ 0 \in Booking
BY NamesAssumption, BoundsAssumption DEF Leads, Booking

\* An ended call holds nothing.
LEMMA LeaveSets ==
    ASSUME TypeInv, NEW w \in Workers, Leave(w)
    PROVE  /\ pc'[w] = "idle" /\ key'[w] = NONE
           /\ \A v \in Workers \ {w} : /\ pc'[v] = pc[v] /\ key'[v] = key[v]
                                       /\ data'[v] = data[v] /\ made'[v] = made[v]
           /\ pc' \in [Workers -> Labels]
           /\ key' \in [Workers -> Leads \cup {NONE}]
           /\ data' \in [Workers -> Details \cup {NONE}]
           /\ made' \in [Workers -> Booking]
BY RowsExist DEF Leave, Goto, TypeInv, TypeOK

\* No row of an intent or lead is removed or loses its type.
LEMMA RowsTyped ==
    ASSUME TypeInv, NEW i \in Intents, intent[i] # NONE
    PROVE  intent[i] \in Intent
BY DEF TypeInv, TypeOK

\* upsertFromAutomation writes the lead of one intent, and keeps its booking.
LEMMA UpsertTyped ==
    ASSUME TypeInv, NEW i \in Intents,
           \E status \in IntentStatus, customer \in BOOLEAN, booking \in Booking :
              UpsertLead(i, status, customer, booking)
    PROVE  /\ lead' \in [Leads -> Lead \cup {NONE}]
           /\ lead'[i] \in Lead
           /\ \A l \in Leads \ {i} : lead'[l] = lead[l]
<1>0. PICK status \in IntentStatus, customer \in BOOLEAN, booking \in Booking :
         UpsertLead(i, status, customer, booking)
    OBVIOUS
<1>1. i \in Leads /\ LeadStatusOf(status, booking) \in LeadStatus
    BY RowsExist DEF LeadStatusOf, LeadStatus
<1>2. CASE lead[i] = NONE
    <2>1. lead' = [lead EXCEPT ![i] = [status |-> LeadStatusOf(status, booking),
                                       customer |-> customer, booking |-> booking]]
        BY <1>0, <1>2 DEF UpsertLead
    <2> QED BY <1>1, <2>1 DEF TypeInv, TypeOK, Lead
<1>3. CASE lead[i] # NONE
    <2>1. lead[i] \in Lead
        BY <1>1, <1>3 DEF TypeInv, TypeOK
    <2>2. PICK c \in BOOLEAN : c = (lead[i].customer \/ customer)
        <3>1. lead[i].customer \in BOOLEAN
            BY <2>1 DEF Lead
        <3> QED BY <3>1, Zenon
    <2>3. lead' = [lead EXCEPT ![i] = [lead[i] EXCEPT !.status = LeadStatusOf(status, booking),
                                                      !.customer = c]]
        BY <1>0, <1>3, <2>2, Zenon DEF UpsertLead
    <2>4. PICK l \in Lead : l = [lead[i] EXCEPT !.status = LeadStatusOf(status, booking), !.customer = c]
        BY <1>1, <2>1 DEF Lead
    <2>5. lead' = [lead EXCEPT ![i] = l]
        BY <2>3, <2>4, Zenon
    <2> QED BY <1>1, <2>5 DEF TypeInv, TypeOK
<1> QED BY <1>2, <1>3

\* The initial state is well typed.
LEMMA InitTyped == Init => TypeInv
BY RowsExist, BoundsAssumption DEF Init, TypeInv, TypeOK, LocalOK, LeadOK, Booking

\* A step that keeps the rows or writes one, and moves one call, keeps the types
\* of what the other calls rely on.
LEMMA LocalTyped ==
    ASSUME TypeInv, NEW w \in Workers,
           \A i \in Intents : intent[i] # NONE => intent'[i] \in Intent,
           \A l \in Leads : lead[l] # NONE => lead'[l] \in Lead,
           \A v \in Workers \ {w} : pc'[v] = pc[v] /\ key'[v] = key[v] /\ data'[v] = data[v]
                                    /\ made'[v] = made[v],
           key'[w] # NONE <=> pc'[w] \in Converting \cup Writing,
           pc'[w] \in {"record", "winlead", "win", "winintent"} => made'[w] # 0,
           pc'[w] \in {"find", "insert", "update", "lead"} => data'[w] \in Details,
           pc'[w] \in {"update", "lead", "book", "record", "winlead", "winintent"} =>
              key'[w] \in Intents /\ intent'[key'[w]] \in Intent,
           pc'[w] \in {"convert", "win", "winintent"} =>
              key'[w] \in Leads /\ lead'[key'[w]] \in Lead
    PROVE  /\ \A v \in Workers :
                /\ pc'[v] \in {"find", "insert", "update", "lead"} => data'[v] \in Details
                /\ pc'[v] \in {"update", "lead", "book", "record", "winlead", "winintent"} =>
                     key'[v] \in Intents /\ intent'[key'[v]] \in Intent
                /\ pc'[v] \in {"convert", "win", "winintent"} =>
                     key'[v] \in Leads /\ lead'[key'[v]] \in Lead
           /\ LocalOK'
<1>1. \A v \in Workers \ {w} :
        /\ pc'[v] \in {"find", "insert", "update", "lead"} => data'[v] \in Details
        /\ pc'[v] \in {"update", "lead", "book", "record", "winlead", "winintent"} =>
             key'[v] \in Intents /\ intent'[key'[v]] \in Intent
        /\ pc'[v] \in {"convert", "win", "winintent"} =>
             key'[v] \in Leads /\ lead'[key'[v]] \in Lead
    BY RowsExist DEF TypeInv, TypeOK
<1>2. LocalOK'
    BY DEF TypeInv, LocalOK
<1> QED BY <1>1, <1>2

\* An intent keeps its type when the receptionist, a manager or a conversion
\* writes it.
LEMMA IntentTyped ==
    ASSUME NEW r \in Intent
    PROVE  /\ [r EXCEPT !.status = "HANDED_OFF"] \in Intent
           /\ \A b \in Booking : [r EXCEPT !.status = "BOOKED", !.booking = b] \in Intent
           /\ \A d \in Details :
                 [status |-> IntentStatusOf(d), customer |-> r.customer \/ d.phone,
                  service |-> r.service \/ d.service, booking |-> r.booking] \in Intent
<1>1. /\ [r EXCEPT !.status = "HANDED_OFF"] \in Intent
      /\ \A b \in Booking : [r EXCEPT !.status = "BOOKED", !.booking = b] \in Intent
    BY DEF Intent, IntentStatus
<1>2. ASSUME NEW d \in Details
      PROVE  [status |-> IntentStatusOf(d), customer |-> r.customer \/ d.phone,
              service |-> r.service \/ d.service, booking |-> r.booking] \in Intent
    <2>1. /\ r.customer \in BOOLEAN /\ r.service \in BOOLEAN /\ r.booking \in Booking
          /\ d.phone \in BOOLEAN /\ d.service \in BOOLEAN
          /\ IntentStatusOf(d) \in IntentStatus
        BY DEF Intent, Details, IntentStatusOf, IntentStatus
    <2>2. PICK c \in BOOLEAN : c = (r.customer \/ d.phone)
        BY <2>1, Zenon
    <2>3. PICK e \in BOOLEAN : e = (r.service \/ d.service)
        BY <2>1, Zenon
    <2>4. [status |-> IntentStatusOf(d), customer |-> c, service |-> e, booking |-> r.booking]
             \in Intent
        BY <2>1 DEF Intent
    <2> QED BY <2>2, <2>3, <2>4, Zenon
<1> QED BY <1>1, <1>2

\* A new intent has the type of one.
LEMMA NewIntentTyped ==
    ASSUME NEW d \in Details
    PROVE  [status |-> IntentStatusOf(d), customer |-> d.phone, service |-> d.service,
            booking |-> 0] \in Intent
BY RowsExist DEF Intent, Details, IntentStatusOf, IntentStatus

-----------------------------------------------------------------------------
\* Every statement, edit and fault keeps the types.
LEMMA StepTyped == TypeInv /\ [Next]_vars => TypeInv'
<1> SUFFICES ASSUME TypeInv, [Next]_vars PROVE TypeInv'
    OBVIOUS
<1> USE RowsExist, BoundsAssumption DEF rows, local, history
<1> DEFINE Kept(w) == \A v \in Workers \ {w} : pc'[v] = pc[v] /\ key'[v] = key[v]
                                          /\ data'[v] = data[v] /\ made'[v] = made[v]
<1>0. /\ \A i \in Intents : intent[i] # NONE => intent[i] \in Intent
      /\ \A l \in Leads : lead[l] # NONE => lead[l] \in Lead
    BY DEF TypeInv, TypeOK
<1>1. ASSUME NEW w \in Workers, NEW d \in Details, BeginMessage(w, d) \/ CreateIntent(w, d)
      PROVE  TypeInv'
    <2>1. Kept(w) /\ pc'[w] \in {"find", "insert"} /\ data'[w] \in Details /\ key'[w] = NONE
        BY <1>1 DEF BeginMessage, CreateIntent, Goto, TypeInv, TypeOK, LocalOK
    <2> QED BY <1>0, <1>1, <2>1, LocalTyped DEF BeginMessage, CreateIntent, Goto, TypeInv, TypeOK, LeadOK
<1>2. ASSUME NEW w \in Workers, NEW i \in Intents, FindIntent(w, i) PROVE TypeInv'
    <2>1. Kept(w) /\ pc'[w] = "update" /\ data'[w] \in Details /\ key'[w] = i /\ intent[i] # NONE
        BY <1>2 DEF FindIntent, CollectingIntents, Goto, TypeInv, TypeOK
    <2>2. reopened' \subseteq Leads
        BY <1>2 DEF FindIntent, Add, TypeInv, TypeOK
    <2> QED BY <1>0, <1>2, <2>1, <2>2, LocalTyped DEF FindIntent, Goto, TypeInv, TypeOK, LeadOK
<1>3. ASSUME NEW w \in Workers, FindNoIntent(w) PROVE TypeInv'
    <2>1. Kept(w) /\ pc'[w] = "insert" /\ data'[w] \in Details /\ key'[w] = NONE
        BY <1>3 DEF FindNoIntent, Goto, TypeInv, TypeOK, LocalOK
    <2> QED BY <1>0, <1>3, <2>1, LocalTyped DEF FindNoIntent, Goto, TypeInv, TypeOK, LeadOK
<1>4. ASSUME NEW w \in Workers, UpdateIntent(w) PROVE TypeInv'
    <2>1. /\ Kept(w) /\ pc'[w] = "lead" /\ data'[w] \in Details /\ key'[w] = key[w]
          /\ key[w] \in Intents /\ intent[key[w]] \in Intent
        BY <1>4 DEF UpdateIntent, Goto, TypeInv, TypeOK
    <2>2. PICK r \in Intent : intent' = [intent EXCEPT ![key[w]] = r]
        BY <1>4, <2>1, IntentTyped DEF UpdateIntent
    <2>3. /\ intent' \in [Intents -> Intent \cup {NONE}]
          /\ \A i \in Intents : intent[i] # NONE => intent'[i] \in Intent
          /\ intent'[key[w]] \in Intent
        BY <1>0, <2>1, <2>2 DEF TypeInv, TypeOK
    <2> QED BY <1>0, <1>4, <2>1, <2>3, LocalTyped DEF UpdateIntent, Goto, TypeInv, TypeOK, LeadOK
<1>5. ASSUME NEW w \in Workers, NEW i \in Intents, InsertIntent(w, i) PROVE TypeInv'
    <2>1. Kept(w) /\ pc'[w] = "lead" /\ data'[w] = data[w] /\ data[w] \in Details /\ key'[w] = i
        BY <1>5 DEF InsertIntent, AfterInsert, Goto, TypeInv, TypeOK
    <2>2. PICK r \in Intent : intent' = [intent EXCEPT ![i] = r]
        BY <1>5, <2>1, NewIntentTyped DEF InsertIntent
    <2>3. /\ intent' \in [Intents -> Intent \cup {NONE}]
          /\ \A j \in Intents : intent[j] # NONE => intent'[j] \in Intent
          /\ intent'[i] \in Intent
        BY <1>0, <2>2 DEF TypeInv, TypeOK
    <2> QED BY <1>0, <1>5, <2>1, <2>3, LocalTyped
            DEF InsertIntent, AfterInsert, Goto, TypeInv, TypeOK, LeadOK
<1>6. ASSUME NEW w \in Workers, LeadOfIntent(w) \/ WinLeadOfIntent(w) PROVE TypeInv'
    <2>1. key[w] \in Intents /\ Leave(w) /\ intent[key[w]] # NONE
          /\ UNCHANGED <<intent, bookings, history, edits, faults>>
        BY <1>6 DEF LeadOfIntent, WinLeadOfIntent, TypeInv, TypeOK
    <2>2. \E status \in IntentStatus, customer \in BOOLEAN, booking \in Booking :
             UpsertLead(key[w], status, customer, booking)
        <3>1. CASE LeadOfIntent(w)
            <4>1. data[w].phone \in BOOLEAN /\ IntentStatusOf(data[w]) \in IntentStatus
                BY <3>1 DEF LeadOfIntent, TypeInv, TypeOK, Details, IntentStatusOf, IntentStatus
            <4> QED BY <3>1, <4>1 DEF LeadOfIntent
        <3>2. CASE WinLeadOfIntent(w)
            BY <3>2 DEF WinLeadOfIntent, IntentStatus, TypeInv, TypeOK
        <3> QED BY <1>6, <3>1, <3>2
    <2>4. /\ lead' \in [Leads -> Lead \cup {NONE}] /\ lead'[key[w]] \in Lead
          /\ \A l \in Leads \ {key[w]} : lead'[l] = lead[l]
        BY <2>1, <2>2, UpsertTyped
    <2>3. /\ lead' \in [Leads -> Lead \cup {NONE}]
          /\ \A l \in Leads : lead[l] # NONE => lead'[l] \in Lead
          /\ \A i \in Intents : lead'[i] # NONE => lead[i] # NONE \/ i = key[w]
        BY <1>0, <2>4
    <2> QED BY <1>0, <2>1, <2>3, LeaveSets, LocalTyped DEF TypeInv, TypeOK, LeadOK
<1>7. CASE HandOff
    <2>1. reopened' \subseteq Leads /\ edits' \in 0..MaxEdits
        BY <1>7 DEF HandOff, Edit, TypeInv, TypeOK
    <2>2. /\ intent' \in [Intents -> Intent \cup {NONE}]
          /\ \A i \in Intents : intent[i] # NONE => intent'[i] \in Intent
        BY <1>0, <1>7, IntentTyped DEF HandOff
    <2>3. UNCHANGED <<lead, bookings, pc, local, doubled, lost, edited, faults>>
        BY <1>7 DEF HandOff
    <2> QED BY <2>1, <2>2, <2>3 DEF TypeInv, TypeOK, LocalOK, LeadOK
<1>8. ASSUME NEW status \in LeadStatus, NEW c \in BOOLEAN, CreateLead(status, c) PROVE TypeInv'
    <2>1. /\ lead' \in [Leads -> Lead \cup {NONE}] /\ edits' \in 0..MaxEdits
          /\ \A l \in Leads : l # ByHand => lead'[l] = lead[l]
        BY <1>8 DEF CreateLead, Edit, TypeInv, TypeOK, Lead
    <2>2. \A l \in Leads : lead[l] # NONE => lead'[l] \in Lead
        BY <1>0, <1>8, <2>1 DEF CreateLead
    <2> QED BY <1>8, <2>1, <2>2 DEF CreateLead, TypeInv, TypeOK, LocalOK, LeadOK
<1>9. ASSUME NEW l \in Leads, NEW status \in LeadStatus, NEW c \in BOOLEAN, UpdateLead(l, status, c)
      PROVE  TypeInv'
    <2>1. edits' \in 0..MaxEdits /\ edited' \subseteq Leads
        BY <1>9 DEF UpdateLead, Edit, Add, TypeInv, TypeOK
    <2>2. lead[l] \in Lead /\ lead[l].customer \in BOOLEAN
        BY <1>0, <1>9 DEF UpdateLead, Lead
    <2>3. PICK d \in BOOLEAN : d = (lead[l].customer \/ c)
        BY <2>2, Zenon
    <2>4. lead' = [lead EXCEPT ![l].status = status, ![l].customer = d]
        BY <1>9, <2>3, Zenon DEF UpdateLead
    <2>5. /\ lead' \in [Leads -> Lead \cup {NONE}] /\ lead'[l] \in Lead
          /\ \A m \in Leads : m # l => lead'[m] = lead[m]
        BY <2>2, <2>4 DEF TypeInv, TypeOK, Lead
    <2>6. UNCHANGED <<intent, bookings, pc, local, doubled, lost, reopened, faults>>
        BY <1>9 DEF UpdateLead
    <2>7. \A m \in Leads : (lead[m] # NONE <=> lead'[m] # NONE) /\ (lead[m] \in Lead => lead'[m] \in Lead)
        BY <2>2, <2>5
    <2>8. LeadOK'
        BY <2>6, <2>7 DEF TypeInv, LeadOK
    <2> QED BY <2>1, <2>5, <2>6, <2>7, <2>8 DEF TypeInv, TypeOK, LocalOK
<1>10. ASSUME NEW w \in Workers, NEW i \in Intents, ReadIntent(w, i) PROVE TypeInv'
    <2>1. Kept(w) /\ pc'[w] = "book" /\ key'[w] = i /\ i \in Leads /\ intent[i] # NONE
        BY <1>10 DEF ReadIntent, StartConverting, Goto, TypeInv, TypeOK
    <2>2. doubled' \subseteq Leads /\ reopened' \subseteq Leads
        BY <1>10 DEF ReadIntent, StartConverting, Add, TypeInv, TypeOK
    <2> QED BY <1>0, <1>10, <2>1, <2>2, LocalTyped
            DEF ReadIntent, StartConverting, Goto, TypeInv, TypeOK, LeadOK
<1>11. ASSUME NEW w \in Workers, NEW l \in Leads, ReadLead(w, l) PROVE TypeInv'
    <2>1. Kept(w) /\ pc'[w] = "convert" /\ key'[w] = l /\ lead[l] # NONE
        BY <1>11 DEF ReadLead, StartConverting, Goto, TypeInv, TypeOK
    <2>2. doubled' \subseteq Leads /\ reopened' \subseteq Leads
        BY <1>11 DEF ReadLead, StartConverting, Add, TypeInv, TypeOK
    <2> QED BY <1>0, <1>11, <2>1, <2>2, LocalTyped
            DEF ReadLead, StartConverting, Goto, TypeInv, TypeOK, LeadOK
<1>12. ASSUME NEW w \in Workers, MakeBooking(w) PROVE TypeInv'
    <2>1. /\ Kept(w) /\ key[w] \in Leads /\ key'[w] = key[w]
          /\ \/ pc[w] = "book" /\ pc'[w] = "record"
             \/ pc[w] = "convert" /\ pc'[w] = "win"
        BY <1>12 DEF MakeBooking, Goto, TypeInv, TypeOK
    <2>2. bookings[key[w]] + 1 \in Booking /\ bookings[key[w]] + 1 # 0
        BY <1>12, <2>1 DEF MakeBooking, TypeInv, TypeOK, Booking
    <2>3. bookings' \in [Leads -> Booking] /\ made' \in [Workers -> Booking] /\ made'[w] # 0
        BY <1>12, <2>1, <2>2 DEF MakeBooking, TypeInv, TypeOK
    <2> QED BY <1>0, <1>12, <2>1, <2>3, LocalTyped DEF MakeBooking, Goto, TypeInv, TypeOK, LeadOK
<1>13. ASSUME NEW w \in Workers, RefuseBooking(w) PROVE TypeInv'
    BY <1>0, <1>13, LeaveSets, LocalTyped DEF RefuseBooking, TypeInv, TypeOK, LeadOK
<1>14. ASSUME NEW w \in Workers, RecordBooking(w) \/ WinIntent(w) PROVE TypeInv'
    <2>1. key[w] \in Intents /\ intent[key[w]] \in Intent /\ made[w] \in Booking /\ made[w] # 0
        BY <1>14 DEF RecordBooking, WinIntent, TypeInv, TypeOK, LocalOK
    <2>2. intent' = [intent EXCEPT ![key[w]].status = "BOOKED", ![key[w]].booking = made[w]]
        BY <1>14 DEF RecordBooking, Recorded, WinIntent
    <2>3. intent' = [intent EXCEPT ![key[w]] = [intent[key[w]] EXCEPT !.status = "BOOKED",
                                                                     !.booking = made[w]]]
        BY <2>1, <2>2 DEF TypeInv, TypeOK
    <2>4. /\ intent' \in [Intents -> Intent \cup {NONE}]
          /\ \A i \in Intents : intent[i] # NONE => intent'[i] \in Intent
          /\ intent'[key[w]] \in Intent
        BY ZenonT(40), <1>0, <2>1, <2>3, IntentTyped DEF TypeInv, TypeOK
    <2>5. CASE RecordBooking(w)
        <3>1. Kept(w) /\ pc'[w] = "winlead" /\ key'[w] = key[w] /\ made'[w] = made[w]
            BY <2>5 DEF RecordBooking, Goto, TypeInv, TypeOK
        <3> QED BY ZenonT(40), <1>0, <2>1, <2>4, <2>5, <3>1, LocalTyped
                DEF RecordBooking, Goto, TypeInv, TypeOK, LeadOK
    <2>6. CASE WinIntent(w)
        <3>1. Leave(w) /\ UNCHANGED <<lead, bookings, history, edits, faults>>
            BY <2>6 DEF WinIntent
        <3>2. Kept(w) /\ pc'[w] = "idle" /\ key'[w] = NONE
            BY <3>1, LeaveSets
        <3>3. \A l \in Leads : lead[l] # NONE => lead'[l] \in Lead
            BY <1>0, <3>1
        <3>4. LeadOK'
            BY <2>4, <3>1 DEF TypeInv, LeadOK
        <3> QED BY <2>4, <3>1, <3>2, <3>3, <3>4, LeaveSets, LocalTyped DEF TypeInv, TypeOK
    <2> QED BY <1>14, <2>5, <2>6
<1>15. ASSUME NEW w \in Workers, WinLead(w) PROVE TypeInv'
    <2>1. key[w] \in Leads /\ lead[key[w]] \in Lead /\ made[w] \in Booking /\ made[w] # 0
        BY <1>15 DEF WinLead, TypeInv, TypeOK, LocalOK
    <2>2. lead' = [lead EXCEPT ![key[w]].status = "WON", ![key[w]].booking = made[w]]
        BY <1>15 DEF WinLead
    <2>3. /\ lead' \in [Leads -> Lead \cup {NONE}] /\ lead'[key[w]] \in Lead
          /\ \A l \in Leads : l # key[w] => lead'[l] = lead[l]
        BY <2>1, <2>2 DEF TypeInv, TypeOK, Lead, LeadStatus
    <2>6. UNCHANGED <<intent, bookings, history, edits, faults>>
        BY <1>15 DEF WinLead
    <2>7. /\ \A l \in Leads : lead[l] # NONE => lead'[l] \in Lead
          /\ \A i \in Intents : intent[i] # NONE => intent'[i] \in Intent
        BY <1>0, <2>3, <2>6
    <2>8. LeadOK'
        BY <2>1, <2>3, <2>6 DEF TypeInv, LeadOK
    <2>4. CASE key[w] = ByHand
        <3>1. Leave(w)
            BY <1>15, <2>4 DEF WinLead
        <3>2. Kept(w) /\ pc'[w] = "idle" /\ key'[w] = NONE
            BY <3>1, LeaveSets
        <3> QED BY <2>6, <2>7, <2>8, <2>3, <3>1, <3>2, LeaveSets, LocalTyped DEF TypeInv, TypeOK
    <2>5. CASE key[w] # ByHand
        <3>1. /\ Kept(w) /\ pc'[w] = "winintent" /\ key'[w] = key[w] /\ made'[w] = made[w]
              /\ key[w] \in Intents /\ intent[key[w]] \in Intent
            BY <1>0, <1>15, <2>1, <2>5 DEF WinLead, Goto, TypeInv, TypeOK, LeadOK
        <3>2. /\ pc' \in [Workers -> Labels] /\ UNCHANGED local
            BY <1>15, <2>5 DEF WinLead, Goto, TypeInv, TypeOK
        <3>3. intent'[key'[w]] \in Intent /\ lead'[key'[w]] \in Lead
            BY <2>3, <2>6, <3>1
        <3> QED BY <2>1, <2>6, <2>7, <2>8, <2>3, <3>1, <3>2, <3>3, LocalTyped DEF TypeInv, TypeOK
    <2> QED BY <2>4, <2>5
<1>16. ASSUME NEW w \in Workers, Abort(w) PROVE TypeInv'
    <2>1. bookings' \in [Leads -> Booking]
        BY <1>16 DEF Abort, TypeInv, TypeOK, Booking
    <2>2. lost' \subseteq Leads
        <3>1. pc[w] \in Converting => key[w] \in Leads
            BY DEF TypeInv, TypeOK
        <3> QED BY <1>16, <3>1 DEF Abort, Add, TypeInv, TypeOK
    <2>3. faults' \in 0..MaxFaults
        BY <1>16 DEF Abort, TypeInv, TypeOK
    <2> QED BY <1>0, <1>16, <2>1, <2>2, <2>3, LeaveSets, LocalTyped DEF Abort, TypeInv, TypeOK, LeadOK
<1>17. CASE UNCHANGED vars
    BY <1>17 DEF TypeInv, TypeOK, LocalOK, LeadOK, vars
<1>18. /\ \A d \in Messages : d \in Details
       /\ [phone |-> Known, service |-> TRUE, ready |-> FALSE] \in Details
       /\ "OPEN" \in LeadStatus /\ Known \in BOOLEAN
    BY DEF Details, LeadStatus
<1> QED BY <1>1, <1>2, <1>3, <1>4, <1>5, <1>6, <1>7, <1>8, <1>9, <1>10, <1>11, <1>12, <1>13,
           <1>14, <1>15, <1>16, <1>17, <1>18
        DEF Next, ByManager, Begin, Continue, SendQuote, ConvertToLead

\* Every row and every call stays in its domain, and whoever writes an intent or a
\* lead works on one that exists.
THEOREM TypeCorrect == Spec => []TypeOK
<1>1. TypeInv => TypeOK
    BY DEF TypeInv
<1> QED BY <1>1, InitTyped, StepTyped, PTL DEF Spec

-----------------------------------------------------------------------------
(***************************************************************************)
(* The steps, by what they may do to a conversion.                         *)
(***************************************************************************)
\* A statement of a message or of an intent that is entered, or the last one of
\* bookIntent.
Tells(w) ==
    \/ \E d \in Details : BeginMessage(w, d) \/ CreateIntent(w, d)
    \/ FindNoIntent(w) \/ UpdateIntent(w) \/ LeadOfIntent(w) \/ WinLeadOfIntent(w)
    \/ \E i \in Intents : FindIntent(w, i) \/ InsertIntent(w, i)

\* A statement of a conversion between the check and the record.
Converts(w) ==
    \/ \E i \in Intents : ReadIntent(w, i)
    \/ \E l \in Leads : ReadLead(w, l)
    \/ MakeBooking(w) \/ RefuseBooking(w) \/ RecordBooking(w) \/ WinLead(w) \/ WinIntent(w)

Manages ==
    \/ HandOff
    \/ \E status \in LeadStatus, c \in BOOLEAN : CreateLead(status, c)
    \/ \E l \in Leads, status \in LeadStatus, c \in BOOLEAN : UpdateLead(l, status, c)
    \/ UNCHANGED vars

LEMMA NextSplit ==
    ASSUME [Next]_vars
    PROVE  Manages \/ \E w \in Workers : Tells(w) \/ Converts(w) \/ Abort(w)
<1>1. /\ \A d \in Messages : d \in Details
      /\ [phone |-> Known, service |-> TRUE, ready |-> FALSE] \in Details
      /\ "OPEN" \in LeadStatus /\ Known \in BOOLEAN
    BY BoundsAssumption DEF Details, LeadStatus
<1> QED BY <1>1 DEF Next, ByManager, Begin, Continue, SendQuote, ConvertToLead,
                    Manages, Tells, Converts

\* Nothing here touches a conversion that is between its check and its record.
LEMMA Steady ==
    ASSUME TypeInv, Manages \/ \E w \in Workers : Tells(w)
    PROVE  /\ UNCHANGED <<bookings, doubled, lost>>
           /\ \A v \in Workers : pc[v] \in Checked \/ pc'[v] \in Checked =>
                                    pc'[v] = pc[v] /\ key'[v] = key[v]
<1> USE DEF rows, local, history
<1>1. CASE Manages
    BY <1>1 DEF Manages, HandOff, CreateLead, UpdateLead, vars
<1>2. ASSUME NEW w \in Workers, Tells(w)
      PROVE  /\ UNCHANGED <<bookings, doubled, lost>>
             /\ \A v \in Workers : pc[v] \in Checked \/ pc'[v] \in Checked =>
                                      pc'[v] = pc[v] /\ key'[v] = key[v]
    <2>1. UNCHANGED <<bookings, doubled, lost>>
        BY <1>2 DEF Tells, BeginMessage, CreateIntent, FindNoIntent, UpdateIntent, LeadOfIntent,
               WinLeadOfIntent, FindIntent, InsertIntent
    <2>2. /\ pc[w] \notin Checked /\ pc'[w] \notin Checked
          /\ \A v \in Workers \ {w} : pc'[v] = pc[v] /\ key'[v] = key[v]
        <3>1. CASE \/ \E d \in Details : BeginMessage(w, d) \/ CreateIntent(w, d)
                   \/ FindNoIntent(w) \/ UpdateIntent(w)
            BY <3>1 DEF BeginMessage, CreateIntent, FindNoIntent, UpdateIntent, Goto, TypeInv, TypeOK
        <3>2. CASE LeadOfIntent(w) \/ WinLeadOfIntent(w)
            BY <3>2 DEF LeadOfIntent, WinLeadOfIntent, Leave, Goto, TypeInv, TypeOK
        <3>3. CASE \E i \in Intents : FindIntent(w, i) \/ InsertIntent(w, i)
            BY <3>3 DEF FindIntent, InsertIntent, AfterInsert, Goto, TypeInv, TypeOK
        <3> QED BY <1>2, <3>1, <3>2, <3>3 DEF Tells
    <2> QED BY <2>1, <2>2
<1> QED BY <1>1, <1>2

\* A conversion moves one call.
LEMMA OthersStay ==
    ASSUME TypeInv, NEW w \in Workers, Converts(w) \/ Abort(w)
    PROVE  \A v \in Workers \ {w} : pc'[v] = pc[v] /\ key'[v] = key[v]
BY DEF Converts, ReadIntent, ReadLead, MakeBooking, RefuseBooking, RecordBooking, WinLead,
       WinIntent, Abort, StartConverting, Leave, Goto, TypeInv, TypeOK, local

\* What has happened has happened.
LEMMA HistoryGrows ==
    ASSUME [Next]_vars
    PROVE  /\ doubled \subseteq doubled' /\ lost \subseteq lost'
           /\ reopened \subseteq reopened' /\ edited \subseteq edited'
<1> USE DEF history
<1>1. CASE Manages
    BY <1>1 DEF Manages, HandOff, CreateLead, UpdateLead, Add, vars
<1>2. ASSUME NEW w \in Workers, Tells(w)
      PROVE  /\ doubled \subseteq doubled' /\ lost \subseteq lost'
             /\ reopened \subseteq reopened' /\ edited \subseteq edited'
    BY <1>2 DEF Tells, BeginMessage, CreateIntent, FindNoIntent, UpdateIntent, LeadOfIntent,
           WinLeadOfIntent, FindIntent, InsertIntent, Add
<1>3. ASSUME NEW w \in Workers, Converts(w)
      PROVE  /\ doubled \subseteq doubled' /\ lost \subseteq lost'
             /\ reopened \subseteq reopened' /\ edited \subseteq edited'
    BY <1>3 DEF Converts, ReadIntent, ReadLead, MakeBooking, RefuseBooking, RecordBooking, WinLead,
           WinIntent, StartConverting, Add
<1>4. ASSUME NEW w \in Workers, Abort(w)
      PROVE  /\ doubled \subseteq doubled' /\ lost \subseteq lost'
             /\ reopened \subseteq reopened' /\ edited \subseteq edited'
    BY <1>4 DEF Abort, Add
<1> QED BY <1>1, <1>2, <1>3, <1>4, NextSplit

-----------------------------------------------------------------------------
(***************************************************************************)
(* A booking can be found from its inquiry.                                *)
(***************************************************************************)
\* The steps after the booking is made and before both rows show it.
Late == {"record", "win", "winintent"}

\* Where the booking of an inquiry is looked for.
RecordedAt(l) ==
    IF l = ByHand THEN lead[l] # NONE /\ lead[l].booking # 0
                  ELSE intent[l] # NONE /\ intent[l].booking # 0

\* A booking is recorded, or is about to be.
FoundOK ==
    \A l \in Leads \ lost : bookings[l] > 0 =>
        RecordedAt(l) \/ \E w \in Workers : key[w] = l /\ pc[w] \in Late

FoundInv == TypeInv /\ FoundOK

USE DEF Late

\* A booking that is recorded stays recorded: neither a message, nor a manager, nor
\* another conversion removes it.
LEMMA RecordStays ==
    ASSUME TypeInv, [Next]_vars
    PROVE  \A l \in Leads : RecordedAt(l) => RecordedAt(l)'
<1> USE RowsExist DEF rows, local, history
<1>1. ASSUME NEW i \in Intents, intent[i] # NONE, intent[i].booking # 0
      PROVE  intent'[i] # NONE /\ intent'[i].booking # 0
    <2>0. intent[i] \in Intent
        BY <1>1, RowsTyped
    <2>1. CASE HandOff
        BY <1>1, <2>0, <2>1, IntentTyped DEF HandOff, Intent
    <2>2. ASSUME NEW w \in Workers, UpdateIntent(w) PROVE intent'[i] # NONE /\ intent'[i].booking # 0
        <3>1. key[w] \in Intents /\ data[w] \in Details
            BY <2>2 DEF UpdateIntent, TypeInv, TypeOK
        <3>2. i # key[w] => intent'[i] = intent[i]
            BY <2>2, <3>1 DEF UpdateIntent, TypeInv, TypeOK
        <3>3. i = key[w] => intent'[i] \in Intent /\ intent'[i].booking = intent[i].booking
            BY <2>0, <2>2, <3>1, IntentTyped DEF UpdateIntent, TypeInv, TypeOK
        <3> QED BY <1>1, <3>2, <3>3
    <2>3. ASSUME NEW w \in Workers, NEW j \in Intents, InsertIntent(w, j)
          PROVE  intent'[i] = intent[i]
        BY <1>1, <2>3 DEF InsertIntent, TypeInv, TypeOK
    <2>4. ASSUME NEW w \in Workers, RecordBooking(w) \/ WinIntent(w)
          PROVE  intent'[i] # NONE /\ intent'[i].booking # 0
        <3>1. key[w] \in Intents /\ made[w] # 0 /\ made[w] \in Booking /\ intent[key[w]] \in Intent
            BY <2>4 DEF RecordBooking, WinIntent, TypeInv, TypeOK, LocalOK
        <3>2. intent' = [intent EXCEPT ![key[w]].status = "BOOKED", ![key[w]].booking = made[w]]
            BY <2>4 DEF RecordBooking, Recorded, WinIntent
        <3>3. i # key[w] => intent'[i] = intent[i]
            BY <3>1, <3>2 DEF TypeInv, TypeOK
        <3>4. i = key[w] => intent'[i] = [intent[i] EXCEPT !.status = "BOOKED", !.booking = made[w]]
            BY <3>1, <3>2 DEF TypeInv, TypeOK
        <3>5. i = key[w] => intent'[i] \in Intent /\ intent'[i].booking = made[w]
            <4>1. \A b \in Booking : [intent[i] EXCEPT !.status = "BOOKED", !.booking = b] \in Intent
                BY <2>0, IntentTyped
            <4>2. i = key[w] => intent'[i].booking = made[w]
                BY <2>0, <3>4 DEF Intent
            <4> QED BY <3>1, <3>4, <4>1, <4>2
        <3> QED BY <1>1, <3>1, <3>3, <3>5
    <2>5. \/ UNCHANGED intent \/ HandOff
          \/ \E w \in Workers : UpdateIntent(w) \/ RecordBooking(w) \/ WinIntent(w)
          \/ \E w \in Workers, j \in Intents : InsertIntent(w, j)
        BY NextSplit DEF Manages, CreateLead, UpdateLead, vars, Tells, BeginMessage, CreateIntent,
               FindNoIntent, LeadOfIntent, WinLeadOfIntent, FindIntent, Converts, ReadIntent, ReadLead,
               MakeBooking, RefuseBooking, WinLead, Abort
    <2> QED BY <1>1, <2>1, <2>2, <2>3, <2>4, <2>5
<1>2. ASSUME lead[ByHand] # NONE, lead[ByHand].booking # 0
      PROVE  lead'[ByHand] # NONE /\ lead'[ByHand].booking # 0
    <2>0. lead[ByHand] \in Lead /\ ByHand \in Leads
        BY <1>2 DEF TypeInv, TypeOK
    <2>1. ASSUME NEW w \in Workers, LeadOfIntent(w) \/ WinLeadOfIntent(w)
          PROVE  lead'[ByHand] = lead[ByHand]
        <3>1. key[w] # ByHand
            BY ZenonT(40), <2>1 DEF LeadOfIntent, WinLeadOfIntent, TypeInv, TypeOK
        <3> QED BY <2>0, <2>1, <3>1 DEF LeadOfIntent, WinLeadOfIntent, UpsertLead, TypeInv, TypeOK
    <2>2. ASSUME NEW l \in Leads, NEW status \in LeadStatus, NEW c \in BOOLEAN, UpdateLead(l, status, c)
          PROVE  lead'[ByHand] # NONE /\ lead'[ByHand].booking # 0
        <3>1. l # ByHand => lead'[ByHand] = lead[ByHand]
            BY <2>0, <2>2 DEF UpdateLead, TypeInv, TypeOK
        <3>2. l = ByHand => lead'[ByHand].booking = lead[ByHand].booking
            BY <2>0, <2>2 DEF UpdateLead, TypeInv, TypeOK, Lead
        <3>3. l = ByHand => lead'[ByHand] # NONE
            <4>1. l = ByHand => lead'[ByHand] = [lead[ByHand] EXCEPT !.status = status,
                                                                    !.customer = lead[l].customer \/ c]
                BY <2>0, <2>2 DEF UpdateLead, TypeInv, TypeOK
            <4> QED BY <2>0, <4>1 DEF Lead
        <3> QED BY <1>2, <3>1, <3>2, <3>3
    <2>3. ASSUME NEW w \in Workers, WinLead(w) PROVE lead'[ByHand] # NONE /\ lead'[ByHand].booking # 0
        <3>1. made[w] \in Booking /\ made[w] # 0 /\ key[w] \in Leads
            BY <2>3 DEF WinLead, TypeInv, TypeOK, LocalOK
        <3>2. lead' = [lead EXCEPT ![key[w]].status = "WON", ![key[w]].booking = made[w]]
            BY <2>3 DEF WinLead
        <3>3. key[w] # ByHand => lead'[ByHand] = lead[ByHand]
            BY <2>0, <3>1, <3>2 DEF TypeInv, TypeOK
        <3>4. key[w] = ByHand => lead'[ByHand] \in Lead /\ lead'[ByHand].booking = made[w]
            BY <2>0, <3>1, <3>2 DEF TypeInv, TypeOK, Lead, LeadStatus
        <3> QED BY <1>2, <3>1, <3>3, <3>4
    <2>4. \/ UNCHANGED lead
          \/ \E status \in LeadStatus, c \in BOOLEAN : CreateLead(status, c)
          \/ \E l \in Leads, status \in LeadStatus, c \in BOOLEAN : UpdateLead(l, status, c)
          \/ \E w \in Workers : LeadOfIntent(w) \/ WinLeadOfIntent(w) \/ WinLead(w)
        BY ZenonT(40), NextSplit DEF Manages, HandOff, vars, Tells, BeginMessage, CreateIntent, FindNoIntent,
               UpdateIntent, FindIntent, InsertIntent, Converts, ReadIntent, ReadLead,
               MakeBooking, RefuseBooking, RecordBooking, WinIntent, Abort
    <2> QED BY <1>2, <2>1, <2>2, <2>3, <2>4 DEF CreateLead
<1> QED BY <1>1, <1>2 DEF RecordedAt

\* How many bookings there are changes by a conversion that makes one, or by one
\* that dies after it did.
LEMMA BookingsChange ==
    ASSUME TypeInv, [Next]_vars, NEW l \in Leads, bookings'[l] # bookings[l]
    PROVE  \E w \in Workers :
              /\ key[w] = l /\ pc[w] \in {"book", "convert"}
              /\ bookings'[l] = bookings[l] + 1
              /\ MakeBooking(w) \/ (Abort(w) /\ l \in lost')
<1>1. PICK w \in Workers : Converts(w) \/ Abort(w)
    BY NextSplit, Steady
<1>2. MakeBooking(w) \/ (Abort(w) /\ bookings' # bookings)
    BY <1>1 DEF Converts, ReadIntent, ReadLead, RefuseBooking, RecordBooking, WinLead, WinIntent, rows
<1>3. CASE MakeBooking(w)
    BY <1>3 DEF MakeBooking, TypeInv, TypeOK, Booking
<1>4. CASE Abort(w) /\ bookings' # bookings
    BY <1>4 DEF Abort, TypeInv, TypeOK, Booking
<1> QED BY <1>2, <1>3, <1>4

\* A call that has made a booking and not recorded it records it, or its inquiry
\* counts as lost.
LEMMA LateSteps ==
    ASSUME TypeInv, [Next]_vars, NEW w \in Workers, pc[w] \in Late, key[w] \in Leads
    PROVE  \/ pc'[w] \in Late /\ key'[w] = key[w]
           \/ \E l \in Leads : l = key[w] /\ (RecordedAt(l)' \/ l \in lost')
<1> USE RowsExist DEF rows, local, history
<1>1. CASE Manages \/ \E v \in Workers : Tells(v)
    BY <1>1, Steady
<1>2. ASSUME NEW v \in Workers \ {w}, Converts(v) \/ Abort(v)
      PROVE  pc'[w] \in Late /\ key'[w] = key[w]
    BY <1>2, OthersStay
<1>3. CASE Abort(w)
    BY <1>3 DEF Abort, Add
<1>4. CASE Converts(w)
    <2>1. RecordBooking(w) \/ WinLead(w) \/ WinIntent(w)
        BY <1>4 DEF Converts, ReadIntent, ReadLead, MakeBooking, RefuseBooking
    <2>2. PICK l \in Leads : l = key[w]
        OBVIOUS
    <2>3. made[w] \in Booking /\ made[w] # 0
        BY DEF TypeInv, TypeOK, LocalOK
    <2>4. CASE RecordBooking(w) \/ WinIntent(w)
        <3>1. l \in Intents /\ intent[l] \in Intent
            BY <2>2, <2>4 DEF RecordBooking, WinIntent, TypeInv, TypeOK
        <3>2. intent' = [intent EXCEPT ![l].status = "BOOKED", ![l].booking = made[w]]
            BY <2>2, <2>4 DEF RecordBooking, Recorded, WinIntent
        <3>3. intent'[l] = [intent[l] EXCEPT !.status = "BOOKED", !.booking = made[w]]
            BY <3>1, <3>2 DEF TypeInv, TypeOK
        <3>4. intent'[l] \in Intent
            <4>1. \A b \in Booking : [intent[l] EXCEPT !.status = "BOOKED", !.booking = b] \in Intent
                BY <3>1, IntentTyped
            <4> QED BY <2>3, <3>3, <4>1
        <3>5. intent'[l].booking = made[w]
            BY <3>1, <3>3 DEF Intent
        <3>6. RecordedAt(l)'
            BY <2>3, <3>1, <3>4, <3>5 DEF RecordedAt
        <3> QED BY <2>2, <3>6
    <2>5. CASE WinLead(w)
        <3>1. CASE l = ByHand
            <4>1. lead[l] \in Lead
                BY <2>2, <2>5 DEF WinLead, TypeInv, TypeOK
            <4>2. lead' = [lead EXCEPT ![l].status = "WON", ![l].booking = made[w]]
                BY <2>2, <2>5 DEF WinLead
            <4>3. lead'[l] \in Lead /\ lead'[l].booking = made[w]
                BY <2>3, <4>1, <4>2 DEF TypeInv, TypeOK, Lead, LeadStatus
            <4>4. RecordedAt(l)'
                BY <2>3, <3>1, <4>3 DEF RecordedAt
            <4> QED BY <2>2, <4>4
        <3>2. CASE l # ByHand
            BY <2>2, <2>5, <3>2 DEF WinLead, Goto, TypeInv, TypeOK
        <3> QED BY <3>1, <3>2
    <2> QED BY <2>1, <2>4, <2>5
<1> QED BY <1>1, <1>2, <1>3, <1>4, NextSplit

LEMMA InitFound == Init => FoundInv
BY InitTyped DEF Init, FoundInv, FoundOK

\* Every step keeps a booking recorded, or about to be.
LEMMA StepFound == FoundInv /\ [Next]_vars => FoundInv'
<1> SUFFICES ASSUME FoundInv, [Next]_vars PROVE FoundInv'
    OBVIOUS
<1>0. TypeInv /\ TypeInv'
    BY StepTyped DEF FoundInv
<1>1. ASSUME NEW l \in Leads, l \notin lost', bookings'[l] > 0
      PROVE  RecordedAt(l)' \/ \E w \in Workers : key'[w] = l /\ pc'[w] \in Late
    <2>1. l \notin lost
        BY <1>1, HistoryGrows
    <2>2. CASE RecordedAt(l)
        BY <1>0, <2>2, RecordStays
    <2>3. ASSUME NEW w \in Workers, key[w] = l, pc[w] \in Late
          PROVE  RecordedAt(l)' \/ \E v \in Workers : key'[v] = l /\ pc'[v] \in Late
        <3>1. CASE pc'[w] \in Late /\ key'[w] = key[w]
            BY <2>3, <3>1
        <3>2. ASSUME NEW m \in Leads, m = key[w], RecordedAt(m)' \/ m \in lost'
              PROVE  RecordedAt(l)'
            <4>1. m = l
                BY <2>3, <3>2
            <4> QED BY <1>1, <3>2, <4>1
        <3> QED BY <1>0, <2>3, <3>1, <3>2, LateSteps
    <2>4. CASE bookings'[l] # bookings[l]
        <3>1. PICK w \in Workers : key[w] = l /\ MakeBooking(w)
            BY <1>0, <1>1, <2>4, BookingsChange
        <3>2. key'[w] = l /\ pc'[w] \in Late
            BY <1>0, <3>1 DEF MakeBooking, Goto, TypeInv, TypeOK
        <3> QED BY <3>2
    <2>5. CASE bookings'[l] = bookings[l]
        BY <1>1, <2>1, <2>2, <2>3, <2>5 DEF FoundInv, FoundOK
    <2> QED BY <2>4, <2>5
<1>2. FoundOK'
    BY <1>1 DEF FoundOK
<1> QED BY <1>0, <1>2 DEF FoundInv

\* A booking can be found from its inquiry once the conversion has ended, unless
\* that failed.
THEOREM BookingsAreFound == Spec => []BookingFound
<1>1. FoundInv => BookingFound
    <2> SUFFICES ASSUME FoundInv, NEW l \in Leads, bookings[l] > 0, Quiet(l), l \notin lost
                 PROVE  BookingOfIntent(l) # 0 \/ (lead[l] # NONE /\ lead[l].booking # 0)
        BY DEF BookingFound
    <2>1. RecordedAt(l)
        BY DEF FoundInv, FoundOK, Quiet
    <2> QED BY <2>1 DEF RecordedAt, BookingOfIntent
<1> QED BY <1>1, InitFound, StepFound, PTL DEF Spec

-----------------------------------------------------------------------------
(***************************************************************************)
(* An inquiry is booked once.                                              *)
(***************************************************************************)
\* Two conversions between their checks and their records have doubled.
AloneOK ==
    \A v, w \in Workers :
        v # w /\ key[v] = key[w] /\ pc[v] \in Checked /\ pc[w] \in Checked => key[v] \in doubled

\* A conversion about to make a booking makes the first one of its inquiry.
FirstOK ==
    \A w \in Workers :
        pc[w] \in {"book", "convert"} /\ key[w] \notin doubled \cup lost => bookings[key[w]] = 0

OnceInv == FoundInv /\ AloneOK /\ FirstOK /\ BookedOnce

\* Whoever is between the check and the record has been there, or starts by finding
\* no booking, and has doubled if another one is there.
LEMMA CheckedSteps ==
    ASSUME TypeInv, [Next]_vars, NEW w \in Workers, pc'[w] \in Checked
    PROVE  \/ /\ pc[w] \in Checked /\ key'[w] = key[w]
              /\ pc'[w] \in {"book", "convert"} => pc'[w] = pc[w]
           \/ \E l \in Leads :
                 /\ pc[w] = "idle" /\ key'[w] = l /\ bookings' = bookings
                 /\ \A v \in Workers \ {w} : key[v] = l /\ pc[v] \in Checked => l \in doubled'
                 /\ RecordedAt(l) => l \in doubled'
<1> USE RowsExist DEF rows, local, history
<1>1. CASE Manages \/ \E v \in Workers : Tells(v)
    BY <1>1, Steady
<1>2. ASSUME NEW v \in Workers \ {w}, Converts(v) \/ Abort(v)
      PROVE  pc'[w] = pc[w] /\ key'[w] = key[w]
    BY <1>2, OthersStay
<1>3. CASE Abort(w)
    BY <1>3 DEF Abort, Leave, Goto, TypeInv, TypeOK
<1>4. ASSUME NEW i \in Intents, ReadIntent(w, i)
      PROVE  \E l \in Leads :
                 /\ pc[w] = "idle" /\ key'[w] = l /\ bookings' = bookings
                 /\ \A v \in Workers \ {w} : key[v] = l /\ pc[v] \in Checked => l \in doubled'
                 /\ RecordedAt(l) => l \in doubled'
    <2>1. pc[w] = "idle" /\ key'[w] = i /\ bookings' = bookings /\ i \in Leads
        BY <1>4 DEF ReadIntent, StartConverting, TypeInv, TypeOK
    <2>2. \A v \in Workers \ {w} : key[v] = i /\ pc[v] \in Checked => i \in doubled'
        BY <1>4 DEF ReadIntent, StartConverting, Add, Meets
    <2>3. ~RecordedAt(i)
        BY <1>4 DEF ReadIntent, Bookable, RecordedAt
    <2> QED BY <2>1, <2>2, <2>3
<1>5. ASSUME NEW l \in Leads, ReadLead(w, l)
      PROVE  /\ pc[w] = "idle" /\ key'[w] = l /\ bookings' = bookings
             /\ \A v \in Workers \ {w} : key[v] = l /\ pc[v] \in Checked => l \in doubled'
             /\ RecordedAt(l) => l \in doubled'
    <2>1. pc[w] = "idle" /\ key'[w] = l /\ bookings' = bookings
        BY <1>5 DEF ReadLead, StartConverting, TypeInv, TypeOK
    <2>2. \A v \in Workers \ {w} : key[v] = l /\ pc[v] \in Checked => l \in doubled'
        BY <1>5 DEF ReadLead, StartConverting, Add, Meets
    <2>3. RecordedAt(l) => l \in doubled'
        BY <1>5 DEF ReadLead, Convertible, StartConverting, Add, BookingOfIntent, RecordedAt
    <2> QED BY <2>1, <2>2, <2>3
<1>6. CASE MakeBooking(w) \/ RefuseBooking(w) \/ RecordBooking(w) \/ WinLead(w) \/ WinIntent(w)
    BY <1>6 DEF MakeBooking, RefuseBooking, RecordBooking, WinLead, WinIntent, Leave, Goto, TypeInv, TypeOK
<1> QED BY <1>1, <1>2, <1>3, <1>4, <1>5, <1>6, NextSplit DEF Converts

LEMMA InitOnce == Init => OnceInv
BY InitFound DEF Init, OnceInv, AloneOK, FirstOK, BookedOnce

\* Every step keeps two conversions apart, or counts them as doubled.
LEMMA StepOnce == OnceInv /\ [Next]_vars => OnceInv'
<1> SUFFICES ASSUME OnceInv, [Next]_vars PROVE OnceInv'
    OBVIOUS
<1>0. /\ FoundInv' /\ TypeInv /\ TypeInv' /\ AloneOK /\ FirstOK /\ BookedOnce /\ FoundOK
      /\ doubled \subseteq doubled' /\ lost \subseteq lost'
    BY StepFound, HistoryGrows DEF OnceInv, FoundInv
<1>k. \A w \in Workers : pc[w] \in Checked \/ pc'[w] \in Checked =>
         key[w] \in Leads \/ key'[w] \in Leads
    BY <1>0 DEF TypeInv, TypeOK, LocalOK
<1>1. AloneOK'
    <2> SUFFICES ASSUME NEW v \in Workers, NEW w \in Workers, v # w, key'[v] = key'[w],
                        pc'[v] \in Checked, pc'[w] \in Checked
                 PROVE  key'[v] \in doubled'
        BY DEF AloneOK
    <2>1. CASE pc[v] \in Checked /\ key'[v] = key[v] /\ pc[w] \in Checked /\ key'[w] = key[w]
        BY <1>0, <2>1 DEF AloneOK
    <2>2. ASSUME NEW x \in Workers, NEW y \in Workers, x # y, key'[x] = key'[y],
                 pc'[x] \in Checked, pc'[y] \in Checked,
                 ~(pc[x] \in Checked /\ key'[x] = key[x])
          PROVE  key'[x] \in doubled'
        <3>1. PICK l \in Leads :
                 /\ key'[x] = l
                 /\ \A u \in Workers \ {x} : key[u] = l /\ pc[u] \in Checked => l \in doubled'
            BY <1>0, <2>2, CheckedSteps
        <3>2. pc[y] \in Checked /\ key[y] = key'[y]
            <4>1. CASE Manages \/ \E u \in Workers : Tells(u)
                BY <1>0, <2>2, <4>1, Steady
            <4>2. ASSUME NEW u \in Workers, Converts(u) \/ Abort(u)
                  PROVE  pc[y] \in Checked /\ key[y] = key'[y]
                <5>1. u = x
                    BY <1>0, <2>2, <4>2, OthersStay
                <5> QED BY <1>0, <2>2, <4>2, <5>1, OthersStay
            <4> QED BY <4>1, <4>2, NextSplit
        <3> QED BY <2>2, <3>1, <3>2
    <2>3. CASE ~(pc[v] \in Checked /\ key'[v] = key[v])
        BY <2>2, <2>3
    <2>4. CASE ~(pc[w] \in Checked /\ key'[w] = key[w])
        <3>1. key'[w] \in doubled'
            BY <2>2, <2>4
        <3> QED BY <3>1
    <2> QED BY <2>1, <2>3, <2>4
<1>2. FirstOK'
    <2> SUFFICES ASSUME NEW w \in Workers, pc'[w] \in {"book", "convert"},
                        key'[w] \notin doubled' \cup lost'
                 PROVE  bookings'[key'[w]] = 0
        BY DEF FirstOK
    <2>1. PICK l \in Leads : l = key'[w]
        BY <1>0 DEF TypeInv, TypeOK, LocalOK
    <2>2. CASE pc[w] \in {"book", "convert"} /\ key'[w] = key[w]
        <3>1. bookings[l] = 0
            BY <1>0, <2>1, <2>2 DEF FirstOK
        <3>2. CASE bookings'[l] # bookings[l]
            <4>1. PICK v \in Workers : key[v] = l /\ pc[v] \in {"book", "convert"} /\ MakeBooking(v)
                BY <1>0, <2>1, <3>2, BookingsChange
            <4>2. v # w
                BY <1>0, <4>1 DEF MakeBooking, Goto, TypeInv, TypeOK
            <4> QED BY <1>0, <2>1, <2>2, <4>1, <4>2 DEF AloneOK
        <3> QED BY <2>1, <3>1, <3>2
    <2>3. CASE ~(pc[w] \in {"book", "convert"} /\ key'[w] = key[w])
        <3>1. /\ bookings' = bookings /\ ~RecordedAt(l)
              /\ \A v \in Workers \ {w} : key[v] = l => pc[v] \notin Checked
            BY <1>0, <2>1, <2>3, CheckedSteps
        <3>2. key[w] = l => pc[w] \notin Late
            BY <1>0, <2>1, <2>3, CheckedSteps
        <3>3. bookings[l] \in Nat /\ l \notin lost
            BY <1>0, <2>1, BoundsAssumption DEF TypeInv, TypeOK, Booking
        <3> QED BY <1>0, <2>1, <3>1, <3>2, <3>3 DEF FoundOK
    <2> QED BY <2>2, <2>3
<1>3. BookedOnce'
    <2> SUFFICES ASSUME NEW l \in Leads, bookings'[l] > 1 PROVE l \in doubled' \cup lost'
        BY DEF BookedOnce
    <2>1. CASE bookings'[l] = bookings[l]
        BY <1>0, <2>1 DEF BookedOnce
    <2>2. CASE bookings'[l] # bookings[l]
        <3>1. PICK v \in Workers : key[v] = l /\ pc[v] \in {"book", "convert"}
                                  /\ bookings'[l] = bookings[l] + 1
            BY <1>0, <2>2, BookingsChange
        <3> QED BY <1>0, <3>1 DEF FirstOK
    <2> QED BY <2>1, <2>2
<1> QED BY <1>0, <1>1, <1>2, <1>3 DEF OnceInv

\* An inquiry is booked once, from whichever end, but for the three reasons the
\* property names.
THEOREM InquiriesAreBookedOnce == Spec => []BookedOnce
<1>1. OnceInv => BookedOnce
    BY DEF OnceInv
<1> QED BY <1>1, InitOnce, StepOnce, PTL DEF Spec

-----------------------------------------------------------------------------
(***************************************************************************)
(* What is settled stays, and the lead of a booked intent is won.          *)
(***************************************************************************)
\* What a step does to an intent.
LEMMA IntentSteps ==
    ASSUME TypeInv, [Next]_vars, NEW i \in Intents
    PROVE  \/ intent'[i] = intent[i]
           \/ /\ HandOff /\ intent[i] # NONE /\ intent'[i] # NONE
              /\ intent'[i].status = "HANDED_OFF" /\ intent'[i].booking = intent[i].booking
           \/ /\ \E w \in Workers : pc[w] = "update" /\ key[w] = i
              /\ intent[i] # NONE /\ intent'[i] # NONE
              /\ intent'[i].status \in {"COLLECTING", "READY"}
              /\ intent'[i].booking = intent[i].booking
           \/ intent[i] = NONE /\ intent'[i] # NONE /\ intent'[i].booking = 0
           \/ \E w \in Workers :
                 /\ RecordBooking(w) \/ WinIntent(w)
                 /\ key[w] = i /\ intent'[i] # NONE /\ intent'[i].status = "BOOKED"
                 /\ intent'[i].booking # 0
<1> USE RowsExist DEF rows, local, history
<1>1. CASE HandOff
    <2>1. CASE intent[i] = NONE
        BY <1>1, <2>1 DEF HandOff
    <2>2. CASE intent[i] # NONE
        <3>1. intent[i] \in Intent /\ intent'[i] = [intent[i] EXCEPT !.status = "HANDED_OFF"]
            BY <1>1, <2>2, RowsTyped DEF HandOff
        <3>2. intent'[i] \in Intent
            BY <3>1, IntentTyped
        <3>3. intent'[i].status = "HANDED_OFF" /\ intent'[i].booking = intent[i].booking
            BY <3>1 DEF Intent
        <3> QED BY <1>1, <2>2, <3>2, <3>3
    <2> QED BY <2>1, <2>2
<1>2. ASSUME NEW w \in Workers, UpdateIntent(w), intent'[i] # intent[i]
      PROVE  /\ pc[w] = "update" /\ key[w] = i
             /\ intent[i] # NONE /\ intent'[i] # NONE
             /\ intent'[i].status \in {"COLLECTING", "READY"}
             /\ intent'[i].booking = intent[i].booking
    <2>1. pc[w] = "update" /\ key[w] \in Intents /\ data[w] \in Details /\ intent[key[w]] \in Intent
        BY <1>2 DEF UpdateIntent, TypeInv, TypeOK
    <2>2. key[w] = i
        BY <1>2, <2>1 DEF UpdateIntent, TypeInv, TypeOK
    <2>3. intent'[i] = [status |-> IntentStatusOf(data[w]),
                        customer |-> intent[i].customer \/ data[w].phone,
                        service |-> intent[i].service \/ data[w].service,
                        booking |-> intent[i].booking]
        BY <1>2, <2>2 DEF UpdateIntent, TypeInv, TypeOK
    <2>4. intent'[i] \in Intent
        BY <2>1, <2>2, <2>3, IntentTyped
    <2>5. intent'[i].status \in {"COLLECTING", "READY"} /\ intent'[i].booking = intent[i].booking
        BY <2>3 DEF IntentStatusOf
    <2> QED BY <2>1, <2>2, <2>4, <2>5
<1>3. ASSUME NEW w \in Workers, NEW j \in Intents, InsertIntent(w, j), intent'[i] # intent[i]
      PROVE  intent[i] = NONE /\ intent'[i] # NONE /\ intent'[i].booking = 0
    <2>1. j = i /\ data[w] \in Details
        BY <1>3 DEF InsertIntent, TypeInv, TypeOK
    <2>2. intent'[i] = [status |-> IntentStatusOf(data[w]), customer |-> data[w].phone,
                        service |-> data[w].service, booking |-> 0]
        BY <1>3, <2>1 DEF InsertIntent, TypeInv, TypeOK
    <2>3. intent'[i] \in Intent /\ intent'[i].booking = 0
        BY <2>1, <2>2, NewIntentTyped
    <2> QED BY <1>3, <2>1, <2>3 DEF InsertIntent
<1>4. ASSUME NEW w \in Workers, RecordBooking(w) \/ WinIntent(w), intent'[i] # intent[i]
      PROVE  /\ key[w] = i /\ intent'[i] # NONE /\ intent'[i].status = "BOOKED"
             /\ intent'[i].booking # 0
    <2>1. key[w] \in Intents /\ made[w] # 0 /\ made[w] \in Booking /\ intent[key[w]] \in Intent
        BY <1>4 DEF RecordBooking, WinIntent, TypeInv, TypeOK, LocalOK
    <2>2. intent' = [intent EXCEPT ![key[w]].status = "BOOKED", ![key[w]].booking = made[w]]
        BY <1>4 DEF RecordBooking, Recorded, WinIntent
    <2>3. key[w] = i
        BY <1>4, <2>1, <2>2 DEF TypeInv, TypeOK
    <2>4. intent'[i] = [intent[i] EXCEPT !.status = "BOOKED", !.booking = made[w]]
        BY <2>2, <2>3 DEF TypeInv, TypeOK
    <2>5. \A b \in Booking : [intent[i] EXCEPT !.status = "BOOKED", !.booking = b] \in Intent
        BY <2>1, <2>3, IntentTyped
    <2>6. intent'[i].status = "BOOKED" /\ intent'[i].booking = made[w]
        BY <2>1, <2>3, <2>4 DEF Intent
    <2> QED BY <2>1, <2>3, <2>4, <2>5, <2>6
<1>5. \/ UNCHANGED intent \/ HandOff
      \/ \E w \in Workers : UpdateIntent(w) \/ RecordBooking(w) \/ WinIntent(w)
      \/ \E w \in Workers, j \in Intents : InsertIntent(w, j)
    BY NextSplit DEF Manages, CreateLead, UpdateLead, vars, Tells, BeginMessage, CreateIntent,
           FindNoIntent, LeadOfIntent, WinLeadOfIntent, FindIntent, Converts, ReadIntent, ReadLead,
           MakeBooking, RefuseBooking, WinLead, Abort
<1> QED BY <1>1, <1>2, <1>3, <1>4, <1>5

\* The lead of an intent is won.
Won(i) == lead[i] # NONE /\ lead[i].status = "WON"

\* bookIntent ends by winning the lead.
LEMMA UpsertWins ==
    ASSUME TypeInv, NEW i \in Intents, NEW b \in Booking, UpsertLead(i, "BOOKED", TRUE, b)
    PROVE  Won(i)'
<1>1. lead'[i] # NONE
    <2>1. \E status \in IntentStatus, customer \in BOOLEAN, booking \in Booking :
             UpsertLead(i, status, customer, booking)
        BY DEF IntentStatus
    <2> QED BY <2>1, UpsertTyped, RowsExist
<1>2. lead'[i].status = LeadStatusOf("BOOKED", b)
    <2>1. i \in Leads /\ lead \in [Leads -> Lead \cup {NONE}]
        BY RowsExist DEF TypeInv, TypeOK
    <2>2. CASE lead[i] = NONE
        BY <2>1, <2>2 DEF UpsertLead
    <2>3. CASE lead[i] # NONE
        <3>1. lead[i] \in Lead
            BY <2>1, <2>3
        <3> QED BY <2>1, <2>3, <3>1 DEF UpsertLead, Lead
    <2> QED BY <2>2, <2>3
<1> QED BY <1>1, <1>2 DEF Won, LeadStatusOf

\* What a step does to the lead of an intent.
LEMMA LeadSteps ==
    ASSUME TypeInv, [Next]_vars, NEW i \in Intents
    PROVE  \/ lead'[i] = lead[i]
           \/ \E w \in Workers : pc[w] = "lead" /\ key[w] = i
           \/ i \in edited'
           \/ Won(i)'
<1> USE RowsExist DEF rows, local, history
<1>1. ASSUME NEW w \in Workers, LeadOfIntent(w), lead'[i] # lead[i] PROVE pc[w] = "lead" /\ key[w] = i
    BY <1>1 DEF LeadOfIntent, UpsertLead, TypeInv, TypeOK
<1>2. ASSUME NEW w \in Workers, WinLeadOfIntent(w), lead'[i] # lead[i] PROVE Won(i)'
    <2>1. key[w] = i /\ made[w] \in Booking
        BY <1>2 DEF WinLeadOfIntent, UpsertLead, TypeInv, TypeOK
    <2>2. UpsertLead(i, "BOOKED", TRUE, made[w])
        BY <1>2, <2>1 DEF WinLeadOfIntent
    <2> QED BY <2>1, <2>2, UpsertWins
<1>3. ASSUME NEW w \in Workers, WinLead(w), lead'[i] # lead[i] PROVE Won(i)'
    <2>1. key[w] \in Leads /\ lead[key[w]] \in Lead /\ made[w] \in Booking
        BY <1>3 DEF WinLead, TypeInv, TypeOK
    <2>2. lead' = [lead EXCEPT ![key[w]].status = "WON", ![key[w]].booking = made[w]]
        BY <1>3 DEF WinLead
    <2>3. key[w] = i
        BY <1>3, <2>1, <2>2 DEF TypeInv, TypeOK
    <2>4. lead'[i] \in Lead /\ lead'[i].status = "WON"
        BY <2>1, <2>2, <2>3 DEF TypeInv, TypeOK, Lead, LeadStatus
    <2> QED BY <2>4 DEF Won
<1>4. ASSUME NEW l \in Leads, NEW status \in LeadStatus, NEW c \in BOOLEAN, UpdateLead(l, status, c),
             lead'[i] # lead[i]
      PROVE  i \in edited'
    <2>1. l = i
        BY <1>4 DEF UpdateLead, TypeInv, TypeOK
    <2> QED BY <1>4, <2>1 DEF UpdateLead, Add
<1>5. ASSUME NEW status \in LeadStatus, NEW c \in BOOLEAN, CreateLead(status, c)
      PROVE  lead'[i] = lead[i]
    BY <1>5 DEF CreateLead, TypeInv, TypeOK
<1>6. \/ UNCHANGED lead
      \/ \E status \in LeadStatus, c \in BOOLEAN : CreateLead(status, c)
      \/ \E l \in Leads, status \in LeadStatus, c \in BOOLEAN : UpdateLead(l, status, c)
      \/ \E w \in Workers : LeadOfIntent(w) \/ WinLeadOfIntent(w) \/ WinLead(w)
    BY ZenonT(40), NextSplit DEF Manages, HandOff, vars, Tells, BeginMessage, CreateIntent, FindNoIntent,
           UpdateIntent, FindIntent, InsertIntent, Converts, ReadIntent, ReadLead,
           MakeBooking, RefuseBooking, RecordBooking, WinIntent, Abort
<1> QED BY <1>1, <1>2, <1>3, <1>4, <1>5, <1>6

\* A message moves one call.
LEMMA TellersStay ==
    ASSUME TypeInv, NEW w \in Workers, Tells(w)
    PROVE  \A v \in Workers \ {w} : pc'[v] = pc[v] /\ key'[v] = key[v]
BY DEF Tells, BeginMessage, CreateIntent, FindNoIntent, UpdateIntent, LeadOfIntent, WinLeadOfIntent,
       FindIntent, InsertIntent, Leave, Goto, TypeInv, TypeOK, local

\* A message that is being written on an inquiry has been, or has found or entered it.
LEMMA WritingSteps ==
    ASSUME TypeInv, [Next]_vars, NEW w \in Workers, pc'[w] \in Writing
    PROVE  \/ /\ pc[w] \in Writing /\ key'[w] = key[w]
              /\ pc'[w] = "update" => pc[w] = "update"
           \/ /\ pc[w] \in {"find", "insert"}
              /\ \E i \in Intents : FindIntent(w, i) \/ InsertIntent(w, i)
<1> USE DEF rows, local
<1>1. CASE Manages
    BY <1>1 DEF Manages, HandOff, CreateLead, UpdateLead, vars
<1>2. ASSUME NEW v \in Workers \ {w}, Converts(v) \/ Abort(v)
      PROVE  pc'[w] = pc[w] /\ key'[w] = key[w]
    BY <1>2, OthersStay
<1>3. CASE Converts(w) \/ Abort(w)
    BY <1>3 DEF Converts, ReadIntent, ReadLead, MakeBooking, RefuseBooking, RecordBooking, WinLead,
           WinIntent, Abort, Leave, Goto, TypeInv, TypeOK
<1>4. ASSUME NEW v \in Workers \ {w}, Tells(v)
      PROVE  pc'[w] = pc[w] /\ key'[w] = key[w]
    BY <1>4, TellersStay
<1>5. CASE Tells(w)
    <2>1. CASE \/ \E d \in Details : BeginMessage(w, d) \/ CreateIntent(w, d)
               \/ FindNoIntent(w) \/ LeadOfIntent(w) \/ WinLeadOfIntent(w)
        BY <2>1 DEF BeginMessage, CreateIntent, FindNoIntent, LeadOfIntent, WinLeadOfIntent, Leave,
               Goto, TypeInv, TypeOK
    <2>2. CASE UpdateIntent(w)
        BY <2>2 DEF UpdateIntent, Goto, TypeInv, TypeOK
    <2>3. CASE \E i \in Intents : FindIntent(w, i) \/ InsertIntent(w, i)
        BY <2>3 DEF FindIntent, InsertIntent
    <2> QED BY <1>5, <2>1, <2>2, <2>3 DEF Tells
<1> QED BY <1>1, <1>2, <1>3, <1>4, <1>5, NextSplit

\* A conversion of an inquiry has been one, or starts and meets the messages on it.
LEMMA ConvertingSteps ==
    ASSUME TypeInv, [Next]_vars, NEW w \in Workers, pc'[w] \in Converting
    PROVE  \/ /\ pc[w] \in Converting /\ key'[w] = key[w]
              /\ pc'[w] = "winintent" => pc[w] = "winintent" \/ WinLead(w)
           \/ /\ pc[w] = "idle" /\ pc'[w] \in {"book", "convert"} /\ intent' = intent
              /\ \A v \in Workers \ {w} : pc'[v] = pc[v] /\ key'[v] = key[v]
              /\ \A v \in Workers : pc[v] \in Writing /\ key[v] = key'[w] => key'[w] \in reopened'
<1> USE DEF rows, local
<1>1. CASE Manages
    BY <1>1 DEF Manages, HandOff, CreateLead, UpdateLead, vars
<1>2. ASSUME NEW v \in Workers \ {w}, Converts(v) \/ Abort(v)
      PROVE  pc'[w] = pc[w] /\ key'[w] = key[w]
    BY <1>2, OthersStay
<1>3. CASE \/ MakeBooking(w) \/ RefuseBooking(w) \/ RecordBooking(w) \/ WinLead(w)
           \/ WinIntent(w) \/ Abort(w)
    BY <1>3 DEF MakeBooking, RefuseBooking, RecordBooking, WinLead,
           WinIntent, Abort, Leave, Goto, TypeInv, TypeOK
<1>4. ASSUME NEW l \in Leads, NEW to \in {"book", "convert"}, NEW hidden,
             pc[w] = "idle", StartConverting(w, l, hidden), Goto(w, to), intent' = intent
      PROVE  /\ pc[w] = "idle" /\ pc'[w] \in {"book", "convert"} /\ intent' = intent
             /\ \A v \in Workers \ {w} : pc'[v] = pc[v] /\ key'[v] = key[v]
             /\ \A v \in Workers : pc[v] \in Writing /\ key[v] = key'[w] => key'[w] \in reopened'
    BY <1>4 DEF StartConverting, Goto, Add, Meets, TypeInv, TypeOK
<1>5. ASSUME NEW v \in Workers, Tells(v)
      PROVE  pc[w] \in Converting /\ key'[w] = key[w] /\ pc'[w] = pc[w]
    BY ZenonT(40), <1>5 DEF Tells, BeginMessage, CreateIntent, FindNoIntent, UpdateIntent, LeadOfIntent,
           WinLeadOfIntent, FindIntent, InsertIntent, AfterInsert, Leave, Goto, TypeInv, TypeOK
<1>6. CASE \/ \E i \in Intents : ReadIntent(w, i)
           \/ \E l \in Leads : ReadLead(w, l)
    BY <1>4, <1>6, RowsExist DEF ReadIntent, ReadLead
<1> QED BY <1>1, <1>2, <1>3, <1>5, <1>6, NextSplit DEF Converts

\* A message that is handled apart from the conversions of its inquiry finds it
\* without a booking, and updates it before it is settled.
ApartOK ==
    \A w \in Workers :
        pc[w] \in Writing /\ key[w] \notin reopened =>
            /\ intent[key[w]].booking = 0
            /\ \A v \in Workers : key[v] = key[w] => pc[v] \notin Converting
            /\ pc[w] = "update" => ~Settled(key[w])

\* What the receptionist still collects has no booking.
OpenOK ==
    \A i \in Intents \ reopened :
        intent[i] # NONE /\ intent[i].status \in {"COLLECTING", "READY"} => intent[i].booking = 0

ApartInv == TypeInv /\ ApartOK /\ OpenOK

LEMMA InitApart == Init => ApartInv
BY InitTyped DEF Init, ApartInv, ApartOK, OpenOK

\* Every step keeps messages and conversions apart, or counts the intent as reopened.
LEMMA StepApart == ApartInv /\ [Next]_vars => ApartInv'
<1> SUFFICES ASSUME ApartInv, [Next]_vars PROVE ApartInv'
    OBVIOUS
<1> USE RowsExist
<1>0. TypeInv /\ TypeInv' /\ ApartOK /\ OpenOK /\ reopened \subseteq reopened'
    BY StepTyped, HistoryGrows DEF ApartInv
<1>1. OpenOK'
    <2> SUFFICES ASSUME NEW i \in Intents, i \notin reopened', intent'[i] # NONE,
                        intent'[i].status \in {"COLLECTING", "READY"}
                 PROVE  intent'[i].booking = 0
        BY DEF OpenOK
    <2>1. ASSUME NEW w \in Workers, pc[w] = "update", key[w] = i PROVE intent[i].booking = 0
        BY <1>0, <2>1 DEF ApartOK
    <2> QED BY <1>0, <2>1, IntentSteps DEF OpenOK
<1>2. ASSUME NEW w \in Workers, pc'[w] \in Writing, NEW i \in Intents, i = key'[w], i \notin reopened'
      PROVE  /\ intent'[i].booking = 0
             /\ \A v \in Workers : key'[v] = i => pc'[v] \notin Converting
             /\ pc'[w] = "update" => ~(Settled(i)')
    <2>1. CASE /\ pc[w] \in Writing /\ key'[w] = key[w]
               /\ pc'[w] = "update" => pc[w] = "update"
        <3>1. /\ intent[i].booking = 0 /\ intent[i] \in Intent
              /\ \A v \in Workers : key[v] = i => pc[v] \notin Converting
              /\ pc[w] = "update" => ~Settled(i)
            BY <1>0, <1>2, <2>1 DEF ApartOK, TypeInv, TypeOK
        <3>2. ~HandOff
            BY <1>0, <1>2, <2>1 DEF HandOff
        <3>3. \A v \in Workers : RecordBooking(v) \/ WinIntent(v) => key[v] # i
            BY <3>1 DEF RecordBooking, WinIntent
        <3>4. intent'[i].booking = 0
            BY <1>0, <3>1, <3>2, <3>3, IntentSteps
        <3>5. \A v \in Workers : key'[v] = i => pc'[v] \notin Converting
            <4> SUFFICES ASSUME NEW v \in Workers, key'[v] = i, pc'[v] \in Converting PROVE FALSE
                OBVIOUS
            <4> QED BY <1>0, <1>2, <2>1, <3>1, ConvertingSteps
        <3>6. pc'[w] = "update" => ~(Settled(i)')
            BY <1>0, <2>1, <3>1, <3>2, <3>3, IntentSteps DEF Settled
        <3> QED BY <3>4, <3>5, <3>6
    <2>2. CASE pc[w] = "find" /\ FindIntent(w, i)
        <3>1. /\ intent[i] # NONE /\ intent[i].status = "COLLECTING" /\ intent' = intent
              /\ i \notin reopened
            BY <1>0, <1>2, <2>2 DEF FindIntent, CollectingIntents, rows
        <3>2. intent'[i].booking = 0
            BY <1>0, <3>1 DEF OpenOK
        <3>3. \A v \in Workers \ {w} : key[v] = i => pc[v] \notin Converting
            BY <1>2, <2>2 DEF FindIntent, Add, Meets
        <3>4. \A v \in Workers \ {w} : pc'[v] = pc[v] /\ key'[v] = key[v]
            BY <1>0, <2>2 DEF FindIntent, Goto, TypeInv, TypeOK
        <3>5. ~(Settled(i)')
            BY <3>1 DEF Settled
        <3> QED BY <1>2, <3>2, <3>3, <3>4, <3>5
    <2>3. CASE pc[w] = "insert" /\ InsertIntent(w, i)
        <3>1. intent[i] = NONE /\ intent'[i].booking = 0
            <4>1. intent[i] = NONE
                BY <2>3 DEF InsertIntent
            <4>2. intent'[i] # NONE
                BY <1>0, <1>2 DEF TypeInv, TypeOK
            <4>3. \A v \in Workers : RecordBooking(v) \/ WinIntent(v) => key[v] # i
                BY <1>0, <4>1 DEF RecordBooking, WinIntent, TypeInv, TypeOK
            <4> QED BY <1>0, <4>1, <4>2, <4>3, IntentSteps
        <3>2. \A v \in Workers : key[v] = i => pc[v] \notin Converting
            BY <1>0, <3>1 DEF TypeInv, TypeOK, LeadOK
        <3>3. pc'[w] = "lead" /\ \A v \in Workers \ {w} : pc'[v] = pc[v] /\ key'[v] = key[v]
            BY <1>0, <2>3 DEF InsertIntent, AfterInsert, Goto, TypeInv, TypeOK
        <3> QED BY <3>1, <3>2, <3>3
    <2>4. ASSUME NEW j \in Intents, FindIntent(w, j) \/ InsertIntent(w, j)
          PROVE  (pc[w] = "find" /\ FindIntent(w, i)) \/ (pc[w] = "insert" /\ InsertIntent(w, i))
        <3>1. j = key'[w]
            BY <1>0, <2>4 DEF FindIntent, InsertIntent, TypeInv, TypeOK
        <3> QED BY <1>2, <2>4, <3>1 DEF FindIntent, InsertIntent
    <2> QED BY <1>0, <1>2, <2>1, <2>2, <2>3, <2>4, WritingSteps
<1>3. ApartOK'
    <2> SUFFICES ASSUME NEW w \in Workers, pc'[w] \in Writing, key'[w] \notin reopened'
                 PROVE  /\ intent'[key'[w]].booking = 0
                        /\ \A v \in Workers : key'[v] = key'[w] => pc'[v] \notin Converting
                        /\ pc'[w] = "update" => ~(Settled(key[w])')
        BY DEF ApartOK
    <2>1. PICK i \in Intents : i = key'[w]
        BY <1>0 DEF TypeInv, TypeOK
    <2>2. pc'[w] = "update" => ~(Settled(i)')
        BY <1>2, <2>1
    <2>3. pc'[w] = "update" => ~(Settled(key[w])')
        BY <2>1, <2>2 DEF Settled
    <2> QED BY <1>2, <2>1, <2>3
<1> QED BY <1>0, <1>1, <1>3 DEF ApartInv

\* The receptionist does not take back an intent that was handed to a person or
\* booked, except by the message that was being handled meanwhile.
THEOREM SettledIsKept == Spec => SettledStays
<1>1. ASSUME ApartInv, [Next]_vars, NEW i \in Intents, Settled(i)
      PROVE  Settled(i)' \/ i \in reopened
    <2>1. ASSUME NEW w \in Workers, pc[w] = "update", key[w] = i PROVE i \in reopened
        BY <1>1, <2>1 DEF ApartInv, ApartOK
    <2>2. TypeInv
        BY <1>1 DEF ApartInv
    <2> QED BY <1>1, <2>1, <2>2, IntentSteps DEF Settled
<1>2. ApartInv /\ [Next]_vars => [\A i \in Intents : Settled(i) => Settled(i)' \/ i \in reopened]_vars
    BY <1>1
<1> QED BY <1>2, InitApart, StepApart, PTL DEF Spec, SettledStays

\* A booked intent's lead is won, or is about to be.
WonOK ==
    /\ \A i \in Intents : i \notin edited \cup reopened \cup lost /\ BookingOfIntent(i) # 0 =>
          Won(i) \/ \E w \in Workers : pc[w] = "winlead" /\ key[w] = i
    /\ \A w \in Workers, i \in Intents :
          pc[w] = "winintent" /\ key[w] = i /\ i \notin edited \cup reopened => Won(i)

WonInv == ApartInv /\ WonOK

LEMMA InitWon == Init => WonInv
BY InitApart, RowsExist DEF Init, WonInv, WonOK, BookingOfIntent

\* Every step keeps the leads of booked intents won, or about to be.
LEMMA StepWon == WonInv /\ [Next]_vars => WonInv'
<1> SUFFICES ASSUME WonInv, [Next]_vars PROVE WonInv'
    OBVIOUS
<1> USE RowsExist
<1>0. /\ ApartInv' /\ TypeInv /\ TypeInv' /\ ApartOK /\ WonOK /\ edited \subseteq edited'
      /\ reopened \subseteq reopened' /\ lost \subseteq lost'
    BY StepApart, HistoryGrows DEF WonInv, ApartInv
<1>1. ASSUME NEW i \in Intents, i \notin edited' \cup reopened', Won(i),
             (intent[i] # NONE /\ intent[i].booking # 0)
                \/ \E w \in Workers : key[w] = i /\ pc[w] \in Converting
      PROVE  Won(i)'
    <2>1. ASSUME NEW v \in Workers, pc[v] = "lead", key[v] = i PROVE FALSE
        BY <1>0, <1>1, <2>1 DEF ApartOK
    <2> QED BY <1>0, <1>1, <2>1, LeadSteps DEF Won
<1>2. ASSUME NEW w \in Workers, NEW i \in Intents, pc'[w] = "winintent", key'[w] = i,
             i \notin edited' \cup reopened'
      PROVE  Won(i)'
    <2>1. CASE pc[w] = "winintent" /\ key[w] = i
        <3>1. Won(i)
            BY <1>0, <1>2, <2>1 DEF WonOK
        <3> QED BY <1>1, <1>2, <2>1, <3>1
    <2>2. CASE WinLead(w) /\ key[w] = i
        <3>1. i \in Leads /\ lead[i] \in Lead /\ made[w] \in Booking
            BY <1>0, <2>2 DEF WinLead, TypeInv, TypeOK
        <3>2. lead' = [lead EXCEPT ![i].status = "WON", ![i].booking = made[w]]
            BY <2>2 DEF WinLead
        <3>3. lead'[i] \in Lead /\ lead'[i].status = "WON"
            BY <1>0, <3>1, <3>2 DEF TypeInv, TypeOK, Lead, LeadStatus
        <3> QED BY <3>3 DEF Won
    <2> QED BY <1>0, <1>2, <2>1, <2>2, ConvertingSteps
<1>3. ASSUME NEW i \in Intents, i \notin edited' \cup reopened' \cup lost',
             intent'[i] # NONE, intent'[i].booking # 0
      PROVE  Won(i)' \/ \E w \in Workers : pc'[w] = "winlead" /\ key'[w] = i
    <2>1. ASSUME NEW w \in Workers, RecordBooking(w), key[w] = i
          PROVE  pc'[w] = "winlead" /\ key'[w] = i
        BY <1>0, <2>1 DEF RecordBooking, Goto, TypeInv, TypeOK, local
    <2>2. ASSUME NEW w \in Workers, WinIntent(w), key[w] = i PROVE Won(i)'
        <3>1. Won(i)
            BY <1>0, <1>3, <2>2 DEF WinIntent, WonOK
        <3> QED BY <2>2, <3>1 DEF WinIntent, Won
    <2>3. ASSUME intent[i] # NONE, intent[i].booking # 0
          PROVE  Won(i)' \/ \E w \in Workers : pc'[w] = "winlead" /\ key'[w] = i
        <3>1. CASE Won(i)
            BY <1>1, <1>3, <2>3, <3>1
        <3>2. ASSUME NEW w \in Workers, pc[w] = "winlead", key[w] = i
              PROVE  Won(i)' \/ (pc'[w] = "winlead" /\ key'[w] = i)
            <4>1. CASE WinLeadOfIntent(w)
                <5>1. UpsertLead(i, "BOOKED", TRUE, made[w]) /\ made[w] \in Booking
                    BY <1>0, <3>2, <4>1 DEF WinLeadOfIntent, TypeInv, TypeOK
                <5> QED BY <1>0, <5>1, UpsertWins
            <4>2. CASE Abort(w)
                BY <1>3, <3>2, <4>2 DEF Abort, Add
            <4>3. CASE Converts(w)
                BY <3>2, <4>3 DEF Converts, ReadIntent, ReadLead, MakeBooking, RefuseBooking,
                       RecordBooking, WinLead, WinIntent
            <4>4. CASE Manages
                BY <3>2, <4>4 DEF Manages, HandOff, CreateLead, UpdateLead, vars, local
            <4>5. ASSUME NEW v \in Workers \ {w}, Converts(v) \/ Abort(v)
                  PROVE  pc'[w] = "winlead" /\ key'[w] = i
                BY <1>0, <3>2, <4>5, OthersStay
            <4>6. ASSUME NEW v \in Workers, Tells(v), ~WinLeadOfIntent(w)
                  PROVE  pc'[w] = "winlead" /\ key'[w] = i
                <5>1. v # w
                    BY <3>2, <4>6 DEF Tells, BeginMessage, CreateIntent, FindNoIntent, UpdateIntent,
                           LeadOfIntent, FindIntent, InsertIntent
                <5> QED BY <1>0, <3>2, <4>6, <5>1, TellersStay
            <4> QED BY <4>1, <4>2, <4>3, <4>4, <4>5, <4>6, NextSplit
        <3> QED BY <1>0, <1>3, <2>3, <3>1, <3>2 DEF WonOK, BookingOfIntent
    <2> QED BY <1>0, <1>3, <2>1, <2>2, <2>3, IntentSteps
<1>4. WonOK'
    BY <1>2, <1>3 DEF WonOK, BookingOfIntent
<1> QED BY <1>0, <1>4 DEF WonInv

\* The lead of a booked intent is won and is not followed up any more, but for the
\* reasons the property names.
THEOREM BookedLeadsAreWon == Spec => []BookedLeadWon
<1>1. WonInv => BookedLeadWon
    BY RowsExist DEF WonInv, WonOK, BookedLeadWon, Won, Quiet
<1> QED BY <1>1, InitWon, StepWon, PTL DEF Spec
=============================================================================
