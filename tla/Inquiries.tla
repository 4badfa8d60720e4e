------------------------------ MODULE Inquiries ------------------------------
(***************************************************************************)
(* One conversation with a customer, the booking intents collected in it,  *)
(* their leads, and the bookings these are turned into:                    *)
(* ReceptionistService.handleInquiry and handoff, InboxService             *)
(* .createBookingIntent, sendQuote, convertToLead and bookIntent, and      *)
(* LeadsService.                                                           *)
(*                                                                         *)
(* An inquiry is an intent with the lead that carries its id, or a lead a  *)
(* manager enters by hand, which has no intent.  It can be booked from     *)
(* both ends: bookIntent checks the intent for a booking, convertToBooking *)
(* the lead, and each checks before the booking is made and records it     *)
(* after.  The status of the conversation, the replies and the log of      *)
(* messages are left out: no step here reads them.                         *)
(***************************************************************************)
EXTENDS Naturals

CONSTANTS
    Intents,     \* booking intents of the conversation
    ByHand,      \* the lead without an intent
    Known,       \* whether the conversation has a customer; this never changes
    Workers,     \* calls in progress at the same time
    Messages,    \* what a message or a manager may tell of an inquiry
    MaxBookings, \* bound on the bookings made of one inquiry
    MaxEdits,    \* bound on what managers change by hand
    MaxFaults,   \* bound on failures
    NONE

Leads == Intents \cup {ByHand}

\* The open statuses NEW, CONTACTED, QUALIFIED and BOOKING_READY of a lead are
\* not told apart.  A booking is its number among those of the inquiry, 0 none.
IntentStatus == {"COLLECTING", "READY", "BOOKED", "HANDED_OFF"}
LeadStatus   == {"OPEN", "WON", "LOST"}
Booking      == 0..MaxBookings
Intent  == [status : IntentStatus, customer : BOOLEAN, service : BOOLEAN, booking : Booking]
Lead    == [status : LeadStatus, customer : BOOLEAN, booking : Booking]
Details == [phone : BOOLEAN, service : BOOLEAN, ready : BOOLEAN]

\* missingFields: nothing is missing only if the phone and the service are known.
Complete(d) == d.ready => d.phone /\ d.service

ASSUME BoundsAssumption ==
    /\ Known \in BOOLEAN /\ Messages \subseteq {d \in Details : Complete(d)}
    /\ MaxBookings \in Nat /\ MaxEdits \in Nat /\ MaxFaults \in Nat

ASSUME NamesAssumption == ByHand \notin Intents /\ NONE \notin Leads \cup Intent \cup Lead

VARIABLES
    intent,   \* BookingIntent rows
    lead,     \* Lead rows, by their bookingIntentId
    bookings, \* number of bookings made of an inquiry
    pc,       \* next await of each worker
    key,      \* the inquiry it works on
    data,     \* what the message or the manager tells of the inquiry
    made,     \* the booking it has made
    doubled,  \* history: inquiries found without booking by two conversions at once,
              \*   or by one of a lead that does not show the booking of its intent
    lost,     \* history: inquiries whose conversion failed after the booking was made
    reopened, \* history: inquiries a message was about when they were booked or handed off
    edited,   \* history: intents the status of whose lead a manager has set
    edits, faults

rows    == <<intent, lead, bookings>>
local   == <<key, data, made>>
history == <<doubled, lost, reopened, edited>>
vars    == <<rows, pc, local, history, edits, faults>>

\* The steps between the check for a booking and its record, of the same
\* conversion up to its end, and those of a message on an inquiry.
Checked    == {"book", "record", "convert", "win", "winintent"}
Converting == Checked \cup {"winlead"}
Writing    == {"update", "lead"}

Init ==
    /\ intent = [i \in Intents |-> NONE]
    /\ lead = [l \in Leads |-> NONE]
    /\ bookings = [l \in Leads |-> 0]
    /\ pc = [w \in Workers |-> "idle"]
    /\ key = [w \in Workers |-> NONE]
    /\ data = [w \in Workers |-> NONE]
    /\ made = [w \in Workers |-> 0]
    /\ doubled = {} /\ lost = {} /\ reopened = {} /\ edited = {}
    /\ edits = 0 /\ faults = 0

Goto(w, label) == pc' = [pc EXCEPT ![w] = label]

Leave(w) ==
    /\ Goto(w, "idle")
    /\ key' = [key EXCEPT ![w] = NONE]
    /\ data' = [data EXCEPT ![w] = NONE]
    /\ made' = [made EXCEPT ![w] = 0]

\* Another call is between the steps of labels on inquiry l.
Meets(w, l, labels) == \E v \in Workers \ {w} : key[v] = l /\ pc[v] \in labels

Add(set, l, condition) == IF condition THEN set \cup {l} ELSE set

IntentStatusOf(d) == IF d.ready THEN "READY" ELSE "COLLECTING"

\* A definition that is used nowhere is a faulty variant of the next one.
AlwaysOpen(status, booking) == "OPEN"
SameStatus(status, booking) == status

LeadStatusOf(status, booking) ==
    IF booking # 0 \/ status = "BOOKED" THEN "WON" ELSE "OPEN"

\* upsertFromAutomation: the update leaves the booking of the lead alone, and a
\* customer the call does not know does not remove the one of the row.
UpsertLead(i, status, customer, booking) ==
    lead' = [lead EXCEPT ![i] =
        IF lead[i] = NONE
          THEN [status |-> LeadStatusOf(status, booking), customer |-> customer,
                booking |-> booking]
          ELSE [lead[i] EXCEPT !.status = LeadStatusOf(status, booking),
                               !.customer = lead[i].customer \/ customer]]

(***************************************************************************)
(* handleInquiry: a message of the customer                                *)
(***************************************************************************)
OpenIntents == {i \in Intents : intent[i] # NONE /\ intent[i].status # "BOOKED"}

CollectingIntents == {i \in Intents : intent[i] # NONE /\ intent[i].status = "COLLECTING"}

BeginMessage(w, d) ==
    /\ pc[w] = "idle"
    /\ Goto(w, "find")
    /\ data' = [data EXCEPT ![w] = d]
    /\ UNCHANGED <<rows, key, made, history, edits, faults>>

FindIntent(w, i) ==
    /\ pc[w] = "find"
    /\ i \in CollectingIntents
    /\ Goto(w, "update")
    /\ key' = [key EXCEPT ![w] = i]
    /\ reopened' = Add(reopened, i, Meets(w, i, Converting))
    /\ UNCHANGED <<rows, data, made, doubled, lost, edited, edits, faults>>

FindNoIntent(w) ==
    /\ pc[w] = "find"
    /\ CollectingIntents = {}
    /\ Goto(w, "insert")
    /\ UNCHANGED <<rows, local, history, edits, faults>>

\* The intent that was found is updated, whatever its status is by now.
UpdateIntent(w) ==
    /\ pc[w] = "update"
    /\ intent' = [intent EXCEPT ![key[w]] =
          [status |-> IntentStatusOf(data[w]), customer |-> @.customer \/ data[w].phone,
           service |-> @.service \/ data[w].service, booking |-> @.booking]]
    /\ Goto(w, "lead")
    /\ UNCHANGED <<lead, bookings, local, history, edits, faults>>

AfterInsert(w) == "lead"

InsertIntent(w, i) ==
    /\ pc[w] = "insert"
    /\ intent[i] = NONE
    /\ intent' = [intent EXCEPT ![i] =
          [status |-> IntentStatusOf(data[w]), customer |-> data[w].phone,
           service |-> data[w].service, booking |-> 0]]
    /\ key' = [key EXCEPT ![w] = i]
    /\ Goto(w, AfterInsert(w))
    /\ UNCHANGED <<lead, bookings, data, made, history, edits, faults>>

\* The status is that of the intent this call has written.
LeadOfIntent(w) ==
    /\ pc[w] = "lead"
    /\ UpsertLead(key[w], IntentStatusOf(data[w]), data[w].phone, 0)
    /\ Leave(w)
    /\ UNCHANGED <<intent, bookings, history, edits, faults>>

(***************************************************************************)
(* createBookingIntent and sendQuote: a manager enters an intent, whose    *)
(* customer is that of the conversation.  A quote names a service and no   *)
(* address; its reply to the customer goes out at the same time.           *)
(***************************************************************************)
CreateIntent(w, d) ==
    /\ pc[w] = "idle"
    /\ d.phone = Known
    /\ Goto(w, "insert")
    /\ data' = [data EXCEPT ![w] = d]
    /\ UNCHANGED <<rows, key, made, history, edits, faults>>

SendQuote(w) == CreateIntent(w, [phone |-> Known, service |-> TRUE, ready |-> FALSE])

Edit == edits < MaxEdits /\ edits' = edits + 1

(***************************************************************************)
(* handoff: every intent of the conversation is handed to a person, the    *)
(* booked ones too.                                                        *)
(***************************************************************************)
HandOff ==
    /\ Edit
    /\ intent' = [i \in Intents |->
          IF intent[i] = NONE THEN NONE ELSE [intent[i] EXCEPT !.status = "HANDED_OFF"]]
    /\ reopened' = reopened \cup
          {i \in Intents : \E v \in Workers : key[v] = i /\ pc[v] \in Writing}
    /\ UNCHANGED <<lead, bookings, pc, local, doubled, lost, edited, faults>>

(***************************************************************************)
(* create, update and convertToLead: leads by hand                         *)
(***************************************************************************)
CreateLead(status, customer) ==
    /\ Edit
    /\ lead[ByHand] = NONE
    /\ lead' = [lead EXCEPT ![ByHand] =
                  [status |-> status, customer |-> customer, booking |-> 0]]
    /\ UNCHANGED <<intent, bookings, pc, local, history, faults>>

\* The lead takes the customer of the conversation.
ConvertToLead == CreateLead("OPEN", Known)

UpdateLead(l, status, customer) ==
    /\ Edit
    /\ lead[l] # NONE
    /\ lead' = [lead EXCEPT ![l].status = status, ![l].customer = @ \/ customer]
    /\ edited' = Add(edited, l, l # ByHand)
    /\ UNCHANGED <<intent, bookings, pc, local, doubled, lost, reopened, faults>>

(***************************************************************************)
(* bookIntent                                                              *)
(***************************************************************************)
HasParties(i) == Known /\ intent[i].customer /\ intent[i].service

Bookable(i) == HasParties(i) /\ intent[i].booking = 0

BookingOfIntent(l) == IF l = ByHand \/ intent[l] = NONE THEN 0 ELSE intent[l].booking

\* A conversion starts on l: it may meet another one, or a message.
StartConverting(w, l, hidden) ==
    /\ key' = [key EXCEPT ![w] = l]
    /\ doubled' = Add(doubled, l, Meets(w, l, Checked) \/ hidden)
    /\ reopened' = Add(reopened, l, Meets(w, l, Writing))

ReadIntent(w, i) ==
    /\ pc[w] = "idle"
    /\ intent[i] # NONE /\ Bookable(i)
    /\ StartConverting(w, i, FALSE)
    /\ Goto(w, "book")
    /\ UNCHANGED <<rows, data, made, lost, edited, edits, faults>>

\* BookingsService.create: the booking is made, or refused.
MakeBooking(w) ==
    LET l == key[w] IN
    /\ pc[w] \in {"book", "convert"}
    /\ bookings[l] < MaxBookings
    /\ bookings' = [bookings EXCEPT ![l] = @ + 1]
    /\ made' = [made EXCEPT ![w] = bookings[l] + 1]
    /\ Goto(w, IF pc[w] = "book" THEN "record" ELSE "win")
    /\ UNCHANGED <<intent, lead, key, data, history, edits, faults>>

RefuseBooking(w) ==
    /\ pc[w] \in {"book", "convert"}
    /\ Leave(w)
    /\ UNCHANGED <<rows, history, edits, faults>>

Forgotten(w) == 0
Recorded(w) == made[w]

RecordBooking(w) ==
    /\ pc[w] = "record"
    /\ intent' = [intent EXCEPT ![key[w]].status = "BOOKED",
                                ![key[w]].booking = Recorded(w)]
    /\ Goto(w, "winlead")
    /\ UNCHANGED <<lead, bookings, local, history, edits, faults>>

WinLeadOfIntent(w) ==
    /\ pc[w] = "winlead"
    /\ UpsertLead(key[w], "BOOKED", TRUE, made[w])
    /\ Leave(w)
    /\ UNCHANGED <<intent, bookings, history, edits, faults>>

(***************************************************************************)
(* convertToBooking                                                        *)
(***************************************************************************)
Convertible(l) == lead[l].customer /\ lead[l].booking = 0

ReadLead(w, l) ==
    /\ pc[w] = "idle"
    /\ lead[l] # NONE /\ Convertible(l)
    /\ StartConverting(w, l, BookingOfIntent(l) # 0)
    /\ Goto(w, "convert")
    /\ UNCHANGED <<rows, data, made, lost, edited, edits, faults>>

WinLead(w) ==
    /\ pc[w] = "win"
    /\ lead' = [lead EXCEPT ![key[w]].status = "WON", ![key[w]].booking = made[w]]
    /\ IF key[w] = ByHand THEN Leave(w) ELSE Goto(w, "winintent") /\ UNCHANGED local
    /\ UNCHANGED <<intent, bookings, history, edits, faults>>

WinIntent(w) ==
    /\ pc[w] = "winintent"
    /\ intent' = [intent EXCEPT ![key[w]].status = "BOOKED", ![key[w]].booking = made[w]]
    /\ Leave(w)
    /\ UNCHANGED <<lead, bookings, history, edits, faults>>

(***************************************************************************)
(* Faults.  A statement fails or the process dies; a booking may have been *)
(* made by a create that fails in its later statements.                    *)
(***************************************************************************)
Abort(w) ==
    LET l == key[w] IN
    /\ faults < MaxFaults
    /\ pc[w] # "idle"
    /\ faults' = faults + 1
    /\ Leave(w)
    /\ \/ /\ lost' = Add(lost, l, pc[w] \in Converting \ {"book", "convert"})
          /\ UNCHANGED bookings
       \/ /\ pc[w] \in {"book", "convert"}
          /\ bookings[l] < MaxBookings
          /\ bookings' = [bookings EXCEPT ![l] = @ + 1]
          /\ lost' = lost \cup {l}
    /\ UNCHANGED <<intent, lead, doubled, reopened, edited, edits>>

-----------------------------------------------------------------------------
Begin(w) ==
    \/ \E d \in Messages : BeginMessage(w, d) \/ CreateIntent(w, d)
    \/ SendQuote(w)
    \/ \E i \in Intents : ReadIntent(w, i)
    \/ \E l \in Leads : ReadLead(w, l)

\* What a call that has started does next.
Continue(w) ==
    \/ FindNoIntent(w) \/ UpdateIntent(w) \/ LeadOfIntent(w)
    \/ \E i \in Intents : FindIntent(w, i) \/ InsertIntent(w, i)
    \/ MakeBooking(w) \/ RefuseBooking(w) \/ RecordBooking(w) \/ WinLeadOfIntent(w)
    \/ WinLead(w) \/ WinIntent(w)

ByManager ==
    \/ HandOff \/ ConvertToLead
    \/ \E status \in LeadStatus, customer \in BOOLEAN :
          CreateLead(status, customer) \/ \E l \in Leads : UpdateLead(l, status, customer)

Next == ByManager \/ \E w \in Workers : Begin(w) \/ Continue(w) \/ Abort(w)

Spec == Init /\ [][Next]_vars

-----------------------------------------------------------------------------
Labels == Converting \cup Writing \cup {"idle", "find", "insert"}

\* Every variable stays in its domain; whoever writes an intent or a
\* lead works on one that exists.
TypeOK ==
    /\ intent \in [Intents -> Intent \cup {NONE}]
    /\ lead \in [Leads -> Lead \cup {NONE}]
    /\ bookings \in [Leads -> Booking]
    /\ pc \in [Workers -> Labels]
    /\ key \in [Workers -> Leads \cup {NONE}]
    /\ data \in [Workers -> Details \cup {NONE}]
    /\ made \in [Workers -> Booking]
    /\ \A s \in {doubled, lost, reopened, edited} : s \subseteq Leads
    /\ edits \in 0..MaxEdits
    /\ faults \in 0..MaxFaults
    /\ \A w \in Workers :
         /\ pc[w] \in {"find", "insert", "update", "lead"} => data[w] \in Details
         /\ pc[w] \in {"update", "lead", "book", "record", "winlead", "winintent"} =>
              key[w] \in Intents /\ intent[key[w]] \in Intent
         /\ pc[w] \in {"convert", "win", "winintent"} =>
              key[w] \in Leads /\ lead[key[w]] \in Lead

Quiet(l) == \A w \in Workers : key[w] # l

\* An inquiry is booked once, from whichever end it is converted, except for
\* three reasons: two conversions checked it before either recorded its
\* booking, one failed after making it, or its lead did not show the booking
\* made from the inbox.
BookedOnce ==
    \A l \in Leads : bookings[l] > 1 => l \in doubled \cup lost

\* A booking can be found from its inquiry once the conversion has ended,
\* unless that failed: it is recorded on the intent or on the lead.
BookingFound ==
    \A l \in Leads :
        bookings[l] > 0 /\ Quiet(l) /\ l \notin lost =>
            BookingOfIntent(l) # 0 \/ (lead[l] # NONE /\ lead[l].booking # 0)

\* The lead of a booked intent is WON and is not followed up any more, unless a
\* manager has set its status, a message about it was being handled while it
\* was booked, or the conversion failed.
BookedLeadWon ==
    \A i \in Intents :
        BookingOfIntent(i) # 0 /\ Quiet(i) /\ i \notin edited \cup reopened \cup lost =>
            lead[i] # NONE /\ lead[i].status = "WON"

\* The receptionist does not take back an intent that was handed to a person or
\* booked: it leaves that status by a booking or by a handoff only, except by
\* the message that was being handled meanwhile.
Settled(i) == intent[i] # NONE /\ intent[i].status \in {"BOOKED", "HANDED_OFF"}

SettledStays == [][\A i \in Intents : Settled(i) => Settled(i)' \/ i \in reopened]_vars
=============================================================================
