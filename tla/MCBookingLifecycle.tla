------------------------- MODULE MCBookingLifecycle -------------------------
\* Small tenants for TLC: who works there, and which requests clients send.
EXTENDS BookingLifecycle, TLC

CONSTANTS b1, b2, h1, h2, manager, staff, clean, deep

Blank == [kind |-> "update", user |-> manager, status |-> NONE,
          service |-> NONE, start |-> NONE, staff |-> NONE,
          repeat |-> 1, invoice |-> FALSE]

Create(status, service, start, who, repeat) ==
    [Blank EXCEPT !.kind = "create", !.status = status, !.service = service,
                  !.start = start, !.staff = who, !.repeat = repeat]
Portal(service, start, payNow) ==
    [Blank EXCEPT !.kind = "portal", !.service = service, !.start = start,
                  !.invoice = payNow]
Fixture(service, start, who) ==
    [Blank EXCEPT !.kind = "fixture", !.service = service, !.start = start,
                  !.staff = who]
Field(kind, user, invoice) ==
    [Blank EXCEPT !.kind = kind, !.user = user, !.invoice = invoice]
Assign(who)       == [Blank EXCEPT !.kind = "assign", !.staff = who]
Move(start)       == [Blank EXCEPT !.start = start]
Reassign(who)     == [Blank EXCEPT !.staff = who]
Switch(service)   == [Blank EXCEPT !.service = service]
Mark(user, status) == [Blank EXCEPT !.user = user, !.status = status]

\* Two requests at a time fill and move the calendar of one staff member; one of them
\* books a series, whose second row comes after others have moved the first.
CalendarRequests ==
    {Create("CONFIRMED", clean, 0, staff, 1), Create("REQUESTED", clean, 1, NONE, 1),
     Create("CONFIRMED", clean, 0, staff, 2),
     Move(1), Reassign(staff), Assign(staff), Mark(manager, "CANCELLED")}

\* Two requests at a time start, complete, annotate, bill and cancel one job.
CompletionRequests ==
    {Create("REQUESTED", clean, 0, staff, 1), Portal(clean, 0, TRUE),
     Fixture(clean, 0, staff), Assign(staff),
     Mark(manager, "CANCELLED"), Mark(manager, "COMPLETED"),
     Mark(staff, "COMPLETED"), Field("start", staff, FALSE), Field("complete", staff, TRUE),
     Field("notes", staff, FALSE)}

\* Two requests at a time on one booking while services change.
ServiceRequests ==
    {Create("CONFIRMED", clean, 0, staff, 1), Move(1), Switch(deep),
     Mark(staff, "IN_PROGRESS")}

\* One request at a time: every status, a series, every kind of request.
SequentialRequests ==
    {Create(s, clean, 0, staff, 2) : s \in {"REQUESTED", "CONFIRMED"}}
    \cup {Portal(clean, 1, TRUE), Fixture(clean, 0, staff)}
    \cup {Mark(manager, s) : s \in BookingStatus}
    \cup {Mark(staff, "COMPLETED"), Move(1), Assign(staff),
          Field("start", staff, FALSE), Field("notes", staff, FALSE),
          Field("complete", staff, TRUE)}

HandlerSymmetry == Permutations(Handlers)
RaceSymmetry == Permutations(Bookings) \cup Permutations(Handlers)
BookingSymmetry == Permutations(Bookings)
=============================================================================
