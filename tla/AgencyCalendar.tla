--------------------------- MODULE AgencyCalendar ---------------------------
(***************************************************************************)
(* What the bookings of a tenant promise, seen from outside: a calendar in *)
(* which a booking appears at once, moves through its life along one table *)
(* and never keeps a user busy twice.  No handlers, snapshots or awaits.   *)
(***************************************************************************)
EXTENDS Integers

CONSTANTS Bookings, Users, NONE

VARIABLE calendar

Active   == {"REQUESTED", "CONFIRMED", "IN_PROGRESS"}
Statuses == Active \cup {"COMPLETED", "NO_SHOW", "CANCELLED"}

Entry == [status : Statuses, staff : Users \cup {NONE}, start : Nat,
          end : Nat \cup {NONE}]

MayBecome(s, t) ==
    \/ s = t
    \/ s = "REQUESTED"   /\ t \in {"CONFIRMED", "CANCELLED"}
    \/ s = "CONFIRMED"   /\ t \in Statuses \ {"REQUESTED"}
    \/ s = "IN_PROGRESS" /\ t \in {"COMPLETED", "CANCELLED"}

Busy(e) == e.status \in Active /\ e.staff # NONE /\ e.end # NONE

Collide(e, f) ==
    /\ Busy(e) /\ Busy(f)
    /\ e.staff = f.staff
    /\ e.start < f.end /\ f.start < e.end

Entries == {b \in Bookings : calendar[b] # NONE}

Init == calendar = [b \in Bookings |-> NONE]

\* The calendar with entry e under b; e may not collide with another entry.
Put(b, e) ==
    /\ e \in Entry
    /\ \A c \in Entries \ {b} : ~Collide(calendar[c], e)
    /\ calendar' = [calendar EXCEPT ![b] = e]

Book(b)   == b \notin Entries /\ Put(b, calendar'[b])
Change(b) ==
    /\ b \in Entries
    /\ Put(b, calendar'[b])
    /\ MayBecome(calendar[b].status, calendar'[b].status)

Next == \E b \in Bookings : Book(b) \/ Change(b)

Spec == Init /\ [][Next]_calendar
=============================================================================
