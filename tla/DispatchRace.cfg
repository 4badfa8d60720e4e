\* Two calls at a time on one booking and its actions.
SPECIFICATION Spec
CONSTANTS
    NONE = NONE
    b1 = b1
    s1 = s1
    w1 = w1
    w2 = w2
    Bookings = {b1}
    Staff = {s1}
    Workers = {w1, w2}
    MaxEdits = 1
    Tracked = {"DISPATCH_STAFF", "CONFIRM_BOOKING"}
SYMMETRY WorkerSymmetry
INVARIANT TypeOK
INVARIANT AssigneeInSync
INVARIANT CompletedIsClosed
PROPERTY OnlyStaleOpens
