\* Two calls at a time on one conversation with a collected intent.
SPECIFICATION Spec
CONSTANTS
    NONE = NONE
    ByHand = ByHand
    i1 = i1
    w1 = w1
    w2 = w2
    Intents = {i1}
    Workers = {w1, w2}
    MaxBookings = 2
    Known = TRUE
    Messages <- MCMessages
    MaxEdits = 1
    MaxFaults = 2
SYMMETRY WorkerSymmetry
INVARIANT TypeOK
INVARIANT BookedOnce
INVARIANT BookingFound
INVARIANT BookedLeadWon
PROPERTY SettledStays
CHECK_DEADLOCK FALSE
