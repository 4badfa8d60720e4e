\* Two runs at a time over one customer with one invoice.
SPECIFICATION Spec
CONSTANTS
    NONE = NONE
    w1 = w1
    w2 = w2
    Workers = {w1, w2}
    FirstDue <- MCFirstDue
    MaxDays = 2
    MaxEdits = 3
    MaxSent = 2
    MaxFaults = 1
SYMMETRY WorkerSymmetry
INVARIANT TypeOK
INVARIANT ContactedOnce
INVARIANT RecordedIsDone
PROPERTY OnlyOldCopiesBother
CHECK_DEADLOCK FALSE
