\* One event of each kind, two calls at a time on the tenant.
SPECIFICATION Spec
CONSTANTS
    NONE = NONE
    e1 = e1
    w1 = w1
    w2 = w2
    Starts <- MCStarts
    Events = {e1}
    Contents <- MCContents
    Workers = {w1, w2}
    Changes <- MCChanges
    MaxReplays = 1
    MaxEdits = 2
    MaxFaults = 1
INVARIANT TypeOK
INVARIANT RecordedOnce
INVARIANT ProcessedIsRecorded
INVARIANT ActiveIsPaid
PROPERTY OnlyOldCopiesHarm
CHECK_DEADLOCK FALSE
