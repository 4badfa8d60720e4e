\* Two calls at a time on one invoice and its two payments.
SPECIFICATION FairSpec
CONSTANTS
    NONE = NONE
    i1 = i1
    p1 = p1
    p2 = p2
    w1 = w1
    w2 = w2
    Invoices = {i1}
    Payments = {p1, p2}
    Workers = {w1, w2}
    MaxFaults = 1
INVARIANT TypeOK
INVARIANT ProcessedMeansSucceeded
PROPERTY OnlyStaleWritesAfterEnd
PROPERTY ChargedIsRecorded
