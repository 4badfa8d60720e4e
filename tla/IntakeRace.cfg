\* Two calls at a time, of any kind, over two customers and two members of staff.
SPECIFICATION Spec
CONSTANTS
    NONE = NONE
    w1 = w1
    w2 = w2
    p1 = p1
    p2 = p2
    e1 = e1
    e2 = e2
    n1 = n1
    Workers = {w1, w2}
    Phones = {p1, p2}
    Emails = {e1, e2}
    Names = {n1}
    Messages <- MCMessages
    Lists <- MCLists
    Plans <- MCPlans
    MaxCalls = 3
    MaxEdits = 1
    MaxFaults = 1
SYMMETRY CallSymmetry
INVARIANT TypeOK
INVARIANT InboundKept
PROPERTY AnsweredIsLogged
PROPERTY OnlyOldLooksExceed
CHECK_DEADLOCK FALSE
