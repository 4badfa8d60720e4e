\* Two calls at a time on one run.
SPECIFICATION FairSpec
CONSTANTS
    NONE = NONE
    k1 = k1
    w1 = w1
    w2 = w2
    Keys = {k1}
    Workers = {w1, w2}
    MaxRetries = 1
    MaxFaults = 1
INVARIANT TypeOK
INVARIANT OneMessageUnlessExcused
INVARIANT SentIsLogged
PROPERTY DueRunsEnd
