\* Two requests in flight on one job.
SPECIFICATION Spec
CONSTANTS
    NONE = NONE
    b1 = b1
    b2 = b2
    h1 = h1
    h2 = h2
    manager = manager
    staff = staff
    clean = clean
    deep = deep
    Users = {manager, staff}
    Managers = {manager}
    Bookings = {b1}
    Handlers = {h1, h2}
    Services = {clean}
    Durations = {2}
    Starts = {0, 1}
    Week = 2
    MaxRepeat = 1
    MaxInvoices = 2
    Requests <- CompletionRequests
SYMMETRY HandlerSymmetry
INVARIANT CompletionAnsweredWithInvoice
INVARIANT ChargedOnce
PROPERTY CompletedReportFinal
PROPERTY OnlyStaleWritesBreakTransitions
