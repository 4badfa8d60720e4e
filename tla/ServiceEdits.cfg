\* Two requests in flight on one booking while its service changes.
SPECIFICATION Spec
CONSTANTS
    NONE = NONE
    b1 = b1
    b2 = b2
    h1 = h1
    h2 = h2
    manager = manager
    staff = staff
    clean = clean
    deep = deep
    Users = {manager, staff}
    Managers = {manager}
    Bookings = {b1}
    Handlers = {h1, h2}
    Services = {clean, deep}
    Durations = {1, 2}
    Starts = {0, 1}
    Week = 2
    MaxRepeat = 1
    MaxInvoices = 0
    Requests <- ServiceRequests
SYMMETRY HandlerSymmetry
INVARIANT EndFromOffered
PROPERTY OnlyStaleWritesUndoMoves
