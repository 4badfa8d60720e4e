\* One request at a time.
SPECIFICATION Spec
CONSTANTS
    NONE = NONE
    b1 = b1
    b2 = b2
    h1 = h1
    h2 = h2
    manager = manager
    staff = staff
    clean = clean
    deep = deep
    Users = {manager, staff}
    Managers = {manager}
    Bookings = {b1, b2}
    Handlers = {h1}
    Services = {clean}
    Durations = {1, 2}
    Starts = {0, 1}
    Week = 2
    MaxRepeat = 2
    MaxInvoices = 0
    Requests <- SequentialRequests
SYMMETRY BookingSymmetry
INVARIANT ReportImpliesCompleted
PROPERTY OneAtATimeImplementsCalendar
