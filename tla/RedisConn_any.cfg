SPECIFICATION Spec
CONSTANTS
    c1 = c1
    c2 = c2
    Conn = {c1, c2}
    x1 = x1
    x2 = x2
    Ctx = {x1, x2}
    o1 = o1
    o2 = o2
    Opt = {o1, o2}
    NULL = NULL
    Busy = Busy
    CleanDestroy = FALSE
    SyncFail = TRUE
    FdOverflow = TRUE
    MaxFailed = 1
SYMMETRY Symmetry
INVARIANT TypeOK
INVARIANT OneHolder
INVARIANT RepliesMatchCallbacks
INVARIANT EventsArmed
PROPERTY KeepsLifecycle
CHECK_DEADLOCK FALSE
