SPECIFICATION Spec
CONSTANTS
    c1 = c1
    c2 = c2
    Conn = {c1, c2}
    x1 = x1
    x2 = x2
    x3 = x3
    x4 = x4
    Ctx = {x1, x2, x3, x4}
    o1 = o1
    o2 = o2
    Opt = {o1, o2}
    NULL = NULL
    Busy = Busy
    CleanDestroy = TRUE
    SyncFail = TRUE
    FdOverflow = FALSE
    MaxFailed = 1
SYMMETRY Symmetry
INVARIANT CleanOwners
INVARIANT NoAbort
