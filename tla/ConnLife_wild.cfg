SPECIFICATION Spec
CONSTANTS
    Client = {}
    Accepted = {a1}
    Bev = {b1}
    NULL = NULL
    CloseBusy = TRUE
    ReconnectEarly = FALSE
    FailAtOnce = {}
    MaxDepth = 3
PROPERTY OnRecvMayFree
CHECK_DEADLOCK FALSE
