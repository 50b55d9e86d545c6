SPECIFICATION Spec
CONSTANTS
    Client = {c1}
    Accepted = {a1, a2}
    Bev = {b1, b2, b3}
    NULL = NULL
    CloseBusy = TRUE
    ReconnectEarly = TRUE
    FailAtOnce = {"quiet", "eventcb"}
    MaxDepth = 3
SYMMETRY Symmetry
INVARIANTS TypeOK MapExact OwnBufferevent
CHECK_DEADLOCK FALSE
