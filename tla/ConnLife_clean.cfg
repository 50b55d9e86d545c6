SPECIFICATION FairSpec
CONSTANTS
    Client = {c1}
    Accepted = {a1, a2}
    Bev = {b1, b2, b3}
    NULL = NULL
    CloseBusy = FALSE
    ReconnectEarly = FALSE
    FailAtOnce = {}
    MaxDepth = 3
INVARIANTS NoWild LinksExact
PROPERTIES ConnectAnswered FailedConnectorFreed
