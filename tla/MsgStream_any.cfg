SPECIFICATION Spec
CONSTANTS
    Base = 4
    MAX_MSG_DATA_LEN = 2
    Bodies <- UpToTwo
    MaxSendBuf = 0
    SendData = TRUE
    TailByte <- ZeroOrTwo
    Accepted = FALSE
    MaxSent = 1
    MaxConnections = 3
INVARIANTS TypeOK ReadsInBounds
CHECK_DEADLOCK FALSE
