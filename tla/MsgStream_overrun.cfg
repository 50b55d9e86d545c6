SPECIFICATION Spec
CONSTANTS
    Base = 4
    MAX_MSG_DATA_LEN = 3
    MaxSendBuf = 0
    SendData = FALSE
    TailByte <- Zero
    Bodies <- OfTwo
    Accepted = TRUE
    MaxSent = 2
    MaxConnections = 1
INVARIANT NoOverrun
CHECK_DEADLOCK FALSE
