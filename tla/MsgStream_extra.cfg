SPECIFICATION Spec
CONSTANTS
    Base = 4
    MAX_MSG_DATA_LEN = 1
    Bodies <- UpToOne
    MaxSendBuf = 0
    SendData = TRUE
    TailByte <- Zero
    Accepted = TRUE
    MaxSent = 2
    MaxConnections = 1
INVARIANT FramesIntact
CHECK_DEADLOCK FALSE
