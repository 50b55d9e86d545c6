SPECIFICATION Spec
CONSTANTS
    Base = 4
    MAX_MSG_DATA_LEN = 3
    Bodies <- UpToThree
    MaxSendBuf = 0
    SendData = FALSE
    TailByte <- Zero
    Accepted = TRUE
    MaxSent = 1
    MaxConnections = 1
PROPERTY WaitIsHonoured
CHECK_DEADLOCK FALSE
