SPECIFICATION BothSpec
CONSTANTS
    Base = 4
    MAX_MSG_DATA_LEN = 3
    Bodies <- UpToThree
    MaxSendBuf = 5
    SendData = FALSE
    TailByte <- Zero
    Accepted = TRUE
    MaxSent = 2
    MaxConnections = 2
    RedisConns = {c1}
    Ctx = {x1, x2, x3}
    Opt = {o1, o2}
    NULL = NULL
    Busy = Busy
INVARIANT OutputBounded
PROPERTIES KeepsChannel NothingLost SentDelivered ServedCommandCompletes Reconnects
CHECK_DEADLOCK FALSE
