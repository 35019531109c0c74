SPECIFICATION PartsSpec
CONSTANTS
    QSize = 3
    MaxReqId = 2
    MaxSent = 10
    MS = 3
    NS = 4
    MaxDelay = 7
    MaxClock = 4
    BufSize = 11
    Texts <- ModemLines
    MaxLines = 3
    EnableFmmo = TRUE
    MaxClients = 2
    MaxMsgs = 2
    Bitmaps <- Followers
    SendsFail = TRUE
    Requests = {"CONNECT", "LEAVE", "REGISTER", "ACQUIRE", "RELEASE", "RESTART",
                "ACK_COLD_RESET", "ACK_SHUTDOWN"}
INVARIANTS NoFalseAlarm RemainIsClose AnswerIsRead CountersExact AwakeWhileWaiting WaitsInAckStates
PROPERTIES ImplementsFifo
CHECK_DEADLOCK FALSE
