SPECIFICATION NominalSpec
CONSTANTS
    QSize = 8
    WarmReset = 0
    ColdReset = 1
    Reboot = 1
    Stored = {0}
    DumpEnabled = TRUE
    EnableFmmo = FALSE
    MaxClients = 1
    Bitmaps <- Mixed
    Faults = {"elapse"}
    MaxFaults = 0
    MaxUevents = 2
    MaxRpc = 2
    Requests = {"CONNECT", "LEAVE", "REGISTER", "ACQUIRE", "RELEASE",
                "RESTART", "RESTART_DBG", "UPDATE", "NOTIFY_DBG",
                "ACK_COLD_RESET"}
    SendsFail = FALSE
INVARIANTS AssertsHold
PROPERTIES ServiceReturns
