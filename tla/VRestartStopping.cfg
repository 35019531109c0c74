SPECIFICATION FaultSpec
CONSTANTS
    QSize = 8
    WarmReset = 0
    ColdReset = 1
    Reboot = 1
    Stored = {0}
    DumpEnabled = TRUE
    EnableFmmo = TRUE
    MaxClients = 1
    Bitmaps <- Followers
    Faults = {}
    MaxFaults = 0
    MaxUevents = 2
    MaxRpc = 2
    Requests = {"ACQUIRE", "RELEASE", "RESTART", "ACK_COLD_RESET",
                "ACK_SHUTDOWN"}
    SendsFail = FALSE
INVARIANT NoRestartInStopping
CHECK_DEADLOCK FALSE
