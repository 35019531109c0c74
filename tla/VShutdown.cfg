SPECIFICATION FaultSpec
CONSTANTS
    QSize = 8
    WarmReset = 0
    ColdReset = 1
    Reboot = 1
    Stored = {0}
    DumpEnabled = TRUE
    EnableFmmo = TRUE
    MaxClients = 1
    Bitmaps <- Followers
    Faults = {}
    MaxFaults = 0
    MaxUevents = 2
    MaxRpc = 2
    Requests = {"ACQUIRE", "SHUTDOWN", "LEAVE", "ACK_SHUTDOWN"}
    SendsFail = FALSE
INVARIANT LeaversAreCounted
CHECK_DEADLOCK FALSE
