SPECIFICATION FaultSpec
CONSTANTS
    QSize = 8
    WarmReset = 0
    ColdReset = 1
    Reboot = 1
    Stored = {0, 1}
    DumpEnabled = TRUE
    EnableFmmo = TRUE
    MaxClients = 1
    Bitmaps <- Followers
    Faults = {"off", "trap", "verify-fail", "mute", "rpc", "sysfs",
              "dump", "late"}
    MaxFaults = 1
    MaxUevents = 2
    MaxRpc = 2
    Requests = {"ACQUIRE", "RELEASE", "RESTART", "ACK_COLD_RESET",
                "ACK_SHUTDOWN"}
    SendsFail = FALSE
INVARIANTS OneRequest UpIsTrue ClientsKnow
PROPERTIES KeepsContract
CHECK_DEADLOCK FALSE
