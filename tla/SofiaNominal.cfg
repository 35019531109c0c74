SPECIFICATION NominalSpec
CONSTANTS
    QSize = 8
    WarmReset = 0
    ColdReset = 1
    Reboot = 1
    Stored = {0}
    DumpEnabled = TRUE
    EnableFmmo = TRUE
    MaxClients = 2
    Bitmaps <- Followers
    Faults = {"verify-fail"}
    MaxFaults = 1
    MaxUevents = 2
    MaxRpc = 2
    Requests = {"CONNECT", "LEAVE", "REGISTER", "ACQUIRE", "RELEASE",
                "ACK_COLD_RESET", "ACK_SHUTDOWN"}
    SendsFail = FALSE
INVARIANTS AssertsHold FlashedWhileOff
PROPERTIES AcquiredGetsUp ReleasedGetsOff
