SPECIFICATION FairFaultSpec
CONSTANTS
    QSize = 8
    WarmReset = 0
    ColdReset = 1
    Reboot = 1
    Stored = {0}
    DumpEnabled = TRUE
    EnableFmmo = TRUE
    MaxClients = 1
    Bitmaps <- Followers
    Faults = {"off", "trap", "verify-fail", "mute", "rpc", "sysfs", "flash",
              "tlv", "dump", "late"}
    MaxFaults = 1
    MaxUevents = 2
    MaxRpc = 2
    Requests = {"ACQUIRE", "RELEASE", "RESTART", "NVM_BACKUP"}
    SendsFail = FALSE
PROPERTIES Settles
CHECK_DEADLOCK FALSE
