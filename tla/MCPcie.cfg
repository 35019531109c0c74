SPECIFICATION FairSpec
CONSTANTS
    QSize = 8
    WarmReset = 0
    ColdReset = 1
    Reboot = 1
    Stored = {0}
    DumpDisabled = FALSE
    Faults = {"crash", "self", "ioctl", "silent", "mux", "mount", "nvm", "slow", "flash", "dump"}
    MaxFaults = 1
    MaxNet = 2
    Requests = {"EV_CLI_START", "EV_CLI_STOP", "EV_CLI_RESET", "EV_CLI_UPDATE", "EV_CLI_NVM_BACKUP"}
    MaxRequests = 3
INVARIANTS AssertsHold RunIsWhole UpIsTrue
PROPERTIES NvmIsSafe Answered
CHECK_DEADLOCK FALSE
