SPECIFICATION BuildSpec
CONSTANTS
    Clients = {"crm", "control"}
    MAX_CLIENTS = 2
    MAX_RETRIES = 3
    Buffer = 1
    Byte = 2
    Ascii = 1
    Scenarios <- MCScenarios
    QSize = 1
    Modules = {1, 2}
    MaxCount = 1
    WarmReset = 1
    ColdReset = 2
    Reboot = 2
    Stored = {0, 1, 2, 4}
INVARIANTS LockIsKnown ResetBudget
PROPERTIES InOrder LockFollows AndroidLockFollows ReachesOOS
CHECK_DEADLOCK FALSE
