SPECIFICATION ControlPartsSpec
CONSTANTS
    QSize = 8
    WarmReset = 0
    ColdReset = 1
    Reboot = 1
    Stored = {0}
    MaxEvents = 6
    MaxUnread = 2
    MaxPending = 1
    Blobs = {"b1", "b2"}
    BaseTlvs = {"t"}
    MiuTlvs = {"m"}
    MaxChanges = 2
    MaxCrashes = 1
    MaxRefusals = 1
INVARIANTS RendezvousMet LeftIsApplied
PROPERTIES ElectorComesUp
CHECK_DEADLOCK FALSE
