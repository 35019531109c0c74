SPECIFICATION PeersSpec
CONSTANTS
    MDM_CLI_NAME_LEN = 3
    MDM_CLI_MAX_NB_DATA = 2
    MDM_CLI_MAX_LEN_DATA = 2
    MaxConns = 2
    Scenarios <- MCScenarios
    Sizes = {1, 2}
    MaxPids = 3
    Faults = {"signal", "assert", "delay", "late", "overlap"}
    MaxFaults = 1
INVARIANTS AssertsHold WireKeeps AgreesWhenRead FactoryAsserts StatusIsOwn
PROPERTIES FindEachOther Reported NoOrphans
CHECK_DEADLOCK FALSE
