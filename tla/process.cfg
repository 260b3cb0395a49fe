SPECIFICATION FairStandSpec
CONSTANTS
    Engines = {"bin", "lib"}
    Binaries = {"bin"}
    Killable = {"bin"}
    Tasks = {"t"}
    Configs <- MCConfigs
    MaxRepairs = 1
    ShutdownTimeout = 2
    Off = Off
INVARIANTS
    TableTypeOK
    AuditedTasksExist
    StandTypeOK
PROPERTIES
    DurableTasksKept
    SignalEndsProcess
CHECK_DEADLOCK FALSE
