SPECIFICATION FairStandSpec
CONSTANTS
    Engines = {"bin", "lib"}
    Binaries = {"bin"}
    Killable = {}
    Tasks = {"t"}
    Configs <- MCConfigs
    MaxRepairs = 0
    ShutdownTimeout = 2
    Off = Off
PROPERTY RestoredWithKey
CHECK_DEADLOCK FALSE
