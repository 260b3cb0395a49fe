SPECIFICATION FairStandSpec
CONSTANTS
    Engines = {"bin", "lib"}
    Binaries = {"bin"}
    Killable = {}
    Tasks = {"t"}
    Configs <- MCConfigs
    MaxRepairs = 0
    ShutdownTimeout = 2
    Off = Off
PROPERTY DrainTimeoutReleases
CHECK_DEADLOCK FALSE
