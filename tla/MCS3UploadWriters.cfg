CONSTANTS
    Bytes = {0, 1}
    InitFiles <- MCInitFiles
    FileMayBeMissing = FALSE
    Dests <- MCDests
    Exts = {".json", ".qcow2"}
    EnvChoices <- MCFullEnv
    SecretKeys = {"secret"}
    ServiceSecret = "secret"
    ChunkSize = 2
    Blocksize = 2
    Interval = 1
    DayLen = 2
    MaxClock = 2
    MaxWrites = 2
    MaxLen = 3
    CanUnlink = TRUE
    ServiceFaults = FALSE
    NetFaults = FALSE
SPECIFICATION Spec
INVARIANT SuccessMeansStored
PROPERTY UploadEnds
CHECK_DEADLOCK FALSE
