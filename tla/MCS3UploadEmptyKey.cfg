CONSTANTS
    Bytes = {0, 1}
    InitFiles <- MCInitFiles
    FileMayBeMissing = FALSE
    Dests <- MCEmptyKeyDests
    Exts = {".json", ".qcow2"}
    EnvChoices <- MCFullEnv
    SecretKeys = {"secret"}
    ServiceSecret = "secret"
    ChunkSize = 2
    Blocksize = 2
    Interval = 1
    DayLen = 2
    MaxClock = 2
    MaxWrites = 0
    MaxLen = 3
    CanUnlink = FALSE
    ServiceFaults = FALSE
    NetFaults = FALSE
SPECIFICATION Spec
INVARIANT SuccessMeansStored
CHECK_DEADLOCK FALSE
