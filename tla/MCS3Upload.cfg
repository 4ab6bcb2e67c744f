CONSTANTS
    Bytes = {0, 1}
    InitFiles <- MCInitFiles
    FileMayBeMissing = TRUE
    Dests <- MCDests
    Exts = {".json", ".qcow2"}
    EnvChoices <- MCEnvChoices
    SecretKeys = {"secret", "stale-secret"}
    ServiceSecret = "secret"
    ChunkSize = 2
    Blocksize = 2
    Interval = 1
    DayLen = 2
    MaxClock = 2
    MaxWrites = 0
    MaxLen = 3
    CanUnlink = FALSE
    ServiceFaults = TRUE
    NetFaults = TRUE
SPECIFICATION Spec
INVARIANT TypeOK
INVARIANT UndisturbedUploadSucceeds
INVARIANT HandlesReleased
INVARIANT NoRequestOnBadInput
PROPERTY ImplementsUpload
CHECK_DEADLOCK FALSE
