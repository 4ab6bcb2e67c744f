CONSTANTS
    ChunkSize = 8192
    Blocksize = 8192
    Interval = 1
    FileSizes = {1, 8191, 8192, 8193, 16384, 16385, 20000, 24577, 40960, 41000}
SPECIFICATION Spec
INVARIANT FinalReportFull
CHECK_DEADLOCK FALSE
