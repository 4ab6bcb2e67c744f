CONSTANTS
    ChunkSize = 8192
    Blocksize = 8192
    Interval = 1
    FileSizes = {8193}
SPECIFICATION Spec
INVARIANT FullReportExactlyOnce
CHECK_DEADLOCK FALSE
