CONSTANTS
    MaxBlocks = 2
    MaxReorgs = 1
    EventNums = {1, 2}
    Hazards = {}
    SyncBlockChunkSize = 1
    MaxRetryCountBlockHashMismatch = 2
    DownloadBufferSize = 2
    MaxFaults = 0
    NoBlock = NoBlock
SPECIFICATION Spec
INVARIANT UnfinalizedWatched
CHECK_DEADLOCK FALSE
