CONSTANTS
    MaxBlocks = 2
    MaxReorgs = 1
    EventNums = {1, 2}
    Hazards = {"midSweep"}
    SyncBlockChunkSize = 1
    MaxRetryCountBlockHashMismatch = 2
    DownloadBufferSize = 2
    MaxFaults = 0
    NoBlock = NoBlock
SPECIFICATION Spec
INVARIANT NothingMissed
CHECK_DEADLOCK FALSE
