CONSTANTS
    MaxBlocks = 3
    MaxReorgs = 1
    EventNums = {1, 3}
    Hazards = {}
    SyncBlockChunkSize = 1
    MaxRetryCountBlockHashMismatch = 2
    DownloadBufferSize = 3
    MaxFaults = 0
    NoBlock = NoBlock
SPECIFICATION Spec
INVARIANTS TypeOK OrphansDetectable NothingMissed
PROPERTIES HandledInOrder WatchedUntilFinal
CHECK_DEADLOCK FALSE
