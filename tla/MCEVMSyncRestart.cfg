CONSTANTS
    MaxBlocks = 2
    MaxReorgs = 1
    EventNums = {1}
    Hazards = {"failedInsert", "subscribeFirst"}
    SyncBlockChunkSize = 1
    MaxRetryCountBlockHashMismatch = 2
    DownloadBufferSize = 2
    MaxFaults = 2
    NoBlock = NoBlock
SPECIFICATION FairSpec
INVARIANTS OrphansDetectable NothingMissed
PROPERTIES WatchedUntilFinal Converges
CHECK_DEADLOCK FALSE
