CONSTANTS
    MaxBlocks = 2
    MaxReorgs = 1
    EventNums = {1, 2}
    Hazards = {"subscribeFirst"}
    SyncBlockChunkSize = 1
    MaxRetryCountBlockHashMismatch = 2
    DownloadBufferSize = 2
    MaxFaults = 1
    NoBlock = NoBlock
SPECIFICATION FairSpec
PROPERTY NotificationTaken
CHECK_DEADLOCK FALSE
