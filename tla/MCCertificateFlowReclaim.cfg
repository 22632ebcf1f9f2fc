CONSTANTS
    MaxBlocks = 5
    MaxEvents = 5
    MaxLeaves = 1
    GlobalIndexes = {1}
    Repairs = {"unset", "reclaim"}
    Options <- MCPlain
    None = None
SPECIFICATION Spec
INVARIANT NothingLost
CHECK_DEADLOCK FALSE
