CONSTANTS
    MaxBlocks = 4
    MaxEvents = 3
    MaxLeaves = 2
    GlobalIndexes = {1, 2}
    Repairs = {"unset", "reemit"}
    Options <- MCOptions
    None = None
SPECIFICATION Spec
INVARIANTS TypeOK NothingLost SentCanBeSettled ValidatorAgrees NeverStuck
PROPERTY RetryKeepsContents
CHECK_DEADLOCK FALSE
