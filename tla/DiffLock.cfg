CONSTANTS
    None = None
    Failed = Failed
    MaxRetries = 0
    Capacity = 8
    Files = {f}
    Causes = {"edit","lock"}
    StartMode = "Head"
    MaxEdits = 1
    MaxCommits = 0
    MaxLocks = 2
    MaxChanges = 4
    MaxUser = 2
    MaxEvents = 1
SPECIFICATION LiveSpec
CHECK_DEADLOCK FALSE
PROPERTY FreshOnceReleased
