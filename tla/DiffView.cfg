CONSTANTS
    None = None
    Failed = Failed
    MaxRetries = 1
    Capacity = 8
    Files = {f, g}
    Causes = {"edit", "commit", "lock", "mode", "close", "error"}
    StartMode = "Branch"
    MaxEdits = 2
    MaxCommits = 1
    MaxLocks = 2
    MaxChanges = 3
    MaxUser = 2
    MaxEvents = 1
SPECIFICATION LiveSpec
CHECK_DEADLOCK FALSE
INVARIANTS TypeOK TicketForEach HandleIsActives SuppressedUnlessOvertaken OnlyActiveEscapes BaselessOnlyAfterFailure
PROPERTY EventuallyFresh
