CONSTANTS
    Callers = {c1, c2}
    Actions = {"index", "ocr", "reload"}
    Args = {a1}
    Unique = {"ocr", "reload"}
    Async = {"reload"}
    Slow = {"ocr"}
    MaxTasks = 3
SPECIFICATION FairTaskSpec
CHECK_DEADLOCK FALSE
INVARIANTS OverlapOnlyAfterTimeout
PROPERTY TaskStarts
