CONSTANTS
    Docs = {d1, d2}
    Windows = {w1, w2}
    MaxEntries = 2
    MaxEdits = 3
    MaxReplays = 3
    MaxClears = 1
SPECIFICATION Spec
CHECK_DEADLOCK FALSE
INVARIANTS StacksMatchDocuments AppliedIsUndoable TwiceOnlyWhenDisturbed
SYMMETRY Interchangeable
