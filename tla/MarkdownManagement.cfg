CONSTANTS
    e1 = e1
    e2 = e2
    w1 = w1
    w2 = w2
    Editors = {e1, e2}
    Windows = {w1, w2}
    WindowOf <- MCWindowOf
    TreeWindow = w1
    Edits = {x1, x2}
    Title = title
    Jobs = {"title", "move", "remove"}
    MaxOps = 3
    MaxStimuli = 2
SPECIFICATION Spec
CHECK_DEADLOCK FALSE
INVARIANTS  NothingHangs
PROPERTIES  ContentMatchesRevision NothingLeftBehind
SYMMETRY Symmetric
