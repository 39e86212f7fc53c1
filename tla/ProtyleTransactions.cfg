CONSTANTS
    e1 = e1
    e2 = e2
    w1 = w1
    w2 = w2
    Editors = {e1, e2}
    Windows = {w1, w2}
    WindowOf <- TwoWindows
    Opening = {w2}
    Blocks = {b1}
    CrossEdits = {2}
    Faults = {"refused", "lost", "dropped"}
    MaxEdits = 2
    MaxReplays = 2
    MaxFaults = 1
SPECIFICATION Spec
CHECK_DEADLOCK FALSE
INVARIANTS TypeOK ViewsAgree MirrorAgrees NothingHangs
PROPERTIES UndoneAsAsked
