CONSTANTS
    Docs = {d1, d2}
    DocSets = {{d1, d2}}
    Edits = {e1, e2}
    Replays = {r1}
    Writers = {w1}
    Stamps = {1, 2}
SPECIFICATION Spec
CHECK_DEADLOCK FALSE
SYMMETRY Interchangeable
INVARIANTS TypeOK AnsweredIsSettled UpdatesSurvive OnlyCommittedOrTorn
