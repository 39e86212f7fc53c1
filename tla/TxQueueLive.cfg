CONSTANTS
    Docs = {d1}
    DocSets = {{d1}}
    Edits = {e1}
    Replays = {r1}
    Writers = {w1}
    Stamps = {1}
SPECIFICATION FairSpec
CHECK_DEADLOCK FALSE
PROPERTY RequestsAnswered
