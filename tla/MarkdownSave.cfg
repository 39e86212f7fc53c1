SPECIFICATION Spec
CONSTANTS
    Writers = {"inplace", "put", "delete"}
    Faults = {"refused"}
    MaxSaves = 2
    MaxEdits = 2
    MaxCrashes = 1
    MaxFaults = 2
    MaxInodes = 12
INVARIANTS TypeOK AnswersHold
PROPERTIES CommitIsFinal 
