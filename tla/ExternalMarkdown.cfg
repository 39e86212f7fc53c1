CONSTANTS
    MaxEdits = 2
    MaxSaves = 3
    MaxRenames = 1
    MaxMishaps = 2
SPECIFICATION Spec
CHECK_DEADLOCK FALSE
INVARIANTS NotesMatch
PROPERTIES OnlySavesReplace 
