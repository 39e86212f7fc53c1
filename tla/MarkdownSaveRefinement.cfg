SPECIFICATION FairSpec
CONSTANTS
    Writers = {}
    Faults = {"refused"}
    MaxSaves = 3
    MaxEdits = 0
    MaxCrashes = 2
    MaxFaults = 2
    MaxInodes = 12
PROPERTIES ImplementsAtomicDocument GateReopens
