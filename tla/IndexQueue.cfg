CONSTANTS
    Docs = {d1, d2}
    MaxWrites = 2
    MaxCrashes = 1
    MaxFaults = 1
    Faults = {"exec", "begin", "journal"}
SPECIFICATION FairSpec
CHECK_DEADLOCK FALSE
  
PROPERTY QueueDrains
