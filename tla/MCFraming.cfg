SPECIFICATION FairSpec
CONSTANTS
    Lengths = {2, 3, 6, 9}
    Capacity = 12
    MaxRecords = 3
    MaxCrashes = 2
INVARIANTS TypeOK InOrder NothingMissed
PROPERTIES ReloadEnds SentArrives ImplementsChannel
CHECK_DEADLOCK FALSE
