SPECIFICATION FairSpec
CONSTANTS
    MaxTokens = 6
    LoginLife = 3
    KeepLife = 2
    MaxFaults = 1
INVARIANTS KeptAlive
PROPERTIES DataKept Heals
CHECK_DEADLOCK FALSE
