CONSTANTS
    Threads = {t1}
    MaxId = 3
SPECIFICATION FairSpec
CHECK_DEADLOCK FALSE
PROPERTIES
    WaitersReturn
    LocksExpire
