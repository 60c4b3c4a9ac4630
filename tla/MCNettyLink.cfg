SPECIFICATION FairSpec
CONSTANTS
    NumConns = 2
    NumMessages = 2
    MaxLosses = 2
INVARIANTS OneAttempt OpenIsUsable AcceptedIsKept
PROPERTIES Reconnects QueuedIsWritten
CHECK_DEADLOCK FALSE
