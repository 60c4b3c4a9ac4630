SPECIFICATION FairSpec
CONSTANTS
    Conns = {c1, c2}
    MaxExchanges = 3
    MaxIdle = 1
VIEW Seen
INVARIANTS TypeOK OpenIsWatched OneExchange StateAgrees
PROPERTIES StopWaits RemoteEnds ClosedIsUnlisted
CHECK_DEADLOCK FALSE
