SPECIFICATION FairSpec
CONSTANTS
    Conns = {c1, c2}
    MaxExchanges = 2
    MaxIdle = 1
PROPERTIES NoNewExchange
CHECK_DEADLOCK FALSE
