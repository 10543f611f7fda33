SPECIFICATION FairSpec
CONSTANTS
    Clients = {k1}
    MaxConns = 3
    Requests <- Mixed
    Role <- MCRole
    Window = 1
    MaxTime = 1
    MaxCalls = 3
    Size <- MCSize
INVARIANTS OwnAnswer
PROPERTIES RepeatsAreAnswered EveryCallReturns
CHECK_DEADLOCK FALSE
