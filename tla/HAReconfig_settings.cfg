CONSTANTS
    NoVip = NoVip
    v1 = v1
    Settings <- EveryMode
    FirstSettings <- Primary
    FailoverLimit = 2
    OneShotLimit = 3
    EnableWorkerQuorum = TRUE
    MaxUpdates = 3
    MaxStops = 2
SPECIFICATION ReconfigSpec
INVARIANTS
    PairIsProbed
    ActiveHoldsVip
    VipStatusIsTrue
CHECK_DEADLOCK FALSE
