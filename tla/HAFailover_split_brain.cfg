CONSTANTS
    NodeA = NodeA
    NodeB = NodeB
    w1 = w1
    w2 = w2
    w3 = w3
    Worker = {w1, w2, w3}
    Mode <- PrimaryAndBackup
    Registry <- SameRegistry
    FailoverLimit = 2
    EnableGatewayCheck = TRUE
    EnableWorkerQuorum = TRUE
    MaxFaults = 1
    MaxSwitch = 0
CHECK_DEADLOCK FALSE
SPECIFICATION FailoverSpec
PROPERTY PromotionIsSafe
