CONSTANTS
    NodeA = NodeA
    NodeB = NodeB
    w1 = w1
    w2 = w2
    w3 = w3
    Worker = {w1, w2}
    Mode <- PrimaryAndBackup
    Registry <- SameRegistry
    FailoverLimit = 2
    EnableGatewayCheck = TRUE
    EnableWorkerQuorum = TRUE
    MaxFaults = 2
    MaxSwitch = 1
SPECIFICATION FairSpec
INVARIANTS
    SteadyRoles
PROPERTIES
    ActivePastLimitHasQuorum
    FailoverBeatsMinority
    ConvergesToOneActive
    MinorityStepsDown
    FailoverHappens
CHECK_DEADLOCK FALSE
