CONSTANTS
    w1 = w1
    Worker = {w1}
    FirstID = "agent"
    MaxFaults = 2
    MaxOps = 2
SPECIFICATION FairSpec
PROPERTIES
    DeadWorkerIsAlarmed
    RecoveredWorkerIsBack
    RemovedWorkerStops
    RemovedStaysOut
CHECK_DEADLOCK FALSE
