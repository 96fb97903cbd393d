CONSTANTS
    NodeA = NodeA
    NodeB = NodeB
    s1 = s1
    s2 = s2
    Slot <- TwoCalls
    StandbyWrites = TRUE
    MaxWrites = 2
    MaxSaves = 0
    MaxRoleChanges = 1
    MaxFaults = 0
SPECIFICATION FairSpec
PROPERTIES
    SyncCallsEnd
    ActiveKeepsItsWrites
CHECK_DEADLOCK FALSE
