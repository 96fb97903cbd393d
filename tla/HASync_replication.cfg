CONSTANTS
    NodeA = NodeA
    NodeB = NodeB
    s1 = s1
    s2 = s2
    Slot <- OneCall
    StandbyWrites = FALSE
    MaxWrites = 3
    MaxSaves = 1
    MaxRoleChanges = 0
    MaxFaults = 2
SPECIFICATION FairSpec
PROPERTIES
    StandbyIsAPastActive
    NotModifiedMeansSame
    StandbyCatchesUp
CHECK_DEADLOCK FALSE
