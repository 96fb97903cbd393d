CONSTANTS
    n1 = n1
    disk = disk
    h1 = h1
    h2 = h2
    Node = {n1}
    Type = {disk}
    Handler = {h1, h2}
    AdminOp = {"ack", "resolve", "delete", "clear"}
    MaxMs = 6
    MaxCount = 2
    MaxChanges = 2
    MaxTimeouts = 1
    MaxAdmin = 2
SPECIFICATION FairAlarmSpec
INVARIANTS
    OneOpenAlarm
PROPERTIES
    LastingFaultIsAlarmed
    ClearedFaultIsResolved
    ResolvedStaysResolved
CHECK_DEADLOCK FALSE
