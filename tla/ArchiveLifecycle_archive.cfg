CONSTANTS
    MaxAttempts = 4
    MaxFaults = 2
    MaxOps = 2
SPECIFICATION FairSpec
INVARIANTS
    OutcomeIsTheWorkers
PROPERTIES
    ExtractionEnds
    ReportArrives
    DeletedStaysDeleted
CHECK_DEADLOCK FALSE
