\* Three contacts, two of the facts a plan is about, two runs, one fault.
SPECIFICATION Spec
CONSTANTS
    Contacts = {1, 2, 3}
    Own = "own"
    Other = "other"
    Plans <- SomePlans
    FactSets <- SomeFacts
    PageSize = 1
    PageLimit = 4
    MaxRecorded = 2
    MaxMoves = 1
    MaxRuns = 2
    MaxFaults = 1
INVARIANTS SheetsAgree  DiskIsClean 
CHECK_DEADLOCK FALSE
