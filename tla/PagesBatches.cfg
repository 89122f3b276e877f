\* Up to four pages, two threads, one lost run.
SPECIFICATION PagesSpec
CONSTANTS
    PageSize = 2
    PageLimit = 4
    MaxWorkers = 2
    MaxEvents = 7
    MaxLost = 1
INVARIANTS Ordered Complete NoGapWhenCounted WithinPageLimit
CHECK_DEADLOCK FALSE
