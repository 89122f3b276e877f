\* Three days, one request at a time, two answers of Meta in redis;
\* two orders a page, two pages a window, three pages at most, two orders late.
SPECIFICATION MCSpec
CONSTANTS
    Requests = {r1}
    Web = {r1}
    MaxDay = 3
    MaxSent = 1
    MaxCached = 2
    Orders <- AllOrders
    Layouts <- SomeLayouts
    PageSize = 2
    WindowPages = 2
    MaxPages = 3
    MaxLate = 2
    Spans <- SomeSpans
INVARIANTS   CountedOnce MissedBounded PageIsOfOneRange
CHECK_DEADLOCK FALSE
