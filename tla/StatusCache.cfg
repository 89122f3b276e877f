\* Two readers and two writers of a report; one deletion may fail.
SPECIFICATION CacheLiveSpec
CONSTANTS
    Readers = {p1, p2}
    Writers = {w1, w2}
    MaxSaved = 1
    TTL = 2
    MaxLatency = 1
    MaxFailures = 1
INVARIANTS BoundedStaleness
PROPERTIES RecoversFreshness
