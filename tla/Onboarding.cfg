\* One project, one slot, and one fault or one release by hand, which may die.
SPECIFICATION LiveSpec
CONSTANTS
    Projects = {p1}
    NoProject = none
    Multi = {p1}
    Consumers = {c1}
    Workers = {w1}
    Releasers = {r1}
    Limit = 1
    Retries = 1
    MaxRows = 2
    QueueCap = 1
    MaxReleases = 1
    MaxFaults = 1
    MaxTroubles = 1
INVARIANTS AckedMeansComplete AllowedMeansAccepted
PROPERTIES IndexedInTheEnd
CHECK_DEADLOCK FALSE
