\* A number with a favourite, one more webhook, two additions, one fault.
SPECIFICATION SavedSpec
CONSTANTS
    Projects = {a, m}
    Main = m
    Callers = {a}
    Phones = {f1}
    Wabas = {w1, w2}
    Templates = {t1, t2, t3}
    None = none
    OnWaba <- OnWabaAll
    Hooks = {h1}
    Users = {u1}
    Slots = {s1}
    Limit = 1
    MaxTries = 2
    MaxWebhooks = 1
    MaxAdditions = 2
    MaxFaults = 1
INVARIANTS FavouritesBounded
PROPERTIES FavouritesArrive
CHECK_DEADLOCK FALSE
