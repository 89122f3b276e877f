\* A project and the main project, two numbers, two WABAs, five webhooks of which two may die.
SPECIFICATION Spec
CONSTANTS
    Projects = {a, m}
    Main = m
    Callers = {a}
    Phones = {f1, f2}
    Wabas = {w1, w2}
    Templates = {t1}
    None = none
    OnWaba <- OnWabaAll
    Hooks = {h1}
    Users = {}
    Slots = {}
    Limit = 1
    MaxTries = 2
    MaxWebhooks = 5
    MaxAdditions = 0
    MaxFaults = 2
INVARIANTS NumbersKept MainHasCopies
PROPERTIES MigrationIsWhole
SYMMETRY Names
CHECK_DEADLOCK FALSE
