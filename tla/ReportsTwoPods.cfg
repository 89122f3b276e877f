\* A slot in each of two pods, of which one stops or is lost.
SPECIFICATION LiveSpec
CONSTANTS
    Hosts <- TwoHosts
    Slots <- TwoSlots
    HostOf <- PodPerSlot
    NoHost = "null"
    Projects <- OneProject
    NoProject = "none"
    Web <- OneWeb
    Orphans <- NoOrphans
    MaxReports = 1
    MaxStops = 1
    MaxConcurrent = 1
    TaskTimeLimit = 1
    ReportTimeout = 2
    MailCap = 1
INVARIANTS OwnedWhileInProgress TimeoutSparesFreshRuns
PROPERTIES NeverStuck InterruptionIsResumed
