SPECIFICATION Spec
CONSTANTS
    Hosts <- OneHost
    Slots <- TwoSlots
    HostOf <- SamePod
    NoHost = "null"
    Projects <- TwoProjects
    NoProject = "none"
    Web <- OneWeb
    Orphans <- NoOrphans
    MaxReports = 2
    MaxStops = 0
    MaxConcurrent = 1
    TaskTimeLimit = 1
    ReportTimeout = 2
    MailCap = 1
PROPERTIES ConcurrencyLimit
