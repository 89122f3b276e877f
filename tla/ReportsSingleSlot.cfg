\* One slot, one pod that stops or is lost once, one web process; the requester of the first report is gone.
SPECIFICATION LiveSpec
CONSTANTS
    Hosts <- OneHost
    Slots <- OneSlot
    HostOf <- SamePod
    NoHost = "null"
    Projects <- TwoProjects
    NoProject = "none"
    Web <- OneWeb
    Orphans <- FirstOrphan
    MaxReports = 2
    MaxStops = 1
    MaxConcurrent = 1
    TaskTimeLimit = 1
    ReportTimeout = 2
    MailCap = 2
 
PROPERTIES  OldestFirst  PendingIsStarted
