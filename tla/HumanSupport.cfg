\* Two rooms, days of two instants, one deletion, lists of two agents, a row per page.
SPECIFICATION Spec
CONSTANTS
    Sectors <- TwoSectors
    Queues <- TwoQueues
    Tags <- TwoTags
    SectorOf <- SectorOfName
    Agents = {1, 2}
    AgentSector <- AgentSectors
    All = "__all__"
    NoDate <- Missing
    Asked <- AskedOfChats
    Offsets <- AroundUtc
    Day = 2
    PageSize = 1
    MaxRooms = 2
    Deletable <- OneOfEach
    MaxDeleted = 1
    MaxNow = 4
INVARIANTS AttendanceMissesNothing DayOfProject  BreakdownsAgree
CHECK_DEADLOCK FALSE
