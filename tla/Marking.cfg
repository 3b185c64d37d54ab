CONSTANTS
    Jobs = {j1, j2}
    Menus <- NoMenu
    StartRecords <- Records
    Terms <- Contracts
    ThisMonth = 1
    DueMonths = 1
    Items = 3
    Wording <- Templates
    Workers = {"an", "ba"}
    MaxGenerate = 2
    MaxFaults = 0
    Nothing = Nothing
    Requests = {r1, r2}
    Wishes <- MarkingWishes
    Size <- Sizes
    StartGd <- Enrolments
    StartBase = 2
    StartEnrol <- OwnRows
    StartRooms <- Rooms
    Quota = 1
    MaxApps = 2
    MaxSaves = 1
    MaxTroubles = 0
    None = None
SPECIFICATION CenterSpec
SYMMETRY Symmetry
CHECK_DEADLOCK FALSE
INVARIANT MarkIsWrittenOnce
