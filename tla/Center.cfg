CONSTANTS
    Jobs = {j1, j2}
    Menus <- SomeMenus
    StartRecords <- Records
    Terms <- Contracts
    ThisMonth = 1
    DueMonths = 1
    Items = 3
    Wording <- Templates
    Workers = {"an", "ba"}
    MaxGenerate = 2
    MaxFaults = 1
    Nothing = Nothing
    Requests = {r1, r2}
    Wishes <- SomeWishes
    Size <- Sizes
    StartGd <- Enrolments
    StartBase = 2
    StartEnrol <- OwnRows
    StartRooms <- Rooms
    Quota = 1
    MaxApps = 2
    MaxSaves = 2
    MaxTroubles = 1
    None = None
SPECIFICATION CenterSpec
SYMMETRY Symmetry
CHECK_DEADLOCK FALSE
INVARIANT OneRecordPerKey
INVARIANT NoticeGoesOutOnce
INVARIANT FinishedHasReport
INVARIANT ClassKeepsToItsSize
INVARIANT MarkStaysInItsClass
