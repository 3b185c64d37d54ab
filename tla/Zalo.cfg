CONSTANTS
    Nil = Nil
    Instances = {i1, i2}
    Calls = {w1, w2}
    Refreshes = {r1, r2}
    Tokens = {1, 2, 3}
    Customers = {ann}
    Handlers = {w1, w2}
    Events = {r1, r2}
    Replies = {reply}
    Notices = {notice}
    Mixes = {{r1, r2}, {r1, reply}, {notice}, {r1}}
    MaxContacts = 2
    MaxTroubles = 2
    NoOne = NoOne
SPECIFICATION ConnectorSpec
SYMMETRY Symmetry
CHECK_DEADLOCK FALSE
INVARIANTS
    StoredTokenIsAlive
    OneRefreshPerProcess
    NobodyWaitsForNothing
    MessagesAreKept
    OneContactPerCustomer
    TextReachesOnce
