SPECIFICATION WaitSpec
CONSTANTS
    Callers = {c1, c2, c3, c4, c5, c6}
    MaxConcurrent = 2
    MaxQueue = 3
    Nil = Nil
    Requests = {r1, r2}
    Users = {u1, u2}
    Tenants = {t1, t2}
    Locations = {l1}
    Credentials = {1, 2, 3, 4}
INVARIANTS
    SlotsAreCounted
    NoSlotIdlesWhileCallersWait
PROPERTIES
    NobodyOvertakes
    EveryWaiterRuns
    EveryRequestEnds
