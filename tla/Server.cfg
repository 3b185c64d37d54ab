CONSTANTS
    Logins = {l1, l2}
    Addresses = {ann}
    HighLevelUsers = {hl1}
    AddressOf <- SharedAddress
    Tenants = {t1, t2}
    Invites = {i1}
    MaxUsers = 1
    Handlers = {h1, h2}
    Nobody = Nobody
    Calls = {c1, c2}
    Contents = {"text", "news", "offer"}
    Platforms = {"facebook", "google"}
    Tools = {"create", "update", "delete", "read"}
    Roles = {"editor", "tenant_admin"}
    Plans = {basic, pro}
    NoLimit = NoLimit
    PlanLimits = {NoLimit, 1}
    RatePerMinute = 2
    LastMinute = 1
    MaxRestarts = 1
SPECIFICATION ServerSpec
SYMMETRY Symmetry
CHECK_DEADLOCK FALSE
INVARIANT WaitingHasReason
INVARIANT RetriesDoNotRepeat
INVARIANT FullPlanStaysFull
INVARIANT UsageNeverOverstates
PROPERTY LoginsAreAnsweredOnce
