SPECIFICATION InstallSpec
CONSTANTS
    Nil = Nil
    Requests = {r1, r2}
    Users = {u1, u2}
    Tenants = {t1, t2}
    Locations = {l1, l2}
    Credentials = {1, 2, 3, 4, 5, 6}
    Apps = {l1, l2}
    Centers = {gym}
    Tasks = {r1, r2}
    LastToken = 4
    MaxMishaps = 1
    NoTask = NoTask
SYMMETRY Symmetry
INVARIANTS
    OneTenantPerLocation
    SomebodyOwns
    ReplacedCredentialsAreDeleted
    ConnectorsRefreshLiveTokens
    StoredTokensCanRefresh
PROPERTY
    SettledForGood
