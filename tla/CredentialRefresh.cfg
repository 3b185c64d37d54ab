SPECIFICATION FairSpec
CONSTANTS
    Nil = Nil
    Instances = {i1, i2}
    Calls = {c1, c2}
    Credentials = {k1, k2}
    Tokens = {1, 2, 3, 4}
INVARIANTS
    RefreshesAreExclusive
    StoredTokenIsAlive
    RejectedOnlyAfterLoss
PROPERTY
    EveryCallIsAnswered
CHECK_DEADLOCK FALSE
