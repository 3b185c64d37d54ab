SPECIFICATION FairSpec
CONSTANTS
    Nil = Nil
    Codes = {c1}
    Tokens = {1, 2, 3, 4, 5}
    Families = {f1}
    Clients = {a1}
    Owners = {o1}
    Requests = {r1, r2}
INVARIANTS
    RotationIsLinear
    QuietReplayIsFinal
PROPERTIES
    SessionsFollowTheChain
    SessionsAreDecided
CHECK_DEADLOCK FALSE
