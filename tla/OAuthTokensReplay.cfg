SPECIFICATION Spec
CONSTANTS
    Nil = Nil
    Codes = {c1}
    Tokens = {1, 2, 3, 4}
    Families = {f1}
    Clients = {a1, a2}
    Owners = {o1}
    Requests = {r1, r2}
INVARIANT
    ReplayRevokesFamily
CHECK_DEADLOCK FALSE
