SPECIFICATION Spec
CONSTANTS
    Nil = Nil
    Codes = {c1, c2}
    Tokens = {1, 2, 3, 4}
    Families = {f1, f2}
    Clients = {a1}
    Owners = {o1, o2}
    Requests = {r1, r2}
SYMMETRY Symmetry
INVARIANTS
    OneSessionPerLogin
    TokensSpeakForTheirLogin
CHECK_DEADLOCK FALSE
