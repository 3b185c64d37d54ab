SPECIFICATION AccessSpec
CONSTANTS
    Nobody = Nobody
    Requests = {r1, r2, r3}
    Installers = {ann, bob}
    Invitee = Invitee
    LoginStates = {s1, s2}
    Packs = {"contacts"}
    Presets <- SomePresets
    RoleForms <- NoCells
    AllowUnknown = TRUE
    CallsPerMinute = 1
    MaxCredentials = 3
SYMMETRY Symmetry
INVARIANTS
    RevokedForGood
    OneOwnerByLogin
    StoredCredentialWorks
CHECK_DEADLOCK FALSE
