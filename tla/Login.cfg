SPECIFICATION Spec
CONSTANTS
    Processes = {s1, s2}
    Serving = s1
    Tabs = {t1, t2}
    Emails = {e1}
    Addresses = {x}
    Passwords = {w1, w2}
    SessionIds = {i1, i2}
    AdminEmail = e1
    AccountLimit = 1
    AddressLimit = 2
    Window = 2
    TTL = 1
    MaxTime = 2
    MaxAttempts = 3
    None = None
SYMMETRY Symmetry
INVARIANTS
    TypeOK
    NoBurst
    RefusedWhenBusy
PROPERTIES
    PasswordIsKept
    EntersAfterLogin
