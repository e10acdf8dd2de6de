SPECIFICATION Spec
CONSTANTS
    Admins = {a1, a2}
    Tabs = {t1, t2}
    NoRow = NoRow
    SessionAge = 3
    AbsoluteMax = 4
    RotateWindow = 1
    MaxFailed = 1
    Lockout = 1
    MaxLogins = 2
    MaxClock = 2
    MaxTrouble = 1
SYMMETRY Symmetry
INVARIANTS
    ActsThroughItsLogin
    SuccessIsAuditedOnce
PROPERTIES
    SessionsOnlyEnd
