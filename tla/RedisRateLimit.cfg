SPECIFICATION Spec
CONSTANTS
    login = login
    Key = {login}
    Request = {r1, r2, r3, r4}
    Max <- MCMax
    WindowMs <- MCWindowMs
    TicksPerSecond = 2
    Horizon = 5
    None = None
SYMMETRY Symmetry
INVARIANTS
    OnlyCrashesLockOut
    AtMostMaxPerWindow
    RejectedAfterMax
PROPERTIES
    WindowFixed
CHECK_DEADLOCK FALSE
