SPECIFICATION Spec
CONSTANTS
    global = global
    login = login
    Limiter = {global, login}
    Request = {r1, r2, r3}
    Client = {alice, bob}
    Kind <- MCKind
    WindowMs <- MCWindowMs
    Max <- MCMax
    SweepEvery = 3
    TicksPerSecond = 2
    Horizon = 4
    None = None
SYMMETRY Symmetry
INVARIANTS
    NeverOverAdmitted
    AtMostMaxPerWindow
    RetryAfterSuffices
PROPERTIES
    ImplementsFixedWindow
CHECK_DEADLOCK FALSE
