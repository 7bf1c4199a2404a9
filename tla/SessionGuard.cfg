SPECIFICATION Spec
CONSTANTS
    alice = alice
    phone = phone
    laptop = laptop
    Browser = {phone, laptop}
    User = {alice}
    UserOf <- SharedUser
    Request = {r1, r2, r3}
    Guards <- SessionOnce
    Rotates = {"visit", "login", "logout"}
    Lifetime = 1
    Horizon = 2
    None = None
SYMMETRY Symmetry
INVARIANTS
    KeepsSession
    NoStraySessions
    ValidSessionServed
    OwnSessionsOnly
PROPERTIES
    ReplacementFirst
CHECK_DEADLOCK FALSE
