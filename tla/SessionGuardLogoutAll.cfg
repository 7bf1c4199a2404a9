SPECIFICATION Spec
CONSTANTS
    alice = alice
    phone = phone
    laptop = laptop
    Browser = {phone, laptop}
    User = {alice}
    UserOf <- SharedUser
    Request = {r1, r2}
    Guards <- SessionOnce
    Rotates = {"visit", "login", "logout", "logoutAll"}
    Lifetime = 1
    Horizon = 2
    None = None
INVARIANT
    LoggedOutEverywhere
CHECK_DEADLOCK FALSE
