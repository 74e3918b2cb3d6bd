SPECIFICATION AdministrationSpec
CONSTANTS
    Call = {r1, r2}
    None = None
    User = {u1, u2}
    FirstAdmin = u1
    SecondAdmin = u2
    MaxAdminOps = 2
    MaxAdminClock = 2
CHECK_DEADLOCK FALSE
PROPERTY LastAdminStays
