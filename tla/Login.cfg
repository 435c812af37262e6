CONSTANTS
    a1 = a1
    a2 = a2
    b1 = b1
    b2 = b2
    r1 = r1
    r2 = r2
    Accounts = {a1, a2}
    Admin = a1
    Browsers = {b1, b2}
    Requests = {r1, r2}
    NoAccount = NoAccount
    MaxFlows = 3
    MaxUsers = 2
SPECIFICATION Spec
SYMMETRY Symmetry
INVARIANTS
    SessionUserExists
    LoggedInHere
    RowIsOfAccount
PROPERTIES
    UnlinkedStaysUnlinked
    StoredWithAuth
CHECK_DEADLOCK FALSE
