CONSTANTS
    u1 = u1
    u2 = u2
    r1 = r1
    r2 = r2
    Users = {u1, u2}
    SiteAdmin = u1
    WithPrivateToken = {u1, u2}
    Requests = {r1, r2}
    OrgTTL = 1
    RepoTTL = 1
    MaxEdits = 1
    None = None
SPECIFICATION Spec
SYMMETRY Symmetry
CONSTRAINT OneSubject
INVARIANTS
    EditsKept
    ModifiedInTime
    ReadInTime
CHECK_DEADLOCK FALSE
