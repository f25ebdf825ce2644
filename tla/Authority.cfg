SPECIFICATION WordSpec
CONSTANTS
    op = op
    r1 = r1
    p1 = p1
    p2 = p2
    k1 = k1
    k2 = k2
    t1 = t1
    Operator = {op}
    Request = {r1}
    Project = {p1, p2}
    Cred = {k1, k2}
    Token = {t1}
    MaxEpoch = 3
    Doomed = {x1}
    Fact = {f1}
    Plan = {p1, p2}
    Item = {k1, k2}
    Resolution = {q1, q2, q3}
SYMMETRY Symmetry
CONSTRAINT BearersOrProjects
INVARIANTS
    DeletedAsApproved
    PermissionsAreCurrent
    FewLateStages
    AccessStaysWithdrawn
    OneCredential
    DenialsPrevail
CHECK_DEADLOCK FALSE
