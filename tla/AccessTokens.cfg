CONSTANTS
    Token = {t1, t2}
    Request = {r1, r2}
    Process = {p1, p2}
    User = {u1}
    AccessTtl = 2
    MaxNow = 3
SPECIFICATION Spec
SYMMETRY Interchangeable
INVARIANT TypeOK
INVARIANT PartedHasCause
PROPERTY RevokedUntilExpiry
