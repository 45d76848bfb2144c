CONSTANTS
    Name = {n1, n2}
    Code = {c1, c2}
    Perm = {p1, p2}
    Request = {r1, r2, r3}
SPECIFICATION AuditSpec
SYMMETRY Interchangeable
INVARIANTS TrailIsTrue UntracedHasCause
PROPERTIES CacheReckonsWith SeedReckonsWith
CHECK_DEADLOCK FALSE
