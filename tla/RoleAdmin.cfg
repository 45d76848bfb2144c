CONSTANTS
    Name = {n1}
    Code = {c1, c2}
    Perm = {p1, p2}
    Request = {r1, r2, r3, r4}
SPECIFICATION Spec
SYMMETRY Interchangeable
INVARIANT TypeOK GrantsExist OneReplacement
PROPERTY OnlySaveRevives
CHECK_DEADLOCK FALSE
