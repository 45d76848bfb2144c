CONSTANTS
    User = {u1}
    Request = {r1, r2, r3, r4}
    RefreshTtl = 1
    MaxNow = 2
SPECIFICATION Spec
SYMMETRY Interchangeable
INVARIANT RotationReplacesToken
CHECK_DEADLOCK FALSE
