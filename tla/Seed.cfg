CONSTANTS
    Code = {c1, c2}
    PermissionCodes = {c1}
    Perm = {p1, p2, p3}
    Process = {s1, s2}
SPECIFICATION SeedSpec
SYMMETRY Interchangeable
INVARIANTS SeedTypeOK SeededWhenDone RefusedOnlyByDeleted
