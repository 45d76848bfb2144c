CONSTANTS
    Email = {e1}
    Request = {r1, r2, r3, r4}
SPECIFICATION Spec
SYMMETRY Interchangeable
INVARIANT TypeOK CreatedOnce
PROPERTY OnlyAskedColumns OnlyOvertakenRevive
CHECK_DEADLOCK FALSE
