CONSTANTS
    Request = {r1, r2}
    Limit = 1
SPECIFICATION Spec
INVARIANT TypeOK
INVARIANT WaitsEmptyHanded
INVARIANT FailsOnlyWithCause
PROPERTY EveryRequestEnds
