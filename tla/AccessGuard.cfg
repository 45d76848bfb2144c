CONSTANTS
    Request = {r1, r2}
    Process = {p1, p2}
    Token = {t1}
    Open = {r1}
SPECIFICATION Spec
INVARIANT TypeOK
PROPERTY KeepsAdmission
PROPERTY LossTakesEffect
