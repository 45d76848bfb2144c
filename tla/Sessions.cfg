CONSTANTS
    User = {u1, u2}
    Request = {r1, r2, r3, r4}
    RefreshTtl = 2
    MaxNow = 3
SPECIFICATION Spec
SYMMETRY Interchangeable
INVARIANTS TypeOK SpentIsRevoked ReuseKillsFamily
PROPERTIES NoSpendAfterSpend KeepsLedger
CHECK_DEADLOCK FALSE
