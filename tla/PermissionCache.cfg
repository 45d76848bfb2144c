CONSTANTS
    User = {u1}
    Role = {super, editor}
    SuperAdmin = super
    Perm = {p1}
    Worker = {w1, w2}
    Ttl = 1
    Delay = 1
SPECIFICATION Spec
SYMMETRY Interchangeable
INVARIANTS TypeOK StaleHasCause
PROPERTIES GrantIsRecent
