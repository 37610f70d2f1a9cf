SPECIFICATION Spec
CONSTANTS
    Users = {u1, u2, u3}
    Conns = {c1, c2, c3, c4}
    NULL = NULL
    NConns = 1
    MaxAlarms = 2
    MaxDrops = 2
SYMMETRY Interchangeable
INVARIANTS UsersSafe PoolTruthful PoolBounded
CHECK_DEADLOCK FALSE
