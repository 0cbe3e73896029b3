SPECIFICATION Spec
CONSTANTS
    k1 = k1  k2 = k2  b1 = b1  b2 = b2
    Conns = {k1, k2}
    Casters = {b1, b2}
    JobCasters = {b2}
    Hanging = {}
    MaxSends = 1
CHECK_DEADLOCK FALSE
INVARIANTS NoneMissed
