\* Two ports, the control flow: blocking, retries, evictions, panics.
CONSTANTS
    Ports = {p1, p2}
    Addrs = {a1, a2}
    Words = {w1, w2}
    Bytes = {0}
    Zero = 0
    Capacity = 1
    None = None
    FunctionalAnytime = FALSE
SYMMETRY Symmetry
SPECIFICATION Spec
INVARIANTS
    TypeOK
    OneRequestInService
    OnlyMissPanics
    NoRetryForgotten
CHECK_DEADLOCK FALSE
