\* One port, two values of a word: the data of hits, misses, upgrades and writebacks.
CONSTANTS
    Ports = {p1}
    Addrs = {a1, a2}
    Words = {w1, w2}
    Bytes = {0, 1}
    Zero = 0
    Capacity = 1
    None = None
    FunctionalAnytime = FALSE
SYMMETRY Symmetry
SPECIFICATION Spec
INVARIANTS
    NothingLost
PROPERTIES
    ActsAsMemory
CHECK_DEADLOCK FALSE
