\* Two caches, a block of two words: what loads return and what messages carry.
CONSTANTS
    Caches = {c1, c2}
    Dir = Dir
    Words = {w1, w2}
    Bytes = {0, 1}
    Zero = 0
SPECIFICATION Spec
INVARIANTS
    ReadableIsCurrent
    DataIsUpToDate
PROPERTY AtomicMemory
CHECK_DEADLOCK FALSE
