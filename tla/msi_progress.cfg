\* Two caches under fairness: every request is answered.
CONSTANTS
    Caches = {c1, c2}
    Dir = Dir
    Words = {w1}
    Bytes = {0}
    Zero = 0
SPECIFICATION FairSpec
PROPERTY Served
CHECK_DEADLOCK FALSE
