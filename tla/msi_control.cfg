\* Three caches, data abstracted to one value: the races of the control.
CONSTANTS
    Caches = {c1, c2, c3}
    Dir = Dir
    Words = {w1}
    Bytes = {0}
    Zero = 0
SYMMETRY Symmetry
SPECIFICATION Spec
INVARIANTS
    TypeOK
    OnlyPutSAborts
    DirEntryOK
    SingleWriter
    AcksAddUp
    CopiesAreTracked
CHECK_DEADLOCK FALSE
