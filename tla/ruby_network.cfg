\* Both systems, one and two CPUs, each ISA that setup() tells apart.
CONSTANTS
    CPUCounts = {1, 2}
    MaxMessages = 2
SPECIFICATION FairSpec
INVARIANTS
    TypeOK
    NumbersAgree
PROPERTIES
    KeepsPromise
    AllArrive
CHECK_DEADLOCK FALSE
