\* Every script, the multiprocessor board with one to three CPUs; the program
\* stops when its script fails or a request is lost.
CONSTANTS
    NoRequest = NoRequest
    NoFirmware = NoFirmware
    CPUCounts = {1, 2, 3}
    MemSize = 524288
    LocalAPICBase = 5000000
    IOBase = 6000000
    InterruptBase = 7000000
    PCIBase = 8000000
    AddrMax = 9000000
SPECIFICATION Spec
CHECK_DEADLOCK FALSE
INVARIANTS
    TypeOK
    ReachesOwner
    OnlyIOHoleLoops
    MPTableOK
    MemoryMapOK
