\* Every script, two workers, two starts, one file built again; everything may
\* be done and the script not started again.
CONSTANTS
    Workers = {w1, w2}
    Microbench = {"microbench/MC/bench.X86", "microbench/MCS/bench.X86"}
    ListLimit = 2
    InnerLimit = 1
    MaxStarts = 2
    MaxChanges = 1
SPECIFICATION FairSpec
CHECK_DEADLOCK FALSE
INVARIANTS
    TypeOK
    UsesWhatItRecords
    OwnDirectory
    NoneLeftOut
PROPERTIES
    AllJobsEnd
