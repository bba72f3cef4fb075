\* One and two HelloObjects, buffers of no byte to a few messages, a float of
\* four bits; the simulation ends.
CONSTANTS
    Latencies = {2, 17}
    Fires = {0, 1, 4}
    Lengths = {1, 3}
    BufferSizes = {0, 1, 2, 6}
    Bandwidths = {0, 1, 3}
    MantissaBits = 4
SPECIFICATION FairSpec
CHECK_DEADLOCK FALSE
INVARIANTS
    TypeOK
    GoodbyeInTime
PROPERTIES
    SimulationEnds
