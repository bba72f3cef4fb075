\* Two ports, whole-block packets: every accepted request is answered, every refused one retried.
CONSTANTS
    Ports = {p1, p2}
    Addrs = {a1, a2}
    Words = {w1}
    Bytes = {0}
    Zero = 0
    Capacity = 1
    None = None
    FunctionalAnytime = FALSE
SPECIFICATION FairSpec
PROPERTIES
    AcceptedIsAnswered
    RefusedIsRetried
CHECK_DEADLOCK FALSE
