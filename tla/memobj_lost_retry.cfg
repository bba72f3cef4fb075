\* Fair peers: a refused request is retried.
CONSTANTS
    Ids = {1, 2}
    NoPacket = NoPacket
SPECIFICATION FairSpec
PROPERTY RefusedIsRetried
CHECK_DEADLOCK FALSE
