\* Two packets a port: what a packet can meet, and fair peers that get their answers.
CONSTANTS
    Ids = {1, 2}
    NoPacket = NoPacket
SPECIFICATION FairSpec
INVARIANTS
    TypeOK
    BlockedIffBelow
    NothingLost
    RefusalsRemembered
PROPERTY AcceptedIsAnswered
CHECK_DEADLOCK FALSE
