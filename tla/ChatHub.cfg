SPECIFICATION FairSpec
CONSTANTS
    Deadline = 2
    HandshakeWait = 1
    ReadSlice = 1
    MaxQueued = 1
    MaxParts = 4
    MaxWire = 1
INVARIANTS FailOverIsNoReplay StreamFaithful
PROPERTIES InvocationOnce CallEnds
