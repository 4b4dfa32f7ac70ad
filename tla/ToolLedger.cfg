SPECIFICATION Spec
CONSTANTS
    Prints = {"p1", "p2"}
    Failures = {"f1"}
    Actions = {"deploy", "verify"}
    ActionOf <- MCActionOf
    MaxToolRounds = 4
    MaxConsecutive = 2
    MaxOccurrences = 3
    SnapshotLimit = 4
    FailureMemory = 2
    EvidenceLimit = 9
    MaxUsers = 2
    MaxItems = 10
INVARIANTS LedgerTrue HonestNotRefused LoopBounded ClaimsBacked
PROPERTY FailureNotRetried
CHECK_DEADLOCK FALSE
