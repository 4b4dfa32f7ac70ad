SPECIFICATION MCSpec
CONSTANTS
    Accounts = {a1, a2}
    NoAccount = NoAccount
    Requests = {r1}
    MaxAccounts = 2
    CoolingKinds = {"transient"}
    IsolatingKinds = {"auth"}
    BaseCooldown <- MCBaseCooldown
    MaxCooldown <- MCMaxCooldown
    FailureWindow = 2
    MaxEpoch = 5
    MaxCounter = 3
INVARIANTS ActiveAvailable TenureOwner SequenceOrder
PROPERTY LateFailureFenced
SYMMETRY Symmetry
CHECK_DEADLOCK FALSE
