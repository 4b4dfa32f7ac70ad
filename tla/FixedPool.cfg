SPECIFICATION FixedPoolSpec
CONSTANTS
    Accounts = {a1, a2, a3}
    NoAccount = NoAccount
    Requests = {r1, r2}
    MaxAccounts = 3
    CoolingKinds = {"transient"}
    IsolatingKinds = {"auth"}
    BaseCooldown <- MCBaseCooldown
    MaxCooldown <- MCMaxCooldown
    FailureWindow = 1
    MaxEpoch = 5
    MaxCounter = 3
PROPERTIES OneAccountPerTenure RouteLeavesOnlySleepers
SYMMETRY Symmetry
CHECK_DEADLOCK FALSE
