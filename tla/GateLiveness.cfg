SPECIFICATION FairPoolSpec
CONSTANTS
    Accounts = {a1, a2}
    NoAccount = NoAccount
    Clients = {c1, c2}
    NoClient = NoClient
    LeaseTime = 2
    CallLimit = 1
    MinInterval = 1
    WaiterTtl = 2
PROPERTIES WaiterServed CancelCompletes
