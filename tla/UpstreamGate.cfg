SPECIFICATION Spec
CONSTANTS
    Accounts = {a1, a2}
    NoAccount = NoAccount
    Clients = {c1, c2}
    NoClient = NoClient
    LeaseTime = 3
    CallLimit = 2
    MinInterval = 1
    WaiterTtl = 2
INVARIANTS SerialCalls CancelSettles
PROPERTY CallSpacing
SYMMETRY Symmetry
