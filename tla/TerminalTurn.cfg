SPECIFICATION Spec
CONSTANTS
    Accounts = {a1, a2}
    NoAccount = NoAccount
    Requests = {r1, r2}
    NoRequest = NoRequest
    Convs = {v1, v2, v3}
    NoConv = NoConv
    LeaseTime = 2
    RequestLimit = 1
    SessionTtl = 3
    AliasTtl = 3
SYMMETRY Symmetry
PROPERTY TerminalTombstoned
