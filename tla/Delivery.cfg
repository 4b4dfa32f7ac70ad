SPECIFICATION MCSpec
CONSTANTS
    Accounts = {a1, a2}
    NoAccount = NoAccount
    MaxRecorded = 2
    MaxBeats = 1
    MaxRequests = 3
    MaxResets = 1
INVARIANTS ExposedIsDurable UnseenDiscarded TerminalTruth StreamLegal StatsAgree
PROPERTY Settles
