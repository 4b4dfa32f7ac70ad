SPECIFICATION FairSpec
CONSTANTS
    Keys = {k1, k2}
    NoKey = NoKey
    MaxToken = 3
INVARIANTS TypeOK JobsAgree MirrorTrue
PROPERTY MirrorSettles
