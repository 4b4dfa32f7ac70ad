SPECIFICATION FairSpec
CONSTANTS
    Aliases = {x1, x2}
    NoAlias = NoAlias
    Groups = {g1}
    MaxGroup = 1
    MaxTotal = 1
    AliasTtl = 1
PROPERTY RegistryForgets
