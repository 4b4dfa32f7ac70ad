SPECIFICATION Spec
CONSTANTS
    Aliases = {x1, x2, x3}
    NoAlias = NoAlias
    Groups = {g1, g2, g3}
    MaxGroup = 1
    MaxTotal = 2
    AliasTtl = 1
INVARIANTS NoAccountingLie AliasBounds
PROPERTY OnlyNewerDisplaces
SYMMETRY Symmetry
