SPECIFICATION Spec
CONSTANTS
    App = {a1}
    VM = {v1, v2, v3}
    Job = {j1, j2}
    MaxNodes = 2
    None = None
CHECK_DEADLOCK FALSE
SYMMETRY Symmetry
INVARIANTS TypeOK Accounted NoCorpseCharged SingleManager StoppedCostsNothing
