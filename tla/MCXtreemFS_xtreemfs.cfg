SPECIFICATION Spec
CONSTANTS
    Node = {n1, n2, n3, n4, n5}
    MaxCount = 2
    Junk = Junk
    None = None
SYMMETRY Symmetry
INVARIANTS TypeOK Rooted Settled DataKept NothingRefused
