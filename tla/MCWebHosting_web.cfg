SPECIFICATION Spec
CONSTANTS
    Node = {n1, n2, n3, n4}
    Version = {v0, v1}
    MaxCount = 1
    None = None
SYMMETRY Symmetry
INVARIANTS TypeOK AlwaysServed RoutesAlive Settled NothingRefused
