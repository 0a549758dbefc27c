SPECIFICATION Spec
CONSTANTS
    Node = {n1, n2, n3}
    Version = {v0, v1}
    Default = v0
    Thread = {t1, t2}
    MaxCount = 1
    MaxIntr = 1
    None = None
SYMMETRY Symmetry
INVARIANTS TypeOK SameCode InitFirst ActiveKept
