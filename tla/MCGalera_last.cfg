SPECIFICATION Spec
CONSTANTS
    Node = {n1, n2, n3, n4}
    MaxCount = 2
    None = None
SYMMETRY Symmetry
INVARIANT SomeNode
