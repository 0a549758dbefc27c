SPECIFICATION Spec
CONSTANTS
    Job = {j1, j2}
    MaxManager = 2
    MaxSid = 2
    None = None
SYMMETRY Symmetry
INVARIANTS TypeOK Listed NoGhost
