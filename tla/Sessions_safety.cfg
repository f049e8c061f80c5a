SPECIFICATION Spec
CONSTANTS
    a = a
    b = b
    o = o
    None = None
    Objects <- MCObjects
    MaxConns = 2
    MaxLines = 1
    SharedObjects = FALSE
    ShadowsOf <- NoShadows
SYMMETRY MCSymmetry
INVARIANTS NoDangling Registered  SnoopAcyclic
