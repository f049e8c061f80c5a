SPECIFICATION Spec
CONSTANTS
    o1 = o1
    o2 = o2
    o3 = o3
    o4 = o4
    o5 = o5
    None = None
    Objects <- MCObjects
    Master = o1
    Dialect = "fluffos"
    ReentrantApproval = FALSE
    MaxNesting = 1
SYMMETRY MCSymmetry
CHECK_DEADLOCK FALSE
INVARIANTS LinksAgree Acyclic CallsReachTarget
PROPERTY SpliceJoins
