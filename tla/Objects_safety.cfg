SPECIFICATION Spec
CONSTANTS
    o1 = o1
    o2 = o2
    o3 = o3
    f1 = f1
    f2 = f2
    None = None
    Obj <- MCObj
    File <- MCFile
    Loose <- MCLoose
    Editable <- MCEditable
    FreshVirtual = TRUE
    CreateMayFail = TRUE
    MaxFrames = 2
SYMMETRY MCSymmetry
CHECK_DEADLOCK FALSE
INVARIANTS LookupSound BlueprintsFound ContainmentAgrees
