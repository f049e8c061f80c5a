SPECIFICATION Spec
CONSTANTS
    a = a
    b = b
    None = None
    Objects <- MCObjects
    MaxSockets = 2
    MaxBytes = 3
    MaxReleases = 2
    DestructedCode = FALSE
SYMMETRY MCSymmetry
INVARIANTS StreamInOrder ReleaseScoped 
PROPERTY CloseSignalledOnce
