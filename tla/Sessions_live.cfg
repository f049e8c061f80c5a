SPECIFICATION LiveSpec
CONSTANTS
    a = a
    b = b
    o = o
    None = None
    Objects <- MCObjects
    MaxConns = 1
    MaxLines = 2
    SharedObjects = FALSE
    ShadowsOf <- NoShadows
INVARIANTS InputToScoped IdleRegistryLive
PROPERTIES NetDeadOnce ClosedReaped
