SPECIFICATION Spec
CONSTANTS
    a = a
    b = b
    Objects = {a, b}
    Kept = {a}
    Functions = {"f"}
    Delays <- ShortDelays
    Intervals <- InRange
    MaxHandle = 2
    HeartbeatCycle = 1
    IntModulus = 8
    None = None
INVARIANT HeartbeatConsistent
PROPERTY CallsAsPromised
PROPERTY DeadNeverCalled
CHECK_DEADLOCK FALSE
