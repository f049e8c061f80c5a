SPECIFICATION FairSpec
CONSTANTS
    a = a
    b = b
    Objects = {a}
    Kept = {}
    Functions = {"f"}
    Delays <- ShortDelays
    Intervals <- InRange
    MaxHandle = 2
    HeartbeatCycle = 2
    IntModulus = 8
    None = None
PROPERTY CallOutsFire
PROPERTY HeartbeatsBeat
PROPERTY ShutdownStops
CHECK_DEADLOCK FALSE
