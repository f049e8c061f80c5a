SPECIFICATION Spec
CONSTANTS
    Slots <- MCSlots
    Files <- MCFiles
    Master = "master"
    Room = "room"
    Entering = {"thing"}
    Kinds = {"obj", "arr", "clo", "wide"}
    MaxOps = 3
    MaxDumps = 1
    MaxRestores = 1
    MaxCrashes = 1
INVARIANTS
    
    RestoredStayAlive
CHECK_DEADLOCK FALSE
