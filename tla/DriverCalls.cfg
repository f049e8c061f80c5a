SPECIFICATION Spec
CONSTANTS
    player = player
    room = room
    thing = thing
    None = None
    Objects <- MCObjects
    Registry <- MCRegistry
    Home <- MCHome
    Given <- MCGiven
    GivenBefore = 2
    Living = {player}
    Resetting = {room, thing}
    LdMud = FALSE
    TypedVerbs <- MCTyped
    ActionArgs <- MCArgs
    MaxOps = 3
    MaxTurns = 2
    MaxDepth = 5
INVARIANTS  NewestFirst
PROPERTIES DeadNotEntered CleansIdleOnly
CHECK_DEADLOCK FALSE
