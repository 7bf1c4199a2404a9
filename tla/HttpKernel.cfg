SPECIFICATION Spec
CONSTANTS
    Globals <- MCGlobals
    OfRoute <- MCOfRoute
    MaxBody = 3
    ChunkSizes = {1, 2}
    MaxNexts = 4
    UserFaults = {"badHeader", "hookThrows"}
    None = None
INVARIANTS
    Answered
    InternalsHidden
PROPERTIES
    EveryRequestEnds
CHECK_DEADLOCK FALSE
