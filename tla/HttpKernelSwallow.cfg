SPECIFICATION Spec
CONSTANTS
    Globals <- MCGlobals
    OfRoute <- MCOfRoute
    MaxBody = 3
    ChunkSizes = {1, 2}
    MaxNexts = 4
    UserFaults = {"validate"}
    None = None
INVARIANT
    Answered
CHECK_DEADLOCK FALSE
