CONSTANTS
    Functions <- MCFunctions
    Params <- MCParams
    Locals <- MCLocals
    Returned <- MCReturned
    Values <- MCValues
    Kind <- MCKind
    Length <- MCLength
    NumIntRegs = 6
    NumFloatRegs = 8
    MaxCalls = 4
    MaxDepth = 3
    MaxByte = 480
    Nothing = Nothing
SPECIFICATION Spec
CHECK_DEADLOCK FALSE
INVARIANTS
    SlotsDisjoint
    FrameFixed
    RegisterArgumentsArrive
    FramesIntact
    ReturnsHome
    CallsAligned
