CONSTANTS
    Blocks = {0, 1, 2, 3, 4, 5, 6}
    Root = 0
    Vars = {"x", "y"}
    Names <- MCNames
    Programs <- AllPrograms
    Undef = Undef
    Garbage = Garbage
    MaxSteps = 9
SPECIFICATION RunSpec
CHECK_DEADLOCK FALSE
INVARIANTS
    StacksFollowCalls
    StacksCurrent
    DefsDominateUses
    PhisComplete
    NothingDangles
    LoadsPreserved
    CopiesSuffice
