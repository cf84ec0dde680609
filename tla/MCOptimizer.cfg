CONSTANTS
    Blocks = {0, 1, 2, 3, 4, 5, 6}
    Root = 0
    NoBlock = NoBlock
    Vars = {"x", "y"}
    Names <- MCNames
    Programs <- MCPrograms
    Undef = Undef
    Garbage = Garbage
SPECIFICATION OptSpec
CHECK_DEADLOCK FALSE
PROPERTIES
    ImplementsMem2Reg
    SweepsOnlyRaise
    BothEnd
