CONSTANTS
    Values = {"a", "i", "f", "g", "arr", "elt"}
    MaxArgs = 1
    Params = {"a", "f", "arr"}
    Kind <- ValueKind
    TempInt = "tempInt"
    TempFloat = "tempFloat"
    IntRegs <- TwoIntRegs
    FloatRegs <- OneFloatReg
    NoValue = NoValue
    NoReg = NoReg
    Junk = Junk
SPECIFICATION Spec
CHECK_DEADLOCK FALSE
INVARIANTS
    RegisterMapsAgree
    OperandsFound
PROPERTIES
    NoEarlyDisplacement
