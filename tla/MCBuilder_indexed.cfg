CONSTANTS
    Programs <- IndexedLoops
    Typing <- TypingOfPrograms
    Straight <- StraightExpressions
    Depth = 3
SPECIFICATION Spec
CHECK_DEADLOCK FALSE
INVARIANTS
    SameBehaviour
