CONSTANTS
    Programs <- AllPrograms
    Typing <- TypingOfPrograms
    Straight <- StraightExpressions
    Depth = 4
SPECIFICATION Spec
CHECK_DEADLOCK FALSE
INVARIANTS
    TreeRead
    ScopesFollowVisits
    ConversionsHold
    InstructionsFit
    EveryBlockEnds
    SameBehaviour
    GeneratedBehaviourIfLast
