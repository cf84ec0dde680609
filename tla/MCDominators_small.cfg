CONSTANTS
    Blocks = {r, b1, b2, b3}
    Root = r
    NoBlock = NoBlock
    Graphs <- SmallGraphs
SPECIFICATION Spec
SYMMETRY BlockSymmetry
CHECK_DEADLOCK FALSE
INVARIANTS
    AssertsHold
    RunnerNeverNull
    IdomClimbs
    ResultsCorrect
