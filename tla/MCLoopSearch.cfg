CONSTANTS
    b0 = b0
    b1 = b1
    b2 = b2
    b3 = b3
    b4 = b4
    b5 = b5
    Blocks <- MCBlocks
    Root = b0
    Graphs <- MCGraphs
SPECIFICATION FairSpec
CHECK_DEADLOCK FALSE
INVARIANTS
    BaseFound
    LoopsNest
    LoopsAreNatural
    InnermostFound
    ParentsEnclose
PROPERTIES
    Terminates
