CONSTANTS
    Users = {u1, u2, u3}
    Others = {}
    MaxOps = 2
    None = None
    Arities = {0, 1, 2}
SPECIFICATION Spec
SYMMETRY Symmetry
CHECK_DEADLOCK FALSE
INVARIANTS
    UsesExact
    NoneDangles
    NamesUnique
PROPERTIES
    ImplementsOperands
