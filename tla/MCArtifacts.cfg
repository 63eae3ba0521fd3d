SPECIFICATION Spec
CONSTRAINT Typed
CONSTANTS
    Writers = {w1, w2}
    Base = Base
    NumNames = 2
    MaxMoves = 1
    Overlap = FALSE
    None = None
SYMMETRY Sym
INVARIANT ReadIsSnapshot
PROPERTY ContentKept
CHECK_DEADLOCK FALSE
