CONSTANTS
    Authorities <- MCAuthorities
    Bound <- MCBound
    Sampled <- MCSampled
SPECIFICATION MCSpec
CONSTRAINT Typed
INVARIANTS Accounted ReadersAreExact
CHECK_DEADLOCK FALSE
