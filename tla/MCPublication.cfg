SPECIFICATION MCSpec
CONSTRAINT Typed
ACTION_CONSTRAINT InOrder
CONSTANTS
    Procs = {p1, p2}
    Peers = {x1, x2}
    Targets = {t1, t2}
    Base = Base
    None = None
INVARIANTS PeerPreserved CommittedIsWhole 
PROPERTY TransactionEnds
CHECK_DEADLOCK FALSE
