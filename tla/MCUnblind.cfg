CONSTANTS
    Procs = {p, q}
    None = None
    Torn = Torn
    Paths <- MCPaths
    PairPaths <- MCPairPaths
    RecordPaths <- MCRecordPaths
SPECIFICATION FairSpec
CONSTRAINT Typed
INVARIANTS
    NoOrphanStaging
    
PROPERTIES
    ImplementsResultOfRecord
    LockReleased
