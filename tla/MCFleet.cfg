CONSTANTS
    N = 3
    Suffixes = 1
    MaxOps = 2
    Micro = {"t1", "t2"}
    Forensic = {"t3"}
    SourcePaths = {"helper", "core", "orphan", "config"}
    Structural = {"config"}
    Importers <- MCImporters
    Consumers <- MCConsumers
    MaxRequests = 2
    MaxSourceEdits = 1
SPECIFICATION MCSpec
CONSTRAINT Typed
INVARIANTS AnswersMatch CleanupIsHonest PoolFailsClosed
PROPERTY ControllersEnd
CHECK_DEADLOCK FALSE
