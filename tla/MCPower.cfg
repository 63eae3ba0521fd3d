SPECIFICATION MCSpec
CONSTANTS
    Procs = {p, q}
    Authority = "synthetic_validation"
    ShardCounts = {1, 2}
    MaxGen = 1
    MaxReports = 8
    None = None
    Sound <- MCSound
    Changes <- MCChanges
SYMMETRY Sym
CONSTRAINT MCBound
INVARIANTS OneScreenPerAttempt NoGoExcludesPower WholeChains FinalStands AuthorityDecides
