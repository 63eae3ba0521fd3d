SPECIFICATION MCSpec
CONSTRAINT Typed
SYMMETRY Sym
CONSTANTS
    w1 = w1  w2 = w2  c1 = c1  c2 = c2  c3 = c3  p1 = p1  p2 = p2  a1 = a1
    Contents = {a1}
    Writers = {w1, w2}
    Callers = {c1, c2, c3}
    Processes = {p1, p2}
    ProcessOf <- MCProcessOf
    NoOne = NoOne
    Launchers = {a, b}
    Official = {a}
    Auditor = aud
    None = None
    Crews = {{}, {a}, {a, b}, {a, aud}, {a, b, aud}}
    MaxEdits = 2
    MaxEvents = 4
    MaxDays = 2
    ShardSizes = {1, 2}
    MaxMigrations = 3
    MaxFaults = 2
INVARIANTS RefsResolve GrantIsEarned JournalKept
 
CHECK_DEADLOCK FALSE
