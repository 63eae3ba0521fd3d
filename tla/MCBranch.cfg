SPECIFICATION MCSpec
CONSTRAINT Typed
CONSTANTS
    NTasks = 2
    Slots = {s1, s2}
    Arms = {REAL, RESAMPLE}
    Guided = {REAL}
    ModelCap = 2
    TokenCap = 2
    ToolCap = 2
    Pendings = {1, 3}
    MaxRuns = 3
    Space = " "
    Mark = "|"
    FocalTask <- MCFocalTask
    DonorTask <- MCDonorTask
    Reports <- MCReports
    Policies <- MCPolicies
    Guides = {"g1", "g2", "g3"}
    ArmOf <- MCArmOf
    Places <- MCPlaces
    PadStates = 5
    MaxBuilds = 2
    MaxDisturbances = 1
SYMMETRY Symmetric
INVARIANTS SlotContract  BlockIsOneAttempt GuidanceIsFair
CHECK_DEADLOCK FALSE
