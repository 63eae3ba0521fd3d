CONSTANTS
    Word <- MCWord
    Hmac <- MCHmac
    Roster <- MCRoster
    Studies <- MCStudies
    Outcomes <- MCOutcomes
    Configs = {a, b}
    MaxSpare = 1
    MaxRemovals = 1
    MaxIrregular = 1
    Roles = {1, 2, 3}
    Group <- MCGroup
    Needs <- MCNeeds
    Files = {"design", "draft"}
    SlotOf <- MCSlotOf
    Optional = {"draft"}
    PeerIn <- MCPeerIn
    Versions = {"v1", "v2"}
    Receipts <- MCReceipts
    Sources = {"s"}
    Supported <- MCSupported
    Stages = {"stage_1_pre_launch", "stage_2_pre_submission"}
    Answers <- MCAnswers
    NoRole = NoRole
    NoFile = NoFile
    MaxRuns = 2
    MaxChanges = 1
SPECIFICATION MCSpec
SYMMETRY Symmetric
CONSTRAINT Typed
INVARIANTS ResultIsOneStudy PassIsEarned
PROPERTY LedgersReconstruct
CHECK_DEADLOCK FALSE
