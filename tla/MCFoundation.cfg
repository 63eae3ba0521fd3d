SPECIFICATION FoundationSpec
CONSTANTS
    None = None
    Row <- MCRow
    Bucket <- MCBucket
    Families = {"swe"}
    Ceiling = 7
    Stage = "500k"
    Initial <- MCInitial
    NewRows = {9}
    NewIdentities <- MCNewIdentities
    NewLeaks <- MCNewLeaks
    MaxEdits = 1
    MaxPrepares = 2
    Requests <- MCRequests
    Order <- MCOrder
    Accumulation = 2
    KeepLast = 1
    Losses = {1, 99}
    Infinite = 99
    MaxTrainings = 2
CONSTRAINTS Typed Budget
ACTION_CONSTRAINT Commuting
INVARIANTS AcceptedUnlessChanged TrainedIsAuthorized 
CHECK_DEADLOCK FALSE
