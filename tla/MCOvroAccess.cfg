SPECIFICATION FairSpec
CONSTANTS
    r1 = r1
    r2 = r2
    None = None
    Runs <- TwoRuns
    Unlucky = {r1}
    Attempts = 2
    Queries = 1
INVARIANTS
    TypeOK
    PolicyHasOwner
    LosesAccessOnlyToOthers
    HolesHaveACause
PROPERTIES
    EveryRunEnds
    WorkShrinks
