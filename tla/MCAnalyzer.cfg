SPECIFICATION FairSpec
CONSTANTS
    shop = shop
    kube = kube
    vm1 = vm1
    vm2 = vm2
    vm3 = vm3
    web = web
    job = job
    db = db
    Namespaces <- TwoNamespaces
    Listing <- BothListed
    Asked <- AllOrTwice
    Platform = {kube}
    Workloads <- AllWorkloads
    Home <- Homes
    Kind <- KindsOf
    Excluded = {vm3}
    Unrequested = {job}
    Answers <- JustEnough
    MinPoints = 7
    Expected = 30
    Top = 20
    Bottom = 104
    SectionHeight = 36
    TextHeight = 20
    HeaderHeight = 14
    RowHeight = 11
    NoteHeight = 8
    Guard = 24
INVARIANTS
    TypeOK
    Accounted
    RowsWhole
    SummaryAgrees
    ServedIsComplete
PROPERTIES
    PodAsPromised
    ServesOrEnds
