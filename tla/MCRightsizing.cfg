SPECIFICATION FairSpec
CONSTANTS
    HeadroomPercent = 20
    UpsizeThreshold = 90
    MinCPU = 2
    MinMem = 1
    p1 = p1
    p2 = p2
    c1 = c1
    c2 = c2
    Kinds <- AllKinds
    Pods = {p1, p2}
    Own = {p1}
    Containers = {c1}
    Moments <- MixedMoments
    Requests <- SomeRequests
    MinCPUSavings <- CPUSavings
    MinMemSavings <- MemSavings
    Window = 3
    MinPoints = 2
    Core = 20
    MemUnit = 1000
    MaxRequest = 130
INVARIANTS
    TypeOK
    AdviceIsHonest
PROPERTIES
    CoversSamples
    PeakAtSeventy
    ChasesOnlyBursts
    SteadyUsageSettles
