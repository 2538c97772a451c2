SPECIFICATION FairSpec
CONSTANTS
    Faults <- EveryFault
    CanInterrupt = TRUE
INVARIANTS
    TypeOK
    CleanupIsFinal
    SuccessLeavesNothing
    JobHasItsRights
    HonestExit
    LeftoversHaveACause
PROPERTIES
    Terminates
    RecordedBindingsRevoked
    NamespaceEmptied
    NothingComesBack
    CommandKeepsContract
    AssumesNoMore
