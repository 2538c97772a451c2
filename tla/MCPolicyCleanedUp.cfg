SPECIFICATION Spec
CONSTANTS
    Faults <- NoFault
    CanInterrupt = TRUE
INVARIANT
    PolicyCleanedUp
