SPECIFICATION Spec
CONSTANTS
    Faults <- NoFault
    CanInterrupt = TRUE
INVARIANT
    InterruptCleansUp
