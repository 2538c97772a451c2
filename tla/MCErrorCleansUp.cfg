SPECIFICATION Spec
CONSTANTS
    Faults <- RefusedOnly
    CanInterrupt = FALSE
INVARIANT
    ErrorCleansUp
