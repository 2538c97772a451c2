SPECIFICATION Spec
CONSTANTS
    Faults <- DeleteOnly
    CanInterrupt = FALSE
INVARIANT
    FailedCleanupReported
