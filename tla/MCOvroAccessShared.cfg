SPECIFICATION Spec
CONSTANTS
    r1 = r1
    r2 = r2
    None = None
    Runs <- TwoRuns
    Unlucky = {r1}
    Attempts = 2
    Queries = 1
PROPERTIES
    KeepsAccess
