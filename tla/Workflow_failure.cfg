SPECIFICATION Spec
CONSTANTS
    Runs <- FirstTwo
    Batches <- FirstTwo
    Stamps <- FirstTwo
    Keep = 2
    None = None
INVARIANTS
    FailureShown
