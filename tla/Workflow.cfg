SPECIFICATION Spec
CONSTANTS
    Runs <- FirstThree
    Batches <- FirstTwo
    Stamps <- FirstTwo
    Keep = 2
    None = None
INVARIANTS
    WorkflowInv
PROPERTIES
    ProgressKept
    CheckpointedFirst
    VersionsFresh
