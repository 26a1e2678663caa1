SPECIFICATION Spec
CONSTANTS
    NumStages = 3
    NumThreads = 2
    ThreadOf <- TwoDbStages
    MaxItems = 2
    MaxDisables = 2
    MaxEvals = 1
    FlushUnfrozen = FALSE
INVARIANTS
    TypeOK
    InOrder
    FrozenStill
    FlushExact
    TeardownDrains
    DisablerRestores
PROPERTIES
    KeepsPromise
