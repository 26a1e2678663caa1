SPECIFICATION Spec
CONSTANTS
    NumStages = 2
    NumThreads = 2
    ThreadOf <- CompressAndWrite
    MaxItems = 1
    MaxDisables = 0
    MaxEvals = 0
    FlushUnfrozen = TRUE
INVARIANTS
    FlushCommitsAll
