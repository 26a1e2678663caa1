SPECIFICATION FairSpec
CONSTANTS
    NumStages = 2
    NumThreads = 2
    ThreadOf <- CompressAndWrite
    MaxItems = 1
    MaxDisables = 1
    MaxEvals = 1
    FlushUnfrozen = TRUE
PROPERTIES
    DisableReturns
    TeardownReturns
    EventuallyWritten
