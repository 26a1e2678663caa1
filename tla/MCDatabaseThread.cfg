SPECIFICATION FairSpec
CONSTANTS
    stage = stage
    main = main
    Caller <- StageAndMain
    Main = main
    Timed <- StageAndMain
    MaxCalls = 1
    MaxItems = 2
    MaxBusy = 1
INVARIANTS
    TypeOK
    OneTransaction
    RowsAccounted
    EvalRan
    Preempted
    ClosedDrained
PROPERTIES
    EvalReturns
    CloseReturns
    RowsSettle
