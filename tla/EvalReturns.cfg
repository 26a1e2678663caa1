SPECIFICATION FairSpec
CONSTANTS
    stage = stage
    main = main
    Caller <- StageAndMain
    Main = main
    Timed = {}
    MaxCalls = 1
    MaxItems = 1
    MaxBusy = 0
PROPERTY EvalReturns
