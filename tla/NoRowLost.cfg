SPECIFICATION Spec
CONSTANTS
    stage = stage
    main = main
    Caller <- StageAndMain
    Main = main
    Timed = {}
    MaxCalls = 1
    MaxItems = 1
    MaxBusy = 1
INVARIANT NoRowLost
