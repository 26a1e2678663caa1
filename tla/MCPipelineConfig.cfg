SPECIFICATION Spec
CONSTANTS
    App = {a1, a2}
    StageName = {"source", "relay", "slow", "writer"}
    Ins <- MCIns
    Outs <- MCOuts
    DbStages = {"writer"}
    Interval <- MCInterval
    DefaultInterval = 3
    MaxPipelines = 2
    MaxStages = 2
    Own = Own
CONSTRAINTS
    OneAtATime
    LateSettings
SYMMETRY Apps
CHECK_DEADLOCK FALSE
INVARIANTS
    Attached
    StagesRun
    KindsApart
    Balanced
PROPERTIES
    DisablerTakesAll
