SPECIFICATION Spec
CONSTANTS
    scalar = scalar
    queue = queue
    k1 = k1
    k2 = k2
    v1 = v1
    v2 = v2
    Closed = Closed
    None = None
    Cid <- ScalarAndQueue
    Contig <- Queues
    Clock <- TwoClocks
    Value <- TwoValues
    Takes <- OneForTheScalar
    Covered <- OneWay
    Setups <- AllSetups
    MaxTime <- Horizon
    MaxPerWindow <- PerWindow
    MaxBacklog = 1
INVARIANTS
    TypeOK
    ReplayExact
    Anchored
PROPERTIES
    PlaysForward
CHECK_DEADLOCK FALSE
