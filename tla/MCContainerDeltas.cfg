SPECIFICATION Spec
CONSTANTS
    v1 = v1
    v2 = v2
    Value = {v1, v2}
    vacant = vacant
    Vacant = vacant
    Unknown = Unknown
    Nothing = Nothing
    Contigs <- ShortQueues
    Sparses <- SmallSparses
    Capacity = 5
    CountMod = 3
INVARIANTS
    ShownExact
    Legible
\* A record that cannot be encoded or read ends the system.
CHECK_DEADLOCK FALSE
