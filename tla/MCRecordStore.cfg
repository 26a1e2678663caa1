SPECIFICATION Spec
CONSTANTS
    Columns <- TicksAndName
    Kind <- TicksAndNameKind
    Base = 2
    Width = 3
    Null = Null
    Freed = Freed
    Value <- TicksAndNameValue
    ColumnLists <- SomeColumns
    Queries <- SomeQueries
    MaxInserts = 2
    MaxBusy = 1
    MaxRemovals = 1
INVARIANTS
    RowsAsGiven
    HandleTrue
    QueriesSound
PROPERTIES
    RemovalAnswers
CHECK_DEADLOCK FALSE
