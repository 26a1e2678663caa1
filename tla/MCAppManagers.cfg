CONSTANTS
    TableName <- MCTableName
    Columns <- MCColumns
    Owner <- MCOwner
    Row <- MCRow
    Kinds = 2
    Nested = {2}
    Arg = {"none", "x", "y"}
    Default = "none"
    SchemaOf <- MCSchemaOf
    StringUser = {1}
    UserSchema <- MCUserSchema
    Orderings <- MCOrderings
    MaxInst = 2
    MaxRegs = 2
    MaxBusy = 1
    MaxSessions = 2
    MaxStrings = 1
SPECIFICATION Spec
INVARIANTS
    TypeOK
    CopiesAgree
    TablesReady
    HooksInOrder
    StringsSaved
PROPERTIES
    CommittedTogether
CONSTRAINT Tidy
CHECK_DEADLOCK FALSE
