SPECIFICATION Spec
CONSTANTS
    TimeMin <- MCTimeMin
    TimeMax = 15
    MaxSkew = 2
    MaxAge = 6
    MaxLimit = 20
    MaxFilterDepth = 2
    MaxFilterNodes = 4
    MaxInValues = 2
    DefaultLimit = 5
    HardLimit = 10
    Day = 2
    SessionZone = 0
    MaxInputBytes = 20
    MaxRows = 3
    MaxFieldsPerRow = 3
    HardRowLimit = 5
    HardByteLimit = 20
    Documents <- MCDocuments
    RoleFacts <- MCRoleFacts
    Tokens <- MCTokens
    Clock <- MCClock
    Snapshots <- MCSnapshots
    Successors <- MCSuccessors
    Queries <- MCQueries
    Databases <- MCDatabases
    Mutations <- MCMutations
    Profiles <- MCProfiles
    Tables <- MCTables
    Keys <- MCKeys
    Portable <- MCPortable
    StartsWith <- MCStartsWith
    MaxScaffoldModels = 3
    Scaffolds <- MCScaffolds
    Catalogs <- MCCatalogs
    OsiDocuments <- MCOsiDocuments
    Selections <- MCSelections
INVARIANT DatesUseModelZone
CHECK_DEADLOCK FALSE
