SPECIFICATION ArchiveOneEntry
CONSTANTS
    Keys = {k1, k2}
    NullKey = NullKey
    ErasedKey = ErasedKey
    Clients = {c1}
    Layouts <- MCLayouts
    Images <- MCImages
    Failures = {"create", "data", "tables", "header"}
    TableSizes = {1, 2}
    MaxEntries = 2
    MaxData = 3
    SizeModulus = 2
    StartPositions = {0, 512}
INVARIANTS
    FileNeverStale
    OpensComplete
    TablesApart
PROPERTIES
    ImplementsFiles
