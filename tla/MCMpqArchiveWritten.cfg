SPECIFICATION ArchiveOneEntry
CONSTANTS
    Keys = {k1, k2}
    NullKey = NullKey
    ErasedKey = ErasedKey
    Clients = {c1}
    Layouts <- MCLayouts
    Images <- MCImages
    Failures = {}
    TableSizes = {1, 2}
    MaxEntries = 2
    MaxData = 4
    SizeModulus = 128
    StartPositions = {0, 512}
INVARIANTS
    ChangesAreWritten
