SPECIFICATION Spec
CONSTANTS
    k1 = k1
    k2 = k2
    Keys = {k1, k2}
    NullKey = NullKey
    ErasedKey = ErasedKey
    Clients = {c1, c2}
    Layouts <- MCOneLayout
    Images <- MCImages
    Failures = {"create", "data", "tables"}
    TableSizes = {1, 3}
    MaxEntries = 3
    MaxData = 24
    SizeModulus = 1
INVARIANTS
    TypeOK
    OnlyHeadsFree
    NoSharedBlock
    HandlesLead
SYMMETRY MCSymmetry
