SPECIFICATION Spec
CONSTANTS
    k1 = k1
    k2 = k2
    Keys = {k1, k2}
    NullKey = NullKey
    ErasedKey = ErasedKey
    Clients = {c1, c2}
    Layouts <- MCLargeLayouts
    Images <- MCImages
    Failures = {"header"}
    TableSizes = {2}
    MaxEntries = 3
    MaxData = 40
    SizeModulus = 128
INVARIANTS
    NoLostBlock
    NoOverlap
    SizeAdds
PROPERTIES
    FilesKept
SYMMETRY MCSymmetry
