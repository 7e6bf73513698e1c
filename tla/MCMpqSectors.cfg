SPECIFICATION Spec
CONSTANTS
    SectorSize = 4
    Word = 2
    UIntModulus = 256
    DataSizes = {0, 1, 3, 4, 5, 8, 9, 11}
    Masks <- MCMasks
    Chains <- MCChains
    PackedSizes = {1, 2, 3, 4}
INVARIANTS
    SectorsCover
    AuthoredIsRead
    OwnReadsBack
    KeylessDeliversNothing
