\* Models without materials saved, files of other programs, streams of any content.
SPECIFICATION Spec
CHECK_DEADLOCK FALSE

CONSTANTS
    Garbage = 1000
    MaxStream = 4
    Models <- PlainModels
    Shipped <- MCShipped
    Streams <- MCStreams

INVARIANTS
    SavedReadsBack
    ShippedIsRead
    CutLosesLastSections

PROPERTIES
    EveryReadEnds
