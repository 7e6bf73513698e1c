\* Models with materials, saved and read back, and files of other programs with geosets
\* and with layers that have texture ids.
SPECIFICATION Spec
CHECK_DEADLOCK FALSE

CONSTANTS
    Garbage = 1000
    MaxStream = 0
    Models <- MaterialModels
    Shipped <- MCShippedRest
    Streams = {}

INVARIANT
    ModelsAreRead
