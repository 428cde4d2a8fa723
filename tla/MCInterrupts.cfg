SPECIFICATION Spec
CONSTANTS
    Inputs <- MCInputs
    Capacity <- MCCapacity
    MaxLost <- MCMaxLost
    MaxBytes <- MCMaxBytes
    MaxNoise <- MCMaxNoise
INVARIANTS
    NoAssertFails
    NoLostWakeup
    NoStuckByte
    Accounted
    TypedOrder
PROPERTIES
    BootEnds
    InputSurfaces
