SPECIFICATION QueueSpec
CONSTANTS
    Inputs <- MCInputs
    Capacity <- MCCapacity
    MaxLost <- MCMaxLost
PROPERTY
    RingIsFifo
