SPECIFICATION ConsoleSpec
CONSTANTS
    Modes <- MCTrapModes
    GW = 2
    GH = 1
    Tab = 2
    Big = 128
    Pdes = 2
    MaxBytes = 2
    MaxLine = 2
    MaxTraps = 2
    MaxIrqs = 1
INVARIANTS
    OneDrawer
    ResumableFrames
PROPERTY
    TrapsReported
