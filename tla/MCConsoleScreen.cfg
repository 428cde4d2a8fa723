SPECIFICATION ConsoleSpec
CONSTANTS
    Modes <- MCModes
    GW = 2
    GH = 2
    Tab = 2
    Big = 128
    Pdes = 2
    MaxBytes = 4
    MaxLine = 2
    MaxTraps = 1
    MaxIrqs = 0
INVARIANT
    PixelsInWindow
PROPERTY
    ScreenIsTerminal
