SPECIFICATION ChainSpec
CONSTANTS
    Images <- MCImages
    SectorBytes = 4
    SectorsPerTrack = 5
    FatSectors = 3
    RootDirSectors = 2
    Entries = 2
    Probe = 0
    Table = 1
    Sector0 = 2
    Temp = 3
    Buf = 4
    Loader = 7
    Segment = 2
    Pages = 9
    High = 10
INVARIANTS
    CodeIntact
    HandoffIntact
    BiosInRealMode
PROPERTY
    ChainEnds
