SPECIFICATION Spec
CONSTANTS
    Word = 16384
    PageSize = 512
    SmallPage = 256
    MaxEntries = 4
    Answers <- MCAnswers
    Bootstrap <- MCBootstrap
    TextStart = 256
    KernelEnd = 400
    PageBytes = 40
    ZoneBytes = 100
    DirectRamEnd = 2048
    MaxResets = 1
INVARIANTS
    CompleteHandoff
    NeverRefusedTwice
    ZonesAreRam
    HandoverLayout
PROPERTY
    BootDecides
