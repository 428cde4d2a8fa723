SPECIFICATION CheckSpec
CONSTANTS
    Layouts <- MCLayouts
    DirectEnd = 4
    Counts = {}
    Large = 3
    Huge = 8
INVARIANT
    SelfTestSound
