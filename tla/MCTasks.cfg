SPECIFICATION TaskSpec
CONSTANTS
    Layouts <- MCLayouts
    DirectEnd = 4
    Counts = {1}
INVARIANTS
    NoTaskAssert
    LiveStack
    ContextIntact
PROPERTIES
    TasksFinish
