SPECIFICATION UserSpec
CONSTANTS
    Layouts <- MCLayouts
    DirectEnd = 4
    Counts = {1}
    Word = 24
    Page = 4
    Code = 8
    CodeSize = 3
    Stack = 16
    MaxWrite = 3
    Services = 3
    Programs <- MCPrograms
INVARIANTS
    NoStaleTranslation
    WayBackIsSafe
    ServiceContract
    CleanExit
PROPERTY
    DemoCompletes
