SPECIFICATION Spec
CONSTANTS
    Layouts <- MCLayouts
    DirectEnd <- MCDirectEnd
    Counts <- MCCounts
INVARIANTS
    PanicsOnlyOnOverlap
    Bookkeeping
    ExclusiveOwnership
    CompleteSearch
    MappedRunsAddressable
