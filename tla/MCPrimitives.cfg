SPECIFICATION Spec
CONSTANTS
    Size = 5
    Values <- MCValues
    Fills <- MCFills
    Reports <- MCReports
INVARIANT
    PrimitivesAsInC
