SPECIFICATION ScanSpec
CONSTANTS
    Layouts <- MCLayouts
    DirectEnd <- MCDirectEnd
    Counts <- MCCounts
PROPERTY
    FirstFit
