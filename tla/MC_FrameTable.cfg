CONSTANTS
    NoRead = MC_NoRead
    MC_NoRead = MC_NoRead
    LpAddr = 64
    CELL_SIZE = 4
    MaxCount = 2
SPECIFICATION Spec
INVARIANTS TypeOK MarkersDelimitRegions
