SPECIFICATION AllSpec
CONSTANTS
    Char <- MCChar
    Absent = Absent
    Fails = Fails
    IdLength = 2
    MaxGroupActions = 2
    PageSize = 2
    Trees <- MCTrees
    HeaderParts <- MCHeaderParts
    Patterns <- MCPatterns
    Files <- MCFiles
    MaxAdds = 2
    Actions <- MCActions
    MaxActions = 3
    MaxLength = 5
    Keys = {k1, k2}
    Damaged = Damaged
    MaxAttestations = 2
INVARIANTS PrintedIsParsed  CodecKeepsActions SegmentIsComplete BlockIsAuthentic
CHECK_DEADLOCK FALSE
