SPECIFICATION Spec
CHECK_DEADLOCK FALSE
CONSTANTS
    Chunk = 3
    Length = 8
    LineLengths = {1, 2, 5, 6, 9}
    MaxBytes = 17
INVARIANTS BufferHolds RunsTheLines
PROPERTIES OnlyLongLinesOverrun
