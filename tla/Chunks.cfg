SPECIFICATION Spec
CONSTANTS
    Line <- MCLine
    MaxLines = 7
    ChunkSize = 2
    ChunkOverlap = 2
INVARIANTS
    TypeOK
    NothingLost
    SizesTrue
    PartsOverlap
    CutsBetweenBlocks
\* The loops end.
CHECK_DEADLOCK FALSE
