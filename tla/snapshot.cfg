SPECIFICATION Spec
CONSTANTS
    p1 = p1  p2 = p2  v = v  old = old  new = new  plain = plain  None = None
    Preparer = {p1, p2}
    Target <- MCTarget
    Source = {old, new, plain}
    MicroVM = {old, new}
    Size <- MCSize
    ChunkSize = 2
    MaxMemory = 4
    MaxMoves = 1
CHECK_DEADLOCK FALSE
INVARIANTS TypeOK IndexTilesMemory WholeWhenAlone SourceIsTrue
