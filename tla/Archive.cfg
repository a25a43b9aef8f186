SPECIFICATION Spec
CONSTANTS
    None = None
    b1 = b1
    b2 = b2
    u1 = u1
    c1 = c1
    c2 = c2
    c3 = c3
    Files = {b1, b2, u1}
    Contents = {c1, c2, c3}
    Size <- MCSize
    Chunk = 2
    Lists <- MCLists
    Images <- MCImages
    Archives <- MCArchives
    Zeros <- MCZeros
    MaxRuns = 3
INVARIANTS AInv Restored
\* The program ends with its last run.
CHECK_DEADLOCK FALSE
