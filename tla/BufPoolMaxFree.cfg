\* The bound on the free list, with a maximum below what doubling reaches.
CONSTANTS
    b1 = b1
    b2 = b2
    b3 = b3
    b4 = b4
    b5 = b5
    b6 = b6
    empty = empty
    short = short
    long = long
    NotLent = NotLent
    Buffers <- MCBuffers6
    Texts <- MCShort
    Empty <- empty
    Large <- MCNone
    INIT_FREE_CAPACITY = 4
    MAX_FREE_CAPACITY = 5
    Lens <- MCLens
    MaxPushes = 6
SPECIFICATION Spec
SYMMETRY Sym6
INVARIANT FreeWithinMax
CHECK_DEADLOCK FALSE
