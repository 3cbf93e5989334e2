\* Lines of every size come and go through five allocations.
CONSTANTS
    b1 = b1
    b2 = b2
    b3 = b3
    b4 = b4
    b5 = b5
    b6 = b6
    empty = empty
    short = short
    long = long
    NotLent = NotLent
    Buffers <- MCBuffers5
    Texts <- MCTexts
    Empty <- empty
    Large <- MCLarge
    INIT_FREE_CAPACITY = 2
    MAX_FREE_CAPACITY = 3
    Lens <- MCLens
    MaxPushes = 3
SPECIFICATION Spec
SYMMETRY Sym5
INVARIANTS
    TypeOK
    SlicesStable
    LiveIsRecentHistory
\* A failed arithmetic check of the debug build stops the program.
CHECK_DEADLOCK FALSE
