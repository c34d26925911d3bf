\* Four blocks, an arena of six words, and three pointers over four objects.
CONSTANTS
    BlockCount = 4
    ArenaSize = 6
    Requests = {0, 1, 2}
    Pointers = {p, q, r}
    Objects = {a, b, c, d}
SPECIFICATION CommonSpec
INVARIANTS
    FreeListIsIntact
    StackIsExact
    OneOwnerOrDeletedOnce
PROPERTIES
    PoolKeepsPromise
    AssignmentHandsOver
CHECK_DEADLOCK FALSE
