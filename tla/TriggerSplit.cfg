\* Three objects and lists of two: the root subdivides, pairs meet in several
\* leaves, part while a leaf lists both or part into different ones.  The vectors
\* double once (2 to 4 slots).
CONSTANTS
    FLT_MAX = 1000
    MAX_COL_NBR = 2
    MAX_DEPTH = 1
    InitSize = 2
    MaxSlots = 4
    NbObjects = 3
    Places <- FivePlaces
    Shapes <- JustCircles
    BodyTypes = {"DYNAMIC"}
    TriggerFlags = {TRUE}
SPECIFICATION WalkSpec
INVARIANTS
    CallbacksInRange
    CountersCountOpenPairs
    EnterNeverMissed
    OneCallPerPair
    ListedPairsExact
    ColoursAreExplained
PROPERTY AwaitedTriggersEnd
