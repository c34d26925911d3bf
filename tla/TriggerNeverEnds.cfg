\* Three objects and lists of two: the root subdivides, pairs meet in several
\* leaves or part into different ones.
CONSTANTS
    FLT_MAX = 1000
    MAX_COL_NBR = 2
    MAX_DEPTH = 1
    InitSize = 3
    MaxSlots = 3
    NbObjects = 3
    Places <- TwoPlaces
    Shapes <- JustCircles
    BodyTypes = {"DYNAMIC"}
    TriggerFlags = {TRUE}
SPECIFICATION SampleSpec
PROPERTY EveryTriggerEnds
