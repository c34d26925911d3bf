\* A destroyed collider leaves its trigger open.
CONSTANTS
    FLT_MAX = 1000
    MAX_COL_NBR = 16
    MAX_DEPTH = 1
    InitSize = 1
    MaxSlots = 2
    Places <- TwoPlaces
    Shapes <- JustCircles
    BodyTypes = {"DYNAMIC", "STATIC"}
    TriggerFlags = {TRUE, FALSE}
SPECIFICATION Spec
INVARIANT OpenPairsAreAttached
