\* The whole interface, with slots recycled and vectors that double; or three
\* objects and lists of two, so that a walk goes over several pairs and leaves.
CONSTANTS
    FLT_MAX = 1000
    MAX_COL_NBR = 2
    MAX_DEPTH = 1
    InitSize = 1
    MaxSlots = 4
    Places <- TwoPlaces
    Shapes <- JustCircles
    BodyTypes = {"DYNAMIC", "STATIC"}
    TriggerFlags = {TRUE, FALSE}
SPECIFICATION Spec
ACTION_CONSTRAINT TwoSlotsOrThreeObjects
VIEW AllButStale
INVARIANTS
    TypeOK
    UpdateNeverThrows
PROPERTIES
    NoSharedSlot
    EnterExitAlternate
    StaticBodiesStay
    KeepsContract
