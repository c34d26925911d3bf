\* Four samples, one of each behaviour, two clicks and two places of the mouse.
CONSTANTS
    Kinds <- FourKinds
    SetUpObjects <- FewObjects
    Places = {"here", "there"}
    LeafCounts = {1, 4}
    MaxClicks = 2
SPECIFICATION Spec
INVARIANTS
    TypeOK
    OnlyTheCurrentIsUp
    GraphicsFollowObjects
    NoObjectWithoutClick
    MousePosIsOfThisFrame
PROPERTIES
    ClosingEnds
    ClicksCreate
    UpdatesGoOn
CHECK_DEADLOCK FALSE
