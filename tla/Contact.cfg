\* Two bodies of every mix of shape, mass, restitution and type, two frames of up
\* to two visits each.
CONSTANTS
    FLT_MAX = 2000000000
    Positions <- SomePositions
    Velocities <- SomeVelocities
    Forces <- SomeForces
    Masses = {2, 6}
    Restitutions = {0, 1}
    Shapes <- SomeShapes
    Types = {"DYNAMIC", "STATIC"}
    MaxFrames = 2
    MaxLeaves = 2
SPECIFICATION Spec
PROPERTIES
    NoApproachAfterContact
    MomentumIsKept
    NoEnergyGained
    FurtherVisitsAreHarmless
    
    CorrectionIsBounded
CHECK_DEADLOCK FALSE
