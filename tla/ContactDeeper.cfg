\* The bodies of the run Contact; one frame is enough.
CONSTANTS
    FLT_MAX = 2000000000
    Positions <- SomePositions
    Velocities <- SomeVelocities
    Forces <- SomeForces
    Masses = {2, 6}
    Restitutions = {0, 1}
    Shapes <- SomeShapes
    Types = {"DYNAMIC", "STATIC"}
    MaxFrames = 1
    MaxLeaves = 2
SPECIFICATION Spec
PROPERTY ContactIsNotDeeper
CHECK_DEADLOCK FALSE
