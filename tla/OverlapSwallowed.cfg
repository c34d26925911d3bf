CONSTANTS
    FLT_MAX = 1000
    Shapes <- MCShapes
    Places <- MCPlaces
SPECIFICATION Spec
INVARIANT OverlapIsGeometric
