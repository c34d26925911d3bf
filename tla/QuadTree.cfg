\* Lists of 2, two levels, one box more than makes the root divide: the smallest
\* tree whose children divide again and that is descended into.
CONSTANTS
    FLT_MAX = 100
    MAX_COL_NBR = 2
    MAX_DEPTH = 2
    MaxItems = 4
    Boxes <- MCBoxes
SPECIFICATION Spec
INVARIANTS
    PoolNeverOverrun
    NoItemTwice
    TouchingBoxesMeet
    BuildsTheCells
PROPERTY InsertReturns
