SPECIFICATION Spec
CONSTANTS
    A = A
    B = B
    Nodes <- MCNodes
    Created <- MCCreated
    Skew <- MCSkew
    MaxSkew = 0
    num_windows = 2
    window_size = 2
    FieldType = "int"
    MaxDelay = 0
    MaxTime = 9
    MaxWrites = 2
INVARIANTS
    TypeOK
    WindowsNewestFirst
    ReadsAreRecent
    SlotsHoldTheirWindow
CHECK_DEADLOCK FALSE
