SPECIFICATION Spec
CONSTANTS
    None = None
    Raw = Raw
    SizeMod = 1024
    MaxVal = 27
    UnsignedMod = 8
    Slice = 2
    Capacity = 2
    Arguments <- ArgumentLists
INVARIANTS TestsPass
CHECK_DEADLOCK FALSE
