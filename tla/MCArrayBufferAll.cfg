SPECIFICATION Spec
CONSTANTS
    a = a  b = b  x = x  h = h
    None = None
    Default = h
    Copied <- Same  Moved <- Same  Hollow <- Emptied
    Values = {x, h}
    Buffers = {a, b}
    Calls <- AllCalls
    Throwing = {"push", "make", "push_many", "copy_ctor", "copy_assign",
                "move_ctor", "move_assign", "swap"}
    MaxThrows = 1
INVARIANTS TypeOK WindowIntact
PROPERTIES ImplementsArraySequences
