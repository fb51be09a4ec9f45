SPECIFICATION Spec
CONSTANTS
    a = a  b = b  x = x  y = y
    None = None  Raw = Raw
    Copied <- Twin  Moved <- Same
    Values = {x, y}
    Buffers = {a, b}
    Calls <- AllCalls
    SizeMod = 8
    Throwing = {"push", "make", "push_many", "copy_ctor", "copy_assign"}
    MaxThrows = 1
INVARIANTS TypeOK RingIntact
PROPERTIES OnlyCopiesLeak CallsEnd ImplementsBoundedSequences
