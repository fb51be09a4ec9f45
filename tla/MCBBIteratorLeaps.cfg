SPECIFICATION ItSpec
CONSTANTS
    a = a  b = b  x = x  y = y  i = i  j = j
    None = None  Raw = Raw
    Copied <- Same  Moved <- Same
    Values = {x}
    Buffers = {a}
    Iterators = {i}
    Calls <- IteratedCalls
    Jumps <- SmallJumps
    SizeMod = 8
    Throwing = {}
    MaxThrows = 0
    Careful = TRUE
    Leaps = TRUE
INVARIANT IteratorsInRange
