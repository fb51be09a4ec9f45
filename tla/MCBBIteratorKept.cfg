SPECIFICATION ItSpec
CONSTANTS
    a = a  b = b  x = x  y = y  i = i  j = j
    None = None  Raw = Raw
    Copied <- Twin  Moved <- Same
    Values = {x, y}
    Buffers = {a, b}
    Iterators = {i, j}
    Calls <- IteratedCalls
    Jumps <- SmallJumps
    SizeMod = 8
    Throwing = {}
    MaxThrows = 0
    Careful = TRUE
    Leaps = FALSE
INVARIANTS ItTypeOK IteratorsInRange ReadsElements
PROPERTIES StaysOnElement
SYMMETRY Alike
