SPECIFICATION FairSpec
CONSTANTS
    p1 = p1  p2 = p2  c1 = c1  c2 = c2
    qa = qa  qb = qb  x = x  y = y
    None = None  Raw = Raw
    Copied <- Twin  Moved <- Same
    Values = {x, y}
    Threads = {p1, p2, c1, c2}
    Queues = {qa}
    Calls <- PipelineCalls
    MaxCalls <- PipelineMax
    InitCapacity <- One
    SizeMod = 2
    Throws = TRUE
    MaxSpurious = 0
PROPERTIES WaitersServed
