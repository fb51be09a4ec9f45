SPECIFICATION Spec
CONSTANTS
    p1 = p1  p2 = p2  c1 = c1  c2 = c2
    qa = qa  qb = qb  x = x  y = y
    None = None  Raw = Raw
    Copied <- Twin  Moved <- Same
    Values = {x, y}
    Threads = {p1, p2, c1, c2}
    Queues = {qa, qb}
    Calls <- WholeCalls
    MaxCalls <- WholeMax
    InitCapacity <- Two
    SizeMod = 4
    Throws = TRUE
    MaxSpurious = 0
INVARIANTS TypeOK LockDiscipline PredicateStillHolds RingIntact CopyIsPrefix
    NoDeadlock CallsGoOn
PROPERTIES OnlyInterruptedCopiesLeak ImplementsFifoQueues
