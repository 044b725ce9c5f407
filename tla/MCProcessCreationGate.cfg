CONSTANTS
    t1 = t1
    t2 = t2
    Threads <- MCThreads
    MaxDepth <- MCMaxDepth
SPECIFICATION Spec
INVARIANTS
    CounterMatchesFrames
PROPERTIES
    DrainCompletes
