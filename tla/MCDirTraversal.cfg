SPECIFICATION FairSpec
CONSTANTS
    root = root
    d1 = d1
    d2 = d2
    d3 = d3
    f1 = f1
    f2 = f2
    f3 = f3
    f4 = f4
    Dirs = {root, d1, d2, d3}
    Files = {f1, f2, f3, f4}
    Root = root
    Parent <- MCParent
    Under <- MCUnder
    Depth <- MCDepth
CHECK_DEADLOCK FALSE
INVARIANTS
    TypeOK
    BreadthFirst
    CountContained
    ErrorsContained
PROPERTIES
    TraversalSpec
    DoneOnce
