SPECIFICATION FairSpec
CONSTANTS
    t1 = t1
    t2 = t2
    t3 = t3
    p1 = p1
    none = none
    Threads = {t1, t2, t3}
    Pointers = {none, p1}
    Empty = none
INVARIANTS
    TypeOK
    Exclusion
    CountExact
PROPERTIES
    DestroyedUnlocked
    Atomic
    SomeoneGetsThrough
