SPECIFICATION ESpec
CONSTANTS
    f1 = f1
    f2 = f2
    a = a
    b = b
    NoFile = NoFile
    Files = {f1}
    Names = {a}
    NameOf <- MCNameOf
    Counts = {2}
    MaxNested = 0
INVARIANT WorkerFaultSaves
PROPERTY DamagedNeverSaved
