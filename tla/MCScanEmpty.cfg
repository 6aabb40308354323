SPECIFICATION Spec
CONSTANTS
    f1 = f1
    f2 = f2
    f3 = f3
    a = a
    b = b
    NoFile = NoFile
    Files = {f1}
    Names = {a}
    NameOf <- MCNameOf
    Counts = {0, 2}
    MaxNested = 0
INVARIANT TotalFilesPositive
