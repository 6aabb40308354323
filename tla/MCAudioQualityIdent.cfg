SPECIFICATION Spec
CONSTANTS
    Amount = 4
    Magnitudes = {0, 1, 4, 5}
    Level <- MCLevel
    Threshold = 3
    Spectra <- MCSpectra
    Rate = 20
    Interval = 2
    ToRemove = 0
    MaxReceived = 6
    IntLimit = 4
    Sizes <- MCSizes
CHECK_DEADLOCK FALSE
INVARIANTS
    TypeOK
    FrequenciesOwn
    ZeroMeansUnmeasured
    EndExcluded
    RefusedOnlyUnreadable
PROPERTIES
    IdentificationSpec
