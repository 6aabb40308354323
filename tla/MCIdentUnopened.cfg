SPECIFICATION Spec
CONSTANTS
    Amount = 4
    Magnitudes = {0, 1, 4, 5}
    Level <- MCLevel
    Threshold = 3
    Spectra <- MCSpectra
    Rate = 20
    Interval = 2
    ToRemove = 0
    MaxReceived = 2
    IntLimit = 4
    Sizes = {3}
CHECK_DEADLOCK FALSE
PROPERTIES
    UnopenedUnrecognized
