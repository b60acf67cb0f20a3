\* Line 69: the log only grows.
SPECIFICATION HSpec
CONSTANTS
    BufSize = 4
    Lengths <- Fitting
    MaxLines = 3
    MaxFaults = 0
PROPERTIES
    LogOnlyGrows

