\* The boards whose load never uses the single-channel cache.
CONSTANTS
    Boards = {"611x", "6143", "M"}
    Chans = {0, 1}
    CalSources = {0, 1, 9}
    MaxN = 2
SPECIFICATION Spec
INVARIANT TypeOK
PROPERTY AdcInputRefined
