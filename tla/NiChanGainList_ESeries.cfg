\* E-series boards: single-descriptor loads go through the cache.
CONSTANTS
    Boards = {"E"}
    Chans = {0, 1}
    CalSources = {0, 1, 9}
    MaxN = 2
SPECIFICATION Spec
PROPERTY AdcInputRefined
