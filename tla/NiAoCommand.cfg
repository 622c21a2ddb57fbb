\* Counted commands shorter than, at and above half a FIFO; one trigger
\* per command.
CONSTANTS
    StopArgs = {1, 2, 3}
    MaxUpdates = 3
    FifoDepth = 4
    BufSize = 3
    NumMite = 1
    MaxTrigPerCmd = 1
    DioChans = {0}
SPECIFICATION Spec
INVARIANT TypeOK
INVARIANT AoSamplesAccounted
PROPERTY AllUpdatesOrError
INVARIANT NoBugOn
INVARIANT CdoArmedHoldsChannel
PROPERTY CdoErrorReported
