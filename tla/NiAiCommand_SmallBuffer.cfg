\* A Comedi buffer smaller than a whole acquisition and a consumer that may
\* fall behind; checks SamplesAccounted alone.
CONSTANTS
    NbChan = 2
    MaxScans = 2
    FifoDepth = 4
    BufSize = 2
    NumMite = 1
    MaxConversions = 4
SPECIFICATION Spec
INVARIANT SamplesAccounted
