\* Two channels, up to three scans, a FIFO of four words (half full at two),
\* a buffer large enough for a whole counted acquisition, one MITE channel
\* that the other transfer roles compete for.
CONSTANTS
    NbChan = 2
    MaxScans = 3
    FifoDepth = 4
    BufSize = 6
    NumMite = 1
    MaxConversions = 6
SPECIFICATION Spec
INVARIANT TypeOK
INVARIANT NoOverDelivery
INVARIANT SamplesAccounted
INVARIANT IdleHoldsNoMiteChannel
PROPERTY AllScansDelivered
