\* Same bounds as NiAiCommand.cfg; checks ErrorShutsDown alone.
CONSTANTS
    NbChan = 2
    MaxScans = 3
    FifoDepth = 4
    BufSize = 6
    NumMite = 1
    MaxConversions = 6
SPECIFICATION Spec
INVARIANT ErrorShutsDown
