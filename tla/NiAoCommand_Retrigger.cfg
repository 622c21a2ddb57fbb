\* The user calls ni_ao_inttrig again after a failed call of the same
\* command.
CONSTANTS
    StopArgs = {2, 3}
    MaxUpdates = 3
    FifoDepth = 4
    BufSize = 3
    NumMite = 1
    MaxTrigPerCmd = 2
    DioChans = {0}
SPECIFICATION Spec
INVARIANT NoBugOn
