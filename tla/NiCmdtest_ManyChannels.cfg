\* More channels than the scan divider holds convert periods (scaled:
\* 3 > MaxScanTicks \div MaxConvTicks; in the STC, nb_chan >= 257).
CONSTANTS
    Board = "E"
    ClockNs = 2
    AiSpeed = 4
    MaxScanTicks = 8
    MaxConvTicks = 4
    MaxCount = 3
    NumAdcStages = 2
    NbChans = {3}
    ScanArgs = {0, 3, 4, 5, 7, 17}
    ConvArgs = {0, 3, 5, 9}
    LineArgs = {0, 17}
    StopArgs = {0, 2, 4}
    Subds = {"AI"}
    AoSpeed = 4
    MaxAoCount = 2
    CdoScanArg = 17
    PwmTimes = {0, 3, 4, 31}
    PwmWidth = 5
    CaldacBoards <- CaldacCombinations
SPECIFICATION Spec
PROPERTY CmdtestConverges
CHECK_DEADLOCK FALSE
