\* AO commands only: a scan_begin_arg that is not a whole number of clock
\* ticks is rejected by step 4 without being corrected.
CONSTANTS
    Board = "E"
    ClockNs = 2
    AiSpeed = 4
    MaxScanTicks = 8
    MaxConvTicks = 4
    MaxCount = 3
    NumAdcStages = 2
    NbChans = {1, 2}
    ScanArgs = {0, 3, 4, 5, 7, 17}
    ConvArgs = {0, 3, 5, 9}
    LineArgs = {0, 17}
    StopArgs = {0, 2, 4}
    Subds = {"AO"}
    AoSpeed = 4
    MaxAoCount = 2
    CdoScanArg = 17
    PwmTimes = {0, 3, 4, 31}
    PwmWidth = 5
    CaldacBoards <- CaldacCombinations
SPECIFICATION Spec
PROPERTY AoCmdtestConverges
CHECK_DEADLOCK FALSE
