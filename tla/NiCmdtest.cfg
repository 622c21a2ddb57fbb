\* E-series board, scaled dividers: the caller loop ends once cmdtest
\* returns 0, so the final state has no successor.
CONSTANTS
    Board = "E"
    ClockNs = 2
    AiSpeed = 4
    MaxScanTicks = 8
    MaxConvTicks = 4
    MaxCount = 3
    NumAdcStages = 2
    NbChans = {1, 2}
    ScanArgs = {0, 3, 4, 5, 7, 17}
    ConvArgs = {0, 3, 5, 9}
    LineArgs = {0, 17}
    StopArgs = {0, 2, 4}
    Subds = {"AI", "AO", "DIO", "PWM", "CALIB"}
    AoSpeed = 4
    MaxAoCount = 2
    CdoScanArg = 17
    PwmTimes = {0, 3, 4, 31}
    PwmWidth = 5
    CaldacBoards <- CaldacCombinations
SPECIFICATION Spec
INVARIANT AcceptsExactlyValid
INVARIANT QuantizeMatchesReference
INVARIANT OutputAcceptsOnlyRunnable
INVARIANT PwmGetReportsProgrammed
INVARIANT CalibReadMatchesDac
PROPERTY CmdtestConverges
PROPERTY PwmConfigConverges
CHECK_DEADLOCK FALSE
