SPECIFICATION Spec
CONSTANTS
    Torn = torn
    None = none
    CurveLevels <- MCCurveLevels
    CurveSuccess = 1
    CurveFaults = 1
    DriverLevels <- MCDriverLevels
    DriverSuccess = 3
    DriverFaults = 2
    Archives12 <- MCArchives12
    phase_ts <- MCphase_ts
    Inputs15 <- MCInputs15
    CLIP = 2
    ArmOrder <- MCArms
    Logs17 <- MCLogs17
    Bands <- MCBands
    MaxRecordings = 3
    Archives19 <- MCArchives19
    Files <- MCFiles
    MaxGap = 3
    MaxElapsed = 24
INVARIANTS LoadEndsWithLevel ReportComplete CurvesAligned FiguresOfThisRun
PROPERTIES RowCountsWindow NoJump
CHECK_DEADLOCK FALSE
