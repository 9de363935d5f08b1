CONSTANTS
    Byte = 5
    CheckGpsErr = 1
    ReportTime = 2
    MaxSpeed = 1
    SpeedDuration = 1
    DriveTime = 2
    DayDriveTime = 3
    RestTime = 1
    ParkTime = 2
    Speeds = {0, 1, 2}
    Texted = {"tired", "gnss", "overtime"}
    Masks <- MCMasks
    Debounce = 2
    StopTime = 3
    Turns = 1
    AD_SAMPLES = 2
    Check = 1
    UartCheck = 2
    Limit = 20
    UartLimit = 2
    Levels = {2, 9}
    Percents = {1, 7}
    Size = 4
    Tables <- MCTables
    Strays = {0, 7}
    Longest = 4
    Unit = 4
    Update = 3
    Frq = 2
    Fastest = 3
    Paces = {1, 2, 4}
    MaxLost = 3
    MaxTotal = 6
    MaxDropped = 11
    MaxCount = 4
SPECIFICATION VSpec
INVARIANTS
  DriveInv
  ReportsGoOn
  InputsInv
  FuelInv
  MilesInv
PROPERTIES
  TiredIsTrue
  OverspeedToldOnce
  TurnsAreEarned
