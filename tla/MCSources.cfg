SPECIFICATION PartsSpec
CONSTANTS
    Last = 2
    QueueSize = 1
    HeadBudget = 1
    MaxCalls = 3
    MaxCameraCalls = 5
    MaxLosses = 2
INVARIANTS
    ResetIsLast
    PlayingIsAttended
    CameraIsAttended
    StopIsFinal
    ExportIsExact
PROPERTIES
    PassesAreOrderly
CHECK_DEADLOCK FALSE
