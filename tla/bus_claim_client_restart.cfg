\* README: connects automatically once both containers run
SPECIFICATION FairSpec
CONSTANTS
    VSAN = {1, 2}
    Generation = {16}
    Domain = {11}
    Boot <- BootOne
    MaxConn = 2
    MaxAttempts = 30
    MaxOps = 0
    MaxCrashes = 1
PROPERTIES ReconnectsAfterOwnRestart
CHECK_DEADLOCK FALSE
