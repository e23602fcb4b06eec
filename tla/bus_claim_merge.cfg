\* README: configure both ports to see them merge
SPECIFICATION FairSpec
CONSTANTS
    VSAN = {1}
    Generation = {16}
    Domain = {11}
    Boot <- BootUnprepared
    MaxConn = 1
    MaxAttempts = 30
    MaxOps = 2
    MaxCrashes = 0
PROPERTIES ConfiguringBothMerges
CHECK_DEADLOCK FALSE
