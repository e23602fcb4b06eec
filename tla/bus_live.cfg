\* The handshake settles, and dead peers are noticed
SPECIFICATION FairSpec
CONSTANTS
    VSAN = {1, 2}
    Generation = {16}
    Domain = {11}
    Boot <- BootMixed
    MaxConn = 2
    MaxAttempts = 2
    MaxOps = 1
    MaxCrashes = 2
PROPERTIES Establishes HalfOpenHeals
CHECK_DEADLOCK FALSE
