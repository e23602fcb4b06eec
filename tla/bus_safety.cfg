\* Restarts of either switch, with commands and faults in between
SPECIFICATION Spec
CONSTANTS
    VSAN = {1, 2}
    Generation = {16}
    Domain = {11, 12}
    Boot <- BootPartial
    MaxConn = 2
    MaxAttempts = 2
    MaxOps = 2
    MaxCrashes = 2
INVARIANTS TypeOK Agreement Watched
PROPERTIES ImplementsTrunkAgreement
CHECK_DEADLOCK FALSE
