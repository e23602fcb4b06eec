\* lab 2: an unplugged port is down
SPECIFICATION Spec
CONSTANTS
    VSAN = {1, 2}
    Generation = {16}
    Cli = {cli}
    Instructor = {instructor}
    Bus = {}
    Boot <- BootUp
    Domain = {11}
    MaxCalls = 2
INVARIANTS UnplugWins
CHECK_DEADLOCK FALSE
